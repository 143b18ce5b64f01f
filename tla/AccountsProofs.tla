--------------------------- MODULE AccountsProofs ---------------------------
(***************************************************************************)
(* Theorems about the accounts of a router that may lose power, for every   *)
(* length of the days and months, every choice of rollover days and every   *)
(* moment of the failures: what is in the account file is as sound as what  *)
(* is in memory, and a restart loses what two intervals charged at most.    *)
(***************************************************************************)
EXTENDS Accounts, UsersProofs

----------------------------------------------------------------------------
\* The inductive invariant.

\* The tables t are those of a router at work.
TablesSound(t) ==
    /\ Sound(t.users, t.mappings, Rows(t.users), t.used, t.last_used)
    /\ Unknown(t.mappings, t.used) /\ Unknown(t.mappings, t.last_used)

Kept(file) == IF file = NoFile THEN EmptyTables ELSE file

\* A file is not complete, or it would restore sound tables.
FileSound(file) == file = Torn \/ TablesSound(Kept(file))

SoundInv == UsersInv /\ FileSound(temp_file) /\ FileSound(accounts_file)

\* The file holds all that was charged up to n.
Holds(file, n) == file # Torn /\ Kept(file).charged \in Nat /\ Kept(file).charged >= n

\* How far a save of the interval has come, and what the file holds then: what
\* was charged before the interval, from the end of the copy on; before that it
\* holds what was charged before the interval before.
LossInv ==
    /\ charged_before \in Nat \X Nat /\ charged_before[1] <= charged_before[2]
    /\ charged \in Nat
    /\ saving \in {"nothing", "write", "copy", "end copy", "delete"}
    /\ accounts_file = Torn \/ Holds(accounts_file, charged_before[1])
    /\ ~up => saving = "nothing" /\ ~failed
    /\ up => charged_before[2] <= charged
    /\ up /\ saving # "end copy" => accounts_file # Torn
    /\ saving \in {"copy", "end copy"} => Holds(temp_file, charged_before[2])
    /\ saving = "delete" => Holds(accounts_file, charged_before[2])
    /\ up /\ saving = "nothing" /\ ~due /\ ~failed => Holds(accounts_file, charged_before[2])

----------------------------------------------------------------------------
\* Files.

LEMMA FilesDiffer ==
    /\ NoFile # Torn
    /\ Tables # Torn /\ Tables # NoFile
    /\ EmptyTables # Torn
<1>1. NoFile.file # Torn.file
  BY DEF NoFile, Torn
<1>2. DOMAIN Torn = {"file"} /\ DOMAIN NoFile = {"file"}
  BY DEF NoFile, Torn
<1>3. "users" \in DOMAIN Tables /\ "users" \in DOMAIN EmptyTables
  BY DEF Tables, EmptyTables
<1> QED BY <1>1, <1>2, <1>3

LEMMA EmptyTablesSound == TablesSound(EmptyTables)
<1> DEFINE z == [m \in Macs |-> 0]
<1>1. /\ <<>> \in Seq(User) /\ <<>> \in Seq(Mapping) /\ Rows(<<>>) = {} /\ Len(<<>>) = 0
  BY EmptySeq DEF Rows
<1>2. Sound(<<>>, <<>>, Rows(<<>>), z, z)
  BY <1>1 DEF Sound, Tabled
<1>3. Unknown(<<>>, z)
  BY DEF Unknown
<1>4. /\ EmptyTables.users = <<>> /\ EmptyTables.mappings = <<>>
      /\ EmptyTables.used = z /\ EmptyTables.last_used = z
  BY DEF EmptyTables
<1> QED BY <1>2, <1>3, <1>4 DEF TablesSound

LEMMA TablesAre ==
    /\ Tables.users = users /\ Tables.mappings = mappings
    /\ Tables.used = used /\ Tables.last_used = last_used /\ Tables.charged = charged
BY DEF Tables

\* What is restored is sound if the tables it comes from are.
LEMMA LoadedSound ==
    ASSUME NEW t, TablesSound(t), users' = t.users, mappings' = t.mappings,
           used' = t.used, last_used' = t.last_used
    PROVE  UsersInv'
BY DEF TablesSound, UsersInv, Rows

LEMMA SameUsers == ASSUME UsersInv, UNCHANGED userVars PROVE UsersInv'
BY UsersStepSound

----------------------------------------------------------------------------
\* What a router at work believes and what the files say is sound.

LEMMA SoundInit == AccountsInit => SoundInv
<1> SUFFICES ASSUME AccountsInit PROVE SoundInv
  OBVIOUS
<1>1. UsersInv
  BY InitSound DEF AccountsInit
<1>2. temp_file = NoFile /\ accounts_file = NoFile
  BY DEF AccountsInit
<1>3. FileSound(NoFile)
  BY EmptyTablesSound DEF FileSound, Kept
<1> QED BY <1>1, <1>2, <1>3 DEF SoundInv

LEMMA SoundStep == ASSUME SoundInv, [AccountsNext]_accountVars PROVE SoundInv'
<1>1. UsersInv /\ FileSound(temp_file) /\ FileSound(accounts_file)
  BY DEF SoundInv
<1>2. CASE Serve
  <2>1. temp_file' = temp_file /\ accounts_file' = accounts_file
    BY <1>2 DEF Serve, files
  <2>2. CASE \E mac \in Macs, len \in Lengths : ChargeForPacket(mac, len)
    <3>1. UsersInv'
      BY <1>1, <2>2, UsersStepSound DEF UsersNext, Packet
    <3> QED BY <1>1, <2>1, <3>1 DEF SoundInv
  <2>3. CASE Request
    <3>1. UsersInv'
      BY <1>1, <2>3, UsersStepSound DEF UsersNext
    <3> QED BY <1>1, <2>1, <3>1 DEF SoundInv
  <2> QED BY <1>2, <2>2, <2>3 DEF Serve
<1>3. CASE \E day \in RolloverDays : SetBillingPeriod(day)
  <2>1. UNCHANGED userVars /\ temp_file' = temp_file /\ accounts_file' = accounts_file
    BY <1>3 DEF SetBillingPeriod, files
  <2> QED BY <1>1, <2>1, SameUsers DEF SoundInv
<1>4. CASE ForceCommit
  <2>1. UNCHANGED userVars /\ temp_file' = Torn /\ accounts_file' = accounts_file
    BY <1>4 DEF ForceCommit, OpenTemp
  <2>2. FileSound(temp_file')
    BY <2>1 DEF FileSound
  <2> QED BY <1>1, <2>1, <2>2, SameUsers DEF SoundInv
<1>5. CASE DoPeriodicSave
  <2>1. accounts_file' = accounts_file /\ (temp_file' = Torn \/ temp_file' = temp_file)
    BY <1>5 DEF DoPeriodicSave, OpenTemp
  <2>2. StartPeriod \/ UNCHANGED userVars
    BY <1>5 DEF DoPeriodicSave
  <2>3. UsersInv'
    BY <1>1, <2>2, PeriodSound, SameUsers
  <2>4. FileSound(temp_file')
    BY <1>1, <2>1 DEF FileSound
  <2> QED BY <1>1, <2>1, <2>3, <2>4 DEF SoundInv
<1>6. CASE WriteTemp
  <2>1. UNCHANGED userVars /\ temp_file' = Tables /\ accounts_file' = accounts_file
    BY <1>6 DEF WriteTemp
  <2>2. TablesSound(Tables)
    BY <1>1, TablesAre DEF UsersInv, TablesSound
  <2>3. FileSound(temp_file')
    BY <2>1, <2>2, FilesDiffer DEF FileSound, Kept
  <2> QED BY <1>1, <2>1, <2>3, SameUsers DEF SoundInv
<1>7. CASE BeginCopy
  <2>1. UNCHANGED userVars /\ temp_file' = temp_file /\ accounts_file' = Torn
    BY <1>7 DEF BeginCopy
  <2>2. FileSound(accounts_file')
    BY <2>1 DEF FileSound
  <2> QED BY <1>1, <2>1, <2>2, SameUsers DEF SoundInv
<1>8. CASE EndCopy
  <2>1. UNCHANGED userVars /\ temp_file' = temp_file /\ accounts_file' = temp_file
    BY <1>8 DEF EndCopy
  <2> QED BY <1>1, <2>1, SameUsers DEF SoundInv
<1>9. CASE DeleteTemp
  <2>1. UNCHANGED userVars /\ temp_file' = NoFile /\ accounts_file' = accounts_file
    BY <1>9 DEF DeleteTemp
  <2>2. FileSound(temp_file')
    BY <2>1, EmptyTablesSound DEF FileSound, Kept
  <2> QED BY <1>1, <2>1, <2>2, SameUsers DEF SoundInv
<1>10. CASE Tick
  <2>1. UNCHANGED userVars /\ temp_file' = temp_file /\ accounts_file' = accounts_file
    BY <1>10 DEF Tick, files
  <2> QED BY <1>1, <2>1, SameUsers DEF SoundInv
<1>11. CASE PowerFails
  <2>1. /\ users' = EmptyTables.users /\ mappings' = EmptyTables.mappings
        /\ used' = EmptyTables.used /\ last_used' = EmptyTables.last_used
        /\ temp_file' = temp_file /\ accounts_file' = accounts_file
    BY <1>11 DEF PowerFails, files
  <2>2. UsersInv'
    BY <2>1, EmptyTablesSound, LoadedSound
  <2> QED BY <1>1, <2>1, <2>2 DEF SoundInv
<1>12. CASE Restart
  <2> DEFINE t == Kept(accounts_file)
  <2>1. /\ users' = t.users /\ mappings' = t.mappings
        /\ used' = t.used /\ last_used' = t.last_used
        /\ temp_file' = temp_file /\ accounts_file' = accounts_file
    BY <1>12 DEF Restart, files, Kept
  <2>2. TablesSound(t)
    BY <1>1, <1>12 DEF Restart, FileSound
  <2> HIDE DEF t
  <2>3. UsersInv'
    BY <2>1, <2>2, LoadedSound
  <2> QED BY <1>1, <2>1, <2>3 DEF SoundInv
<1>13. CASE UNCHANGED accountVars
  <2>1. UNCHANGED userVars /\ temp_file' = temp_file /\ accounts_file' = accounts_file
    BY <1>13 DEF accountVars, files
  <2> QED BY <1>1, <2>1, SameUsers DEF SoundInv
<1> QED
  BY <1>2, <1>3, <1>4, <1>5, <1>6, <1>7, <1>8, <1>9, <1>10, <1>11, <1>12, <1>13
     DEF AccountsNext, SaveStep

LEMMA SoundInvariant == AccountsSpec => []SoundInv
BY SoundInit, SoundStep, PTL DEF AccountsSpec

\* References stay counted over power failures and restarts: what is saved and
\* restored at any moment is as right as the tables in memory (user.c:113-184).
THEOREM RestoredReferencesCounted == AccountsSpec => []ReferencesCounted
<1>1. SoundInv => ReferencesCounted
  BY InvariantMeans DEF SoundInv
<1> QED BY <1>1, SoundInvariant, PTL

\* So does the usage of every user, over billing periods too.
THEOREM RestoredUsageConserved == AccountsSpec => []UsageConserved
<1>1. SoundInv => UsageConserved
  BY InvariantMeans DEF SoundInv
<1> QED BY <1>1, SoundInvariant, PTL

----------------------------------------------------------------------------
\* How much a restart loses.

LEMMA HoldsTables ==
    ASSUME charged \in Nat, NEW n \in Nat, n <= charged
    PROVE  Holds(Tables, n)
BY FilesDiffer, TablesAre DEF Holds, Kept

LEMMA HoldsNothing == Holds(NoFile, 0)
<1>1. EmptyTables.charged = 0
  BY DEF EmptyTables
<1> QED BY <1>1, FilesDiffer DEF Holds, Kept

LEMMA HoldsLess ==
    ASSUME NEW file, NEW n \in Nat, NEW k \in Nat, k <= n, Holds(file, n)
    PROVE  Holds(file, k)
BY DEF Holds

LEMMA NatAbove ==
    ASSUME NEW a \in Nat, NEW b, b = a \/ (b \in Nat /\ b >= a)
    PROVE  b \in Nat /\ b >= a /\ \A n \in Nat : n <= a => n <= b
OBVIOUS

LEMMA LossInit == AccountsInit => LossInv
<1> SUFFICES ASSUME AccountsInit PROVE LossInv
  OBVIOUS
<1>1. /\ up /\ saving = "nothing" /\ accounts_file = NoFile /\ charged = 0 /\ ~failed
      /\ charged_before = <<0, 0>>
  BY DEF AccountsInit
<1>2. charged_before[1] = 0 /\ charged_before[2] = 0 /\ charged_before \in Nat \X Nat
  BY <1>1
<1> QED BY <1>1, <1>2, HoldsNothing, FilesDiffer DEF LossInv

\* The parts of LossInv, for a step that leaves the history of charges alone.
LEMMA LossKept ==
    ASSUME LossInv, charged_before' = charged_before,
           charged' = charged \/ (charged' \in Nat /\ charged' >= charged),
           up' = up, failed' = failed \/ up,
           saving' \in {"nothing", "write", "copy", "end copy", "delete"},
           saving' = "nothing" \/ up,
           accounts_file' = Torn \/ Holds(accounts_file', charged_before[1]),
           up /\ saving' # "end copy" => accounts_file' # Torn,
           saving' \in {"copy", "end copy"} => Holds(temp_file', charged_before[2]),
           saving' = "delete" => Holds(accounts_file', charged_before[2]),
           up /\ saving' = "nothing" /\ ~due' /\ ~failed' =>
                Holds(accounts_file', charged_before[2])
    PROVE  LossInv'
<1>1. /\ charged_before \in Nat \X Nat /\ charged \in Nat
      /\ charged_before[1] <= charged_before[2]
      /\ ~up => saving = "nothing" /\ ~failed
      /\ up => charged_before[2] <= charged
  BY DEF LossInv
<1>2. /\ charged_before[2] \in Nat /\ charged' \in Nat
      /\ \A n \in Nat : n <= charged => n <= charged'
  <2>1. charged_before[2] \in Nat /\ charged \in Nat
    BY <1>1
  <2> QED BY <2>1, NatAbove
<1>3. ASSUME up' PROVE charged_before[2] <= charged'
  <2>1. up
    BY <1>3
  <2>2. charged_before[2] <= charged
    BY <1>1, <2>1
  <2> QED BY <1>1, <1>2, <2>2
<1>4. ~up' => saving' = "nothing" /\ ~failed'
  BY <1>1
<1>5. charged_before' = charged_before
  OBVIOUS
<1>6. /\ accounts_file' = Torn \/ Holds(accounts_file, charged_before[1])'
      /\ up' /\ saving' # "end copy" => accounts_file' # Torn
      /\ saving' \in {"copy", "end copy"} => Holds(temp_file, charged_before[2])'
      /\ saving' = "delete" => Holds(accounts_file, charged_before[2])'
      /\ up' /\ saving' = "nothing" /\ ~due' /\ ~failed' => Holds(accounts_file, charged_before[2])'
  BY <1>5 DEF Holds, Kept
<1> QED BY <1>1, <1>2, <1>3, <1>4, <1>5, <1>6 DEF LossInv

LEMMA LossStep == ASSUME LossInv, [AccountsNext]_accountVars PROVE LossInv'
<1>1. /\ charged_before \in Nat \X Nat /\ charged \in Nat
      /\ charged_before[1] <= charged_before[2]
      /\ saving \in {"nothing", "write", "copy", "end copy", "delete"}
      /\ accounts_file = Torn \/ Holds(accounts_file, charged_before[1])
  BY DEF LossInv
<1>2. charged_before[1] \in Nat /\ charged_before[2] \in Nat
  BY <1>1
<1>3. /\ ~up => saving = "nothing" /\ ~failed
      /\ up => charged_before[2] <= charged
      /\ up /\ saving # "end copy" => accounts_file # Torn
      /\ saving \in {"copy", "end copy"} => Holds(temp_file, charged_before[2])
      /\ saving = "delete" => Holds(accounts_file, charged_before[2])
      /\ up /\ saving = "nothing" /\ ~due /\ ~failed => Holds(accounts_file, charged_before[2])
  BY DEF LossInv
<1>4. ASSUME NEW file, Holds(file, charged_before[2]) PROVE Holds(file, charged_before[1])
  BY <1>1, <1>2, <1>4, HoldsLess
<1>5. CASE Serve
  <2>1. /\ up /\ up' = up /\ saving = "nothing" /\ saving' = saving /\ due' = due
        /\ failed' = failed /\ charged_before' = charged_before
        /\ temp_file' = temp_file /\ accounts_file' = accounts_file
    BY <1>5 DEF Serve, Idle, files, history
  <2>2. charged' \in Nat /\ charged' >= charged
    <3>1. charged' = charged \/ \E len \in Lengths : charged' = charged + len
      BY <1>5 DEF Serve
    <3>2. \A len \in Lengths : len \in Nat
      BY LengthsAssumption
    <3>3. \A len \in Nat : charged + len \in Nat /\ charged + len >= charged
      <4>1. charged \in Nat
        BY <1>1
      <4> QED BY <4>1
    <3>4. charged \in Nat /\ charged >= charged
      <4>1. charged \in Nat
        BY <1>1
      <4> QED BY <4>1
    <3> QED BY <3>1, <3>2, <3>3, <3>4
  <2> QED BY <1>1, <1>3, <2>1, <2>2, LossKept
<1>6. CASE \E day \in RolloverDays : SetBillingPeriod(day)
  <2>1. /\ up /\ up' = up /\ saving = "nothing" /\ saving' = saving /\ due' = due
        /\ failed' = failed /\ charged_before' = charged_before /\ charged' = charged
        /\ temp_file' = temp_file /\ accounts_file' = accounts_file
    BY <1>6 DEF SetBillingPeriod, Idle, files, history
  <2> QED BY <1>1, <1>3, <2>1, LossKept
<1>7. CASE ForceCommit
  <2>1. /\ up /\ up' = up /\ saving = "nothing" /\ saving' = "write" /\ due' = due
        /\ failed' = failed /\ charged_before' = charged_before /\ charged' = charged
        /\ accounts_file' = accounts_file
    BY <1>7 DEF ForceCommit, OpenTemp, Idle, history
  <2> QED BY <1>1, <1>3, <2>1, LossKept
<1>8. CASE DoPeriodicSave
  <2>1. /\ up /\ up' = up /\ saving = "nothing" /\ charged_before' = charged_before
        /\ charged' = charged /\ accounts_file' = accounts_file
    BY <1>8 DEF DoPeriodicSave, Idle
  <2>2. \/ saving' = "write" /\ failed' = FALSE
        \/ saving' = saving /\ failed' = TRUE
    BY <1>8 DEF DoPeriodicSave, OpenTemp, Saves
  <2> QED BY <1>1, <1>3, <2>1, <2>2, LossKept
<1>9. CASE SaveStep
  <2>1. /\ up /\ up' = up /\ due' = due /\ failed' = failed
        /\ charged_before' = charged_before /\ charged' = charged
    BY <1>9 DEF SaveStep, WriteTemp, BeginCopy, EndCopy, DeleteTemp, history
  <2>3. CASE WriteTemp
    <3>1. /\ saving = "write" /\ saving' = "copy" /\ temp_file' = Tables
          /\ accounts_file' = accounts_file
      BY <2>3 DEF WriteTemp
    <3>2. Holds(temp_file', charged_before[2])
      BY <1>1, <1>2, <1>3, <2>1, <3>1, HoldsTables
    <3> QED BY <1>1, <1>3, <2>1, <3>1, <3>2, LossKept
  <2>4. CASE BeginCopy
    <3>1. /\ saving = "copy" /\ saving' = "end copy" /\ temp_file' = temp_file
          /\ accounts_file' = Torn
      BY <2>4 DEF BeginCopy
    <3> QED BY <1>1, <1>3, <2>1, <3>1, LossKept
  <2>5. CASE EndCopy
    <3>1. /\ saving = "end copy" /\ saving' = "delete" /\ accounts_file' = temp_file
      BY <2>5 DEF EndCopy
    <3>2. Holds(accounts_file', charged_before[2])
      BY <1>3, <3>1
    <3>3. Holds(accounts_file', charged_before[1]) /\ accounts_file' # Torn
      BY <1>4, <3>2 DEF Holds
    <3> QED BY <1>1, <1>3, <2>1, <3>1, <3>2, <3>3, LossKept
  <2>6. CASE DeleteTemp
    <3>1. /\ saving = "delete" /\ saving' = "nothing" /\ accounts_file' = accounts_file
      BY <2>6 DEF DeleteTemp
    <3> QED BY <1>1, <1>3, <2>1, <3>1, LossKept
  <2> QED BY <1>9, <2>3, <2>4, <2>5, <2>6 DEF SaveStep
<1>10. CASE Tick
  <2>1. /\ up' = up /\ due' = up /\ saving' = saving /\ failed' = failed /\ charged' = charged
        /\ temp_file' = temp_file /\ accounts_file' = accounts_file
        /\ up => saving = "nothing" /\ ~due
        /\ charged_before' =
                IF up /\ ~failed THEN <<charged_before[2], charged>> ELSE charged_before
    BY <1>10 DEF Tick, files
  <2>2. CASE up /\ ~failed
    <3>1. charged_before' = <<charged_before[2], charged>>
      BY <2>1, <2>2
    <3>2. /\ charged_before' \in Nat \X Nat
          /\ charged_before'[1] = charged_before[2] /\ charged_before'[2] = charged
      BY <1>1, <1>2, <3>1
    <3>3. /\ saving = "nothing" /\ accounts_file # Torn /\ charged_before[2] <= charged
          /\ Holds(accounts_file, charged_before[2])
      BY <1>3, <2>1, <2>2
    <3>4. Holds(accounts_file', charged_before'[1])
      BY <2>1, <3>2, <3>3
    <3>5. charged_before'[2] <= charged'
      <4>1. charged \in Nat /\ charged_before'[2] = charged /\ charged' = charged
        BY <1>1, <2>1, <3>2
      <4> QED BY <4>1
    <3> QED BY <1>1, <1>2, <2>1, <2>2, <3>2, <3>3, <3>4, <3>5 DEF LossInv, Holds
  <2>3. CASE ~(up /\ ~failed)
    <3>1. charged_before' = charged_before
      BY <2>1, <2>3
    <3> QED BY <1>1, <1>3, <2>1, <2>3, <3>1, LossKept
  <2> QED BY <2>2, <2>3
<1>11. CASE PowerFails
  <2>1. /\ ~up' /\ saving' = "nothing" /\ ~failed' /\ charged' = 0
        /\ accounts_file' = accounts_file /\ charged_before' = charged_before
    BY <1>11 DEF PowerFails, files
  <2>2. accounts_file' = Torn \/ Holds(accounts_file', charged_before'[1])
    BY <1>1, <2>1
  <2> QED BY <1>1, <2>1, <2>2 DEF LossInv, Holds
<1>12. CASE Restart
  <2> DEFINE c == Kept(accounts_file).charged
  <2>1. /\ ~up /\ accounts_file # Torn /\ up' /\ saving' = saving /\ failed' = failed
        /\ accounts_file' = accounts_file /\ charged' = c /\ charged_before' = <<c, c>>
    BY <1>12 DEF Restart, Kept, files
  <2>2. c \in Nat /\ Holds(accounts_file, c)
    <3>1. Holds(accounts_file, charged_before[1])
      BY <1>1, <2>1
    <3>2. c \in Nat /\ accounts_file # Torn
      BY <3>1 DEF Holds
    <3> QED BY <3>2 DEF Holds
  <2> HIDE DEF c
  <2>3. charged_before'[1] = c /\ charged_before'[2] = c /\ charged_before' \in Nat \X Nat
    BY <2>1, <2>2
  <2>4. Holds(accounts_file', charged_before'[1]) /\ Holds(accounts_file', charged_before'[2])
    BY <2>1, <2>2, <2>3
  <2>5. charged_before'[1] <= charged_before'[2] /\ charged_before'[2] <= charged'
    BY <2>1, <2>2, <2>3
  <2>6. saving' = "nothing" /\ ~failed'
    BY <1>3, <2>1
  <2> QED BY <2>1, <2>2, <2>3, <2>4, <2>5, <2>6 DEF LossInv, Holds
<1>13. CASE UNCHANGED accountVars
  <2>1. /\ up' = up /\ due' = due /\ saving' = saving /\ failed' = failed /\ charged' = charged
        /\ temp_file' = temp_file /\ accounts_file' = accounts_file
        /\ charged_before' = charged_before
    BY <1>13 DEF accountVars, files, history
  <2> QED BY <1>1, <1>3, <2>1, LossKept
<1> QED
  BY <1>5, <1>6, <1>7, <1>8, <1>9, <1>10, <1>11, <1>12, <1>13 DEF AccountsNext

\* A restart finds all that was charged before the last interval but one, and
\* intervals whose save failed count as one with the next (user.c:188-219).
THEOREM RestartsLoseLittle == AccountsSpec => LossBounded
<1>1. AccountsSpec => []LossInv
  BY LossInit, LossStep, PTL DEF AccountsSpec
<1>2. ASSUME LossInv, [AccountsNext]_accountVars
      PROVE  [~up /\ up' => charged' >= charged_before[1]]_accountVars
  <2>1. SUFFICES ASSUME ~up, up' PROVE charged' >= charged_before[1]
    OBVIOUS
  <2>2. Restart
    BY <1>2, <2>1
       DEF AccountsNext, Serve, Idle, SetBillingPeriod, ForceCommit, DoPeriodicSave, SaveStep,
           WriteTemp, BeginCopy, EndCopy, DeleteTemp, Tick, PowerFails, accountVars
  <2>3. accounts_file # Torn /\ charged' = Kept(accounts_file).charged
    BY <2>2 DEF Restart, Kept
  <2>4. Holds(accounts_file, charged_before[1])
    BY <1>2, <2>3 DEF LossInv
  <2> QED BY <2>3, <2>4 DEF Holds
<1> QED BY <1>1, <1>2, PTL DEF AccountsSpec, LossBounded
=============================================================================
