------------------------------ MODULE Accounts ------------------------------
(***************************************************************************)
(* The accounts of the router on a machine that may lose power: Users, the  *)
(* billing period (src/src/billing.c), the save every five minutes that     *)
(* also starts a period, the account file (src/src/user.c) and a restart.   *)
(* The program has one thread, so nothing else happens during a save, but   *)
(* power may fail between any two of its steps.                             *)
(*                                                                          *)
(* Abstractions.  Time counts in units of SAVE_INTERVAL; a day has          *)
(* DayLength units, each month DaysInMonth days.  A file holds the tables   *)
(* and rollover day at the moment it was written; the row indices in it     *)
(* stand for pointers that restore_users patches by the distance between    *)
(* the tables, which one binary keeps.  Torn is a file that is not complete *)
(* (created, or in the middle of a copy).  charged counts all that was ever *)
(* charged; it is history, like used, and lives and dies with the tables.   *)
(***************************************************************************)
EXTENDS Users

CONSTANTS
    DayLength,      \* save intervals in a day (288 in the code)
    DaysInMonth,    \* days of every month
    RolloverDays,   \* days of the month the web page may choose
    MaxTime,        \* bound on the time
    MaxCharged,     \* bound on what is charged in all
    BadTimes,       \* bound: when the temporary file may not be opened
    NoEnd           \* last_period_end before the first periodic save

ASSUME TimeAssumption ==
    /\ DayLength \in Nat \ {0} /\ DaysInMonth \in Nat \ {0}
    /\ RolloverDays \subseteq 1..DaysInMonth /\ 1 \in RolloverDays
    /\ MaxTime \in Nat /\ MaxCharged \in Nat

VARIABLES
    up,             \* the program is running
    now,            \* get_time()
    due,            \* SAVE_INTERVAL has passed since the last periodic save
    rollover_day,   \* billing.c
    last_period_end,\* do_periodic_save; NoEnd until is_billing_inited
    saving,         \* what save_users does next
    temp_file,      \* ../accounts.temp.dat
    accounts_file,  \* ../accounts.dat
    charged,        \* history: all that was charged
    charged_before, \* history: charged when the interval before this one began,
                    \* or the one before the first of the saves that failed
    failed,         \* history: whether the periodic save of this interval failed
    rolled          \* history: the period end usage last rolled over at since
                    \* the program started, and whether it did so twice

files == <<temp_file, accounts_file>>
billing == <<rollover_day, last_period_end>>
history == <<charged_before, failed, rolled>>
accountVars ==
    <<userVars, up, now, due, billing, saving, files, charged, history>>

----------------------------------------------------------------------------
\* billing.c.

MonthLength == DaysInMonth * DayLength
DayOfMonth(t) == (t % MonthLength) \div DayLength + 1
Midnight(month, day) == month * MonthLength + (day - 1) * DayLength

\* get_end_of_period: midnight of the rollover day, of this month up to and
\* on that day, of the next month after it.
EndOfPeriod(t, day) ==
    LET month == t \div MonthLength
    IN  Midnight(IF DayOfMonth(t) > day THEN month + 1 ELSE month, day)

----------------------------------------------------------------------------
\* No file, and one that is not complete.
NoFile == [file |-> "none"]
Torn   == [file |-> "torn"]

\* mutant: the mappings are not saved
TablesWithoutMappings ==
    [users |-> users, mappings |-> <<>>, rollover_day |-> rollover_day,
     used |-> used, last_used |-> last_used, charged |-> charged]

\* The tables in memory, as save_users writes and restore_users reads them.
Tables ==
    [users |-> users, mappings |-> mappings, rollover_day |-> rollover_day,
     used |-> used, last_used |-> last_used, charged |-> charged]

EmptyTables ==
    [users |-> <<>>, mappings |-> <<>>, rollover_day |-> 1,
     used |-> [m \in Macs |-> 0], last_used |-> [m \in Macs |-> 0], charged |-> 0]

Idle == up /\ saving = "nothing"

AccountsInit ==
    /\ UsersInit
    /\ up = TRUE /\ now = 0 /\ due \in BOOLEAN
    /\ rollover_day = 1 /\ last_period_end = NoEnd
    /\ saving = "nothing" /\ temp_file = NoFile /\ accounts_file = NoFile
    /\ charged = 0 /\ charged_before = <<0, 0>> /\ failed = FALSE
    /\ rolled = [end |-> NoEnd, again |-> FALSE]

\* A packet or a web request.
Serve ==
    /\ Idle
    /\ \/ \E mac \in Macs, len \in Lengths :
            /\ charged + len <= MaxCharged
            /\ ChargeForPacket(mac, len)
            /\ charged' = charged + len
       \/ Request /\ UNCHANGED charged
    /\ UNCHANGED <<up, now, due, billing, saving, files, history>>

\* httpapp_set_billing_period.
SetBillingPeriod(day) ==
    /\ Idle
    /\ rollover_day' = day
    /\ UNCHANGED <<userVars, up, now, due, last_period_end, saving, files, charged, history>>

\* The start of save_users, which opens, and so truncates, the temporary file.
OpenTemp == saving' = "write" /\ temp_file' = Torn

\* httpapp_force_commit, unless the file cannot be opened: nothing happens then.
ForceCommit ==
    /\ Idle /\ OpenTemp
    /\ UNCHANGED <<userVars, up, now, due, billing, accounts_file, charged, history>>

\* mutant: usage is saved only at the end of a period
SavesWhenRolling(rolls) == rolls

\* Whether do_periodic_save saves, given whether a period ended.
Saves(rolls) == TRUE

\* do_periodic_save, up to its call of save_users.
DoPeriodicSave ==
    LET end   == EndOfPeriod(now, rollover_day)
        last  == IF last_period_end = NoEnd THEN end ELSE last_period_end
        rolls == now > last
    IN  /\ Idle /\ due
        /\ IF rolls
           THEN StartPeriod /\ rolled' = [end |-> last, again |-> rolled.end = last]
           ELSE UNCHANGED <<userVars, rolled>>
        /\ last_period_end' = IF rolls THEN end ELSE last
        /\ due' = FALSE
        /\ \/ Saves(rolls) /\ OpenTemp /\ failed' = FALSE
           \/ ~Saves(rolls) /\ UNCHANGED <<saving, temp_file, failed>>
           \/ now \in BadTimes /\ failed' = TRUE /\ UNCHANGED <<saving, temp_file>>
        /\ UNCHANGED <<up, now, rollover_day, accounts_file, charged, charged_before>>

\* save_users, step by step: fwrite and fclose,
WriteTemp ==
    /\ up /\ saving = "write"
    /\ temp_file' = Tables /\ saving' = "copy"
    /\ UNCHANGED <<userVars, up, now, due, billing, accounts_file, charged, history>>

\* the beginning and the end of CopyFileA,
BeginCopy ==
    /\ up /\ saving = "copy"
    /\ accounts_file' = Torn /\ saving' = "end copy"
    /\ UNCHANGED <<userVars, up, now, due, billing, temp_file, charged, history>>

EndCopy ==
    /\ up /\ saving = "end copy"
    /\ accounts_file' = temp_file /\ saving' = "delete"
    /\ UNCHANGED <<userVars, up, now, due, billing, temp_file, charged, history>>

\* and DeleteFileA.
DeleteTemp ==
    /\ up /\ saving = "delete"
    /\ temp_file' = NoFile /\ saving' = "nothing"
    /\ UNCHANGED <<userVars, up, now, due, billing, accounts_file, charged, history>>

SaveStep == WriteTemp \/ BeginCopy \/ EndCopy \/ DeleteTemp

\* The main loop runs many times in an interval, so a save that is due is
\* over before the next one is.
Tick ==
    /\ now < MaxTime
    /\ up => saving = "nothing" /\ ~due
    /\ now' = now + 1
    /\ due' = up
    /\ charged_before' = IF up /\ ~failed THEN <<charged_before[2], charged>> ELSE charged_before
    /\ UNCHANGED <<userVars, up, billing, saving, files, charged, failed, rolled>>

\* Power fails: whatever is only in memory is lost.
PowerFails ==
    /\ up
    /\ up' = FALSE /\ due' = FALSE /\ saving' = "nothing" /\ last_period_end' = NoEnd
    /\ failed' = FALSE
    /\ users' = EmptyTables.users /\ mappings' = EmptyTables.mappings
    /\ used' = EmptyTables.used /\ last_used' = EmptyTables.last_used
    /\ rollover_day' = EmptyTables.rollover_day /\ charged' = 0
    /\ rolled' = [end |-> NoEnd, again |-> FALSE]
    /\ UNCHANGED <<now, files, charged_before>>

\* main, up to restore_users, which believes whatever it reads: what follows
\* from a torn account file is not modelled.
\* The ticks of the machine have run since it was started, not the program:
\* a save may be due at once.
Restart ==
    /\ ~up /\ accounts_file # Torn
    /\ LET t == IF accounts_file = NoFile THEN EmptyTables ELSE accounts_file
       IN  /\ users' = t.users /\ mappings' = t.mappings
           /\ used' = t.used /\ last_used' = t.last_used
           /\ rollover_day' = t.rollover_day /\ charged' = t.charged
           /\ charged_before' = <<t.charged, t.charged>>
    /\ up' = TRUE /\ due' \in BOOLEAN
    /\ UNCHANGED <<now, last_period_end, saving, files, failed, rolled>>

AccountsNext ==
    \/ Serve
    \/ \E day \in RolloverDays : SetBillingPeriod(day)
    \/ ForceCommit
    \/ DoPeriodicSave
    \/ SaveStep
    \/ Tick
    \/ PowerFails
    \/ Restart

AccountsSpec == AccountsInit /\ [][AccountsNext]_accountVars

----------------------------------------------------------------------------
\* Properties.

\* A restart finds all that was charged up to the last interval but one: power
\* failures cost at most what two intervals charged (user.c:188-219), and those
\* whose saves failed, which the next save makes up for (user.c:136).
LossBounded == [][~up /\ up' => charged' >= charged_before[1]]_accountVars

\* src/content/list.htm:88 speaks of "the day of the month when the billing
\* period ends": the running program starts one period at each end of one.
RollsOncePerPeriod == ~rolled.again
=============================================================================
