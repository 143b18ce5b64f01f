------------------------------- MODULE Users -------------------------------
(***************************************************************************)
(* The accounts of the router: the tables of users and of MAC mappings      *)
(* (src/src/user.c on src/src/table.c), charged for every packet forwarded  *)
(* (win32/main.c) and edited by the web pages (http_endpoints.c).  A row is *)
(* an index into its table, where the code has a pointer; freeing a user    *)
(* moves the last row into its place and the mappings have to follow.       *)
(*                                                                          *)
(* Abstractions.  A MAC address is a member of Macs, and stands for its     *)
(* printed form too: the name a new user gets.  A web request is the MAC    *)
(* address that get_user_by_ip finds for the host it came from; a request   *)
(* whose host is outside the subnet or has no ARP entry changes nothing.    *)
(* used and last_used are history: what each MAC address transferred.       *)
(***************************************************************************)
EXTENDS Integers, Sequences, FiniteSets, Functions

CONSTANTS
    Macs,       \* MAC addresses
    Names,      \* names of users; the printed MAC addresses are among them
    ChosenNames,  \* the names a user may choose on the web page
    Lengths,    \* lengths of packets
    RefMod,     \* references is a u08: 256 in the code
    MaxUsage    \* bound: packets are charged up to this much in a period

ASSUME NamesAssumption   == Macs \subseteq Names /\ ChosenNames \subseteq Names
ASSUME MacsAssumption    == IsFiniteSet(Macs)   \* they have 48 bits
ASSUME LengthsAssumption == Lengths \subseteq Nat /\ MaxUsage \in Nat
ASSUME RefAssumption     == RefMod \in Nat \ {0, 1}

VARIABLES
    users,      \* the rows of the users table that are in use
    mappings,   \* the rows of the mappings table that are in use
    used,       \* history: what a MAC address transferred this period
    last_used   \* history: what it transferred in the period before

tables == <<users, mappings>>
userVars == <<users, mappings, used, last_used>>

User ==
    [name : Names, credit : Nat, last_credit : Nat, references : 0..(RefMod - 1),
     custom : BOOLEAN]

Mapping == [eth_addr : Macs, user : Nat]

----------------------------------------------------------------------------
\* The tables.  A table is a sequence; t is a pair of them.

FirstIn(S) == CHOOSE i \in S : \A j \in S : i <= j

Matching(ms, mac) == {k \in DOMAIN ms : ms[k].eth_addr = mac}

Named(us, name) == {u \in DOMAIN us : us[u].name = name}

NewUser(mac) ==
    [name |-> mac, credit |-> 0, last_credit |-> 0, references |-> 1, custom |-> FALSE]

\* get_user: the tables once mac has a user, which is t.user.
GetUser(mac) ==
    LET known == Matching(mappings, mac)
        new   == Len(users) + 1
    IN  IF known # {}
        THEN [users |-> users, mappings |-> mappings,
              user |-> mappings[FirstIn(known)].user]
        ELSE [users |-> Append(users, NewUser(mac)),
              mappings |-> Append(mappings, [eth_addr |-> mac, user |-> new]),
              user |-> new]

\* remap_user.
Remap(ms, from, to) ==
    [k \in DOMAIN ms |-> IF ms[k].user = from THEN [ms[k] EXCEPT !.user = to] ELSE ms[k]]

\* mutant: the mappings of the row that moved are not remapped
FreeWithoutRemap(us, ms, entry) ==
    [users |-> SubSeq([us EXCEPT ![entry] = us[Len(us)]], 1, Len(us) - 1),
     mappings |-> ms]

\* mutant: the rows behind the freed one are all moved up
FreeByShifting(us, ms, entry) ==
    [users |-> SubSeq(us, 1, entry - 1) \o SubSeq(us, entry + 1, Len(us)),
     mappings |-> Remap(ms, Len(us), entry)]

\* __free_table_entry: the last row takes the place of the freed one.
Free(us, ms, entry) ==
    LET last == Len(us)
    IN  [users |-> SubSeq([us EXCEPT ![entry] = us[last]], 1, last - 1),
         mappings |-> IF last # entry THEN Remap(ms, last, entry) ELSE ms]

\* mutants: usage, or the reference count, of the merged user is forgotten;
\* the reference count is wider than a u08
AbsorbedNothing(to, from) == to

AbsorbedCredit(to, from) ==
    [to EXCEPT !.credit = @ + from.credit, !.last_credit = @ + from.last_credit]

AbsorbedWithoutWrap(to, from) ==
    [to EXCEPT !.credit = @ + from.credit, !.references = @ + from.references,
               !.last_credit = @ + from.last_credit]

Absorbed(to, from) ==
    [to EXCEPT !.credit = @ + from.credit,
               !.references = (@ + from.references) % RefMod,
               !.last_credit = @ + from.last_credit]

\* merge_users of two different users.
MergeUsers(us, ms, from, to) ==
    Free([us EXCEPT ![to] = Absorbed(@, us[from])], Remap(ms, from, to), from)

----------------------------------------------------------------------------
UsersInit ==
    /\ users = <<>> /\ mappings = <<>>
    /\ used = [m \in Macs |-> 0] /\ last_used = [m \in Macs |-> 0]

Total(f) == SumFunctionOnSet(f, Macs)

\* charge_for_packet: the LAN side of a forwarded packet pays for it.
ChargeForPacket(mac, len) ==
    LET t == GetUser(mac)
    IN  /\ Total(used) + len <= MaxUsage
        /\ users' = [t.users EXCEPT ![t.user].credit = @ + len]
        /\ mappings' = t.mappings
        /\ used' = [used EXCEPT ![mac] = @ + len]
        /\ UNCHANGED last_used

\* The pages that only look a user up: "" and query/usage.
LookupUser(mac) ==
    LET t == GetUser(mac)
    IN  /\ users' = t.users /\ mappings' = t.mappings
        /\ UNCHANGED <<used, last_used>>

\* httpapp_set_name.
SetName(mac, name) ==
    LET t == GetUser(mac)
    IN  /\ users' = [t.users EXCEPT ![t.user].name = name, ![t.user].custom = TRUE]
        /\ mappings' = t.mappings
        /\ UNCHANGED <<used, last_used>>

\* httpapp_merge_mac: the user who asks goes into the first one of that name.
MergeMac(mac, name) ==
    LET t == GetUser(mac)
        named == Named(t.users, name)
        merged == MergeUsers(t.users, t.mappings, t.user, FirstIn(named))
        done == IF named = {} \/ FirstIn(named) = t.user THEN t ELSE merged
    IN  /\ users' = done.users /\ mappings' = done.mappings
        /\ UNCHANGED <<used, last_used>>

\* mutant: the credit is not reset
RolledOverOnce(u) == [u EXCEPT !.last_credit = u.credit]

RolledOver(u) == [u EXCEPT !.last_credit = u.credit, !.credit = 0]

\* The part of do_periodic_save that starts a billing period.
StartPeriod ==
    /\ users' = [k \in DOMAIN users |-> RolledOver(users[k])]
    /\ used' = [m \in Macs |-> 0]
    /\ last_used' = used
    /\ UNCHANGED mappings

Request ==
    \E mac \in Macs :
        \/ LookupUser(mac)
        \/ \E name \in ChosenNames : SetName(mac, name)
        \/ \E name \in Names : MergeMac(mac, name)

Packet == \E mac \in Macs, len \in Lengths : ChargeForPacket(mac, len)

UsersNext == Packet \/ Request \/ StartPeriod

UsersSpec == UsersInit /\ [][UsersNext]_userVars

----------------------------------------------------------------------------
\* Properties.

UsersTypeOK ==
    /\ users \in Seq(User)
    /\ mappings \in Seq(Mapping)

\* Every mapping points to a row in use, and no MAC address has two: after a
\* merge no mapping is left on the freed row or on the one that moved
\* (table.c:35-37, user.c:86-91).
MappingsValid ==
    \A k \in DOMAIN mappings :
        /\ mappings[k].user \in DOMAIN users
        /\ \A j \in DOMAIN mappings : mappings[j].eth_addr = mappings[k].eth_addr => j = k

Cards(u) == {k \in DOMAIN mappings : mappings[k].user = u}

\* A user counts its MAC addresses, and has one at least: the bindings page
\* writes before its buffer for a user without (http_endpoints.c:107).
ReferencesCounted ==
    \A u \in DOMAIN users :
        /\ Cards(u) # {}
        /\ users[u].references = Cardinality(Cards(u)) % RefMod

Usage(u, f) ==
    SumFunctionOnSet([k \in DOMAIN mappings |-> f[mappings[k].eth_addr]], Cards(u))

\* A user is charged exactly what its MAC addresses transferred, in this
\* period and in the one before, however users were merged and moved.
UsageConserved ==
    \A u \in DOMAIN users :
        /\ users[u].credit = Usage(u, used)
        /\ users[u].last_credit = Usage(u, last_used)

\* The tables as a set of accounts.
Account(u) ==
    [macs |-> {mappings[k].eth_addr : k \in Cards(u)}, name |-> users[u].name,
     credit |-> users[u].credit, last_credit |-> users[u].last_credit,
     custom |-> users[u].custom]

AsLedger == INSTANCE Ledger WITH accounts <- {Account(u) : u \in DOMAIN users}

\* The tables keep the promise of Ledger: one account per card, nothing lost
\* in a merge (user.c, table.c).
ImplementsLedger == AsLedger!Spec
=============================================================================
