------------------------------- MODULE Ledger -------------------------------
(***************************************************************************)
(* What the accounts of the router promise, without tables, rows or         *)
(* pointers: every network card that was ever seen belongs to exactly one   *)
(* account, an account is charged what its cards transfer, and merging two  *)
(* accounts loses neither cards nor usage.  Users implements this module.   *)
(***************************************************************************)
EXTENDS Naturals

CONSTANTS Macs, Names, Lengths

VARIABLE accounts   \* the set of accounts

NewAccount(mac) ==
    [macs |-> {mac}, name |-> mac, credit |-> 0, last_credit |-> 0, custom |-> FALSE]

Knows(mac) == \E a \in accounts : mac \in a.macs

\* The accounts once mac has one, and the account of mac among them.
With(mac) == IF Knows(mac) THEN accounts ELSE accounts \cup {NewAccount(mac)}
AccountOf(mac) == CHOOSE a \in With(mac) : mac \in a.macs

Replace(mac, a) == accounts' = (With(mac) \ {AccountOf(mac)}) \cup {a}

Lookup(mac) == accounts' = With(mac)

Charge(mac, len) ==
    Replace(mac, [AccountOf(mac) EXCEPT !.credit = @ + len])

Rename(mac, name) ==
    Replace(mac, [AccountOf(mac) EXCEPT !.name = name, !.custom = TRUE])

\* The account of mac goes into another account, which keeps its own name.
Merge(mac, into) ==
    LET a == AccountOf(mac)
    IN  /\ into \in With(mac) \ {a}
        /\ accounts' = (With(mac) \ {a, into})
                \cup {[into EXCEPT !.macs = @ \cup a.macs,
                                   !.credit = @ + a.credit,
                                   !.last_credit = @ + a.last_credit]}

Rollover ==
    accounts' = {[a EXCEPT !.last_credit = a.credit, !.credit = 0] : a \in accounts}

Init == accounts = {}

Next ==
    \/ \E mac \in Macs :
        \/ Lookup(mac)
        \/ \E len \in Lengths : Charge(mac, len)
        \/ \E name \in Names : Rename(mac, name)
        \/ \E into \in With(mac) : Merge(mac, into)
    \/ Rollover

Spec == Init /\ [][Next]_accounts
=============================================================================
