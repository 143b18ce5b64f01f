----------------------------- MODULE SocketApi -----------------------------
(***************************************************************************)
(* What tcp.h promises the application about its sockets, with no segments, *)
(* sequence numbers or timers: a socket is opened once and closed once, a   *)
(* buffer given to tcp_send on an open socket is queued there, and the      *)
(* buffers of a socket come back in the order they were sent, all of them   *)
(* by the time the socket closes.  Tcp implements this specification.       *)
(***************************************************************************)
EXTENDS Naturals, Sequences

CONSTANTS Sockets, Buffers

VARIABLES
    open,       \* sockets between ev_opened and ev_closed
    lent        \* the buffers lent to each socket, oldest first

apiVars == <<open, lent>>

Range1(q) == {q[k] : k \in DOMAIN q}
Lent == UNION {Range1(lent[s]) : s \in Sockets}

Init ==
    /\ open = {}
    /\ lent = [s \in Sockets |-> <<>>]

Opened(s) ==
    /\ s \notin open
    /\ open' = open \cup {s}
    /\ UNCHANGED lent

\* The oldest k buffers come back, and the application lends the buffers new.
Exchange(s, k, new) ==
    /\ s \in open
    /\ \A m \in DOMAIN new : new[m] \notin Lent
    /\ lent' = [lent EXCEPT ![s] = SubSeq(@, k + 1, Len(@)) \o new]
    /\ UNCHANGED open

Closed(s) ==
    /\ s \in open
    /\ open' = open \ {s}
    /\ lent' = [lent EXCEPT ![s] = <<>>]

\* At most two buffers are lent in one step: a header and a body.
Batches ==
    {<<>>} \cup {<<b>> : b \in Buffers}
           \cup {<<p[1], p[2]>> : p \in {x \in Buffers \X Buffers : x[1] # x[2]}}

Next ==
    \E s \in Sockets :
        \/ Opened(s)
        \/ \E k \in 0..Len(lent[s]), new \in Batches : Exchange(s, k, new)
        \/ Closed(s)

Spec == Init /\ [][Next]_apiVars
=============================================================================
