-------------------------- MODULE TcpBufferProofs --------------------------
(***************************************************************************)
(* A buffer given to tcp_send sits in exactly one place of one send queue   *)
(* until the application has it back, and every segment sent reads buffers  *)
(* in its queue only, for every table, set of buffers and set of segments.  *)
(* Every action is one QueueStep: one queue loses buffers at its head and   *)
(* gains buffers of the application at its end.                             *)
(***************************************************************************)
EXTENDS TcpProofs

Q(i) == tcp_conns[i].sendbuf

\* The buffers of q behind its first d.
Behind(q, d) == {q[k].data : k \in (d + 1)..Len(q)}

\* q is the queue r without its first d buffers and with those of ds appended.
Requeued(q, r, d, ds) ==
    /\ Len(q) = Len(r) - d + Len(ds)
    /\ \A k \in 1..(Len(r) - d) : q[k].data = r[k + d].data
    /\ \A k \in 1..Len(ds) : q[Len(r) - d + k].data = ds[k]

\* The stack owns the buffers of ds, and of its own all but those of S.
Handover(S, ds) ==
    \A b \in Buffers :
        owner'[b] = "stack" <=> b \in Elems(ds) \/ (owner[b] = "stack" /\ b \notin S)

\* The queue of row i loses its first d buffers, which go back, and gains ds.
QueueStep(i, d, ds) ==
    /\ \A j \in Slots \ {i} : Q(j)' = Q(j)
    /\ Requeued(Q(i)', Q(i), d, ds)
    /\ Handover(QueuedIn(Q(i)) \ Behind(Q(i), d), ds)

SomeQueueStep ==
    \E i \in Slots : \E d \in 0..Len(Q(i)) : \E ds :
        Batch(ds) /\ Elems(ds) \subseteq OwnedByApp /\ QueueStep(i, d, ds)

QueuesStay == (\A j \in Slots : Q(j)' = Q(j)) /\ Handover({}, <<>>)

LEMMA QueueType ==
    ASSUME TypeInv, NEW i \in Slots
    PROVE  /\ Q(i) \in Seq(TcpBuf) /\ Len(Q(i)) \in Nat
           /\ DOMAIN Q(i) = 1..Len(Q(i))
           /\ \A k \in 1..Len(Q(i)) : Q(i)[k].data \in Buffers
<1>1. Q(i) \in Seq(TcpBuf)
  BY DEF TypeInv, Table, TcpConn, Q
<1>2. Len(Q(i)) \in Nat /\ DOMAIN Q(i) = 1..Len(Q(i))
  BY <1>1, LenProperties
<1>3. ASSUME NEW k \in 1..Len(Q(i)) PROVE Q(i)[k].data \in Buffers
  <2>1. Q(i)[k] \in TcpBuf
    BY <1>1, <1>3, ElementOfSeq
  <2> QED BY <2>1 DEF TcpBuf
<1> QED BY <1>1, <1>2, <1>3

\* BufferOwnership over positions instead of domains.
OnePlace ==
    \A i, j \in Slots : \A k \in 1..Len(Q(i)), m \in 1..Len(Q(j)) :
        Q(i)[k].data = Q(j)[m].data => i = j /\ k = m

QueuedIsOwned == \A i \in Slots : \A k \in 1..Len(Q(i)) : owner[Q(i)[k].data] = "stack"

OwnedIsQueued ==
    \A b \in Buffers : owner[b] = "stack" =>
        \E i \in Slots : \E k \in 1..Len(Q(i)) : Q(i)[k].data = b

LEMMA OwnershipParts ==
    TypeInv => (BufferOwnership <=> OnePlace /\ QueuedIsOwned /\ OwnedIsQueued)
<1> SUFFICES ASSUME TypeInv
             PROVE  BufferOwnership <=> OnePlace /\ QueuedIsOwned /\ OwnedIsQueued
  OBVIOUS
<1>1. \A i \in Slots : DOMAIN tcp_conns[i].sendbuf = 1..Len(tcp_conns[i].sendbuf)
  BY QueueType DEF Q
<1>2. OwnedIsQueued <=> \A b \in Buffers : owner[b] = "stack" =>
                            \E i \in Slots : b \in QueuedIn(tcp_conns[i].sendbuf)
  BY DEF OwnedIsQueued, QueuedIn, Q
<1> DEFINE Dom(i) == DOMAIN tcp_conns[i].sendbuf
           Owned == \A i \in Slots : \A k \in Dom(i) :
                        owner[tcp_conns[i].sendbuf[k].data] = "stack"
           Apart == \A i \in Slots : \A k \in Dom(i) :
                        \A j \in Slots : \A m \in Dom(j) :
                            tcp_conns[i].sendbuf[k].data = tcp_conns[j].sendbuf[m].data
                                => i = j /\ k = m
<1>3. \A i \in Slots : Q(i) = tcp_conns[i].sendbuf /\ Dom(i) = 1..Len(Q(i))
  BY <1>1 DEF Q
<1>4. QueuedIsOwned <=> Owned
  <2> HIDE DEF Dom
  <2> QED BY <1>3 DEF QueuedIsOwned
<1>5. OnePlace <=> Apart
  <2> HIDE DEF Dom
  <2>1. ASSUME OnePlace, NEW i \in Slots, NEW k \in Dom(i),
               NEW j \in Slots, NEW m \in Dom(j),
               tcp_conns[i].sendbuf[k].data = tcp_conns[j].sendbuf[m].data
        PROVE  i = j /\ k = m
    <3>1. k \in 1..Len(Q(i)) /\ m \in 1..Len(Q(j)) /\ Q(i)[k].data = Q(j)[m].data
      BY <1>3, <2>1
    <3> QED BY <2>1, <3>1 DEF OnePlace
  <2>2. ASSUME Apart, NEW i \in Slots, NEW j \in Slots,
               NEW k \in 1..Len(Q(i)), NEW m \in 1..Len(Q(j)),
               Q(i)[k].data = Q(j)[m].data
        PROVE  i = j /\ k = m
    <3>1. /\ k \in Dom(i) /\ m \in Dom(j)
          /\ tcp_conns[i].sendbuf[k].data = tcp_conns[j].sendbuf[m].data
      BY <1>3, <2>2
    <3> QED BY <2>2, <3>1
  <2> QED BY <2>1, <2>2 DEF OnePlace
<1>6. BufferOwnership <=> Owned /\ Apart /\ OwnedIsQueued
  BY <1>2 DEF BufferOwnership
<1> QED BY <1>4, <1>5, <1>6

\* What a place of the queue holds after the step: a buffer that was in the
\* queue d places further on, or one of ds.
LEMMA PlaceAfter ==
    ASSUME NEW q, NEW r, NEW ds, Len(r) \in Nat, NEW d \in 0..Len(r), Batch(ds),
           Requeued(q, r, d, ds), NEW k \in 1..Len(q)
    PROVE  \/ k + d \in (d + 1)..Len(r) /\ q[k].data = r[k + d].data
           \/ /\ k - (Len(r) - d) \in 1..Len(ds)
              /\ q[k].data = ds[k - (Len(r) - d)]
<1>1. Len(ds) \in Nat /\ Len(q) = Len(r) - d + Len(ds)
  BY DEF Batch, Requeued
<1>2. CASE k <= Len(r) - d
  BY <1>1, <1>2 DEF Requeued
<1>3. CASE k > Len(r) - d
  <2> DEFINE m == k - (Len(r) - d)
  <2>1. m \in 1..Len(ds) /\ Len(r) - d + m = k
    BY <1>1, <1>3
  <2>2. q[Len(r) - d + m].data = ds[m]
    BY <2>1 DEF Requeued
  <2> QED BY <2>1, <2>2
<1> QED BY <1>1, <1>2, <1>3

LEMMA QueueStepKeeps ==
    ASSUME TypeInv, TypeInv', BufferOwnership, SomeQueueStep
    PROVE  BufferOwnership'
<1>0. PICK i \in Slots : \E d \in 0..Len(Q(i)) : \E ds :
        Batch(ds) /\ Elems(ds) \subseteq OwnedByApp /\ QueueStep(i, d, ds)
  BY DEF SomeQueueStep
<1>d. PICK d \in 0..Len(Q(i)) : \E ds :
        Batch(ds) /\ Elems(ds) \subseteq OwnedByApp /\ QueueStep(i, d, ds)
  BY <1>0
<1>1. PICK ds : Batch(ds) /\ Elems(ds) \subseteq OwnedByApp /\ QueueStep(i, d, ds)
  BY <1>d
<1> DEFINE n == Len(Q(i)) - d
           shift(a) == IF a = i THEN d ELSE 0
           Old(a, k) == /\ k + shift(a) \in (shift(a) + 1)..Len(Q(a))
                        /\ Q(a)'[k].data = Q(a)[k + shift(a)].data
           New(a, k) == /\ a = i /\ k - n \in 1..Len(ds)
                        /\ Q(a)'[k].data = ds[k - n]
<1>2. OnePlace /\ QueuedIsOwned /\ OwnedIsQueued
  BY OwnershipParts
<1>3. \A a \in Slots : /\ Len(Q(a)) \in Nat
                       /\ \A k \in 1..Len(Q(a)) : Q(a)[k].data \in Buffers
  BY QueueType
<1>4. ASSUME NEW a \in Slots, NEW k \in 1..Len(Q(a)') PROVE Old(a, k) \/ New(a, k)
  <2>1. CASE a = i
    <3>1. Requeued(Q(i)', Q(i), d, ds) /\ Len(Q(i)) \in Nat /\ k \in 1..Len(Q(i)')
      BY <1>1, <1>3, <2>1 DEF QueueStep
    <3>2. \/ k + d \in (d + 1)..Len(Q(i)) /\ Q(i)'[k].data = Q(i)[k + d].data
          \/ k - n \in 1..Len(ds) /\ Q(i)'[k].data = ds[k - n]
      BY <1>1, <3>1, PlaceAfter
    <3> QED BY <2>1, <3>2
  <2>2. CASE a # i
    <3>1. Q(a)' = Q(a)
      BY <1>1, <2>2 DEF QueueStep
    <3>2. k \in Int /\ k + 0 = k
      BY <1>3, <3>1
    <3> QED BY <1>4, <2>2, <3>1, <3>2
  <2> QED BY <2>1, <2>2
<1>5. \A a \in Slots : \A k \in 1..Len(Q(a)') : Old(a, k) =>
        /\ k + shift(a) \in 1..Len(Q(a))
        /\ owner[Q(a)'[k].data] = "stack" /\ Q(a)'[k].data \in Buffers
  <2> SUFFICES ASSUME NEW a \in Slots, NEW k \in 1..Len(Q(a)'), Old(a, k)
               PROVE  /\ k + shift(a) \in 1..Len(Q(a))
                      /\ owner[Q(a)'[k].data] = "stack" /\ Q(a)'[k].data \in Buffers
    OBVIOUS
  <2>1. shift(a) \in Nat
    BY <1>3
  <2>2. k + shift(a) \in 1..Len(Q(a))
    BY <1>3, <2>1
  <2> QED BY <1>2, <1>3, <2>2 DEF QueuedIsOwned
<1>6. \A a \in Slots : \A k \in 1..Len(Q(a)') : New(a, k) =>
        /\ Q(a)'[k].data \in Elems(ds)
        /\ owner[Q(a)'[k].data] = "app" /\ Q(a)'[k].data \in Buffers
  BY <1>1 DEF Elems, OwnedByApp
<1>7. ASSUME NEW a \in Slots, NEW b \in Slots, NEW k \in 1..Len(Q(a)'),
             NEW m \in 1..Len(Q(b)'), Q(a)'[k].data = Q(b)'[m].data
      PROVE  a = b /\ k = m
  <2>1. CASE Old(a, k) /\ Old(b, m)
    <3>0. /\ k + shift(a) \in 1..Len(Q(a)) /\ m + shift(b) \in 1..Len(Q(b))
          /\ Q(a)[k + shift(a)].data = Q(b)[m + shift(b)].data
      BY <1>5, <1>7, <2>1
    <3>1. a = b /\ k + shift(a) = m + shift(b)
      <4> HIDE DEF shift
      <4> QED BY <1>2, <3>0 DEF OnePlace
    <3>2. k \in Int /\ m \in Int /\ shift(a) \in Int
      BY <1>3
    <3> QED BY <3>1, <3>2
  <2>2. CASE New(a, k) /\ New(b, m)
    <3>1. a = b /\ k - n = m - n
      BY <1>1, <1>7, <2>2 DEF Batch
    <3>2. k \in Int /\ m \in Int /\ n \in Int
      BY <1>3
    <3> QED BY <3>1, <3>2
  <2>3. ~(Old(a, k) /\ New(b, m)) /\ ~(New(a, k) /\ Old(b, m))
    BY <1>5, <1>6, <1>7
  <2> QED BY <1>4, <2>1, <2>2, <2>3
<1>8. ASSUME NEW a \in Slots, NEW k \in 1..Len(Q(a)')
      PROVE  owner'[Q(a)'[k].data] = "stack"
  <2> DEFINE b == Q(a)'[k].data
  <2>1. CASE New(a, k)
    BY <1>1, <1>6, <2>1 DEF QueueStep, Handover
  <2>2. CASE Old(a, k)
    <3>1. b \notin QueuedIn(Q(i)) \ Behind(Q(i), d)
      <4>1. CASE a = i
        BY <2>2, <4>1 DEF Behind
      <4>2. CASE a # i
        BY <1>2, <1>5, <2>2, <4>2 DEF OnePlace, QueuedIn
      <4> QED BY <4>1, <4>2
    <3> QED BY <1>1, <1>5, <2>2, <3>1 DEF QueueStep, Handover
  <2> QED BY <1>4, <2>1, <2>2
<1>9. ASSUME NEW b \in Buffers, owner'[b] = "stack"
      PROVE  \E a \in Slots : \E k \in 1..Len(Q(a)') : Q(a)'[k].data = b
  <2>1. Requeued(Q(i)', Q(i), d, ds) /\ Len(ds) \in Nat
    BY <1>1 DEF QueueStep, Batch
  <2>2. CASE b \in Elems(ds)
    <3>1. PICK m \in 1..Len(ds) : ds[m] = b
      BY <2>2 DEF Elems
    <3>2. n + m \in 1..Len(Q(i)') /\ Q(i)'[n + m].data = b
      BY <1>3, <2>1, <3>1 DEF Requeued
    <3> QED BY <3>2
  <2>3. CASE owner[b] = "stack" /\ b \notin QueuedIn(Q(i)) \ Behind(Q(i), d)
    <3>0. PICK a \in Slots : \E k \in 1..Len(Q(a)) : Q(a)[k].data = b
      BY <1>2, <2>3 DEF OwnedIsQueued
    <3>1. PICK k \in 1..Len(Q(a)) : Q(a)[k].data = b
      BY <3>0
    <3>2. CASE a # i
      BY <1>1, <3>1, <3>2 DEF QueueStep
    <3>3. CASE a = i
      <4>1. PICK m \in (d + 1)..Len(Q(i)) : Q(i)[m].data = b
        BY <2>3, <3>1, <3>3 DEF QueuedIn, Behind
      <4>2. m - d \in 1..n /\ m - d + d = m /\ m - d \in 1..Len(Q(i)')
        BY <1>3, <2>1, <4>1 DEF Requeued
      <4>3. Q(i)'[m - d].data = b
        BY <2>1, <4>1, <4>2 DEF Requeued
      <4> QED BY <4>2, <4>3
    <3> QED BY <3>2, <3>3
  <2> QED BY <1>1, <1>9, <2>2, <2>3 DEF QueueStep, Handover
<1>10. (TypeInv => (BufferOwnership <=> OnePlace /\ QueuedIsOwned /\ OwnedIsQueued))'
  BY OwnershipParts, PTL
<1>11. OnePlace'
  BY <1>7 DEF OnePlace
<1>12. QueuedIsOwned'
  BY <1>8 DEF QueuedIsOwned
<1>13. OwnedIsQueued'
  BY <1>9 DEF OwnedIsQueued
<1> QED BY <1>10, <1>11, <1>12, <1>13

LEMMA StayKeeps ==
    ASSUME TypeInv, TypeInv', BufferOwnership, QueuesStay
    PROVE  BufferOwnership'
<1>1. OnePlace /\ QueuedIsOwned /\ OwnedIsQueued
  BY OwnershipParts
<1>2. Elems(<<>>) = {}
  BY DEF Elems
<1>3. \A b \in Buffers : owner'[b] = "stack" <=> owner[b] = "stack"
  BY <1>2 DEF QueuesStay, Handover
<1>4. OnePlace' /\ OwnedIsQueued'
  BY <1>1, <1>3 DEF QueuesStay, OnePlace, OwnedIsQueued
<1>5. QueuedIsOwned'
  <2> SUFFICES ASSUME NEW i \in Slots, NEW k \in 1..Len(Q(i))
               PROVE  owner'[Q(i)[k].data] = "stack"
    BY DEF QueuedIsOwned, QueuesStay
  <2> QED BY <1>1, <1>3, QueueType DEF QueuedIsOwned
<1>6. (TypeInv => (BufferOwnership <=> OnePlace /\ QueuedIsOwned /\ OwnedIsQueued))'
  BY OwnershipParts, PTL
<1> QED BY <1>4, <1>5, <1>6

----------------------------------------------------------------------------
\* The step each action is.

LEMMA RowRequeued ==
    ASSUME TypeInv, NEW i \in Slots, NEW c, tcp_conns' = [tcp_conns EXCEPT ![i] = c],
           NEW d \in 0..Len(Q(i)), NEW ds, Batch(ds), Elems(ds) \subseteq OwnedByApp,
           Requeued(c.sendbuf, Q(i), d, ds),
           Handover(QueuedIn(Q(i)) \ Behind(Q(i), d), ds)
    PROVE  SomeQueueStep
<1>1. /\ Q(i)' = c.sendbuf
      /\ \A j \in Slots \ {i} : Q(j)' = Q(j)
  BY DEF TypeInv, Table, Q
<1>2. QueueStep(i, d, ds)
  BY <1>1 DEF QueueStep
<1> QED BY <1>2 DEF SomeQueueStep

LEMMA NoBatch == Batch(<<>>) /\ Elems(<<>>) = {} /\ Len(<<>>) = 0
BY DEF Batch, Elems

\* A queue that is left alone, and one that is given up.
LEMMA NothingDropped ==
    ASSUME NEW q, Len(q) \in Nat
    PROVE  QueuedIn(q) \ Behind(q, 0) = {} /\ 0 \in 0..Len(q)
BY DEF QueuedIn, Behind

LEMMA AllDropped ==
    ASSUME NEW q, Len(q) \in Nat
    PROVE  QueuedIn(q) \ Behind(q, Len(q)) = QueuedIn(q) /\ Len(q) \in 0..Len(q)
BY DEF QueuedIn, Behind

LEMMA AckRequeues ==
    ASSUME NEW c, Live(c), NEW s \in Segment
    PROVE  \E d \in 0..Len(c.sendbuf) :
            /\ Requeued(Acknowledged(c, s).sendbuf, c.sendbuf, d, <<>>)
            /\ QueuedIn(Acknowledged(c, s).sendbuf) = Behind(c.sendbuf, d)
<1> DEFINE q == Acknowledged(c, s).sendbuf
           r == c.sendbuf
<1>1. PICK d \in 0..Len(r) :
        /\ Len(q) = Len(r) - d
        /\ \A k \in 1..(Len(r) - d) : q[k].data = r[k + d].data
  BY AcknowledgedLive DEF HeadDropped
<1>2. Len(r) \in Nat
  BY LenProperties DEF Live, TcpConn
<1> HIDE DEF q, r
<1>3. Requeued(q, r, d, <<>>)
  BY <1>1, <1>2, NoBatch DEF Requeued
<1>4. QueuedIn(q) = Behind(r, d)
  <2>1. ASSUME NEW k \in 1..Len(q) PROVE q[k].data \in Behind(r, d)
    <3>1. k + d \in (d + 1)..Len(r) /\ q[k].data = r[k + d].data
      BY <1>1, <1>2
    <3> QED BY <3>1 DEF Behind
  <2>2. ASSUME NEW k \in (d + 1)..Len(r) PROVE r[k].data \in QueuedIn(q)
    <3>1. k - d \in 1..Len(q) /\ k - d + d = k
      BY <1>1, <1>2
    <3>2. q[k - d].data = r[k].data
      BY <1>1, <3>1
    <3> QED BY <3>1, <3>2 DEF QueuedIn
  <2> QED BY <2>1, <2>2 DEF QueuedIn, Behind
<1> QED BY <1>3, <1>4 DEF q, r

\* Sending appends; after an acknowledgement that dropped d buffers it still
\* only appends.
LEMMA SendRequeues ==
    ASSUME NEW c, Live(c), NEW ds, Batch(ds),
           NEW r, Len(r) \in Nat, NEW d \in 0..Len(r), Requeued(c.sendbuf, r, d, <<>>)
    PROVE  Requeued(SendAll(c, ds).sendbuf, r, d, ds)
<1> DEFINE q == SendAll(c, ds).sendbuf
           p == c.sendbuf
<1>1. /\ Len(q) = Len(p) + Len(ds)
      /\ \A k \in 1..Len(p) : q[k] = p[k]
      /\ \A k \in 1..Len(ds) : q[Len(p) + k].data = ds[k]
  <2>1. Len(SendAll(c, ds).sendbuf) = Len(c.sendbuf) + Len(ds)
    BY SendAllLive
  <2>2. \A k \in 1..Len(c.sendbuf) : SendAll(c, ds).sendbuf[k] = c.sendbuf[k]
    BY SendAllLive
  <2>3. \A k \in 1..Len(ds) : SendAll(c, ds).sendbuf[Len(c.sendbuf) + k].data = ds[k]
    BY SendAllLive
  <2> QED BY <2>1, <2>2, <2>3
<1>2. Len(p) = Len(r) - d /\ \A k \in 1..(Len(r) - d) : p[k].data = r[k + d].data
  BY NoBatch DEF Requeued
<1> HIDE DEF q, p
<1>3. Requeued(q, r, d, ds)
  BY <1>1, <1>2 DEF Requeued
<1> QED BY <1>3 DEF q

LEMMA KillQueueStep ==
    ASSUME TypeInv, NEW i \in Slots, Kill(i)
    PROVE  SomeQueueStep
<1>1. Len(Q(i)) \in Nat
  BY QueueType
<1>2. Requeued(ClosedConn.sendbuf, Q(i), Len(Q(i)), <<>>)
  BY <1>1, NoBatch, ClosedConnType DEF Requeued
<1>3. Handover(QueuedIn(Q(i)) \ Behind(Q(i), Len(Q(i))), <<>>)
  BY <1>1, AllDropped, NoBatch DEF Handover, Kill, Own, Q
<1>4. tcp_conns' = [tcp_conns EXCEPT ![i] = ClosedConn]
  BY DEF Kill
<1> QED BY <1>1, <1>2, <1>3, <1>4, AllDropped, NoBatch, RowRequeued

\* What the ACK step of tcp_receive_packet gives back.
LEMMA ReleasedHandover ==
    ASSUME TypeInv, NEW i \in Slots, NEW q, NEW d \in 0..Len(Q(i)),
           QueuedIn(q) = Behind(Q(i), d), owner' = Own(Released(i, q), "app")
    PROVE  Handover(QueuedIn(Q(i)) \ Behind(Q(i), d), <<>>)
BY NoBatch DEF Handover, Own, Released, Q

LEMMA AckQueueStep ==
    ASSUME TypeInv, NEW i \in Slots, NEW s \in Segment, HandleAck(i, s)
    PROVE  SomeQueueStep
<1> DEFINE c == Acknowledged(tcp_conns[i], s)
<1>1. Live(tcp_conns[i])
  BY ConnectedIsOpen DEF HandleAck, PassesAckStep
<1>2. PICK d \in 0..Len(Q(i)) : Requeued(c.sendbuf, Q(i), d, <<>>)
                                /\ QueuedIn(c.sendbuf) = Behind(Q(i), d)
  BY <1>1, AckRequeues DEF Q
<1>3. /\ tcp_conns' = [tcp_conns EXCEPT ![i] = c]
      /\ owner' = Own(Released(i, c.sendbuf), "app")
  BY DEF HandleAck
<1> HIDE DEF c
<1>4. Handover(QueuedIn(Q(i)) \ Behind(Q(i), d), <<>>)
  BY <1>2, <1>3, ReleasedHandover
<1> QED BY <1>2, <1>3, <1>4, NoBatch, RowRequeued

LEMMA FinQueueStep ==
    ASSUME TypeInv, NEW i \in Slots, NEW s \in Segment, HandleFin(i, s)
    PROVE  SomeQueueStep
<1> DEFINE a == Acknowledged(tcp_conns[i], s)
           c == [a EXCEPT !.incoming = (@ + 1) % SeqSpace]
<1>1. Live(tcp_conns[i])
  BY ConnectedIsOpen DEF HandleFin, PassesAckStep
<1>2. PICK d \in 0..Len(Q(i)) : Requeued(a.sendbuf, Q(i), d, <<>>)
                                /\ QueuedIn(a.sendbuf) = Behind(Q(i), d)
  BY <1>1, AckRequeues DEF Q
<1>3. IF c.state = "ESTABLISHED"
      THEN /\ tcp_conns' = [tcp_conns EXCEPT ![i] = FinSent(c)]
           /\ owner' = Own(Released(i, c.sendbuf), "app")
      ELSE Kill(i)
  BY DEF HandleFin
<1>4. a \in TcpConn
  BY <1>1, AcknowledgedLive DEF Live
<1> HIDE DEF a
<1>5. c.sendbuf = a.sendbuf /\ FinSent(c).sendbuf = a.sendbuf
  BY <1>4 DEF FinSent, CommitSequenceRange, TcpConn
<1> HIDE DEF c
<1>6. CASE c.state = "ESTABLISHED"
  <2>1. Handover(QueuedIn(Q(i)) \ Behind(Q(i), d), <<>>)
    BY <1>2, <1>3, <1>5, <1>6, ReleasedHandover
  <2>2. Requeued(FinSent(c).sendbuf, Q(i), d, <<>>)
    BY <1>2, <1>5
  <2> QED BY <1>3, <1>6, <2>1, <2>2, NoBatch, RowRequeued
<1>7. CASE c.state # "ESTABLISHED"
  BY <1>3, <1>7, KillQueueStep
<1> QED BY <1>6, <1>7

LEMMA DataQueueStep ==
    ASSUME TypeInv, NEW i \in Slots, NEW s \in Segment, NEW ds \in Responses,
           HandleData(i, s, ds)
    PROVE  SomeQueueStep
<1> DEFINE a == Acknowledged(tcp_conns[i], s)
           c == [a EXCEPT !.incoming = (s.seq + s.len) % SeqSpace]
<1>1. Live(tcp_conns[i])
  BY ConnectedIsOpen DEF HandleData, PassesAckStep
<1>2. PICK d \in 0..Len(Q(i)) : Requeued(a.sendbuf, Q(i), d, <<>>)
                                /\ QueuedIn(a.sendbuf) = Behind(Q(i), d)
  BY <1>1, AckRequeues DEF Q
<1>3. /\ tcp_conns' = [tcp_conns EXCEPT ![i] = IF c.state = "ESTABLISHED"
                                               THEN SendAll(c, ds) ELSE c]
      /\ owner' = [b \in Buffers |->
                    IF b \in Elems(ds)
                    THEN IF c.state = "ESTABLISHED" THEN "stack" ELSE "dropped"
                    ELSE IF b \in Released(i, a.sendbuf) THEN "app" ELSE owner[b]]
  BY DEF HandleData
<1>4. Live(a) /\ a \in TcpConn
  BY <1>1, AcknowledgedLive DEF Live
<1> HIDE DEF a
<1>5. c.sendbuf = a.sendbuf /\ Live(c)
  <2>1. /\ c \in TcpConn /\ c.sendbuf = a.sendbuf
        /\ c.remote = a.remote /\ c.port = a.port
    BY <1>4, SegmentNumbers DEF TcpConn
  <2> HIDE DEF c
  <2> QED BY <1>4, <2>1 DEF Live
<1> HIDE DEF c
<1>6. Batch(ds) /\ Elems(ds) \subseteq OwnedByApp
  BY ResponsesAreBatches
<1>7. Len(Q(i)) \in Nat /\ Requeued(c.sendbuf, Q(i), d, <<>>)
  BY <1>2, <1>5, QueueType
<1>8. CASE c.state = "ESTABLISHED"
  <2>1. Requeued(SendAll(c, ds).sendbuf, Q(i), d, ds)
    BY <1>5, <1>6, <1>7, SendRequeues
  <2>2. Handover(QueuedIn(Q(i)) \ Behind(Q(i), d), ds)
    BY <1>2, <1>3, <1>8 DEF Handover, Released, Q
  <2>3. tcp_conns' = [tcp_conns EXCEPT ![i] = SendAll(c, ds)]
    BY <1>3, <1>8
  <2> QED BY <1>6, <2>1, <2>2, <2>3, RowRequeued
<1>9. CASE c.state # "ESTABLISHED"
  <2>1. Handover(QueuedIn(Q(i)) \ Behind(Q(i), d), <<>>)
    BY <1>2, <1>3, <1>6, <1>9, NoBatch DEF Handover, Released, Q, OwnedByApp
  <2>2. tcp_conns' = [tcp_conns EXCEPT ![i] = c]
    BY <1>3, <1>9
  <2> QED BY <1>7, <2>1, <2>2, NoBatch, RowRequeued
<1> QED BY <1>8, <1>9

LEMMA SendQueueStep ==
    ASSUME TypeInv, NEW i \in Slots, NEW b \in Buffers, TcpSend(i, b)
    PROVE  SomeQueueStep \/ QueuesStay
<1> DEFINE r == tcp_conns[i]
<1>1. CASE r.state = "ESTABLISHED"
  <2>1. Live(r)
    BY <1>1, OpenConnected DEF Open, Connected
  <2>2. /\ tcp_conns' = [tcp_conns EXCEPT ![i] = Sent(r, b)]
        /\ owner' = Own({b}, "stack") /\ owner[b] = "app"
    BY <1>1 DEF TcpSend
  <2>3. /\ Batch(<<b>>) /\ Elems(<<b>>) = {b} /\ Elems(<<b>>) \subseteq OwnedByApp
        /\ SendAll(r, <<b>>) = Sent(r, b)
    BY <2>2 DEF Batch, Elems, OwnedByApp, SendAll
  <2>4. Len(Q(i)) \in Nat /\ 0 \in 0..Len(Q(i))
    BY QueueType
  <2>5. Requeued(r.sendbuf, Q(i), 0, <<>>)
    BY <2>4, NoBatch DEF Requeued, Q
  <2>6. Requeued(SendAll(r, <<b>>).sendbuf, Q(i), 0, <<b>>)
    <3> HIDE DEF r
    <3> QED BY <2>1, <2>3, <2>4, <2>5, SendRequeues
  <2>7. Handover(QueuedIn(Q(i)) \ Behind(Q(i), 0), <<b>>)
    BY <2>2, <2>3, <2>4, NothingDropped DEF Handover, Own
  <2> QED BY <2>2, <2>3, <2>4, <2>6, <2>7, RowRequeued
<1>2. CASE r.state # "ESTABLISHED"
  BY <1>2, NoBatch DEF TcpSend, QueuesStay, Handover, Own, Q
<1> QED BY <1>1, <1>2

LEMMA RowKeepsQueue ==
    ASSUME TypeInv, NEW i \in Slots, NEW c, tcp_conns' = [tcp_conns EXCEPT ![i] = c],
           c.sendbuf = Q(i), owner' = owner
    PROVE  QueuesStay
BY NoBatch DEF QueuesStay, Handover, TypeInv, Table, Q

\* A row taken for a listener or a connection starts with an empty queue.
LEMMA TakenQueueStep ==
    ASSUME TypeInv, TakesRow
    PROVE  QueuesStay
<1>1. \A i \in Slots : tcp_conns[i].state = "CLOSED" => Q(i) = <<>>
  BY ClosedConnType DEF TypeInv, Table, Row, Listening, Connected, Q
<1>2. CASE \E p \in Ports : TcpNewListenSock(p)
  <2>1. PICK p \in Ports : TcpNewListenSock(p)
    BY <1>2
  <2> DEFINE c == [ClosedConn EXCEPT !.state = "LISTENING", !.port = p]
  <2>2. PICK i \in Slots : IsLast(i, Free) /\ tcp_conns' = [tcp_conns EXCEPT ![i] = c]
    BY <2>1 DEF TcpNewListenSock
  <2>3. Q(i) = <<>> /\ owner' = owner /\ c.sendbuf = <<>>
    BY <1>1, <2>1, <2>2, ClosedConnType
       DEF TcpNewListenSock, IsLast, Free, ClosedConn
  <2> HIDE DEF c
  <2> QED BY <2>2, <2>3, RowKeepsQueue
<1>3. CASE \E s \in Segment : HandleListenPort(s)
  <2>1. PICK s \in Segment : HandleListenPort(s)
    BY <1>3
  <2> DEFINE c == CommitSequenceRange(
                    [ClosedConn EXCEPT !.state = "SYN", !.remote = s.remote,
                        !.port = s.port, !.incoming = (s.seq + 1) % SeqSpace,
                        !.nextOut = InitSeq], 1)
  <2>2. PICK i \in Slots : IsFirst(i, Free) /\ tcp_conns' = [tcp_conns EXCEPT ![i] = c]
    BY <2>1 DEF HandleListenPort
  <2>3. Q(i) = <<>> /\ owner' = owner /\ c.sendbuf = <<>>
    BY <1>1, <2>1, <2>2
       DEF HandleListenPort, IsFirst, Free, ClosedConn, CommitSequenceRange
  <2> HIDE DEF c
  <2> QED BY <2>2, <2>3, RowKeepsQueue
<1> QED BY <1>2, <1>3 DEF TakesRow

\* Establishing, closing and the timers leave every queue as it is.
LEMMA QuietQueueStep ==
    ASSUME TypeInv,
           \/ \E i \in Slots, s \in Segment : EstablishConnection(i, s)
           \/ \E i \in Slots : TcpClose(i) \/ Elapse(i)
           \/ TcpProcess
    PROVE  QueuesStay
<1>1. \A i \in Slots : tcp_conns[i] \in TcpConn
  BY DEF TypeInv, Table
<1>2. CASE \E i \in Slots, s \in Segment : EstablishConnection(i, s)
  <2>1. PICK i \in Slots, s \in Segment : EstablishConnection(i, s)
    BY <1>2
  <2>2. [tcp_conns[i] EXCEPT !.state = "ESTABLISHED"].sendbuf = Q(i)
    BY <1>1 DEF TcpConn, Q
  <2> QED BY <2>1, <2>2, RowKeepsQueue DEF EstablishConnection
<1>3. CASE \E i \in Slots : TcpClose(i)
  <2>1. PICK i \in Slots : TcpClose(i)
    BY <1>3
  <2> DEFINE c == [CommitSequenceRange(tcp_conns[i], 1) EXCEPT !.state = "CLOSING"]
  <2>2. tcp_conns' = [tcp_conns EXCEPT ![i] = c] /\ owner' = owner
    BY <2>1 DEF TcpClose
  <2>3. c.sendbuf = Q(i)
    BY <1>1 DEF TcpConn, CommitSequenceRange, Q
  <2> HIDE DEF c
  <2> QED BY <2>2, <2>3, RowKeepsQueue
<1>4. CASE \E i \in Slots : Elapse(i)
  <2>1. PICK i \in Slots : Elapse(i)
    BY <1>4
  <2>2. [tcp_conns[i] EXCEPT !.due = ~@].sendbuf = Q(i)
    BY <1>1 DEF TcpConn, Q
  <2> QED BY <2>1, <2>2, RowKeepsQueue DEF Elapse
<1>5. CASE TcpProcess
  BY <1>1, <1>5, NoBatch DEF TcpProcess, QueuesStay, Handover, Q, TcpConn
<1> QED BY <1>2, <1>3, <1>4, <1>5

LEMMA StepOfQueues ==
    ASSUME TypeInv, [AnyNext]_vars
    PROVE  SomeQueueStep \/ QueuesStay
<1>1. CASE TakesRow
  BY <1>1, TakenQueueStep
<1>2. CASE \E s \in Segment : Receive(s)
  <2>1. PICK s \in Segment : Receive(s)
    BY <1>2
  <2>2. CASE HandleListenPort(s)
    BY <1>1, <2>2 DEF TakesRow
  <2>3. CASE \E i \in Slots : EstablishConnection(i, s)
    BY <2>3, QuietQueueStep
  <2>4. CASE \E i \in Slots : ConnectionReset(i, s) \/ LastAck(i, s)
    BY <2>4, KillQueueStep DEF ConnectionReset, LastAck
  <2>5. CASE \E i \in Slots : HandleFin(i, s) \/ HandleAck(i, s)
    BY <2>5, FinQueueStep, AckQueueStep
  <2>6. CASE \E i \in Slots, ds \in Responses : HandleData(i, s, ds)
    BY <2>6, DataQueueStep
  <2> QED BY <2>1, <2>2, <2>3, <2>4, <2>5, <2>6 DEF Receive, Control
<1>3. CASE \E i \in Slots, d \in Buffers : TcpSend(i, d)
  BY <1>3, SendQueueStep
<1>4. CASE TcpProcess \/ \E i \in Slots : TcpClose(i) \/ Elapse(i)
  BY <1>4, QuietQueueStep
<1>5. CASE UNCHANGED vars
  BY <1>5, NoBatch DEF vars, QueuesStay, Handover, Q
<1> QED BY <1>1, <1>2, <1>3, <1>4, <1>5 DEF AnyNext, TakesRow

LEMMA OwnershipInit == Init => TypeInv /\ BufferOwnership
<1> SUFFICES ASSUME Init PROVE TypeInv /\ BufferOwnership
  OBVIOUS
<1>1. TypeInv
  BY TypeInit
<1>2. \A i \in Slots : Q(i) = <<>> /\ Len(Q(i)) = 0
  BY ClosedConnType, EmptySeq DEF Init, Q
<1>3. \A b \in Buffers : owner[b] # "stack"
  BY DEF Init
<1>4. OnePlace /\ QueuedIsOwned /\ OwnedIsQueued
  BY <1>2, <1>3 DEF OnePlace, QueuedIsOwned, OwnedIsQueued
<1> QED BY <1>1, <1>4, OwnershipParts

\* A buffer given to tcp_send sits in exactly one place of one send queue
\* until ev_releasebuf gives it back, whatever is acknowledged, reset or sent
\* in between (tcp_unbuffer, kill_connection, tcp_append_buffer).
THEOREM BuffersHaveOnePlace == Spec => []BufferOwnership
<1>1. TypeInv /\ BufferOwnership /\ [Next]_vars => (TypeInv /\ BufferOwnership)'
  BY TypeStep, StepOfQueues, QueueStepKeeps, StayKeeps, NextIsAny
<1> QED BY OwnershipInit, <1>1, PTL DEF Spec

----------------------------------------------------------------------------
\* The segments sent read the buffers the stack owns.

\* What the segment g of a row that holds the connection c may read.
Reads(g, c) ==
    g.data # NoBuf =>
        /\ g.len > 0 /\ g.ofs + g.len <= BufLen[g.data]
        /\ c.remote = g.remote /\ c.port = g.port
        /\ \E m \in 1..Len(c.sendbuf) : /\ c.sendbuf[m].data = g.data
                                        /\ (c.sendbuf[m].seq + g.ofs) % SeqSpace = g.seq

AllRead(ss, c) == ss \in Seq(Segment) /\ \A k \in 1..Len(ss) : Reads(ss[k], c)

LEMMA NothingRead == ASSUME NEW c PROVE AllRead(<<>>, c)
BY DEF AllRead

LEMMA AckReads ==
    ASSUME NEW c, Live(c), NEW e
    PROVE  /\ AllRead(<<Ack(c)>>, e) /\ AllRead(<<SynAck(c)>>, e)
           /\ AllRead(<<FinAck(c)>>, e) /\ AllRead(<<Ack(c), FinAck(c)>>, e)
           /\ Reads(Ack(c), e)
<1>1. Ack(c) \in Segment /\ SynAck(c) \in Segment /\ FinAck(c) \in Segment
  BY AckType
<1>2. Reads(Ack(c), e) /\ Reads(SynAck(c), e) /\ Reads(FinAck(c), e)
  BY DEF Reads, Ack, SynAck, FinAck, Header
<1> HIDE DEF Ack
<1> QED BY <1>1, <1>2 DEF AllRead

LEMMA JoinReads ==
    ASSUME NEW ss, NEW tt, NEW c, AllRead(ss, c), AllRead(tt, c)
    PROVE  AllRead(ss \o tt, c)
<1>1. /\ ss \o tt \in Seq(Segment) /\ Len(ss \o tt) = Len(ss) + Len(tt)
      /\ \A k \in 1..(Len(ss) + Len(tt)) :
            (ss \o tt)[k] = IF k <= Len(ss) THEN ss[k] ELSE tt[k - Len(ss)]
  BY ConcatProperties DEF AllRead
<1>2. Len(ss) \in Nat /\ Len(tt) \in Nat
  BY LenProperties DEF AllRead
<1>3. ASSUME NEW k \in 1..(Len(ss) + Len(tt)) PROVE Reads((ss \o tt)[k], c)
  <2>1. CASE k <= Len(ss)
    BY <1>1, <1>2, <2>1 DEF AllRead
  <2>2. CASE k > Len(ss)
    <3>1. k - Len(ss) \in 1..Len(tt) /\ (ss \o tt)[k] = tt[k - Len(ss)]
      BY <1>1, <1>2, <2>2
    <3> QED BY <3>1 DEF AllRead
  <2> QED BY <1>2, <2>1, <2>2
<1> QED BY <1>1, <1>3 DEF AllRead

LEMMA AppendReads ==
    ASSUME NEW ss, NEW g \in Segment, NEW c, AllRead(ss, c), Reads(g, c)
    PROVE  AllRead(Append(ss, g), c)
<1>1. ss \in Seq(Segment) /\ Len(ss) \in Nat
  BY LenProperties DEF AllRead
<1>2. /\ Append(ss, g) \in Seq(Segment) /\ Len(Append(ss, g)) = Len(ss) + 1
      /\ \A k \in 1..Len(ss) : Append(ss, g)[k] = ss[k]
      /\ Append(ss, g)[Len(ss) + 1] = g
  BY <1>1, AppendProperties
<1>3. ASSUME NEW k \in 1..Len(Append(ss, g)) PROVE Reads(Append(ss, g)[k], c)
  <2>1. k = Len(ss) + 1 \/ k \in 1..Len(ss)
    BY <1>1, <1>2
  <2> QED BY <1>2, <2>1 DEF AllRead
<1> QED BY <1>2, <1>3 DEF AllRead

\* The connection e, at the ends of c, has the buffer b at place m.
Holds(e, c, b, m) ==
    /\ SameEnds(e, c) /\ m \in 1..Len(e.sendbuf)
    /\ e.sendbuf[m].data = b.data /\ e.sendbuf[m].seq = b.seq

LEMMA ChunkReads ==
    ASSUME NEW c, Live(c), NEW b \in TcpBuf, NEW o \in Nat, o < BufLen[b.data],
           NEW e, NEW m, Holds(e, c, b, m)
    PROVE  Reads(Chunk(c, b, o), e)
<1> DEFINE left == BufLen[b.data] - o
           len == IF left < MAXSEGSIZE THEN left ELSE MAXSEGSIZE
           g == Chunk(c, b, o)
<1>1. BufLen[b.data] \in Nat
  BY BufferAssumption DEF TcpBuf
<1>2. len > 0 /\ o + len <= BufLen[b.data]
  BY <1>1, SizeAssumption
<1>3. /\ g.len = len /\ g.data = b.data /\ g.ofs = o
      /\ g.seq = (b.seq + o) % SeqSpace /\ g.remote = c.remote /\ g.port = c.port
  BY DEF Chunk, DataSegment, Header
<1> HIDE DEF len, g
<1> QED BY <1>2, <1>3 DEF Reads, Holds, SameEnds, g

LEMMA ChunksRead ==
    ASSUME NEW c, Live(c), NEW b \in TcpBuf, NEW e, NEW m, Holds(e, c, b, m)
    PROVE  AllRead(Chunks(c, b), e)
<1> DEFINE L == BufLen[b.data]
           n == (L + MAXSEGSIZE - 1) \div MAXSEGSIZE
<1>1. L \in Nat /\ n \in Nat
  BY BufferAssumption, SizeAssumption DEF TcpBuf
<1>2. ASSUME NEW k \in 1..n PROVE Reads(Chunk(c, b, (k - 1) * MAXSEGSIZE), e)
  <2>1. (k - 1) * MAXSEGSIZE \in Nat /\ (k - 1) * MAXSEGSIZE < L
    BY <1>1, SizeAssumption, ChunkOffset
  <2> QED BY <2>1, ChunkReads
<1>3. Chunks(c, b) = [k \in 1..n |-> Chunk(c, b, (k - 1) * MAXSEGSIZE)]
  BY DEF Chunks
<1>4. Chunks(c, b) \in Seq(Segment)
  BY ChunksType
<1> HIDE DEF n
<1>5. Len(Chunks(c, b)) = n
  BY <1>1, <1>3, <1>4, LenProperties
<1> QED BY <1>2, <1>3, <1>4, <1>5 DEF AllRead

\* tcp_send from a callback: each buffer is in the queue its chunks read.
LEMMA SentReads ==
    ASSUME NEW c, Live(c), NEW ds, Batch(ds)
    PROVE  AllRead(SentChunks(c, ds), SendAll(c, ds))
<1>1. Len(ds) \in 0..2 /\ \A k \in 1..Len(ds) : ds[k] \in Buffers
  BY ElementOfSeq DEF Batch
<1>2. Len(c.sendbuf) \in Nat
  BY LenProperties DEF Live, TcpConn
<1>3. CASE Len(ds) = 0
  BY <1>3, NothingRead DEF SentChunks
<1>4. ASSUME NEW r, Live(r), NEW d \in Buffers
      PROVE  /\ NewBuf(r, d) \in TcpBuf
             /\ Holds(Sent(r, d), r, NewBuf(r, d), Len(r.sendbuf) + 1)
  <2>1. Len(r.sendbuf) \in Nat
    BY <1>4, LenProperties DEF Live, TcpConn
  <2> QED BY <1>4, <2>1, SentLive DEF Holds
<1>5. CASE Len(ds) = 1
  <2>1. /\ ds[1] \in Buffers /\ SendAll(c, ds) = Sent(c, ds[1])
        /\ SentChunks(c, ds) = Chunks(c, NewBuf(c, ds[1]))
    BY <1>1, <1>5 DEF SendAll, SentChunks
  <2> QED BY <1>4, <2>1, ChunksRead
<1>6. CASE Len(ds) = 2
  <2> DEFINE e == Sent(c, ds[1])
             f == Sent(e, ds[2])
             b == NewBuf(c, ds[1])
             m == Len(c.sendbuf) + 1
  <2>1. /\ ds[1] \in Buffers /\ ds[2] \in Buffers /\ SendAll(c, ds) = f
        /\ SentChunks(c, ds) = Chunks(c, b) \o Chunks(c, NewBuf(e, ds[2]))
    BY <1>1, <1>6 DEF SendAll, SentChunks
  <2>2. Live(e) /\ Len(e.sendbuf) = m /\ Holds(e, c, b, m) /\ b \in TcpBuf
    BY <1>4, <2>1, SentLive
  <2> HIDE DEF e, b, m
  <2>3. /\ NewBuf(e, ds[2]) \in TcpBuf
        /\ Holds(f, c, NewBuf(e, ds[2]), Len(e.sendbuf) + 1)
    BY <1>4, <2>1, <2>2 DEF Holds, SameEnds
  <2>4. Holds(f, c, b, m)
    <3>1. /\ SameEnds(f, e) /\ Len(f.sendbuf) = m + 1
          /\ \A k \in 1..m : f.sendbuf[k] = e.sendbuf[k]
      BY <2>1, <2>2, SentLive
    <3>2. m \in 1..m /\ m \in 1..(m + 1)
      BY <1>2 DEF m
    <3> HIDE DEF f
    <3> QED BY <2>2, <3>1, <3>2 DEF Holds, SameEnds
  <2> HIDE DEF f
  <2>5. AllRead(Chunks(c, b), f) /\ AllRead(Chunks(c, NewBuf(e, ds[2])), f)
    BY <2>2, <2>3, <2>4, ChunksRead
  <2> QED BY <2>1, <2>5, JoinReads
<1> QED BY <1>1, <1>3, <1>5, <1>6

----------------------------------------------------------------------------
\* What each action sends, against the connections it leaves.

Sound == \A j \in Slots : AllRead(out'[j], tcp_conns'[j])

LEMMA SilentSound == ASSUME out' = Silent PROVE Sound
BY NothingRead DEF Sound, Silent

LEMMA EmitSound ==
    ASSUME TypeInv, NEW i \in Slots, NEW ss, out' = Emit(i, ss),
           AllRead(ss, tcp_conns'[i])
    PROVE  Sound
BY NothingRead DEF Sound, Emit

LEMMA QuietSound ==
    ASSUME TypeInv,
           \/ \E p \in Ports : TcpNewListenSock(p)
           \/ \E i \in Slots, s \in Segment :
                EstablishConnection(i, s) \/ ConnectionReset(i, s)
                \/ LastAck(i, s) \/ HandleAck(i, s)
           \/ \E i \in Slots : Elapse(i)
    PROVE  Sound
<1>1. out' = Silent
  BY DEF TcpNewListenSock, EstablishConnection, ConnectionReset, LastAck, HandleAck, Elapse
<1> QED BY <1>1, SilentSound

LEMMA SynSound ==
    ASSUME TypeInv, NEW s \in Segment, HandleListenPort(s)
    PROVE  Sound
<1> DEFINE c == [ClosedConn EXCEPT !.state = "SYN", !.remote = s.remote,
                    !.port = s.port, !.incoming = (s.seq + 1) % SeqSpace,
                    !.nextOut = InitSeq]
<1>1. PICK i \in Slots : out' = Emit(i, <<SynAck(c)>>)
  BY DEF HandleListenPort
<1>2. Live(c)
  <2>1. /\ c \in TcpConn /\ c.sendbuf = <<>>
        /\ c.port = s.port /\ c.remote = s.remote
    BY SegmentNumbers, ClosedConnType, SeqAssumption DEF ClosedConn, TcpConn, State, Segment
  <2> HIDE DEF c
  <2> QED BY <2>1 DEF Live, OffsetsInBuffer, Segment
<1> HIDE DEF c
<1> QED BY <1>1, <1>2, AckReads, EmitSound

\* What a segment's acknowledgement and its sequence number make of a row.
LEMMA IncomingLive ==
    ASSUME TypeInv, NEW i \in Slots, NEW s \in Segment, Target(i, s), NEW n \in SeqNo
    PROVE  Live([Acknowledged(tcp_conns[i], s) EXCEPT !.incoming = n])
<1> DEFINE a == Acknowledged(tcp_conns[i], s)
           c == [a EXCEPT !.incoming = n]
<1>1. Live(a)
  BY ConnectedIsOpen, AcknowledgedLive
<1> HIDE DEF a
<1>2. /\ c \in TcpConn /\ c.sendbuf = a.sendbuf
      /\ c.remote = a.remote /\ c.port = a.port
  BY <1>1 DEF Live, TcpConn
<1> HIDE DEF c
<1>3. Live(c)
  BY <1>1, <1>2 DEF Live
<1> QED BY <1>3 DEF c, a

LEMMA FinSound ==
    ASSUME TypeInv, NEW i \in Slots, NEW s \in Segment, HandleFin(i, s)
    PROVE  Sound
<1> DEFINE n == (Acknowledged(tcp_conns[i], s).incoming + 1) % SeqSpace
           c == [Acknowledged(tcp_conns[i], s) EXCEPT !.incoming = n]
<1>1. Target(i, s) /\ \/ out' = Emit(i, <<Ack(c), FinAck(c)>>)
                      \/ out' = Emit(i, <<Ack(c)>>)
  BY DEF HandleFin, PassesAckStep
<1>2. n \in SeqNo
  <2>1. Acknowledged(tcp_conns[i], s).incoming \in Int
    BY <1>1, ConnectedIsOpen, AcknowledgedLive, SeqAssumption DEF Live, TcpConn, SeqNo
  <2> QED BY <2>1, ModType
<1>3. Live(c)
  BY <1>1, <1>2, IncomingLive
<1> HIDE DEF c
<1> QED BY <1>1, <1>3, AckReads, EmitSound

LEMMA DataSound ==
    ASSUME TypeInv, NEW i \in Slots, NEW s \in Segment, NEW ds \in Responses,
           HandleData(i, s, ds)
    PROVE  Sound
<1> DEFINE c == [Acknowledged(tcp_conns[i], s) EXCEPT !.incoming = (s.seq + s.len) % SeqSpace]
           sends == c.state = "ESTABLISHED"
<1>1. /\ Target(i, s)
      /\ tcp_conns' = [tcp_conns EXCEPT ![i] = IF sends THEN SendAll(c, ds) ELSE c]
      /\ out' = Emit(i, IF sends THEN Append(SentChunks(c, ds), Ack(SendAll(c, ds)))
                                 ELSE <<Ack(c)>>)
  BY DEF HandleData, PassesAckStep
<1>2. Live(c)
  BY <1>1, SegmentNumbers, IncomingLive
<1> HIDE DEF c
<1>3. CASE c.state = "ESTABLISHED"
  <2>1. tcp_conns'[i] = SendAll(c, ds)
    BY <1>1, <1>3 DEF TypeInv, Table
  <2>2. AllRead(SentChunks(c, ds), SendAll(c, ds)) /\ Live(SendAll(c, ds))
    BY <1>2, ResponsesAreBatches, SentReads, SendAllLive
  <2>3. Ack(SendAll(c, ds)) \in Segment /\ Reads(Ack(SendAll(c, ds)), SendAll(c, ds))
    BY <2>2, AckType, AckReads
  <2>4. AllRead(Append(SentChunks(c, ds), Ack(SendAll(c, ds))), SendAll(c, ds))
    BY <2>2, <2>3, AppendReads
  <2> QED BY <1>1, <1>3, <2>1, <2>4, EmitSound
<1>4. CASE c.state # "ESTABLISHED"
  BY <1>1, <1>2, <1>4, AckReads, EmitSound
<1> QED BY <1>3, <1>4

LEMMA SendSound ==
    ASSUME TypeInv, NEW i \in Slots, NEW d \in Buffers, TcpSend(i, d)
    PROVE  Sound
<1>1. CASE tcp_conns[i].state = "ESTABLISHED"
  <2>1. /\ tcp_conns'[i] = Sent(tcp_conns[i], d)
        /\ out' = Emit(i, SentChunks(tcp_conns[i], <<d>>))
    BY <1>1 DEF TcpSend, TypeInv, Table
  <2>2. Live(tcp_conns[i])
    BY <1>1, OpenConnected DEF Open, Connected
  <2>3. Batch(<<d>>) /\ SendAll(tcp_conns[i], <<d>>) = Sent(tcp_conns[i], d)
    BY DEF Batch, SendAll
  <2>4. AllRead(SentChunks(tcp_conns[i], <<d>>), SendAll(tcp_conns[i], <<d>>))
    BY <2>2, <2>3, SentReads
  <2>5. AllRead(SentChunks(tcp_conns[i], <<d>>), tcp_conns'[i])
    BY <2>1, <2>3, <2>4
  <2> QED BY <2>1, <2>5, EmitSound
<1>2. CASE tcp_conns[i].state # "ESTABLISHED"
  BY <1>2, SilentSound DEF TcpSend
<1> QED BY <1>1, <1>2

LEMMA CloseSound ==
    ASSUME TypeInv, NEW i \in Slots, TcpClose(i)
    PROVE  Sound
<1>1. Live(tcp_conns[i]) /\ out' = Emit(i, <<FinAck(tcp_conns[i])>>)
  BY OpenConnected DEF TcpClose, Open, Connected
<1> QED BY <1>1, AckReads, EmitSound

\* tcp_process: one chunk from the first unit not yet acknowledged.
LEMMA ProcessSound ==
    ASSUME TypeInv, TcpProcess
    PROVE  Sound
<1> SUFFICES ASSUME NEW i \in Slots PROVE AllRead(out'[i], tcp_conns'[i])
  BY DEF Sound
<1>1. CASE ~Expired(i)
  BY <1>1, NothingRead DEF TcpProcess
<1>2. CASE Expired(i)
  <2> DEFINE c == tcp_conns[i]
             e == [c EXCEPT !.due = FALSE]
             b == c.sendbuf[1]
  <2>1. Live(c) /\ c \in TcpConn /\ c.sendbuf \in Seq(TcpBuf) /\ c.sendbuf # <<>>
    BY <1>2, OpenConnected DEF Expired, Connected, Live, TcpConn
  <2>2. tcp_conns'[i] = e /\ out'[i] = Retransmission(c)
    BY <1>2 DEF TcpProcess
  <2> HIDE DEF c
  <2>3. 1 \in 1..Len(c.sendbuf)
    BY <2>1, EmptySeq
  <2>4. b \in TcpBuf /\ (b.ofs = 0 \/ b.ofs < BufLen[b.data])
    BY <2>1, <2>3, ElementOfSeq DEF Live, OffsetsInBuffer
  <2>5. Holds(e, c, b, 1)
    BY <2>1, <2>3 DEF Holds, SameEnds, TcpConn
  <2> HIDE DEF b, e
  <2>6. CASE Remaining(b) = 0
    <3>1. out'[i] = <<>>
      BY <2>2, <2>6 DEF Retransmission, b
    <3> QED BY <3>1, NothingRead
  <2>7. CASE Remaining(b) # 0
    <3>1. out'[i] = <<Chunk(c, b, b.ofs)>>
      BY <2>2, <2>7 DEF Retransmission, b
    <3>2. b.ofs \in Nat /\ b.ofs < BufLen[b.data] /\ BufLen[b.data] \in Nat
      BY <2>4, <2>7, BufferAssumption DEF Remaining, TcpBuf
    <3>3. Chunk(c, b, b.ofs) \in Segment /\ Reads(Chunk(c, b, b.ofs), e)
      BY <2>1, <2>4, <2>5, <3>2, ChunkType, ChunkReads
    <3> QED BY <2>2, <3>1, <3>3 DEF AllRead
  <2> QED BY <2>6, <2>7
<1> QED BY <1>1, <1>2

LEMMA StepSound ==
    ASSUME TypeInv, AnyNext
    PROVE  Sound
<1>1. ASSUME NEW s \in Segment, Receive(s) PROVE Sound
  <2>1. CASE HandleListenPort(s)
    BY <2>1, SynSound
  <2>2. CASE \E i \in Slots : EstablishConnection(i, s) \/ ConnectionReset(i, s)
                              \/ LastAck(i, s) \/ HandleAck(i, s)
    BY <2>2, QuietSound
  <2>3. CASE \E i \in Slots : HandleFin(i, s)
    BY <2>3, FinSound
  <2>4. CASE \E i \in Slots, ds \in Responses : HandleData(i, s, ds)
    BY <2>4, DataSound
  <2> QED BY <1>1, <2>1, <2>2, <2>3, <2>4 DEF Receive, Control
<1>2. CASE \E s \in Segment : Receive(s)
  BY <1>1, <1>2
<1>3. CASE \E i \in Slots, d \in Buffers : TcpSend(i, d)
  BY <1>3, SendSound
<1>4. CASE \E i \in Slots : TcpClose(i)
  BY <1>4, CloseSound
<1>5. CASE (\E p \in Ports : TcpNewListenSock(p)) \/ \E i \in Slots : Elapse(i)
  BY <1>5, QuietSound
<1>6. CASE TcpProcess
  BY <1>6, ProcessSound
<1> QED BY <1>2, <1>3, <1>4, <1>5, <1>6 DEF AnyNext

\* A sound step sends bytes the stack owns: what a segment reads is queued,
\* and what is queued is owned by the stack.
LEMMA SoundReads ==
    ASSUME TypeInv', BufferOwnership', Sound
    PROVE  SegmentsReadOwnedBytes'
<1>1. (TypeInv => (BufferOwnership <=> OnePlace /\ QueuedIsOwned /\ OwnedIsQueued))'
  BY OwnershipParts, PTL
<1>2. \A j \in Slots : \A m \in 1..Len(tcp_conns'[j].sendbuf) :
        owner'[tcp_conns'[j].sendbuf[m].data] = "stack"
  BY <1>1 DEF QueuedIsOwned, Q
<1>3. \A j \in Slots : DOMAIN tcp_conns'[j].sendbuf = 1..Len(tcp_conns'[j].sendbuf)
  BY LenProperties DEF TypeInv, Table, TcpConn
<1> SUFFICES ASSUME NEW i \in Slots, NEW k \in DOMAIN out'[i], out'[i][k].data # NoBuf
             PROVE  LET g == out'[i][k]
                        c == tcp_conns'[i]
                    IN  /\ owner'[g.data] = "stack"
                        /\ g.len > 0 /\ g.ofs + g.len <= BufLen[g.data]
                        /\ c.remote = g.remote /\ c.port = g.port
                        /\ \E m \in DOMAIN c.sendbuf :
                            /\ c.sendbuf[m].data = g.data
                            /\ (c.sendbuf[m].seq + g.ofs) % SeqSpace = g.seq
  BY DEF SegmentsReadOwnedBytes
<1>4. AllRead(out'[i], tcp_conns'[i])
  BY DEF Sound
<1>5. Reads(out'[i][k], tcp_conns'[i])
  BY <1>4, LenProperties DEF AllRead
<1> QED BY <1>2, <1>3, <1>5 DEF Reads

LEMMA ReadStep ==
    ASSUME TypeInv, TypeInv', BufferOwnership', SegmentsReadOwnedBytes, [AnyNext]_vars
    PROVE  SegmentsReadOwnedBytes'
<1>1. CASE AnyNext
  BY <1>1, StepSound, SoundReads
<1>2. CASE UNCHANGED vars
  BY <1>2 DEF vars, SegmentsReadOwnedBytes
<1> QED BY <1>1, <1>2

LEMMA ReadInit == Init => SegmentsReadOwnedBytes
BY DEF Init, Silent, SegmentsReadOwnedBytes

\* No segment carries bytes of a buffer the application has back, or bytes
\* outside the buffer, and every data segment is numbered by its place in it
\* (tcp_send_buffer, tcp_process).
THEOREM SegmentsStayInBuffers == Spec => []SegmentsReadOwnedBytes
<1>1. /\ TypeInv /\ TypeInv' /\ BufferOwnership' /\ SegmentsReadOwnedBytes /\ [Next]_vars
      => SegmentsReadOwnedBytes'
  BY ReadStep, NextIsAny
<1>2. Spec => []TypeInv
  BY TypeInit, TypeStep, NextIsAny, PTL DEF Spec
<1> QED BY ReadInit, <1>1, <1>2, BuffersHaveOnePlace, PTL DEF Spec

----------------------------------------------------------------------------
\* Tcp implements SocketApi: a kill is Closed, a SYN that takes a row is Opened,
\* and every other QueueStep is an Exchange on an open socket or no step at all.

LentBy(i) == [k \in DOMAIN Q(i) |-> Q(i)[k].data]

LentNow == [i \in Slots |-> LentBy(i)]

LentTyped(i) ==
    /\ LentBy(i) \in Seq(Buffers) /\ Len(LentBy(i)) = Len(Q(i))
    /\ \A k \in 1..Len(Q(i)) : LentBy(i)[k] = Q(i)[k].data

LEMMA LentType == TypeInv => \A i \in Slots : LentTyped(i)
<1> SUFFICES ASSUME TypeInv, NEW i \in Slots PROVE LentTyped(i)
  OBVIOUS
<1>1. /\ DOMAIN Q(i) = 1..Len(Q(i)) /\ Len(Q(i)) \in Nat
      /\ \A k \in 1..Len(Q(i)) : Q(i)[k].data \in Buffers
  BY QueueType
<1>2. LentBy(i) \in [1..Len(Q(i)) -> Buffers]
  BY <1>1 DEF LentBy
<1>3. LentBy(i) \in Seq(Buffers)
  BY <1>1, <1>2
<1>4. Len(LentBy(i)) = Len(Q(i))
  BY <1>1, <1>2, <1>3, LenProperties
<1> QED BY <1>1, <1>3, <1>4 DEF LentBy, LentTyped

LEMMA LentTypeNext == TypeInv' => \A i \in Slots : LentTyped(i)'
<1>1. (TypeInv => \A i \in Slots : LentTyped(i))'
  BY LentType, PTL
<1> QED BY <1>1

\* A queue step is what Exchange does to the buffers lent to the socket.
LEMMA RequeuedLent ==
    ASSUME TypeInv, TypeInv', NEW i \in Slots, NEW d \in 0..Len(Q(i)),
           NEW ds, Batch(ds), Requeued(Q(i)', Q(i), d, ds)
    PROVE  LentBy(i)' = SubSeq(LentBy(i), d + 1, Len(LentBy(i))) \o ds
<1> DEFINE l == LentBy(i)
           n == Len(l)
           rest == SubSeq(l, d + 1, n)
           m == LentBy(i)'
<1>1. /\ l \in Seq(Buffers) /\ n \in Nat /\ n = Len(Q(i))
      /\ \A k \in 1..n : l[k] = Q(i)[k].data
  BY LentType, LenProperties DEF LentTyped
<1>2. /\ m \in Seq(Buffers) /\ Len(m) = Len(Q(i)')
      /\ \A k \in 1..Len(m) : m[k] = Q(i)'[k].data
  BY LentTypeNext DEF LentTyped
<1>3. ds \in Seq(Buffers) /\ Len(ds) \in Nat /\ d \in 0..n
  BY <1>1 DEF Batch
<1> HIDE DEF l, m
<1>4. /\ rest \in Seq(Buffers) /\ Len(rest) = n - d
      /\ \A k \in 1..(n - d) : rest[k] = l[k + d]
  <2>1. /\ rest \in Seq(Buffers)
        /\ Len(rest) = IF d + 1 <= n THEN n - (d + 1) + 1 ELSE 0
        /\ \A k \in 1..(n - (d + 1) + 1) : rest[k] = l[d + 1 + k - 1]
    <3>1. \A k \in (d + 1)..n : l[k] \in Buffers
      BY <1>1, <1>3, ElementOfSeq
    <3> QED BY <1>1, <1>3, <3>1, SubSeqProperties
  <2> HIDE DEF rest
  <2> QED BY <1>1, <1>3, <2>1
<1> HIDE DEF rest
<1>5. /\ rest \o ds \in Seq(Buffers) /\ Len(rest \o ds) = Len(rest) + Len(ds)
      /\ \A k \in 1..(Len(rest) + Len(ds)) :
            (rest \o ds)[k] = IF k <= Len(rest) THEN rest[k] ELSE ds[k - Len(rest)]
  BY <1>3, <1>4, ConcatProperties
<1>6. Len(m) = Len(rest \o ds)
  BY <1>1, <1>2, <1>3, <1>4, <1>5 DEF Requeued
<1>7. ASSUME NEW k \in 1..Len(m) PROVE m[k] = (rest \o ds)[k]
  <2>1. \/ k + d \in (d + 1)..n /\ Q(i)'[k].data = Q(i)[k + d].data
        \/ k - (n - d) \in 1..Len(ds) /\ Q(i)'[k].data = ds[k - (n - d)]
    BY <1>1, <1>2, <1>3, PlaceAfter
  <2>2. CASE k + d \in (d + 1)..n /\ Q(i)'[k].data = Q(i)[k + d].data
    <3>1. k \in 1..(n - d) /\ k + d \in 1..n /\ k <= Len(rest)
      BY <1>1, <1>3, <1>4, <2>2
    <3>2. m[k] = l[k + d]
      BY <1>1, <1>2, <2>2, <3>1
    <3>3. (rest \o ds)[k] = rest[k] /\ rest[k] = l[k + d]
      BY <1>3, <1>4, <1>5, <3>1
    <3> QED BY <3>2, <3>3
  <2>3. CASE k - (n - d) \in 1..Len(ds) /\ Q(i)'[k].data = ds[k - (n - d)]
    <3>1. k > Len(rest) /\ k \in 1..(Len(rest) + Len(ds))
      BY <1>1, <1>3, <1>4, <2>3
    <3> QED BY <1>2, <1>4, <1>5, <2>3, <3>1
  <2> QED BY <2>1, <2>2, <2>3
<1>8. m = rest \o ds
  BY <1>2, <1>5, <1>6, <1>7, SeqEqual
<1> QED BY <1>8 DEF m, rest, l

LEMMA BatchIsApiBatch ==
    ASSUME NEW ds, Batch(ds)
    PROVE  ds \in Api!Batches /\ DOMAIN ds = 1..Len(ds)
<1>1. ds \in Seq(Buffers) /\ Len(ds) \in 0..2 /\ DOMAIN ds = 1..Len(ds)
  BY LenProperties DEF Batch
<1>2. \A k \in 1..Len(ds) : ds[k] \in Buffers
  BY <1>1, ElementOfSeq
<1>3. CASE Len(ds) = 0
  BY <1>1, <1>3, EmptySeq DEF Api!Batches
<1>4. CASE Len(ds) = 1
  <2>1. <<ds[1]>> \in Seq(Buffers) /\ ds[1] \in Buffers
    BY <1>2, <1>4
  <2>2. ds = <<ds[1]>>
    BY <1>1, <1>4, <2>1, SeqEqual
  <2> QED BY <1>1, <2>1, <2>2 DEF Api!Batches
<1>5. CASE Len(ds) = 2
  <2>1. ds[1] \in Buffers /\ ds[2] \in Buffers /\ ds[1] # ds[2]
    BY <1>2, <1>5 DEF Batch
  <2>2. <<ds[1], ds[2]>> \in Seq(Buffers)
    BY <2>1
  <2>3. \A k \in 1..Len(ds) : ds[k] = <<ds[1], ds[2]>>[k]
    BY <1>5
  <2>4. ds = <<ds[1], ds[2]>>
    BY <1>1, <1>5, <2>2, <2>3, SeqEqual
  <2> DEFINE x == <<ds[1], ds[2]>>
  <2>5. x \in Buffers \X Buffers /\ x[1] # x[2] /\ x = <<x[1], x[2]>>
    BY <2>1
  <2> QED BY <1>1, <2>4, <2>5 DEF Api!Batches
<1> QED BY <1>1, <1>3, <1>4, <1>5

\* What the application still owns is lent to no socket.
LEMMA OwnedIsNotLent ==
    ASSUME TypeInv, BufferOwnership, NEW ds, Batch(ds), Elems(ds) \subseteq OwnedByApp
    PROVE  \A m \in DOMAIN ds : ds[m] \notin Api!Lent
<1> SUFFICES ASSUME NEW m \in DOMAIN ds, ds[m] \in Api!Lent PROVE FALSE
  OBVIOUS
<1>1. PICK i \in Slots : \E k \in 1..Len(Q(i)) : ds[m] = Q(i)[k].data
  <2>1. PICK i \in Slots : ds[m] \in Api!Range1(LentNow[i])
    BY DEF Api!Lent, LentNow, LentBy, Q
  <2>2. DOMAIN LentBy(i) = 1..Len(Q(i))
    BY QueueType DEF LentBy
  <2> QED BY <2>1, <2>2, LentType DEF Api!Range1, LentNow, LentTyped
<1>2. owner[ds[m]] = "stack"
  BY <1>1, OwnershipParts DEF QueuedIsOwned
<1>3. m \in 1..Len(ds)
  BY BatchIsApiBatch
<1> QED BY <1>2, <1>3 DEF Elems, OwnedByApp

ClosedEmpty == \A i \in Slots : ~Open(i) => Q(i) = <<>>

LEMMA ClosedIsEmpty == TypeInv => ClosedEmpty
BY ClosedConnType DEF ClosedEmpty, TypeInv, Table, Row, Listening, Connected, Open, Q

\* A queue step that opens or closes no socket.
LEMMA ExchangeStep ==
    ASSUME TypeInv, TypeInv', BufferOwnership, OpenedMatchesState,
           OpenedMatchesState', opened' = opened, SomeQueueStep
    PROVE  [Api!Next]_Api!apiVars
<1>1. PICK i \in Slots : \E d \in 0..Len(Q(i)) : \E ds :
        Batch(ds) /\ Elems(ds) \subseteq OwnedByApp /\ QueueStep(i, d, ds)
  BY DEF SomeQueueStep
<1>2. PICK d \in 0..Len(Q(i)) : \E ds :
        Batch(ds) /\ Elems(ds) \subseteq OwnedByApp /\ QueueStep(i, d, ds)
  BY <1>1
<1>3. PICK ds : Batch(ds) /\ Elems(ds) \subseteq OwnedByApp /\ QueueStep(i, d, ds)
  BY <1>2
<1>4. /\ LentNow' = [LentNow EXCEPT ![i] = LentBy(i)']
      /\ LentNow[i] = LentBy(i)
  <2>1. \A j \in Slots \ {i} : LentBy(j)' = LentBy(j)
    BY <1>3 DEF LentBy, QueueStep
  <2>2. LentNow' = [j \in Slots |-> LentBy(j)']
    BY DEF LentNow
  <2> QED BY <2>1, <2>2 DEF LentNow
<1>5. LentBy(i)' = SubSeq(LentBy(i), d + 1, Len(LentBy(i))) \o ds
  BY <1>3, RequeuedLent DEF QueueStep
<1>6. CASE i \in opened
  <2>1. d \in 0..Len(LentNow[i])
    BY <1>4, LentType DEF LentTyped
  <2>2. LentNow' = [LentNow EXCEPT ![i] = SubSeq(@, d + 1, Len(@)) \o ds]
    BY <1>4, <1>5
  <2>3. Api!Exchange(i, d, ds)
    BY <1>3, <1>6, <2>2, OwnedIsNotLent DEF Api!Exchange, LentNow, LentBy, Q
  <2> QED BY <1>3, <2>1, <2>3, BatchIsApiBatch DEF Api!Next, LentNow, LentBy, Q
<1>7. CASE i \notin opened
  <2>1. ~Open(i) /\ ~Open(i)'
    BY <1>7 DEF OpenedMatchesState
  <2>2. (TypeInv => ClosedEmpty)'
    BY ClosedIsEmpty, PTL
  <2>3. Q(i) = <<>> /\ Q(i)' = <<>>
    BY <2>1, <2>2, ClosedIsEmpty DEF ClosedEmpty
  <2>4. LentNow' = LentNow
    BY <1>4, <2>3 DEF LentBy, LentNow
  <2> QED BY <2>4 DEF Api!apiVars, LentNow, LentBy, Q
<1> QED BY <1>6, <1>7

LEMMA OpensOrCloses ==
    ASSUME AnyNext
    PROVE  \/ opened' = opened
           \/ \E i \in Slots, s \in Segment : Target(i, s) /\ Kill(i)
           \/ \E s \in Segment : HandleListenPort(s)
<1>1. CASE \E s \in Segment : Receive(s)
  <2>1. PICK s \in Segment : Receive(s)
    BY <1>1
  <2> QED BY <2>1
          DEF Receive, Control, EstablishConnection, ConnectionReset, LastAck,
              HandleFin, HandleAck, HandleData, PassesAckStep
<1>2. CASE TcpProcess \/ \E i \in Slots : TcpClose(i) \/ Elapse(i)
                                          \/ \E d \in Buffers : TcpSend(i, d)
  BY <1>2 DEF TcpProcess, TcpClose, Elapse, TcpSend
<1>3. CASE \E p \in Ports : TcpNewListenSock(p)
  BY <1>3 DEF TcpNewListenSock
<1> QED BY <1>1, <1>2, <1>3 DEF AnyNext

LEMMA KillIsClosed ==
    ASSUME TypeInv, OpenedMatchesState, NEW i \in Slots, Open(i), Kill(i)
    PROVE  Api!Next
<1>1. /\ Q(i)' = <<>> /\ \A j \in Slots \ {i} : Q(j)' = Q(j)
      /\ opened' = opened \ {i} /\ i \in opened
  BY ClosedConnType DEF Kill, Q, TypeInv, Table, OpenedMatchesState
<1>2. LentBy(i)' = <<>>
  BY <1>1 DEF LentBy
<1>3. LentNow' = [LentNow EXCEPT ![i] = <<>>]
  BY <1>1, <1>2 DEF LentNow, LentBy
<1>4. Api!Closed(i)
  BY <1>1, <1>3 DEF Api!Closed, LentNow, LentBy, Q
<1> QED BY <1>4 DEF Api!Next

LEMMA SynIsOpened ==
    ASSUME TypeInv, OpenedMatchesState, NEW s \in Segment, HandleListenPort(s)
    PROVE  Api!Next
<1>1. PICK i \in Slots : IsFirst(i, Free) /\ opened' = opened \cup {i}
  BY DEF HandleListenPort
<1>2. i \notin opened
  BY <1>1 DEF IsFirst, Free, OpenedMatchesState, Open
<1>3. \A j \in Slots : Q(j)' = Q(j)
  BY TakenQueueStep DEF TakesRow, QueuesStay
<1>4. LentNow' = LentNow
  BY <1>3 DEF LentNow, LentBy
<1>5. Api!Opened(i)
  BY <1>1, <1>2, <1>4 DEF Api!Opened, LentNow, LentBy, Q
<1> QED BY <1>5 DEF Api!Next

LEMMA ApiStep ==
    ASSUME TableInv, TableInv', BufferOwnership, [AnyNext]_vars
    PROVE  [Api!Next]_Api!apiVars
<1>1. TypeInv /\ TypeInv' /\ OpenedMatchesState /\ OpenedMatchesState'
  BY DEF TableInv
<1>2. CASE UNCHANGED vars
  BY <1>2 DEF vars, Api!apiVars
<1>3. CASE AnyNext /\ opened' = opened
  <2>1. CASE SomeQueueStep
    BY <1>1, <1>3, <2>1, ExchangeStep
  <2>2. CASE QueuesStay
    <3>1. LentNow' = LentNow
      BY <2>2 DEF QueuesStay, LentNow, LentBy
    <3> QED BY <1>3, <3>1 DEF Api!apiVars, LentNow, LentBy, Q
  <2> QED BY <1>1, <2>1, <2>2, StepOfQueues
<1>4. CASE \E i \in Slots, s \in Segment : Target(i, s) /\ Kill(i)
  BY <1>1, <1>4, ConnectedIsOpen, KillIsClosed
<1>5. CASE \E s \in Segment : HandleListenPort(s)
  BY <1>1, <1>5, SynIsOpened
<1> QED BY <1>2, <1>3, <1>4, <1>5, OpensOrCloses

LEMMA ApiInit == Init => Api!Init
<1> SUFFICES ASSUME Init PROVE Api!Init
  OBVIOUS
<1>1. \A i \in Slots : LentBy(i) = <<>>
  BY ClosedConnType DEF Init, LentBy, Q
<1> QED BY <1>1 DEF Api!Init, Init, LentBy, Q

\* The stack keeps the promise of tcp.h: the buffers of a socket come back in
\* the order they were sent, all of them by ev_closed, and a socket is opened
\* and closed in turn (tcp_unbuffer, kill_connection, handle_listen_port).
THEOREM TcpImplementsSocketApi == Spec => ImplementsSocketApi
<1>1. /\ TableInv /\ TableInv' /\ BufferOwnership /\ [Next]_vars
      => [Api!Next]_Api!apiVars
  BY ApiStep, NextIsAny
<1>2. Spec => []TableInv /\ []BufferOwnership
  BY TableInvariant, BuffersHaveOnePlace, PTL
<1> QED BY ApiInit, <1>1, <1>2, PTL DEF Spec, ImplementsSocketApi, Api!Spec

----------------------------------------------------------------------------
\* The same for a module whose steps are steps of the component, some segment
\* arriving or none.

TcpInv ==
    /\ TableInv /\ SendSpaceContiguous /\ BufferOwnership /\ SegmentsReadOwnedBytes

LEMMA TcpInit == Init => TcpInv /\ Api!Init
BY TableInit, SpaceInit, OwnershipInit, ReadInit, ApiInit DEF TcpInv

LEMMA TcpStep ==
    ASSUME TcpInv, [AnyNext]_vars
    PROVE  TcpInv' /\ ConnectionSteps /\ [Api!Next]_Api!apiVars
<1>1. TypeInv /\ TableInv /\ TypeInv'
  BY TypeStep DEF TcpInv, TableInv
<1>2. TableInv'
  BY <1>1, UniqueStep, OpenedStep DEF TableInv
<1>3. SendSpaceContiguous'
  BY <1>1, SpaceStep DEF TcpInv
<1>4. BufferOwnership'
  BY <1>1, StepOfQueues, QueueStepKeeps, StayKeeps DEF TcpInv
<1>5. SegmentsReadOwnedBytes'
  BY <1>1, <1>4, ReadStep DEF TcpInv
<1>6. ConnectionSteps
  BY <1>1, ForwardStep
<1>7. [Api!Next]_Api!apiVars
  BY <1>2, ApiStep DEF TcpInv
<1> QED BY <1>2, <1>3, <1>4, <1>5, <1>6, <1>7 DEF TcpInv
=============================================================================
