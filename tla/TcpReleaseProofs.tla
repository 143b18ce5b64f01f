-------------------------- MODULE TcpReleaseProofs --------------------------
(***************************************************************************)
(* The buffers of the HTTP server's answers, for every number of clients,  *)
(* rows and faults.  A buffer an answer needs is the application's when the *)
(* answer is due, so that every step of the router in TcpNet is one module  *)
(* Tcp allows, and what is proved of Tcp holds of TcpNet.  On a network     *)
(* that keeps segments in order a buffer is given back only when the client *)
(* has read it.                                                             *)
(***************************************************************************)
EXTENDS TcpNetProofs, TcpBufferProofs

----------------------------------------------------------------------------
\* The steps of the router are steps of module Tcp.

\* The buffers of the first n answers to p.
Given(p, n) == UNION {Elems(Replies[p][m]) : m \in 1..n}

Plan(i) == client[tcp_conns[i].remote].plan

\* A row serves the port of the HTTP server, and what it has queued are buffers
\* of the answers to what it has heard.
RowAnswers(i) ==
    /\ tcp_conns[i].state # "CLOSED" => tcp_conns[i].port = HttpPort
    /\ Open(i) => QueuedIn(Q(i)) \subseteq Given(Plan(i), Len(heard[i]))

AnswersInv ==
    /\ NetInv /\ TcpInv /\ NoBufferForgotten
    /\ \A r \in Remotes : client[r].plan \in Plans[r]
    /\ \A i \in Slots : RowAnswers(i)

LEMMA BatchIsResponse ==
    ASSUME NEW ds, Batch(ds), Elems(ds) \subseteq OwnedByApp
    PROVE  ds \in Responses
<1>1. /\ ds \in Seq(Buffers) /\ Len(ds) \in 0..2
      /\ \A k, m \in 1..Len(ds) : ds[k] = ds[m] => k = m
  BY DEF Batch
<1>2. \A k \in 1..Len(ds) : ds[k] \in OwnedByApp
  BY DEF Elems
<1>3. CASE Len(ds) = 0
  BY <1>1, <1>3, EmptySeq DEF Responses
<1>4. CASE Len(ds) = 1
  <2> DEFINE b == ds[1]
             es == <<b>>
  <2>1. b \in OwnedByApp
    BY <1>2, <1>4
  <2>2. ds = es
    <3>1. b \in Buffers
      BY <2>1 DEF OwnedByApp
    <3>2. es \in Seq(Buffers) /\ Len(es) = 1 /\ es[1] = b
      BY <3>1
    <3> HIDE DEF es
    <3>3. \A k \in 1..Len(ds) : ds[k] = es[k]
      BY <1>4, <3>2
    <3> QED BY <1>1, <1>4, <3>2, <3>3, SeqEqual
  <2> QED BY <2>1, <2>2 DEF Responses
<1>5. CASE Len(ds) = 2
  <2> DEFINE b == ds[1]
             c == ds[2]
             es == <<b, c>>
  <2>1. b \in OwnedByApp /\ c \in OwnedByApp /\ b # c
    <3>1. 1 \in 1..Len(ds) /\ 2 \in 1..Len(ds)
      BY <1>5
    <3>2. 1 # 2
      OBVIOUS
    <3> QED BY <1>1, <1>2, <3>1, <3>2
  <2>2. ds = es
    <3>1. b \in Buffers /\ c \in Buffers
      BY <2>1 DEF OwnedByApp
    <3>2. es \in Seq(Buffers) /\ Len(es) = 2 /\ es[1] = b /\ es[2] = c
      BY <3>1
    <3> HIDE DEF es
    <3>3. \A k \in 1..Len(ds) : ds[k] = es[k]
      BY <1>5, <3>2
    <3> QED BY <1>1, <1>5, <3>2, <3>3, SeqEqual
  <2> DEFINE X == {x \in OwnedByApp \X OwnedByApp : x[1] # x[2]}
  <2>3. es \in X
    BY <2>1
  <2>4. es = <<es[1], es[2]>>
    OBVIOUS
  <2> HIDE DEF X, es
  <2>5. es \in {<<p[1], p[2]>> : p \in X}
    BY <2>3, <2>4
  <2> QED BY <2>2, <2>5 DEF Responses, X
<1> QED BY <1>1, <1>3, <1>4, <1>5

\* The buffers of the answer to the next unit are the application's: what the
\* stack has is queued for this row, and then part of an earlier answer, or for
\* the row of another client.
LEMMA AnswerIsOwned ==
    ASSUME AnswersInv, NEW r \in Remotes, NEW s \in Uplink(client[r].plan, r),
           NEW i \in Slots, HandleData(i, s, Reply(r, i))
    PROVE  Reply(r, i) \in Responses
<1> DEFINE p == client[r].plan
           n == Len(heard[i])
           ds == Replies[p][n + 1]
<1>1. /\ n < Len(Replies[p]) /\ Reply(r, i) = ds /\ Batch(ds)
  BY DataAnswer DEF AnswersInv
<1>2. /\ Live(tcp_conns[i]) /\ tcp_conns[i].remote = r /\ n \in Nat
      /\ i \in opened
  BY TargetRight DEF AnswersInv, HandleData, PassesAckStep
<1>3. p \in DOMAIN Asked /\ p \in Plans[r]
  BY PlanType DEF AnswersInv
<1>4. DOMAIN Replies[p] = 1..Len(Replies[p]) /\ Len(Replies[p]) \in Nat
  BY <1>3, RepliesType
<1>5. n + 1 \in DOMAIN Replies[p]
  <2> DEFINE N == Len(Replies[p])
  <2> HIDE DEF N, n
  <2> QED BY <1>1, <1>2, <1>4 DEF N
<1>6. ASSUME NEW b \in Elems(ds), owner[b] = "stack" PROVE FALSE
  <2>1. b \in Buffers
    BY <1>1 DEF Elems, Batch
  <2>2. PICK j \in Slots : b \in QueuedIn(Q(j))
    BY <1>6, <2>1 DEF AnswersInv, TcpInv, BufferOwnership, Q
  <2>3. Open(j)
    <3>1. Q(j) # <<>>
      BY <2>2, EmptySeq DEF QueuedIn
    <3> QED BY <3>1, ClosedIsEmpty DEF ClosedEmpty, AnswersInv, NetInv
  <2> DEFINE x == tcp_conns[j].remote
             q == client[x].plan
  <2>4. x \in Remotes /\ x = tcp_conns[j].remote
    BY <2>3, OpenConnected DEF AnswersInv, NetInv, Connected, Live
  <2>5. b \in Given(q, Len(heard[j]))
    BY <2>2, <2>3 DEF AnswersInv, RowAnswers, Plan
  <2>6. PICK m \in 1..Len(heard[j]) : b \in Elems(Replies[q][m])
    BY <2>5 DEF Given
  <2>7. Len(heard[j]) \in Nat /\ Len(heard[j]) <= Len(Replies[q])
    <3>1. RowRight(j)
      BY DEF AnswersInv, NetInv
    <3> QED BY <2>3, <3>1, LenProperties DEF RowRight, InOrder, Converses
  <2>8. q \in DOMAIN Asked /\ q \in Plans[x]
    BY <2>4, PlanType DEF AnswersInv
  <2>9. m \in DOMAIN Replies[q]
    <3> DEFINE N == Len(Replies[q])
               h == Len(heard[j])
    <3>1. DOMAIN Replies[q] = 1..N /\ N \in Nat
      BY <2>8, RepliesType
    <3>2. m \in 1..h /\ h \in Nat /\ h <= N
      BY <2>7
    <3> HIDE DEF N, h
    <3> QED BY <3>1, <3>2
  <2>10. Elems(Replies[p][n + 1]) \cap Elems(Replies[q][m]) # {}
    BY <1>6, <2>6
  <2> HIDE DEF p, q, n, ds
  <2>11. x = r
    BY <1>3, <1>5, <2>4, <2>8, <2>9, <2>10, BuffersAssumption
  <2>12. p = q
    BY <2>11 DEF p, q
  <2>13. n + 1 = m
    BY <1>3, <1>5, <2>8, <2>9, <2>10, <2>11, <2>12, BuffersAssumption
  <2>14. j = i
    <3>1. tcp_conns[i].port = tcp_conns[j].port
      <4>1. tcp_conns[i].state # "CLOSED" /\ tcp_conns[j].state # "CLOSED"
        BY <1>2, <2>3 DEF Open, AnswersInv, TcpInv, TableInv, OpenedMatchesState
      <4> QED BY <4>1 DEF AnswersInv, RowAnswers
    <3> QED BY <1>2, <2>3, <2>4, <2>11, <3>1
            DEF Open, AnswersInv, TcpInv, TableInv, UniqueConnections
  <2> QED BY <1>2, <2>6, <2>7, <2>13, <2>14 DEF n
<1>7. ASSUME NEW b \in Elems(ds) PROVE b \in OwnedByApp
  <2>1. b \in Buffers
    BY <1>1, <1>7 DEF Elems, Batch
  <2>2. owner[b] \in {"app", "stack"}
    BY <2>1 DEF AnswersInv, NoBufferForgotten, NetInv, TypeInv
  <2> QED BY <1>6, <1>7, <2>1, <2>2 DEF OwnedByApp
<1> HIDE DEF ds
<1> QED BY <1>1, <1>7, BatchIsResponse

----------------------------------------------------------------------------
\* What a step of the router does to a row.

Begun(c) == c.state \in {"SYN", "ESTABLISHED"}

\* The row stays what it is, or is closed or closes, or is taken.
Kept(i) ==
    LET c == tcp_conns[i]
        d == tcp_conns'[i]
    IN  /\ SameEnds(d, c) /\ QueuedIn(d.sendbuf) = QueuedIn(c.sendbuf)
        /\ EarliestUnacked(d) = EarliestUnacked(c)
        /\ Begun(d) => Begun(c)
        /\ d.state # "CLOSED" => c.state # "CLOSED"

Ended(i) ==
    LET c == tcp_conns[i]
        d == tcp_conns'[i]
    IN  /\ ~Begun(d)
        /\ \/ d.state = "CLOSED"
           \/ /\ c.state # "CLOSED" /\ SameEnds(d, c)
              /\ QueuedIn(d.sendbuf) \subseteq QueuedIn(c.sendbuf)

Taken(i) ==
    LET d == tcp_conns'[i]
    IN  /\ ~Open(i) /\ d.port = HttpPort /\ d.sendbuf = <<>>
        /\ Begun(d) => d.nextOut = Num(0)

\* It has taken the acknowledgement of s, and sends ds.
Answered(i, s, ds) ==
    LET c == tcp_conns[i]
        a == Acknowledged(c, s)
        d == tcp_conns'[i]
    IN  /\ Target(i, s) /\ c.state = "ESTABLISHED" /\ d.state = "ESTABLISHED"
        /\ SameEnds(d, c)
        /\ EarliestUnacked(d) = EarliestUnacked(a)
        /\ QueuedIn(d.sendbuf) = QueuedIn(a.sendbuf) \cup Elems(ds)

Settled(i) ==
    /\ Kept(i) \/ Ended(i) \/ Taken(i)
    /\ i \in opened' => heard'[i] = heard[i]

Outcome(i, s) ==
    \/ Settled(i)
    \/ \E ds :
        /\ Answered(i, s, ds)
        /\ Given(Plan(i), Len(heard'[i])) =
                Given(Plan(i), Len(heard[i])) \cup Elems(ds)

LEMMA SameKept ==
    ASSUME NEW i \in Slots,
           tcp_conns'[i].state = tcp_conns[i].state, SameEnds(tcp_conns'[i], tcp_conns[i]),
           tcp_conns'[i].sendbuf = tcp_conns[i].sendbuf,
           tcp_conns'[i].nextOut = tcp_conns[i].nextOut
    PROVE  Kept(i)
BY DEF Kept, EarliestUnacked, Begun

LEMMA OthersKept ==
    ASSUME NetInv, NEW i \in Slots, NEW c, tcp_conns' = [tcp_conns EXCEPT ![i] = c]
    PROVE  /\ tcp_conns'[i] = c
           /\ \A j \in Slots \ {i} : tcp_conns'[j] = tcp_conns[j] /\ Kept(j)
<1>1. tcp_conns'[i] = c /\ \A j \in Slots \ {i} : tcp_conns'[j] = tcp_conns[j]
  BY DEF NetInv, TypeInv, Table
<1> QED BY <1>1, SameKept DEF SameEnds

LEMMA KillOutcome ==
    ASSUME NetInv, NEW i \in Slots, Kill(i)
    PROVE  \A j \in Slots : Kept(j) \/ Ended(j)
<1>1. tcp_conns'[i] = ClosedConn /\ \A j \in Slots \ {i} : Kept(j)
  BY OthersKept DEF Kill
<1>2. Ended(i)
  BY <1>1 DEF Ended, Begun, ClosedConn
<1> QED BY <1>1, <1>2

LEMMA ListenOutcome ==
    ASSUME NetInv, TcpNewListenSock(HttpPort)
    PROVE  \A j \in Slots : Kept(j) \/ Taken(j)
<1> DEFINE c == [ClosedConn EXCEPT !.state = "LISTENING", !.port = HttpPort]
<1>1. PICK i \in Slots : IsLast(i, Free) /\ tcp_conns' = [tcp_conns EXCEPT ![i] = c]
  BY DEF TcpNewListenSock
<1>2. c.port = HttpPort /\ c.sendbuf = <<>> /\ ~Begun(c)
  BY DEF ClosedConn, Begun
<1> HIDE DEF c
<1>3. tcp_conns'[i] = c /\ \A j \in Slots \ {i} : Kept(j)
  BY <1>1, OthersKept
<1>4. ~Open(i)
  BY <1>1 DEF IsLast, Free, Open
<1> QED BY <1>2, <1>3, <1>4 DEF Taken

LEMMA SynOutcome ==
    ASSUME AnswersInv, NEW s \in Segment, HandleListenPort(s)
    PROVE  \A j \in Slots : Kept(j) \/ Taken(j)
<1> DEFINE e == [ClosedConn EXCEPT !.state = "SYN", !.remote = s.remote,
                    !.port = s.port, !.incoming = (s.seq + 1) % SeqSpace,
                    !.nextOut = InitSeq]
           c == CommitSequenceRange(e, 1)
<1>1. PICK i \in Slots : IsFirst(i, Free) /\ tcp_conns' = [tcp_conns EXCEPT ![i] = c]
  BY DEF HandleListenPort
<1>2. s.port = HttpPort
  <2>1. PICK j \in Slots : tcp_conns[j].state # "CLOSED" /\ tcp_conns[j].port = s.port
    BY DEF HandleListenPort, Listeners
  <2> QED BY <2>1 DEF AnswersInv, RowAnswers
<1>3. c.port = HttpPort /\ c.sendbuf = <<>> /\ c.nextOut = (InitSeq + 1) % SeqSpace
  BY <1>2 DEF ClosedConn, CommitSequenceRange
<1>4. InitSeq + 1 + 0 = InitSeq + 1
  BY SeqAssumption DEF SeqNo
<1> HIDE DEF c
<1>5. tcp_conns'[i] = c /\ \A j \in Slots \ {i} : Kept(j)
  BY <1>1, OthersKept DEF AnswersInv
<1>6. ~Open(i)
  BY <1>1 DEF IsFirst, Free, Open
<1> QED BY <1>3, <1>4, <1>5, <1>6 DEF Taken, Num

LEMMA EstablishOutcome ==
    ASSUME NetInv, NEW i \in Slots, NEW s \in Segment, EstablishConnection(i, s)
    PROVE  \A j \in Slots : Kept(j)
<1> DEFINE c == [tcp_conns[i] EXCEPT !.state = "ESTABLISHED"]
<1>1. /\ tcp_conns[i].state = "SYN" /\ tcp_conns[i] \in TcpConn
      /\ tcp_conns' = [tcp_conns EXCEPT ![i] = c]
  BY DEF EstablishConnection, NetInv, TypeInv, Table
<1>2. /\ c.state = "ESTABLISHED" /\ SameEnds(c, tcp_conns[i])
      /\ c.sendbuf = tcp_conns[i].sendbuf /\ c.nextOut = tcp_conns[i].nextOut
  BY <1>1 DEF TcpConn, SameEnds
<1> HIDE DEF c
<1>3. tcp_conns'[i] = c /\ \A j \in Slots \ {i} : Kept(j)
  BY <1>1, OthersKept
<1>4. Kept(i)
  BY <1>1, <1>2, <1>3 DEF Kept, EarliestUnacked, Begun
<1> QED BY <1>3, <1>4

LEMMA TimerOutcome ==
    ASSUME NetInv, TcpProcess \/ \E i \in Slots : Elapse(i)
    PROVE  \A j \in Slots : Kept(j)
<1> SUFFICES ASSUME NEW j \in Slots PROVE Kept(j)
  OBVIOUS
<1>1. tcp_conns[j] \in TcpConn /\ tcp_conns \in [Slots -> TcpConn]
  BY DEF NetInv, TypeInv, Table
<1>2. \E b : \/ tcp_conns'[j] = tcp_conns[j]
             \/ tcp_conns'[j] = [tcp_conns[j] EXCEPT !.due = b]
  <2>1. CASE TcpProcess
    BY <2>1 DEF TcpProcess
  <2>2. CASE \E i \in Slots : Elapse(i)
    BY <1>1, <2>2 DEF Elapse
  <2> QED BY <2>1, <2>2
<1> QED BY <1>1, <1>2, SameKept DEF TcpConn, SameEnds

LEMMA AckShortens ==
    ASSUME NEW c, Live(c), NEW s \in Segment
    PROVE  QueuedIn(Acknowledged(c, s).sendbuf) \subseteq QueuedIn(c.sendbuf)
<1>1. Len(c.sendbuf) \in Nat
  BY LenProperties DEF Live, TcpConn
<1>2. PICK d \in 0..Len(c.sendbuf) :
            QueuedIn(Acknowledged(c, s).sendbuf) = Behind(c.sendbuf, d)
  BY AckRequeues
<1>3. \A k \in (d + 1)..Len(c.sendbuf) : k \in 1..Len(c.sendbuf)
  BY <1>1
<1>4. Behind(c.sendbuf, d) \subseteq QueuedIn(c.sendbuf)
  BY <1>3 DEF Behind, QueuedIn
<1> QED BY <1>2, <1>4

LEMMA AckOutcome ==
    ASSUME NetInv, NEW r \in Remotes, NEW s \in Uplink(client[r].plan, r),
           NEW i \in Slots, HandleAck(i, s)
    PROVE  /\ \A j \in Slots \ {i} : Kept(j)
           /\ Ended(i) \/ Answered(i, s, <<>>)
<1> DEFINE a == Acknowledged(tcp_conns[i], s)
<1>1. /\ Target(i, s) /\ tcp_conns[i].state # "SYN"
      /\ tcp_conns' = [tcp_conns EXCEPT ![i] = a]
  BY DEF HandleAck, PassesAckStep
<1>2. /\ s \in Segment /\ Live(tcp_conns[i])
      /\ tcp_conns[i].state \in {"SYN", "ESTABLISHED", "LAST_ACK"}
  BY <1>1, TargetRight DEF Converses
<1>3. SameEnds(a, tcp_conns[i]) /\ a.state = tcp_conns[i].state
  BY <1>2, AcknowledgedLive
<1>4. QueuedIn(a.sendbuf) \subseteq QueuedIn(tcp_conns[i].sendbuf)
  BY <1>2, AckShortens
<1> HIDE DEF a
<1>5. tcp_conns'[i] = a /\ \A j \in Slots \ {i} : Kept(j)
  BY <1>1, OthersKept
<1>6. CASE tcp_conns[i].state = "LAST_ACK"
  BY <1>3, <1>4, <1>5, <1>6 DEF Ended, Begun
<1>7. CASE tcp_conns[i].state = "ESTABLISHED"
  BY <1>1, <1>3, <1>5, <1>7, NoBatch DEF Answered, a
<1> QED BY <1>1, <1>2, <1>5, <1>6, <1>7

LEMMA FinOutcome ==
    ASSUME NetInv, NEW r \in Remotes, NEW s \in Uplink(client[r].plan, r),
           NEW i \in Slots, HandleFin(i, s)
    PROVE  \A j \in Slots : Kept(j) \/ Ended(j)
<1> DEFINE a == Acknowledged(tcp_conns[i], s)
           c == [a EXCEPT !.incoming = (@ + 1) % SeqSpace]
<1>1. /\ Target(i, s)
      /\ \/ Kill(i)
         \/ tcp_conns' = [tcp_conns EXCEPT ![i] = FinSent(c)]
  BY DEF HandleFin, PassesAckStep
<1>2. s \in Segment /\ Live(tcp_conns[i]) /\ tcp_conns[i].state # "CLOSED"
  BY <1>1, TargetRight DEF Converses
<1>3. SameEnds(a, tcp_conns[i]) /\ a \in TcpConn
  BY <1>2, AcknowledgedLive DEF Live
<1>4. QueuedIn(a.sendbuf) \subseteq QueuedIn(tcp_conns[i].sendbuf)
  BY <1>2, AckShortens
<1> HIDE DEF a
<1> DEFINE d == FinSent(c)
<1>5. d.state = "LAST_ACK" /\ SameEnds(d, a) /\ d.sendbuf = a.sendbuf
  BY <1>3 DEF FinSent, CommitSequenceRange, TcpConn, SameEnds
<1> HIDE DEF d
<1>6. CASE tcp_conns' = [tcp_conns EXCEPT ![i] = d]
  <2>1. tcp_conns'[i] = d /\ \A j \in Slots \ {i} : Kept(j)
    BY <1>6, OthersKept
  <2>2. Ended(i)
    BY <1>2, <1>3, <1>4, <1>5, <2>1 DEF Ended, Begun, SameEnds
  <2> QED BY <2>1, <2>2
<1> QED BY <1>1, <1>6, KillOutcome DEF d

LEMMA SendKeepsUnacked ==
    ASSUME NEW c, Live(c), NEW d \in Buffers
    PROVE  EarliestUnacked(Sent(c, d)) = EarliestUnacked(c)
<1> DEFINE q == c.sendbuf
           u == Sent(c, d).sendbuf
<1>1. q \in Seq(TcpBuf) /\ Len(q) \in Nat /\ c.nextOut \in SeqNo
  BY LenProperties DEF Live, TcpConn
<1>2. /\ Len(u) = Len(q) + 1 /\ \A k \in 1..Len(q) : u[k] = q[k]
      /\ u[Len(q) + 1] = NewBuf(c, d)
  BY SentLive
<1>3. u # <<>>
  <2> HIDE DEF u
  <2> QED BY <1>1, <1>2
<1>4. CASE q = <<>>
  <2>1. u[1] = NewBuf(c, d)
    BY <1>2, <1>4
  <2>2. u[1].seq + u[1].ofs = c.nextOut
    BY <1>1, <2>1 DEF NewBuf, SeqNo
  <2>3. c.nextOut % SeqSpace = c.nextOut
    BY <1>1, ModIdentity, SeqAssumption DEF SeqNo
  <2> QED BY <1>3, <1>4, <2>2, <2>3 DEF EarliestUnacked
<1>5. CASE q # <<>>
  <2>1. u[1] = q[1]
    BY <1>1, <1>2, <1>5, EmptySeq
  <2> QED BY <1>3, <1>5, <2>1 DEF EarliestUnacked
<1> QED BY <1>4, <1>5

LEMMA SendAllKeepsUnacked ==
    ASSUME NEW c, Live(c), NEW ds, Batch(ds)
    PROVE  EarliestUnacked(SendAll(c, ds)) = EarliestUnacked(c)
<1>1. Len(ds) \in 0..2 /\ \A k \in 1..Len(ds) : ds[k] \in Buffers
  BY BatchType
<1>2. CASE Len(ds) = 0
  BY <1>2 DEF SendAll
<1>3. CASE Len(ds) = 1
  <2>1. ds[1] \in Buffers
    BY <1>1, <1>3
  <2> QED BY <1>3, <2>1, SendKeepsUnacked DEF SendAll
<1>4. CASE Len(ds) = 2
  <2>1. ds[1] \in Buffers /\ ds[2] \in Buffers
    BY <1>1, <1>4
  <2>2. Live(Sent(c, ds[1]))
    BY <2>1, SentLive
  <2> QED BY <1>4, <2>1, <2>2, SendKeepsUnacked DEF SendAll
<1> QED BY <1>1, <1>2, <1>3, <1>4

LEMMA SendAllQueues ==
    ASSUME NEW c, Live(c), NEW ds, Batch(ds)
    PROVE  QueuedIn(SendAll(c, ds).sendbuf) = QueuedIn(c.sendbuf) \cup Elems(ds)
<1> DEFINE q == c.sendbuf
           u == SendAll(c, ds).sendbuf
           L == Len(q)
           D == Len(ds)
<1>1. L \in Nat /\ D \in Nat
  BY LenProperties, BatchType DEF Live, TcpConn
<1>2. /\ Len(u) = L + D /\ \A k \in 1..L : u[k] = q[k]
      /\ \A k \in 1..D : u[L + k].data = ds[k]
  BY SendAllLive
<1> HIDE DEF u, q
<1>3. ASSUME NEW b \in QueuedIn(u) PROVE b \in QueuedIn(q) \cup Elems(ds)
  <2>1. PICK k \in 1..(L + D) : b = u[k].data
    BY <1>2 DEF QueuedIn
  <2>2. CASE k <= L
    <3>1. k \in 1..L
      BY <1>1, <2>2
    <3> QED BY <1>2, <2>1, <3>1 DEF QueuedIn
  <2>3. CASE ~(k <= L)
    <3>1. k - L \in 1..D /\ L + (k - L) = k
      BY <1>1, <2>3
    <3>2. b = ds[k - L]
      BY <1>2, <2>1, <3>1
    <3> QED BY <3>1, <3>2 DEF Elems
  <2> QED BY <2>2, <2>3
<1>4. ASSUME NEW b \in QueuedIn(q) PROVE b \in QueuedIn(u)
  <2>1. PICK k \in 1..L : b = q[k].data
    BY DEF QueuedIn
  <2>2. k \in 1..(L + D)
    BY <1>1
  <2> QED BY <1>2, <2>1, <2>2 DEF QueuedIn
<1>5. ASSUME NEW b \in Elems(ds) PROVE b \in QueuedIn(u)
  <2>1. PICK k \in 1..D : b = ds[k]
    BY DEF Elems
  <2>2. L + k \in 1..(L + D)
    BY <1>1
  <2> QED BY <1>2, <2>1, <2>2 DEF QueuedIn
<1> QED BY <1>3, <1>4, <1>5 DEF u, q

LEMMA GivenNext ==
    ASSUME NEW p, NEW n \in Nat
    PROVE  Given(p, n + 1) = Given(p, n) \cup Elems(Replies[p][n + 1])
<1>1. \A m : m \in 1..(n + 1) <=> m \in 1..n \/ m = n + 1
  OBVIOUS
<1> QED BY <1>1 DEF Given

LEMMA DataOutcome ==
    ASSUME NetInv, NEW r \in Remotes, NEW s \in Uplink(client[r].plan, r),
           NEW i \in Slots, HandleData(i, s, Reply(r, i)), Heard(i, <<s.ofs>>)
    PROVE  \A j \in Slots : Outcome(j, s)
<1> DEFINE ds == Reply(r, i)
           a == Acknowledged(tcp_conns[i], s)
           c == [a EXCEPT !.incoming = (s.seq + s.len) % SeqSpace]
           e == SendAll(c, ds)
           n == Len(heard[i])
<1>1. /\ tcp_conns[i].state = "ESTABLISHED" /\ s.ofs = n + 1
      /\ ds = Replies[client[r].plan][n + 1] /\ Batch(ds)
  BY DataAnswer
<1>2. Target(i, s) /\ opened' = opened
  BY DEF HandleData, PassesAckStep
<1>3. s \in Segment /\ Live(tcp_conns[i]) /\ tcp_conns[i].remote = r /\ n \in Nat
  BY <1>2, TargetRight
<1>4. Live(a) /\ SameEnds(a, tcp_conns[i]) /\ a.state = "ESTABLISHED"
  BY <1>1, <1>3, AcknowledgedLive
<1>5. tcp_conns' = [tcp_conns EXCEPT ![i] = IF c.state = "ESTABLISHED" THEN e ELSE c]
  BY DEF HandleData
<1>6. (s.seq + s.len) % SeqSpace \in SeqNo
  BY <1>3, SegmentNumbers
<1> HIDE DEF a
<1>7. /\ Live(c) /\ SameEnds(c, a) /\ c.sendbuf = a.sendbuf /\ c.nextOut = a.nextOut
      /\ c.state = "ESTABLISHED"
  BY <1>4, <1>6 DEF Live, TcpConn, SameEnds
<1> HIDE DEF c, ds
<1>8. e.state = "ESTABLISHED" /\ SameEnds(e, c)
  BY <1>1, <1>7, SendAllLive
<1>9. EarliestUnacked(e) = EarliestUnacked(a)
  BY <1>1, <1>7, SendAllKeepsUnacked DEF EarliestUnacked
<1>10. QueuedIn(e.sendbuf) = QueuedIn(a.sendbuf) \cup Elems(ds)
  BY <1>1, <1>7, SendAllQueues
<1> HIDE DEF e
<1>11. tcp_conns'[i] = e /\ \A j \in Slots \ {i} : Kept(j)
  BY <1>5, <1>7, OthersKept
<1>12. Answered(i, s, ds)
  BY <1>1, <1>2, <1>4, <1>7, <1>8, <1>9, <1>10, <1>11 DEF Answered, a, SameEnds
<1>13. i \in opened' /\ Len(heard'[i]) = n + 1
  <2>1. i \in opened
    BY <1>2, TargetRight
  <2>2. heard'[i] = heard[i] \o <<s.ofs>>
    BY <1>2, <2>1 DEF Heard
  <2>3. heard[i] \in Seq(Nat) /\ <<s.ofs>> \in Seq(Nat) /\ Len(<<s.ofs>>) = 1
    BY <1>3 DEF NetInv, Segment
  <2> QED BY <1>2, <2>1, <2>2, <2>3, ConcatProperties
<1>14. Given(Plan(i), Len(heard'[i])) = Given(Plan(i), Len(heard[i])) \cup Elems(ds)
  BY <1>1, <1>3, <1>13, GivenNext DEF Plan
<1>15. \A j \in Slots \ {i} : j \in opened' => heard'[j] = heard[j]
  <2>1. \A j \in Slots : heard[j] \o <<>> = heard[j]
    BY ConcatEmptySeq DEF NetInv
  <2> QED BY <2>1 DEF Heard
<1> QED BY <1>11, <1>12, <1>14, <1>15 DEF Outcome, Settled

LEMMA ControlOutcome ==
    ASSUME AnswersInv, NEW r \in Remotes, NEW s \in Uplink(client[r].plan, r),
           Control(s), Heard(0, <<>>)
    PROVE  \A j \in Slots : Outcome(j, s)
<1> USE DEF AnswersInv
<1>1. \A j \in Slots : j \in opened' => heard'[j] = heard[j]
  BY ControlHeard
<1>2. s \in Segment
  BY DEF Uplink
<1>3. SUFFICES \A j \in Slots :
                    Kept(j) \/ Ended(j) \/ Taken(j) \/ (Answered(j, s, <<>>) /\ j \in opened')
  BY <1>1, NoBatch DEF Outcome, Settled
<1>4. CASE HandleListenPort(s)
  BY <1>2, <1>4, SynOutcome
<1>5. ASSUME NEW i \in Slots, EstablishConnection(i, s)
      PROVE \A j \in Slots : Kept(j)
  BY <1>2, <1>5, EstablishOutcome
<1>6. ASSUME NEW i \in Slots, ConnectionReset(i, s) \/ LastAck(i, s)
      PROVE \A j \in Slots : Kept(j) \/ Ended(j)
  BY <1>6, KillOutcome DEF ConnectionReset, LastAck
<1>7. ASSUME NEW i \in Slots, HandleFin(i, s)
      PROVE \A j \in Slots : Kept(j) \/ Ended(j)
  BY <1>7, FinOutcome
<1>8. ASSUME NEW i \in Slots, HandleAck(i, s)
      PROVE \A j \in Slots : Kept(j) \/ Ended(j) \/ (Answered(j, s, <<>>) /\ j \in opened')
  <2>1. Target(i, s) /\ opened' = opened
    BY <1>8 DEF HandleAck, PassesAckStep
  <2>2. i \in opened
    BY <2>1, TargetRight
  <2> QED BY <1>8, <2>1, <2>2, AckOutcome
<1> QED BY <1>4, <1>5, <1>6, <1>7, <1>8 DEF Control

----------------------------------------------------------------------------
\* Every step of the composition is a step of module Tcp, and keeps AnswersInv.

LEMMA ReceiveIsStep ==
    ASSUME AnswersInv, NEW r \in Remotes, ServerReceive(r),
           NEW s, s = Head(toServer[r])
    PROVE  /\ s \in Uplink(client[r].plan, r) /\ s \in Segment
           /\ [AnyNext]_vars /\ (\A j \in Slots : Outcome(j, s)) /\ NoBufferForgotten'
<1> USE DEF AnswersInv
<1>1. /\ toServer[r] # <<>>
      /\ \/ Control(s) /\ Heard(0, <<>>)
         \/ \E i \in Slots : HandleData(i, s, Reply(r, i)) /\ Heard(i, <<s.ofs>>)
         \/ Ignored(s) /\ UNCHANGED <<vars, heard>>
  BY DEF ServerReceive
<1>2. s \in Uplink(client[r].plan, r)
  <2> DEFINE U == Uplink(client[r].plan, r)
  <2>1. toServer[r] \in Seq(U)
    BY QueuesSame
  <2> HIDE DEF U
  <2>2. s \in U
    BY <1>1, <2>1, HeadTailProperties
  <2> QED BY <2>2 DEF U
<1>3. s \in Segment
  BY <1>2 DEF Uplink
<1>4. CASE Control(s) /\ Heard(0, <<>>)
  <2>1. Receive(s)
    BY <1>4 DEF Receive
  <2>2. NoBufferForgotten'
    <3>1. owner' = owner \/ \E S : owner' = Own(S, "app")
      BY <1>4 DEF Control, HandleListenPort, EstablishConnection, ConnectionReset,
                  LastAck, HandleFin, HandleAck, Kill
    <3> QED BY <3>1 DEF NoBufferForgotten, Own
  <2> QED BY <1>2, <1>3, <1>4, <2>1, <2>2, ControlOutcome DEF AnyNext
<1>5. ASSUME NEW i \in Slots, HandleData(i, s, Reply(r, i)), Heard(i, <<s.ofs>>)
      PROVE  Receive(s) /\ (\A j \in Slots : Outcome(j, s)) /\ NoBufferForgotten'
  <2>1. Reply(r, i) \in Responses
    BY <1>2, <1>5, AnswerIsOwned
  <2>2. Receive(s)
    BY <1>5, <2>1 DEF Receive
  <2>3. \A j \in Slots : Outcome(j, s)
    BY <1>2, <1>5, DataOutcome
  <2>4. NoBufferForgotten'
    <3> DEFINE a == Acknowledged(tcp_conns[i], s)
               c == [a EXCEPT !.incoming = (s.seq + s.len) % SeqSpace]
    <3>1. Live(tcp_conns[i]) /\ tcp_conns[i].state = "ESTABLISHED"
      <4>1. Target(i, s)
        BY <1>5 DEF HandleData, PassesAckStep
      <4>2. Live(tcp_conns[i])
        BY <1>2, <4>1, TargetRight
      <4>3. tcp_conns[i].state = "ESTABLISHED"
        BY <1>2, <1>5, DataAnswer
      <4> QED BY <4>2, <4>3
    <3>2. Live(a) /\ a.state = "ESTABLISHED"
      BY <1>3, <3>1, AcknowledgedLive
    <3>3. c.state = "ESTABLISHED"
      <4> HIDE DEF a
      <4> QED BY <3>2 DEF Live, TcpConn
    <3>4. owner' = [b \in Buffers |->
                IF b \in Elems(Reply(r, i))
                THEN IF c.state = "ESTABLISHED" THEN "stack" ELSE "dropped"
                ELSE IF b \in Released(i, a.sendbuf) THEN "app" ELSE owner[b]]
      BY <1>5 DEF HandleData
    <3> HIDE DEF a, c
    <3> QED BY <3>3, <3>4 DEF NoBufferForgotten
  <2> QED BY <2>2, <2>3, <2>4
<1>6. CASE Ignored(s) /\ UNCHANGED <<vars, heard>>
  <2>1. \A j \in Slots : Kept(j)
    BY <1>6, SameKept DEF vars, SameEnds
  <2> QED BY <1>2, <1>3, <1>6, <2>1 DEF Outcome, Settled, vars, NoBufferForgotten
<1> QED BY <1>1, <1>2, <1>3, <1>4, <1>5, <1>6 DEF AnyNext

LEMMA RouterIsStep ==
    ASSUME AnswersInv, \/ ServerListen \/ ServerProcess
                       \/ \E i \in Slots : ServerElapse(i) \/ ServerClockSet(i)
    PROVE  /\ AnyNext /\ (\A j \in Slots : Settled(j)) /\ NoBufferForgotten'
           /\ client' = client /\ toServer' = toServer
<1> USE DEF AnswersInv
<1>1. CASE ServerListen
  <2>1. /\ TcpNewListenSock(HttpPort) /\ heard' = heard /\ client' = client
        /\ toServer' = toServer /\ owner' = owner
    BY <1>1 DEF ServerListen, netVars, TcpNewListenSock
  <2>2. HttpPort \in Ports
    BY NetAssumption
  <2> QED BY <2>1, <2>2, ListenOutcome DEF Settled, AnyNext, NoBufferForgotten
<1>2. CASE \/ ServerProcess \/ \E i \in Slots : ServerElapse(i) \/ ServerClockSet(i)
  <2>1. /\ TcpProcess \/ \E i \in Slots : Elapse(i)
        /\ heard' = heard /\ client' = client /\ toServer' = toServer /\ owner' = owner
    BY <1>2 DEF ServerProcess, ServerElapse, ServerClockSet, netVars, TcpProcess, Elapse
  <2> QED BY <2>1, TimerOutcome DEF Settled, AnyNext, NoBufferForgotten
<1> QED BY <1>1, <1>2

LEMMA AnswersKept ==
    ASSUME AnswersInv, NetInv', TcpInv', NoBufferForgotten',
           \A r \in Remotes : client'[r].plan = client[r].plan,
           NEW s, \A j \in Slots : Settled(j) \/ (s \in Segment /\ Outcome(j, s))
    PROVE  AnswersInv'
<1>1. SUFFICES ASSUME NEW j \in Slots PROVE RowAnswers(j)'
  BY DEF AnswersInv
<1>2. RowAnswers(j) /\ (~Open(j) => Q(j) = <<>>)
  BY ClosedIsEmpty DEF AnswersInv, NetInv, ClosedEmpty
<1>3. Open(j)' => j \in opened'
  BY DEF NetInv, RowRight
<1>4. QueuedIn(<<>>) = {}
  BY DEF QueuedIn
<1>5. Open(j)' => tcp_conns'[j].remote \in Remotes
  BY DEF TcpInv, TableInv, TypeInv, Table, Row, Listening, Connected, Live, ClosedConn, Open
<1>6. ASSUME SameEnds(tcp_conns'[j], tcp_conns[j])
      PROVE  Open(j)' => Plan(j)' = Plan(j)
  BY <1>5, <1>6 DEF Plan, SameEnds
<1>7. CASE Settled(j)
  <2>1. CASE Kept(j)
    BY <1>2, <1>3, <1>4, <1>6, <1>7, <2>1 DEF Settled, Kept, RowAnswers, SameEnds, Q
  <2>2. CASE Ended(j)
    BY <1>2, <1>3, <1>4, <1>6, <1>7, <2>2 DEF Settled, Ended, RowAnswers, SameEnds, Q, Open
  <2>3. CASE Taken(j)
    BY <1>4, <2>3 DEF Taken, RowAnswers, Q
  <2> QED BY <1>7, <2>1, <2>2, <2>3 DEF Settled
<1>8. CASE s \in Segment /\ Outcome(j, s) /\ ~Settled(j)
  <2>1. PICK ds : /\ Answered(j, s, ds)
                  /\ Given(Plan(j), Len(heard'[j])) =
                        Given(Plan(j), Len(heard[j])) \cup Elems(ds)
    BY <1>8 DEF Outcome
  <2>2. Target(j, s) /\ tcp_conns[j].state = "ESTABLISHED" /\ Live(tcp_conns[j])
    BY <1>8, <2>1, TargetConnected DEF Answered, AnswersInv, NetInv, Connected
  <2>3. QueuedIn(Acknowledged(tcp_conns[j], s).sendbuf) \subseteq QueuedIn(Q(j))
    BY <1>8, <2>2, AckShortens DEF Q
  <2> QED BY <1>2, <1>6, <2>1, <2>2, <2>3 DEF Answered, RowAnswers, Open, SameEnds, Q
<1> QED BY <1>7, <1>8

LEMMA PlansStay ==
    ASSUME NetInv, \/ \E r \in Remotes : ClientStep(r) \/ ClientRetransmit(r) \/ Fault(r)
                   \/ UNCHANGED allVars
    PROVE  \A x \in Remotes : client'[x].plan = client[x].plan
<1>1. client \in [Remotes -> Client]
  BY DEF NetInv
<1>2. ASSUME NEW r \in Remotes, ClientOpen(r) \/ ClientSend(r) \/ ClientClose(r)
      PROVE  \A x \in Remotes : client'[x].plan = client[x].plan
  <2>1. client[r] \in Client
    BY <1>1
  <2>2. PICK st, n : client' = [client EXCEPT ![r] = [client[r] EXCEPT !.state = st, !.nxt = n]]
    <3>1. CASE ClientOpen(r)
      BY <1>1, <3>1 DEF ClientOpen
    <3>2. CASE ClientSend(r)
      <4>1. client' = [client EXCEPT ![r] = [client[r] EXCEPT !.nxt = client[r].nxt + 1]]
        BY <3>2 DEF ClientSend
      <4>2. client[r] = [client[r] EXCEPT !.state = client[r].state]
        BY <2>1 DEF Client
      <4>3. client' = [client EXCEPT ![r] =
                [client[r] EXCEPT !.state = client[r].state, !.nxt = client[r].nxt + 1]]
        BY <4>1, <4>2
      <4> QED BY <4>3
    <3>3. CASE ClientClose(r)
      BY <1>1, <3>3 DEF ClientClose
    <3> QED BY <1>2, <3>1, <3>2, <3>3
  <2> QED BY <1>1, <2>1, <2>2 DEF Client
<1>3. ASSUME NEW r \in Remotes, ClientReceive(r)
      PROVE  \A x \in Remotes : client'[x].plan = client[x].plan
  <2> DEFINE s == Head(toClient[r])
             c == Received(r, s)
  <2>1. client' = [client EXCEPT ![r] = c] /\ client[r].state # "IDLE" /\ toClient[r] # <<>>
    BY <1>3 DEF ClientReceive
  <2>2. s \in Downlink(client[r].plan, r)
    <3> DEFINE D == Downlink(client[r].plan, r)
    <3>1. toClient[r] \in Seq(D)
      BY QueuesSame
    <3> HIDE DEF D
    <3>2. s \in D
      BY <2>1, <3>1, HeadTailProperties
    <3> QED BY <3>2 DEF D
  <2>3. c.plan = client[r].plan
    <3> HIDE DEF s
    <3> QED BY <2>1, <2>2, ReceivedRight
  <2> HIDE DEF c
  <2> QED BY <1>1, <2>1, <2>3
<1> QED BY <1>2, <1>3 DEF ClientStep, ClientRetransmit, Fault, allVars, netVars

LEMMA NetIsStep ==
    ASSUME AnswersInv, [NetNext]_allVars
    PROVE  [AnyNext]_vars /\ AnswersInv'
<1>1. NetInv'
  BY NetStep DEF AnswersInv
<1>2. TcpInv /\ ([AnyNext]_vars => TcpInv')
  BY TcpStep DEF AnswersInv
<1>3. CASE \/ ServerListen \/ ServerProcess
           \/ \E i \in Slots : ServerElapse(i) \/ ServerClockSet(i)
  <2>1. /\ AnyNext /\ (\A j \in Slots : Settled(j)) /\ NoBufferForgotten'
        /\ client' = client
    BY <1>3, RouterIsStep
  <2> QED BY <1>1, <1>2, <2>1, AnswersKept
<1>4. ASSUME NEW r \in Remotes, ServerReceive(r)
      PROVE  [AnyNext]_vars /\ AnswersInv'
  <2> DEFINE s == Head(toServer[r])
  <2>1. /\ s \in Segment /\ [AnyNext]_vars /\ (\A j \in Slots : Outcome(j, s))
        /\ NoBufferForgotten'
    BY <1>4, ReceiveIsStep
  <2>2. client' = client
    BY <1>4 DEF ServerReceive
  <2> HIDE DEF s
  <2> QED BY <1>1, <1>2, <2>1, <2>2, AnswersKept
<1>5. CASE \/ \E r \in Remotes : ClientStep(r) \/ ClientRetransmit(r) \/ Fault(r)
           \/ UNCHANGED allVars
  <2>1. UNCHANGED vars /\ heard' = heard
    BY <1>5 DEF ClientStep, ClientOpen, ClientSend, ClientClose, ClientReceive,
                ClientRetransmit, Fault, allVars, netVars
  <2>2. \A x \in Remotes : client'[x].plan = client[x].plan
    BY <1>5, PlansStay DEF AnswersInv
  <2>3. (\A j \in Slots : Kept(j)) /\ NoBufferForgotten'
    BY <2>1, SameKept DEF vars, SameEnds, AnswersInv, NoBufferForgotten
  <2> QED BY <1>1, <1>2, <2>1, <2>2, <2>3, AnswersKept DEF Settled
<1> QED BY <1>3, <1>4, <1>5 DEF NetNext

LEMMA AnswersInit == NetInit => AnswersInv /\ Api!Init
<1> SUFFICES ASSUME NetInit PROVE AnswersInv /\ Api!Init
  OBVIOUS
<1>1. NetInv /\ TcpInv /\ Api!Init
  BY NetInit_NetInv, TcpInit DEF NetInit
<1>2. NoBufferForgotten /\ \A i \in Slots : tcp_conns[i] = ClosedConn
  BY DEF NetInit, Init, NoBufferForgotten
<1>3. \A i \in Slots : RowAnswers(i)
  BY <1>2 DEF RowAnswers, ClosedConn, Open
<1>4. \A r \in Remotes : client[r].plan \in Plans[r]
  BY DEF NetInit
<1> QED BY <1>1, <1>2, <1>3, <1>4 DEF AnswersInv

\* The buffers of an answer are the application's when the answer is due, so that
\* every step of the router is one module Tcp allows (httpserv.c:457-494).
THEOREM AnswersInvariant == NetSpec => []AnswersInv
<1>1. AnswersInv /\ [NetNext]_allVars => AnswersInv'
  BY NetIsStep
<1> QED BY AnswersInit, <1>1, PTL DEF NetSpec

\* No buffer of the HTTP server is forgotten, which tcp.h:22 promises and module
\* Tcp alone does not keep: the server only sends from within ev_data, and a client
\* of RFC 793 sends no data the router has not heard once it closed, so that the
\* connection is established whenever the server sends.
THEOREM HttpForgetsNoBuffer == NetSpec => []NoBufferForgotten
<1>1. AnswersInv => NoBufferForgotten
  BY DEF AnswersInv
<1> QED BY AnswersInvariant, <1>1, PTL

\* What is proved of Tcp, where any segment of Wire may come, holds with the
\* clients, the network and the server of TcpNet: rows are found again, queued
\* buffers have one place and tile the sequence space, and segments stay in them.
THEOREM NetKeepsTcp ==
    NetSpec => [](/\ UniqueConnections /\ OpenedMatchesState /\ BufferOwnership
                  /\ SendSpaceContiguous /\ SegmentsReadOwnedBytes)
<1>1. AnswersInv => /\ UniqueConnections /\ OpenedMatchesState /\ BufferOwnership
                    /\ SendSpaceContiguous /\ SegmentsReadOwnedBytes
  BY DEF AnswersInv, TcpInv, TableInv
<1> QED BY AnswersInvariant, <1>1, PTL

\* In TcpNet too a row never changes hands without being closed (tcp.c:227-254).
THEOREM NetMovesForward == NetSpec => ConnectionsMoveForward
<1>1. AnswersInv /\ [NetNext]_allVars => [ConnectionSteps]_vars
  BY NetIsStep, TcpStep DEF AnswersInv
<1> QED BY AnswersInvariant, <1>1, PTL DEF NetSpec, ConnectionsMoveForward

\* In TcpNet too the HTTP server gets the buffers of a socket back in the order it
\* sent them, all of them by ev_closed (tcp.c:143-163, 247).
THEOREM NetImplementsSocketApi == NetSpec => ImplementsSocketApi
<1>1. AnswersInv /\ [NetNext]_allVars => [Api!Next]_Api!apiVars
  BY NetIsStep, TcpStep DEF AnswersInv
<1> QED BY AnswersInit, AnswersInvariant, <1>1, PTL
        DEF NetSpec, ImplementsSocketApi, Api!Spec

----------------------------------------------------------------------------
\* Where the queue of a row lies in the stream of the answers.

\* The unit of the stream a sequence number of the router stands for.
Pos(x) == (x - Num(0)) % SeqSpace

LEMMA PosNum ==
    ASSUME NEW o \in 0..(SeqSpace - 1)
    PROVE  Pos(Num(o)) = o
<1>1. 0 \in 0..(SeqSpace - 1)
  BY SeqAssumption
<1> QED BY <1>1, NumDistance DEF Pos

LEMMA NumPos ==
    ASSUME NEW x \in SeqNo
    PROVE  Pos(x) \in 0..(SeqSpace - 1) /\ Num(Pos(x)) = x
<1> DEFINE b == Num(0)
           y == Pos(x)
<1>1. x \in 0..(SeqSpace - 1) /\ 0 \in 0..(SeqSpace - 1) /\ SeqSpace \in Nat \ {0}
      /\ InitSeq \in 0..(SeqSpace - 1)
  BY SeqAssumption DEF SeqNo
<1>2. b = IF InitSeq + 1 < SeqSpace THEN InitSeq + 1 ELSE 0
  BY <1>1, NumCases
<1>3. b \in 0..(SeqSpace - 1)
  BY <1>1, <1>2
<1> HIDE DEF b
<1>4. y = IF b <= x THEN x - b ELSE x - b + SeqSpace
  <2>1. y = (x - b) % SeqSpace
    BY DEF Pos, b
  <2>2. CASE b <= x
    <3>1. x - b \in 0..(SeqSpace - 1)
      BY <1>1, <1>3, <2>2
    <3> QED BY <1>1, <2>1, <2>2, <3>1, ModIdentity
  <2>3. CASE ~(b <= x)
    <3>1. x - b \in (0 - SeqSpace)..(0 - 1)
      BY <1>1, <1>3, <2>3
    <3> QED BY <1>1, <2>1, <2>3, <3>1, ModBelow
  <2> QED BY <2>2, <2>3
<1> HIDE DEF y
<1>5. y \in 0..(SeqSpace - 1)
  BY <1>1, <1>3, <1>4
<1>6. Num(y) = x
  BY <1>1, <1>2, <1>3, <1>4, <1>5, NumCases
<1> QED BY <1>5, <1>6 DEF y

LEMMA PosDistance ==
    ASSUME NEW x \in SeqNo, NEW y \in SeqNo, Pos(y) <= Pos(x)
    PROVE  (x - y) % SeqSpace = Pos(x) - Pos(y)
BY NumPos, NumDistance

\* The first unit of the queue that is not acknowledged is unit e, the k-th buffer
\* ends e + Before(q)[k] units into the stream, and the last one where the next
\* buffer sent will begin.
QueueLies(c, p, e) ==
    LET q == c.sendbuf
        B == Before(q)
    IN  /\ EarliestUnacked(c) = Num(e) /\ c.nextOut = Num(e + B[Len(q)])
        /\ \A k \in 1..Len(q) :
            LET o == e + B[k] - BufLen[q[k].data]
            IN  Placed(p, q[k].data, o) /\ q[k].seq = Num(o)

LEMMA QueuePlaces ==
    ASSUME NEW p \in DOMAIN Asked, NEW c, Live(c), c.sendbuf # <<>>,
           QueueRight(c.sendbuf, p), Tiles(c.sendbuf, c.nextOut)
    PROVE  \E e \in 0..(SeqSpace - 1) : QueueLies(c, p, e)
<1> DEFINE q == c.sendbuf
           L == Len(q)
           B == Before(q)
           N == Len(Stream(p))
           len(k) == BufLen[q[k].data]
<1>1. q \in Seq(TcpBuf) /\ L \in Nat /\ L # 0
  <2>1. q \in Seq(TcpBuf) /\ q # <<>>
    BY DEF Live, TcpConn
  <2> HIDE DEF q
  <2> QED BY <2>1, LenProperties, EmptySeq
<1>2. N \in Nat /\ N < SeqSpace /\ SeqSpace \in Nat \ {0}
  BY StreamType, SeqAssumption
<1>3. \A k \in 1..L : /\ q[k] \in TcpBuf /\ len(k) \in Nat
                       /\ q[k].ofs \in Nat /\ q[k].ofs <= len(k)
  <2> SUFFICES ASSUME NEW k \in 1..L
               PROVE  /\ q[k] \in TcpBuf /\ len(k) \in Nat
                      /\ q[k].ofs \in Nat /\ q[k].ofs <= len(k)
    OBVIOUS
  <2>1. q[k] \in TcpBuf
    BY <1>1, ElementOfSeq
  <2>2. len(k) \in Nat /\ q[k].ofs \in Nat
    BY <2>1, BufferAssumption DEF TcpBuf
  <2>3. q[k].ofs = 0 \/ q[k].ofs < len(k)
    BY DEF Live, OffsetsInBuffer
  <2> QED BY <2>1, <2>2, <2>3
<1>4. \A k \in 1..L : \E o \in Nat : /\ Lies(Stream(p), q[k].data, o) /\ o + len(k) <= N
                                      /\ q[k].seq = Num(o)
  BY DEF QueueRight, Placed, Lies
<1>5. \A k \in 0..L : B[k] \in Int
  BY <1>1, BeforeType
<1>6. B[0] = 0 /\ \A k \in 1..L : B[k] = B[k - 1] + (len(k) - q[k].ofs)
  <2>1. \A k \in 0..L : B[k] = IF k = 0 THEN 0 ELSE B[k - 1] + Remaining(q[k])
    BY <1>1, BeforeDef
  <2>2. 0 \in 0..L /\ \A k \in 1..L : k \in 0..L /\ k # 0
    BY <1>1
  <2> HIDE DEF q, L, B
  <2> QED BY <2>1, <2>2 DEF Remaining, q
<1>7. \A k \in 1..L : /\ EndSeq(q[k]) = IF k < L THEN q[k + 1].seq ELSE c.nextOut
                      /\ k > 1 => q[k].ofs = 0
  BY DEF Tiles
<1>8. \A k \in 1..L : EndSeq(q[k]) = (q[k].seq + len(k)) % SeqSpace
  BY DEF EndSeq
<1>9. EarliestUnacked(c) = (q[1].seq + q[1].ofs) % SeqSpace
  BY DEF EarliestUnacked
<1>10. 1 \in 1..L
  BY <1>1
<1>11. PICK u \in Nat : /\ Lies(Stream(p), q[1].data, u) /\ u + len(1) <= N
                        /\ q[1].seq = Num(u)
  BY <1>4, <1>10
<1> HIDE DEF q, L, B, N, len
<1> DEFINE e == u + q[1].ofs
           o(k) == e + B[k] - len(k)
           Right(k) == /\ Lies(Stream(p), q[k].data, o(k)) /\ o(k) + len(k) <= N
                       /\ q[k].seq = Num(o(k)) /\ o(k) \in Nat
           Bad == {k \in 1..L : ~Right(k)}
<1>12. e \in Nat /\ e <= N
  BY <1>2, <1>3, <1>10, <1>11
<1>13. EarliestUnacked(c) = Num(e)
  <2>1. u + q[1].ofs < SeqSpace /\ q[1].ofs \in Nat
    BY <1>2, <1>3, <1>10, <1>12
  <2> QED BY <1>9, <1>11, <2>1, NumAdd
<1>14. ASSUME NEW k \in 1..L, Right(k)
       PROVE  EndSeq(q[k]) = Num(e + B[k]) /\ e + B[k] \in 0..(SeqSpace - 1)
  <2> DEFINE x == o(k)
  <2>1. /\ x \in Nat /\ x + len(k) <= N /\ q[k].seq = Num(x) /\ len(k) \in Nat
        /\ k \in 0..L
    BY <1>1, <1>3, <1>14
  <2>2. x + len(k) = e + B[k]
    BY <1>3, <1>5, <1>12, <2>1
  <2> HIDE DEF x, e
  <2>3. x + len(k) < SeqSpace
    BY <1>2, <2>1
  <2>4. (Num(x) + len(k)) % SeqSpace = Num(x + len(k))
    BY <2>1, <2>3, NumAdd
  <2>5. EndSeq(q[k]) = Num(x + len(k))
    BY <1>8, <2>1, <2>4
  <2>6. x + len(k) \in 0..(SeqSpace - 1)
    BY <1>2, <2>1, <2>3
  <2> QED BY <2>2, <2>5, <2>6
<1>15. Bad = {}
  <2>1. SUFFICES ASSUME Bad # {} PROVE FALSE
    OBVIOUS
  <2>2. PICK k \in Bad : \A j \in Bad : k <= j
    <3>1. Bad \in SUBSET Nat
      BY <1>1
    <3> HIDE DEF Bad
    <3> QED BY <2>1, <3>1, LeastNat
  <2>3. k \in 1..L /\ ~Right(k)
    BY <2>2
  <2>4. CASE k = 1
    <3>1. B[1] = len(1) - q[1].ofs
      BY <1>3, <1>6, <1>10
    <3>2. o(1) = u
      BY <1>3, <1>10, <1>11, <3>1
    <3> HIDE DEF o
    <3> QED BY <1>11, <2>3, <2>4, <3>2
  <2>5. CASE k # 1
    <3> DEFINE j == k - 1
    <3>1. j \in 1..L /\ j < L /\ j + 1 = k /\ k > 1 /\ ~(k <= j)
      BY <1>1, <2>3, <2>5
    <3>2. Right(j)
      <4> HIDE DEF Right, j
      <4> QED BY <2>2, <3>1
    <3>3. EndSeq(q[j]) = Num(e + B[j]) /\ e + B[j] \in 0..(SeqSpace - 1)
      <4> HIDE DEF j, Right, e
      <4> QED BY <1>14, <3>1, <3>2
    <3>4. q[k].seq = Num(e + B[j]) /\ q[k].ofs = 0 /\ B[k] = B[j] + len(k)
      <4>1. EndSeq(q[j]) = q[k].seq /\ q[k].ofs = 0
        <5> HIDE DEF j
        <5> QED BY <1>7, <2>3, <3>1
      <4>2. B[k] = B[j] + (len(k) - q[k].ofs)
        BY <1>6, <2>3
      <4>3. len(k) \in Nat /\ B[j] \in Int
        <5> HIDE DEF j
        <5> QED BY <1>1, <1>3, <1>5, <2>3, <3>1
      <4> HIDE DEF j, e
      <4> QED BY <3>3, <4>1, <4>2, <4>3
    <3>5. PICK x \in Nat : /\ Lies(Stream(p), q[k].data, x) /\ x + len(k) <= N
                           /\ q[k].seq = Num(x)
      BY <1>4, <2>3
    <3>6. len(k) \in Nat /\ B[j] \in Int /\ e \in Nat
      <4> HIDE DEF j, e
      <4> QED BY <1>1, <1>3, <1>5, <1>12, <2>3, <3>1
    <3> HIDE DEF j, e
    <3>7. x \in 0..(SeqSpace - 1)
      BY <1>2, <3>5, <3>6
    <3>8. x = e + B[j]
      BY <3>3, <3>4, <3>5, <3>7, PosNum
    <3>9. o(k) = x
      BY <3>4, <3>6, <3>8
    <3> HIDE DEF o
    <3> QED BY <2>3, <3>5, <3>9
  <2> QED BY <2>4, <2>5
<1>16. \A k \in 1..L : Right(k)
  <2> HIDE DEF Right
  <2> QED BY <1>15
<1>17. L \in 1..L /\ ~(L < L)
  BY <1>1
<1>18. c.nextOut = Num(e + B[L])
  <2> HIDE DEF e, Right
  <2>1. EndSeq(q[L]) = c.nextOut
    BY <1>7, <1>17
  <2> QED BY <1>14, <1>16, <1>17, <2>1
<1>19. e \in 0..(SeqSpace - 1)
  BY <1>2, <1>12
<1>20. QueueLies(c, p, e)
  <2> HIDE DEF e
  <2> QED BY <1>13, <1>16, <1>18 DEF QueueLies, Placed, q, B, L, len
<1> QED BY <1>19, <1>20

IsAck(s) == "ACK" \in s.flags

LEMMA UnackedType == ASSUME NEW c, Live(c) PROVE EarliestUnacked(c) \in SeqNo
<1>1. c.nextOut \in SeqNo /\ c.sendbuf \in Seq(TcpBuf)
  BY DEF Live, TcpConn
<1>2. CASE c.sendbuf # <<>>
  <2>1. c.sendbuf[1] \in TcpBuf
    <3> DEFINE q == c.sendbuf
    <3>1. q \in Seq(TcpBuf) /\ q # <<>>
      BY <1>1, <1>2
    <3> HIDE DEF q
    <3>2. 1 \in 1..Len(q)
      BY <3>1, LenProperties, EmptySeq
    <3>3. q[1] \in TcpBuf
      BY <3>1, <3>2, ElementOfSeq
    <3> QED BY <3>3 DEF q
  <2>2. c.sendbuf[1].seq + c.sendbuf[1].ofs \in Int
    BY <2>1 DEF TcpBuf, SeqNo
  <2> QED BY <1>2, <2>2, ModType DEF EarliestUnacked
<1> QED BY <1>1, <1>2 DEF EarliestUnacked

\* An acknowledgement of the first x units advances the queue to x or less, and what
\* it frees ends before x.
LEMMA AckAdvances ==
    ASSUME NEW p \in DOMAIN Asked, NEW c, Live(c),
           QueueRight(c.sendbuf, p), Tiles(c.sendbuf, c.nextOut),
           NEW s \in Segment, IsAck(s), Pos(EarliestUnacked(c)) <= Pos(s.ack)
    PROVE  LET d == Acknowledged(c, s)
           IN  /\ Pos(EarliestUnacked(d)) <= Pos(s.ack)
               /\ \A b \in QueuedIn(c.sendbuf) :
                    \/ b \in QueuedIn(d.sendbuf)
                    \/ \E o \in Nat : Placed(p, b, o) /\ o + BufLen[b] <= Pos(s.ack)
<1> DEFINE d == Acknowledged(c, s)
           q == c.sendbuf
           L == Len(q)
           B == Before(q)
           x == Pos(s.ack)
           n == Drop(c, s)
           u == Unbuffer(q, n)
           K == Freed(q, n)
           Frees(b) == \E o \in Nat : Placed(p, b, o) /\ o + BufLen[b] <= x
<1>1. s.ack \in SeqNo /\ EarliestUnacked(c) \in SeqNo
  BY UnackedType DEF Segment
<1>2. /\ x \in 0..(SeqSpace - 1) /\ Pos(EarliestUnacked(c)) \in 0..(SeqSpace - 1)
      /\ n = x - Pos(EarliestUnacked(c)) /\ n \in Nat
  <2>1. x \in 0..(SeqSpace - 1) /\ Pos(EarliestUnacked(c)) \in 0..(SeqSpace - 1)
    BY <1>1, NumPos
  <2>2. n = x - Pos(EarliestUnacked(c))
    BY <1>1, PosDistance DEF Drop
  <2> HIDE DEF n, x
  <2>3. Pos(EarliestUnacked(c)) <= x
    BY DEF x
  <2> QED BY <2>1, <2>2, <2>3, SeqAssumption
<1>3. q \in Seq(TcpBuf) /\ L \in Nat /\ OffsetsInBuffer(q)
  BY LenProperties DEF Live, TcpConn
<1>4. CASE n = 0
  <2>1. d = c
    BY <1>4 DEF Acknowledged
  <2> QED BY <2>1
<1>5. CASE n # 0
  <2>1. d = [c EXCEPT !.sendbuf = u, !.due = (u # <<>>)]
    BY <1>5 DEF Acknowledged, IsAck
  <2>2. d.sendbuf = u /\ d.nextOut = c.nextOut
    BY <2>1 DEF Live, TcpConn
  <2>3. /\ u \in Seq(TcpBuf) /\ K \in 0..L /\ HeadDropped(u, q, K)
        /\ K < L => u[1].ofs = IF B[K] < n THEN q[K + 1].ofs + n - B[K]
                                           ELSE q[K + 1].ofs
    BY <1>2, <1>3, UnbufferEffect
  <2>4. Stops(q, n, K) /\ \A j \in 0..(K - 1) : ~Stops(q, n, j)
    <3>1. n \in Int
      <4> HIDE DEF n
      <4> QED BY <1>2
    <3> QED BY <1>3, <3>1, FreedStops
  <2>5. Len(u) = L - K /\ \A k \in 1..(L - K) : u[k].data = q[k + K].data
                                             /\ u[k].seq = q[k + K].seq
    BY <2>3 DEF HeadDropped
  <2>6. \A k \in 0..L : B[k] \in Int
    BY <1>3, BeforeType
  <2>7. B[0] = 0 /\ \A k \in 1..L : B[k] = B[k - 1] + Remaining(q[k])
    <3>1. \A k \in 0..L : B[k] = IF k = 0 THEN 0 ELSE B[k - 1] + Remaining(q[k])
      BY <1>3, BeforeDef
    <3>2. 0 \in 0..L /\ \A k \in 1..L : k \in 0..L /\ k # 0
      BY <1>3
    <3> HIDE DEF q, L, B
    <3> QED BY <3>1, <3>2
  <2>8. \A j \in 0..L : Stops(q, n, j) <=> j = L \/ B[j] >= n \/ B[j + 1] > n
    BY DEF Stops
  <2>9. EarliestUnacked(d) = IF u # <<>> THEN (u[1].seq + u[1].ofs) % SeqSpace
                                         ELSE c.nextOut
    BY <2>2 DEF EarliestUnacked
  <2>10. /\ \A k \in 1..L : q[k] \in TcpBuf
         /\ \A k \in 1..Len(u) : u[k] \in TcpBuf
    BY <1>3, <2>3, ElementOfSeq
  <2>11. u = <<>> <=> Len(u) = 0
    BY <2>3, EmptySeq
  <2>12. CASE L = 0
    <3>1. u = <<>> /\ q = <<>>
      <4>1. Len(u) = 0
        <5>1. K \in 0..L
          BY <2>3
        <5>2. Len(u) = L - K
          BY <2>5
        <5>3. L = 0
          BY <2>12
        <5> HIDE DEF q, L, K, u
        <5>4. K = 0
          BY <5>1, <5>3
        <5> QED BY <5>2, <5>3, <5>4
      <4> QED BY <1>3, <2>11, <2>12, <4>1, EmptySeq
    <3>2. EarliestUnacked(d) = EarliestUnacked(c)
      BY <2>9, <3>1 DEF EarliestUnacked
    <3>3. QueuedIn(q) = {}
      BY <2>12 DEF QueuedIn
    <3> QED BY <3>2, <3>3
  <2>13. CASE L # 0
    <3>1. q # <<>>
      BY <2>13
    <3>2. PICK e \in 0..(SeqSpace - 1) : QueueLies(c, p, e)
      BY <3>1, QueuePlaces
    <3> DEFINE len(k) == BufLen[q[k].data]
               o(k) == e + B[k] - len(k)
    <3>3. /\ EarliestUnacked(c) = Num(e) /\ c.nextOut = Num(e + B[L])
          /\ \A k \in 1..L : Placed(p, q[k].data, o(k)) /\ q[k].seq = Num(o(k))
      BY <3>2 DEF QueueLies
    <3>4. \A k \in 1..L : o(k) \in Nat /\ o(k) + len(k) <= Len(Stream(p))
      BY <3>3 DEF Placed, Lies
    <3>5. Len(Stream(p)) \in Nat /\ Len(Stream(p)) < SeqSpace /\ SeqSpace \in Nat \ {0}
      BY StreamType, SeqAssumption
    <3>6. \A k \in 1..L : len(k) \in Nat /\ q[k].ofs \in Nat
      BY <2>10, BufferAssumption DEF TcpBuf
    <3>7. \A k \in 1..L : B[k] = B[k - 1] + (len(k) - q[k].ofs)
      <4> HIDE DEF q, L, B
      <4> QED BY <2>7 DEF Remaining
    <3>8. \A k \in 1..Len(u) : u[k].ofs \in Nat
      BY <2>10 DEF TcpBuf
    <3>9. x = e + n
      <4>1. Pos(EarliestUnacked(c)) = e
        BY <3>3, PosNum
      <4> HIDE DEF n, x
      <4> QED BY <1>2, <4>1
    <3> HIDE DEF q, L, B, K, u, n, x, d, len
    <3>10. \A j \in 0..K : B[j] <= n
      <4> SUFFICES ASSUME NEW j \in 0..K PROVE B[j] <= n
        OBVIOUS
      <4>1. CASE j = 0
        BY <1>2, <2>7, <4>1
      <4>2. CASE j # 0
        <5>1. j - 1 \in 0..(K - 1) /\ j - 1 \in 0..L /\ (j - 1) + 1 = j /\ j \in 0..L
          BY <1>3, <2>3, <4>2
        <5>2. ~(B[j] > n)
          BY <2>4, <2>8, <5>1
        <5> QED BY <1>2, <2>6, <5>1, <5>2
      <4> QED BY <4>1, <4>2
    <3>11. \A k \in 1..L : o(k) + len(k) = e + B[k]
      <4>1. \A k \in 1..L : k \in 0..L
        BY <1>3
      <4> QED BY <2>6, <3>6, <4>1
    <3>12. Pos(EarliestUnacked(d)) <= x
      <4>1. CASE K = L
        <5>1. EarliestUnacked(d) = Num(e + B[L])
          BY <1>3, <2>5, <2>9, <2>11, <3>3, <4>1
        <5>2. L \in 1..L /\ L \in 0..K /\ L \in 0..L
          BY <1>3, <2>13, <4>1
        <5>3. o(L) \in Nat /\ len(L) \in Nat /\ o(L) + len(L) <= Len(Stream(p))
              /\ o(L) + len(L) = e + B[L]
          BY <3>4, <3>6, <3>11, <5>2
        <5>4. e + B[L] \in 0..(SeqSpace - 1) /\ B[L] <= n /\ B[L] \in Int
          <6>1. B[L] <= n /\ B[L] \in Int
            BY <2>6, <3>10, <5>2
          <6> HIDE DEF o
          <6>2. o(L) + len(L) \in 0..(SeqSpace - 1)
            BY <3>5, <5>3
          <6> QED BY <5>3, <6>1, <6>2
        <5>5. Pos(EarliestUnacked(d)) = e + B[L]
          BY <5>1, <5>4, PosNum
        <5> QED BY <1>2, <3>9, <5>4, <5>5
      <4>2. CASE K < L
        <5> DEFINE m == K + 1
        <5>1. m \in 1..L /\ m - 1 = K /\ 1 \in 1..(L - K) /\ 1 + K = m /\ K \in 0..L
              /\ K \in 0..K /\ m \in 0..L
          BY <1>3, <2>3, <4>2
        <5>2. u # <<>> /\ u[1].ofs \in Nat /\ u[1].seq = q[m].seq
          <6> HIDE DEF m
          <6>1. Len(u) # 0 /\ 1 \in 1..Len(u)
            BY <2>5, <5>1
          <6>2. u[1].seq = q[m].seq
            BY <2>5, <5>1
          <6> QED BY <2>11, <3>8, <6>1, <6>2
        <5>3. u[1].ofs = IF B[K] < n THEN q[m].ofs + n - B[K] ELSE q[m].ofs
          BY <2>3, <4>2
        <5> HIDE DEF m
        <5>4. q[m].seq = Num(o(m)) /\ o(m) \in Nat
          BY <3>3, <3>4, <5>1
        <5>5. B[m] = B[K] + (len(m) - q[m].ofs) /\ len(m) \in Nat /\ q[m].ofs \in Nat
          BY <3>6, <3>7, <5>1
        <5>6. B[K] \in Int /\ B[m] \in Int /\ B[K] <= n
          BY <2>6, <3>10, <5>1
        <5>7. o(m) + u[1].ofs = x
          <6> DEFINE b == B[K]
                     f == q[m].ofs
                     l == len(m)
                     w == u[1].ofs
                     y == o(m)
          <6>1. b \in Int /\ f \in Nat /\ l \in Nat /\ b <= n /\ n \in Nat
            BY <1>2, <5>5, <5>6
          <6>2. w = IF b < n THEN f + n - b ELSE f
            BY <5>3
          <6>3. y = e + (b + (l - f)) - l
            BY <5>5
          <6> HIDE DEF b, f, l, w, y
          <6>4. y + w = e + n
            BY <6>1, <6>2, <6>3
          <6> QED BY <3>9, <6>4 DEF y, w
        <5> HIDE DEF o
        <5>8. o(m) + u[1].ofs < SeqSpace
          BY <1>2, <5>7, SeqAssumption
        <5>9. (Num(o(m)) + u[1].ofs) % SeqSpace = Num(x)
          BY <5>2, <5>4, <5>7, <5>8, NumAdd
        <5>10. EarliestUnacked(d) = Num(x)
          BY <2>9, <5>2, <5>4, <5>9
        <5>11. Pos(EarliestUnacked(d)) = x
          BY <1>2, <5>10, PosNum
        <5> QED BY <1>2, <5>11
      <4> QED BY <1>3, <2>3, <4>1, <4>2
    <3>13. ASSUME NEW b \in QueuedIn(q) PROVE b \in QueuedIn(u) \/ Frees(b)
      <4>1. PICK k \in 1..L : b = q[k].data
        BY DEF QueuedIn, L
      <4>2. CASE k <= K
        <5>1. k \in 0..K /\ k \in 0..L
          BY <1>3, <2>3, <4>2
        <5>2. B[k] <= n /\ B[k] \in Int
          BY <2>6, <3>10, <5>1
        <5>3. Placed(p, b, o(k)) /\ o(k) \in Nat /\ o(k) + BufLen[b] = e + B[k]
          BY <3>3, <3>4, <3>11, <4>1 DEF len
        <5>4. e + B[k] <= x
          BY <1>2, <3>9, <5>2
        <5> HIDE DEF o
        <5>5. o(k) + BufLen[b] <= x
          BY <5>3, <5>4
        <5> QED BY <5>3, <5>5
      <4>3. CASE ~(k <= K)
        <5>1. k - K \in 1..(L - K) /\ (k - K) + K = k
          BY <1>3, <2>3, <4>3
        <5>2. u[k - K].data = q[k].data
          BY <2>5, <5>1
        <5> QED BY <2>5, <4>1, <5>1, <5>2 DEF QueuedIn
      <4> QED BY <4>2, <4>3
    <3> QED BY <2>2, <3>12, <3>13 DEF d, q, x
  <2> QED BY <2>12, <2>13
<1> QED BY <1>4, <1>5

\* What lies in the part of the stream a client has read, it has read.
LEMMA PlacedIsRead ==
    ASSUME NEW p \in DOMAIN Asked, NEW got \in Seq(Unit), NEW b \in Buffers, NEW o \in Nat,
           \A k \in 1..Len(got) : got[k] = Stream(p)[k],
           Placed(p, b, o), o + BufLen[b] <= Len(got)
    PROVE  Elems(Units(b)) \subseteq Elems(got)
<1>1. /\ Len(Units(b)) = BufLen[b] /\ BufLen[b] \in Nat /\ Len(got) \in Nat
      /\ \A k \in 0..(BufLen[b] - 1) : Units(b)[0 + 1 + k] = <<b, k>>
  BY UnitsType, BufferAssumption, LenProperties DEF Lies
<1>2. ASSUME NEW k \in 1..BufLen[b] PROVE Units(b)[k] \in Elems(got)
  <2> DEFINE j == k - 1
             m == o + 1 + j
  <2>1. j \in 0..(BufLen[b] - 1) /\ 0 + 1 + j = k /\ m \in 1..Len(got)
    BY <1>1
  <2> HIDE DEF j
  <2>2. Units(b)[k] = <<b, j>> /\ Stream(p)[m] = <<b, j>>
    BY <1>1, <2>1 DEF Placed, Lies
  <2> HIDE DEF m
  <2> QED BY <2>1, <2>2 DEF Elems
<1> QED BY <1>1, <1>2 DEF Elems

----------------------------------------------------------------------------
\* Acknowledgements on their way to the router.

\* Every acknowledgement in q is of e units or more and of n or less, and none
\* comes after one of more units.
AcksWithin(q, e, n) ==
    /\ \A k \in 1..Len(q) : IsAck(q[k]) => e <= Pos(q[k].ack) /\ Pos(q[k].ack) <= n
    /\ \A j, k \in 1..Len(q) :
        j < k /\ IsAck(q[j]) /\ IsAck(q[k]) => Pos(q[j].ack) <= Pos(q[k].ack)

LEMMA PosType == ASSUME NEW s \in Segment PROVE Pos(s.ack) \in Nat
<1>1. s.ack \in SeqNo
  BY DEF Segment
<1> QED BY <1>1, NumPos

\* q loses its head.
LEMMA AcksTail ==
    ASSUME NEW q \in Seq(Segment), q # <<>>, NEW e, NEW n, AcksWithin(q, e, n)
    PROVE  AcksWithin(Tail(q), e, n)
<1>1. /\ Len(q) \in Nat /\ Len(Tail(q)) = Len(q) - 1
      /\ \A k \in 1..(Len(q) - 1) : Tail(q)[k] = q[k + 1] /\ k + 1 \in 1..Len(q)
  BY HeadTailProperties, LenProperties
<1>2. \A j, k \in 1..(Len(q) - 1) : j < k => j + 1 < k + 1
  BY <1>1
<1> QED BY <1>1, <1>2 DEF AcksWithin

\* Its head is an acknowledgement, and the router takes it.
LEMMA AcksBehind ==
    ASSUME NEW q \in Seq(Segment), q # <<>>, NEW e \in Nat, NEW n \in Nat,
           AcksWithin(q, e, n), IsAck(Head(q)), NEW d \in Nat, d <= Pos(Head(q).ack)
    PROVE  AcksWithin(Tail(q), d, n)
<1>1. /\ Len(q) \in Nat /\ Len(Tail(q)) = Len(q) - 1
      /\ \A k \in 1..(Len(q) - 1) : Tail(q)[k] = q[k + 1] /\ k + 1 \in 1..Len(q)
  BY HeadTailProperties, LenProperties
<1>2. Head(q) = q[1] /\ 1 \in 1..Len(q)
  <2>1. Len(q) # 0
    BY EmptySeq
  <2> QED BY <1>1, <2>1
<1>3. AcksWithin(Tail(q), e, n)
  BY AcksTail
<1>4. ASSUME NEW k \in 1..Len(Tail(q)), IsAck(Tail(q)[k])
      PROVE  d <= Pos(Tail(q)[k].ack)
  <2>1. Tail(q)[k] = q[k + 1] /\ k + 1 \in 1..Len(q) /\ 1 < k + 1
    BY <1>1
  <2>2. Pos(q[1].ack) <= Pos(q[k + 1].ack)
    BY <1>2, <1>4, <2>1 DEF AcksWithin
  <2>3. Pos(q[1].ack) \in Nat /\ Pos(q[k + 1].ack) \in Nat
    BY <1>2, <2>1, ElementOfSeq, PosType
  <2> QED BY <1>2, <2>1, <2>2, <2>3
<1> QED BY <1>3, <1>4 DEF AcksWithin

\* The client has read on.
LEMMA AcksRead ==
    ASSUME NEW q \in Seq(Segment), NEW e \in Nat, NEW n \in Nat, NEW m \in Nat, n <= m,
           AcksWithin(q, e, n)
    PROVE  AcksWithin(q, e, m)
<1>1. \A k \in 1..Len(q) : Pos(q[k].ack) \in Nat
  BY ElementOfSeq, PosType
<1> QED BY <1>1 DEF AcksWithin

\* The client sends, and acknowledges all it has read.
LEMMA AcksAppend ==
    ASSUME NEW q \in Seq(Segment), NEW e \in Nat, NEW n \in Nat, e <= n,
           AcksWithin(q, e, n), NEW s, IsAck(s) => Pos(s.ack) = n
    PROVE  AcksWithin(Append(q, s), e, n)
<1> DEFINE u == Append(q, s)
           L == Len(q)
<1>1. /\ L \in Nat /\ Len(u) = L + 1 /\ u[L + 1] = s
      /\ \A k \in 1..L : u[k] = q[k]
  <2> DEFINE S == Segment \cup {s}
  <2>1. q \in Seq(S) /\ s \in S
    BY SeqSubset
  <2> HIDE DEF S
  <2> QED BY <2>1, AppendProperties, LenProperties
<1> HIDE DEF u
<1>2. \A k \in 1..(L + 1) : k \in 1..L \/ k = L + 1
  BY <1>1
<1>3. \A k \in 1..L : IsAck(q[k]) => e <= Pos(q[k].ack) /\ Pos(q[k].ack) <= n
  BY DEF AcksWithin
<1>4. ASSUME NEW k \in 1..Len(u), IsAck(u[k])
      PROVE  e <= Pos(u[k].ack) /\ Pos(u[k].ack) <= n
  BY <1>1, <1>2, <1>3, <1>4
<1>5. ASSUME NEW j \in 1..Len(u), NEW k \in 1..Len(u), j < k, IsAck(u[j]), IsAck(u[k])
      PROVE  Pos(u[j].ack) <= Pos(u[k].ack)
  <2>1. j \in 1..L
    BY <1>1, <1>5
  <2>2. CASE k \in 1..L
    BY <1>1, <1>5, <2>1, <2>2 DEF AcksWithin
  <2>3. CASE k = L + 1
    BY <1>1, <1>3, <1>5, <2>1, <2>3
  <2> QED BY <1>1, <1>2, <2>2, <2>3
<1> QED BY <1>4, <1>5 DEF AcksWithin, u

\* The client reads until the router's FIN.
Reading(r) == client[r].state # "TIME_WAIT"

Got(r) == client[r].got

\* A step lets client r read on, and at most adds an acknowledgement of all it has
\* read to its queue or takes the head of it.
ClientMoves(r) ==
    /\ Reading(r)' => Reading(r)
    /\ Len(Got(r)) <= Len(Got(r)') /\ Elems(Got(r)) \subseteq Elems(Got(r)')
    /\ Reading(r)' =>
        \/ toServer'[r] = toServer[r]
        \/ toServer[r] # <<>> /\ toServer'[r] = Tail(toServer[r])
        \/ \E s : /\ toServer'[r] = Append(toServer[r], s)
                  /\ IsAck(s) => Pos(s.ack) = Len(Got(r)')

LEMMA AcksMove ==
    ASSUME NetInv, NetInv', NEW r \in Remotes, ClientMoves(r), Reading(r)',
           NEW e \in Nat, e <= Len(Got(r)), AcksWithin(toServer[r], e, Len(Got(r)))
    PROVE  AcksWithin(toServer'[r], e, Len(Got(r)')) /\ e <= Len(Got(r)')
<1> DEFINE q == toServer[r]
           n == Len(Got(r))
           m == Len(Got(r)')
<1>1. q \in Seq(Segment)
  BY DEF NetInv, QueuesRight
<1>2. n \in Nat /\ m \in Nat
  <2>1. Got(r) \in Seq(Unit) /\ Got(r)' \in Seq(Unit)
    BY DEF NetInv, Client, Got, Unit
  <2> QED BY <2>1, LenProperties
<1>3. n <= m
  BY DEF ClientMoves
<1> HIDE DEF n, m
<1>4. AcksWithin(q, e, m) /\ e <= m
  BY <1>1, <1>2, <1>3, AcksRead DEF n
<1>5. \/ toServer'[r] = q
      \/ q # <<>> /\ toServer'[r] = Tail(q)
      \/ \E s : toServer'[r] = Append(q, s) /\ (IsAck(s) => Pos(s.ack) = m)
  BY DEF ClientMoves, m
<1> HIDE DEF q
<1> QED BY <1>1, <1>2, <1>4, <1>5, AcksTail, AcksAppend DEF m

\* What a client that has read all before expects next.
LEMMA NextExpected ==
    ASSUME NEW c, ClientRight(c), c.state \in {"ESTABLISHED", "FIN_WAIT"}
    PROVE  Pos(c.rcv) = Len(c.got)
<1>1. /\ c.plan \in DOMAIN Asked /\ c.got \in Seq(Unit) /\ c.rcv = Num(Len(c.got))
      /\ Len(c.got) <= Len(Stream(c.plan))
  BY DEF ClientRight, Client, Unit
<1>2. Len(c.got) \in 0..(SeqSpace - 1)
  <2>1. Len(c.got) \in Nat
    BY <1>1, LenProperties
  <2>2. Len(Stream(c.plan)) \in Nat /\ Len(Stream(c.plan)) < SeqSpace
    BY <1>1, StreamType
  <2> QED BY <1>1, <2>1, <2>2, SeqAssumption
<1> QED BY <1>1, <1>2, PosNum

\* What a client sends acknowledges what it has read.
LEMMA SentAcknowledges ==
    ASSUME NetInv, NEW r \in Remotes, NEW n \in Nat,
           n = 0 \/ client[r].state \in {"ESTABLISHED", "FIN_WAIT"}
    PROVE  IsAck(SegmentAt(r, n)) => Pos(SegmentAt(r, n).ack) = Len(Got(r))
<1>1. CASE n = 0
  <2>1. ~(n > Requests(r))
    BY <1>1, ClientFacts DEF NetInv
  <2>2. SegmentAt(r, n) = FromClient(r, {"SYN"}, 0, 0)
    BY <1>1, <2>1 DEF SegmentAt
  <2>3. SegmentAt(r, n).flags = {"SYN"}
    BY <2>2 DEF FromClient
  <2> QED BY <2>3 DEF IsAck
<1>2. CASE n # 0
  <2>1. SegmentAt(r, n).ack = client[r].rcv
    BY <1>2 DEF SegmentAt, FromClient
  <2>2. Pos(client[r].rcv) = Len(client[r].got)
    BY <1>2, NextExpected DEF NetInv
  <2> QED BY <2>1, <2>2 DEF Got
<1> QED BY <1>1, <1>2

LEMMA SameMoves ==
    ASSUME NetInv, NEW r \in Remotes, Got(r)' = Got(r), Reading(r)' => Reading(r),
           Reading(r)' =>
            \/ toServer'[r] = toServer[r]
            \/ toServer[r] # <<>> /\ toServer'[r] = Tail(toServer[r])
            \/ \E s : /\ toServer'[r] = Append(toServer[r], s)
                      /\ IsAck(s) => Pos(s.ack) = Len(Got(r))
    PROVE  ClientMoves(r)
<1>1. Len(Got(r)) \in Nat
  BY LenProperties DEF NetInv, Client, Got
<1> QED BY <1>1 DEF ClientMoves

\* A client that has read more of its stream has read what it had.
LEMMA ReadsOn ==
    ASSUME NEW c, NEW d, ClientRight(c), ClientRight(d), d.plan = c.plan,
           Len(c.got) <= Len(d.got)
    PROVE  Elems(c.got) \subseteq Elems(d.got)
<1>1. /\ c.got \in Seq(Unit) /\ d.got \in Seq(Unit)
      /\ \A k \in 1..Len(c.got) : c.got[k] = Stream(c.plan)[k]
      /\ \A k \in 1..Len(d.got) : d.got[k] = Stream(c.plan)[k]
  BY DEF ClientRight, Client, Unit
<1>2. Len(c.got) \in Nat /\ Len(d.got) \in Nat
  BY <1>1, LenProperties
<1>3. \A k \in 1..Len(c.got) : k \in 1..Len(d.got)
  BY <1>2
<1> QED BY <1>1, <1>3 DEF Elems

LEMMA ReceivedMoves ==
    ASSUME NetInv, NEW r \in Remotes, client[r].state # "IDLE",
           NEW s \in Downlink(client[r].plan, r)
    PROVE  LET c == client[r]
               d == Received(r, s)
           IN  /\ d.state # "TIME_WAIT" => c.state # "TIME_WAIT"
               /\ Len(c.got) <= Len(d.got)
               /\ Answers(r, s) /\ d.state # "TIME_WAIT" =>
                    d.state \in {"ESTABLISHED", "FIN_WAIT"}
<1> DEFINE c == client[r]
           d == Received(r, s)
           reads == c.state # "TIME_WAIT"
           skip == (c.rcv - s.seq) % SeqSpace
           una == IF s.ack \in (c.una + 1)..c.nxt THEN s.ack ELSE c.una
<1>1. c \in Client /\ c.got \in Seq(Unit) /\ Len(c.got) \in Nat
  BY LenProperties DEF NetInv, Client, Unit
<1>2. s \in Segment
  BY DEF Downlink
<1> DEFINE Goal == /\ d.state # "TIME_WAIT" => c.state # "TIME_WAIT"
                   /\ Len(c.got) <= Len(d.got)
                   /\ Answers(r, s) /\ d.state # "TIME_WAIT" =>
                        d.state \in {"ESTABLISHED", "FIN_WAIT"}
<1>3. ASSUME c.state = "SYN_SENT" PROVE Goal
  <2> DEFINE f == [c EXCEPT !.state = "ESTABLISHED", !.una = 1,
                            !.rcv = (s.seq + 1) % SeqSpace]
  <2>1. d = f \/ d = c
    BY <1>3 DEF Received
  <2>2. f.state = "ESTABLISHED" /\ f.got = c.got
    BY <1>1 DEF Client
  <2>3. d = c => ~Answers(r, s)
    BY <1>3 DEF Answers
  <2> HIDE DEF f, d, c
  <2> QED BY <1>1, <1>3, <2>1, <2>2, <2>3
<1>4. ASSUME c.state # "SYN_SENT" PROVE Goal
  <2> DEFINE w == [k \in 1..(s.len - skip) |-> <<s.data, s.ofs + skip + k - 1>>]
             f == [c EXCEPT !.una = una, !.rcv = (s.seq + s.len) % SeqSpace, !.got = @ \o w]
             g == [c EXCEPT !.una = una, !.rcv = (@ + 1) % SeqSpace, !.state = "TIME_WAIT"]
             h == [c EXCEPT !.una = una]
  <2>1. \/ reads /\ s.len > 0 /\ skip < s.len /\ d = f
        \/ reads /\ d = g
        \/ d = h
    BY <1>4 DEF Received
  <2>2. ASSUME skip < s.len PROVE Len(c.got \o w) >= Len(c.got)
    <3> DEFINE n == s.len - skip
               T == {w[k] : k \in 1..n}
    <3>1. n \in Nat
      <4>1. skip \in Int
        <5>1. c.rcv - s.seq \in Int
          BY <1>1, <1>2 DEF Client, Segment, SeqNo
        <5>2. (c.rcv - s.seq) % SeqSpace \in SeqNo
          BY <5>1, ModType
        <5> QED BY <5>2 DEF SeqNo
      <4> HIDE DEF skip
      <4>2. s.len \in Nat
        BY <1>2 DEF Segment
      <4> QED BY <2>2, <4>1, <4>2
    <3>2. w = [k \in 1..n |-> w[k]] /\ \A k \in 1..n : w[k] \in T
      OBVIOUS
    <3> HIDE DEF n, w, T
    <3>3. w \in Seq(T) /\ Len(w) \in Nat
      <4>1. w \in [1..n -> T]
        BY <3>2
      <4>2. w \in Seq(T)
        BY <3>1, <4>1
      <4> QED BY <4>2, LenProperties
    <3> DEFINE S == Unit \cup T
    <3>4. c.got \in Seq(S) /\ w \in Seq(S)
      BY <1>1, <3>3, SeqSubset
    <3> HIDE DEF S, c
    <3>5. Len(c.got \o w) = Len(c.got) + Len(w)
      BY <3>4, ConcatProperties
    <3> QED BY <1>1, <3>3, <3>5
  <2>3. /\ f.state = c.state /\ f.got = c.got \o w
        /\ g.state = "TIME_WAIT" /\ g.got = c.got
        /\ h.state = c.state /\ h.got = c.got
    <3> HIDE DEF w, una
    <3> QED BY <1>1 DEF Client
  <2>4. c.state \in {"ESTABLISHED", "FIN_WAIT", "TIME_WAIT"}
    BY <1>1, <1>4 DEF Client
  <2> HIDE DEF f, g, h, d, c, w, skip
  <2> QED BY <1>1, <2>1, <2>2, <2>3, <2>4
<1> HIDE DEF Goal
<1>5. Goal
  BY <1>3, <1>4
<1> QED BY <1>5 DEF Goal

LEMMA PutMoves ==
    ASSUME NetInv, NEW r \in Remotes, NEW e, client' = [client EXCEPT ![r] = e],
           NEW s, Put(r, s), e.got = client[r].got,
           e.state # "TIME_WAIT" => client[r].state # "TIME_WAIT",
           e.state # "TIME_WAIT" => (IsAck(s) => Pos(s.ack) = Len(client[r].got))
    PROVE  \A x \in Remotes : ClientMoves(x)
<1>1. client \in [Remotes -> Client] /\ toServer \in [Remotes -> Seq(Segment)]
  BY DEF NetInv, QueuesRight
<1>2. client'[r] = e /\ toServer'[r] = Append(toServer[r], s)
  BY <1>1 DEF Put
<1>3. \A x \in Remotes \ {r} : client'[x] = client[x] /\ toServer'[x] = toServer[x]
  BY <1>1 DEF Put
<1>4. ClientMoves(r)
  BY <1>2, SameMoves DEF Got, Reading
<1>5. \A x \in Remotes \ {r} : ClientMoves(x)
  BY <1>3, SameMoves DEF Got, Reading
<1> QED BY <1>4, <1>5

LEMMA SendMoves ==
    ASSUME NetInv, NEW r \in Remotes, ClientOpen(r) \/ ClientSend(r) \/ ClientClose(r)
    PROVE  \A x \in Remotes : ClientMoves(x)
<1> DEFINE c == client[r]
<1>1. c \in Client /\ c.nxt \in Nat /\ 0 \in Nat
  BY ClientFacts DEF Client
<1>2. CASE ClientOpen(r)
  <2> DEFINE e == [c EXCEPT !.state = "SYN_SENT", !.nxt = 1]
  <2>1. /\ c.state = "IDLE" /\ Put(r, SegmentAt(r, 0))
        /\ client' = [client EXCEPT ![r] = e]
    BY <1>2 DEF ClientOpen
  <2>2. e.got = c.got
    BY <1>1 DEF Client
  <2>3. IsAck(SegmentAt(r, 0)) => Pos(SegmentAt(r, 0).ack) = Len(c.got)
    BY <1>1, SentAcknowledges DEF Got
  <2> HIDE DEF e
  <2> QED BY <2>1, <2>2, <2>3, PutMoves
<1>3. CASE ClientSend(r) \/ ClientClose(r)
  <2> DEFINE n == c.nxt
             f == [c EXCEPT !.nxt = @ + 1]
             g == [c EXCEPT !.state = "FIN_WAIT", !.nxt = @ + 1]
  <2>1. /\ c.state = "ESTABLISHED" /\ Put(r, SegmentAt(r, n))
        /\ \E e \in {f, g} : client' = [client EXCEPT ![r] = e]
    BY <1>3 DEF ClientSend, ClientClose
  <2>2. f.got = c.got /\ g.got = c.got
    BY <1>1 DEF Client
  <2>3. IsAck(SegmentAt(r, n)) => Pos(SegmentAt(r, n).ack) = Len(c.got)
    BY <1>1, <2>1, SentAcknowledges DEF Got
  <2> HIDE DEF f, g
  <2> QED BY <2>1, <2>2, <2>3, PutMoves
<1> QED BY <1>2, <1>3

LEMMA RetransmitMoves ==
    ASSUME NetInv, NEW r \in Remotes, ClientRetransmit(r)
    PROVE  \A x \in Remotes : ClientMoves(x)
<1> DEFINE c == client[r]
           n == c.una
<1>1. /\ c \in Client /\ ClientRight(c) /\ n \in Nat /\ c.nxt \in Nat
      /\ client' = [client EXCEPT ![r] = c] /\ Put(r, SegmentAt(r, n)) /\ n # c.nxt
  BY ClientFacts DEF ClientRetransmit, NetInv, Client
<1>2. n = 0 \/ c.state \in {"ESTABLISHED", "FIN_WAIT", "TIME_WAIT"}
  <2>1. /\ n <= c.nxt
        /\ c.state = "IDLE" => c.nxt = 0
        /\ c.state = "SYN_SENT" => c.nxt = 1
    BY <1>1 DEF ClientRight
  <2>2. c.state \in {"IDLE", "SYN_SENT", "ESTABLISHED", "FIN_WAIT", "TIME_WAIT"}
    BY <1>1 DEF Client
  <2> HIDE DEF c, n
  <2> QED BY <1>1, <2>1, <2>2
<1>3. c.state # "TIME_WAIT" =>
        (IsAck(SegmentAt(r, n)) => Pos(SegmentAt(r, n).ack) = Len(c.got))
  BY <1>1, <1>2, SentAcknowledges DEF Got
<1> QED BY <1>1, <1>3, PutMoves

LEMMA ReceiveMoves ==
    ASSUME NetInv, NEW r \in Remotes, ClientReceive(r)
    PROVE  \A x \in Remotes : ClientMoves(x)
<1> DEFINE c == client[r]
           s == Head(toClient[r])
           d == Received(r, s)
           ack == [FromClient(r, {"ACK"}, d.nxt, 0) EXCEPT !.ack = d.rcv]
<1>1. /\ toClient[r] # <<>> /\ c.state # "IDLE" /\ client' = [client EXCEPT ![r] = d]
      /\ \/ Answers(r, s) /\ Put(r, ack)
         \/ toServer' = toServer
  BY DEF ClientReceive
<1>2. s \in Downlink(c.plan, r)
  <2> DEFINE D == Downlink(c.plan, r)
  <2>1. toClient[r] \in Seq(D)
    BY QueuesSame
  <2> HIDE DEF D
  <2>2. s \in D
    BY <1>1, <2>1, HeadTailProperties
  <2> QED BY <2>2 DEF D
<1>3. ack.ack = d.rcv
  BY DEF FromClient
<1> HIDE DEF s
<1>4. ClientRight(c) /\ ClientRight(d) /\ d.plan = c.plan
  BY <1>1, <1>2, ClientFacts, ReceivedRight
<1>5. /\ d.state # "TIME_WAIT" => c.state # "TIME_WAIT"
      /\ Len(c.got) <= Len(d.got)
      /\ Answers(r, s) /\ d.state # "TIME_WAIT" => d.state \in {"ESTABLISHED", "FIN_WAIT"}
  BY <1>1, <1>2, ReceivedMoves
<1> HIDE DEF ack, d, c
<1>6. Elems(c.got) \subseteq Elems(d.got)
  BY <1>4, <1>5, ReadsOn
<1>7. client \in [Remotes -> Client] /\ toServer \in [Remotes -> Seq(Segment)]
  BY DEF NetInv, QueuesRight
<1>8. client'[r] = d /\ client[r] = c
  BY <1>1, <1>7 DEF c
<1>9. ClientMoves(r)
  <2>1. Reading(r)' =>
            \/ toServer'[r] = toServer[r]
            \/ \E a : /\ toServer'[r] = Append(toServer[r], a)
                      /\ IsAck(a) => Pos(a.ack) = Len(Got(r)')
    <3>1. CASE Answers(r, s) /\ Put(r, ack) /\ d.state # "TIME_WAIT"
      <4>1. toServer'[r] = Append(toServer[r], ack)
        BY <1>7, <3>1 DEF Put
      <4>2. Pos(d.rcv) = Len(d.got)
        BY <1>4, <1>5, <3>1, NextExpected
      <4> QED BY <1>3, <1>8, <4>1, <4>2 DEF Got
    <3> QED BY <1>1, <1>8, <3>1 DEF Reading
  <2> QED BY <1>5, <1>6, <1>8, <2>1 DEF ClientMoves, Reading, Got
<1>10. \A x \in Remotes \ {r} : ClientMoves(x)
  <2>1. \A x \in Remotes \ {r} : client'[x] = client[x] /\ toServer'[x] = toServer[x]
    BY <1>1, <1>7 DEF Put
  <2> QED BY <2>1, SameMoves DEF Got, Reading
<1> QED BY <1>9, <1>10

\* A network that keeps segments in order may only lose them.
InOrderNet == Faults \cap {"duplicate", "delay"} = {}

LEMMA ClientsMove ==
    ASSUME NetInv, [NetNext]_allVars, InOrderNet
    PROVE  \A x \in Remotes : ClientMoves(x)
<1>1. client \in [Remotes -> Client] /\ toServer \in [Remotes -> Seq(Segment)]
  BY DEF NetInv, QueuesRight
<1>2. ASSUME client' = client, toServer' = toServer
      PROVE  \A x \in Remotes : ClientMoves(x)
  BY <1>2, SameMoves DEF Got, Reading
<1>3. ASSUME NEW r \in Remotes, client' = client, toServer[r] # <<>>,
             toServer' = [toServer EXCEPT ![r] = Tail(@)]
      PROVE  \A x \in Remotes : ClientMoves(x)
  <2>1. /\ toServer'[r] = Tail(toServer[r])
        /\ \A x \in Remotes \ {r} : toServer'[x] = toServer[x]
    BY <1>1, <1>3
  <2> QED BY <1>3, <2>1, SameMoves DEF Got, Reading
<1>4. CASE \/ ServerListen \/ ServerProcess
           \/ (\E i \in Slots : ServerElapse(i) \/ ServerClockSet(i))
           \/ UNCHANGED allVars
  BY <1>2, <1>4 DEF ServerListen, ServerProcess, ServerElapse, ServerClockSet, netVars, allVars
<1>5. ASSUME NEW r \in Remotes, ServerReceive(r)
      PROVE  \A x \in Remotes : ClientMoves(x)
  BY <1>3, <1>5 DEF ServerReceive
<1>6. ASSUME NEW r \in Remotes, Fault(r)
      PROVE  \A x \in Remotes : ClientMoves(x)
  <2>1. \A q, q2 : q2 \in Faulty("toServer", q) => q2 = Tail(q)
    BY DEF Faulty, InOrderNet
  <2> QED BY <1>2, <1>3, <1>6, <2>1 DEF Fault
<1> QED BY <1>4, <1>5, <1>6, SendMoves, RetransmitMoves, ReceiveMoves DEF NetNext, ClientStep

----------------------------------------------------------------------------
\* What is released has been read.

\* No acknowledgement on its way to row i is of less than the row knows, or of more
\* than its client has read; and what the row gave of its answers it has queued, or
\* the client has read.
RowReleases(i) ==
    LET r == tcp_conns[i].remote
        e == Pos(EarliestUnacked(tcp_conns[i]))
    IN  /\ e <= Len(Got(r)) /\ AcksWithin(toServer[r], e, Len(Got(r)))
        /\ \A b \in Given(Plan(i), Len(heard[i])) :
                b \in QueuedIn(Q(i)) \/ Elems(Units(b)) \subseteq Elems(Got(r))

ReleaseInv ==
    /\ AnswersInv
    /\ \A r \in Remotes : Reading(r) => AcksWithin(toServer[r], 0, Len(Got(r)))
    /\ \A i \in Slots :
        Begun(tcp_conns[i]) /\ Reading(tcp_conns[i].remote) => RowReleases(i)

LEMMA BegunFacts ==
    ASSUME AnswersInv, NEW i \in Slots, Begun(tcp_conns[i])
    PROVE  LET c == tcp_conns[i]
               p == Plan(i)
           IN  /\ Live(c) /\ c.remote \in Remotes /\ i \in opened
               /\ p \in DOMAIN Asked /\ p = client[c.remote].plan
               /\ QueueRight(c.sendbuf, p) /\ Tiles(c.sendbuf, c.nextOut)
<1> DEFINE c == tcp_conns[i]
<1>1. Open(i) /\ c.state \notin {"CLOSING", "LAST_ACK"}
  BY DEF Begun, Open
<1>2. Live(c) /\ c.remote \in Remotes
  BY <1>1, OpenConnected DEF AnswersInv, NetInv, Connected, Live
<1>3. i \in opened /\ QueueRight(c.sendbuf, Plan(i))
  <2>1. RowRight(i)
    BY DEF AnswersInv, NetInv
  <2> QED BY <1>1, <2>1 DEF RowRight, Converses, Plan
<1>4. Plan(i) \in DOMAIN Asked /\ Plan(i) = client[c.remote].plan
  BY <1>2, PlanType DEF AnswersInv, Plan
<1>5. Tiles(c.sendbuf, c.nextOut)
  <2>1. Tiles(c.sendbuf, QueueEnd(c))
    BY <1>2, ContiguousTiles DEF AnswersInv, TcpInv, SendSpaceContiguous
  <2>2. c.nextOut \in 0..(SeqSpace - 1) /\ SeqSpace \in Nat \ {0}
    BY <1>2, SeqAssumption DEF Live, TcpConn, SeqNo
  <2>3. QueueEnd(c) = c.nextOut
    <3>1. c.nextOut - FinTaken(c) = c.nextOut
      BY <1>1, <2>2 DEF FinTaken
    <3> QED BY <2>2, <3>1, ModIdentity DEF QueueEnd
  <2> QED BY <2>1, <2>3
<1> QED BY <1>2, <1>3, <1>4, <1>5

LEMMA GotType ==
    ASSUME NetInv, NEW r \in Remotes
    PROVE  /\ Got(r) \in Seq(Unit) /\ Len(Got(r)) \in Nat
           /\ \A k \in 1..Len(Got(r)) : Got(r)[k] = Stream(client[r].plan)[k]
BY ClientFacts, LenProperties DEF ClientRight, Client, Unit, Got

LEMMA GivenNone == \A p : Given(p, 0) = {}
BY DEF Given

\* A row that settles gives nothing and frees nothing.
LEMMA SettledReleases ==
    ASSUME ReleaseInv, AnswersInv', \A x \in Remotes : ClientMoves(x),
           \A x \in Remotes : client'[x].plan = client[x].plan,
           NEW i \in Slots, Settled(i), Begun(tcp_conns'[i]),
           NEW r \in Remotes, r = tcp_conns'[i].remote, Reading(r)'
    PROVE  RowReleases(i)'
<1> DEFINE c == tcp_conns[i]
           d == tcp_conns'[i]
           n == Len(Got(r))
           m == Len(Got(r)')
<1>1. i \in opened'
  <2>1. RowRight(i)'
    BY DEF AnswersInv, NetInv
  <2> QED BY <2>1 DEF RowRight, Open, Begun
<1>2. /\ NetInv /\ NetInv' /\ AnswersInv /\ ClientMoves(r) /\ Reading(r)' /\ Reading(r)
      /\ heard'[i] = heard[i] /\ Plan(i)' = client[r].plan
  <2>1. NetInv /\ NetInv' /\ AnswersInv
    BY DEF ReleaseInv, AnswersInv
  <2>2. ClientMoves(r) /\ Reading(r)
    BY DEF ClientMoves
  <2> QED BY <1>1, <2>1, <2>2 DEF Settled, Plan
<1>3. n \in Nat /\ m \in Nat
  BY <1>1, <1>2, GotType
<1>4. Elems(Got(r)) \subseteq Elems(Got(r)')
  BY <1>2 DEF ClientMoves
<1>5. CASE Kept(i)
  <2> DEFINE e == Pos(EarliestUnacked(c))
  <2>1. /\ c.remote = r /\ Begun(c) /\ QueuedIn(d.sendbuf) = QueuedIn(c.sendbuf)
        /\ EarliestUnacked(d) = EarliestUnacked(c)
    BY <1>5 DEF Kept, SameEnds
  <2>2. RowReleases(i) /\ Plan(i) = client[r].plan
    BY <1>2, <2>1 DEF ReleaseInv, Plan
  <2>3. e \in Nat
    <3>1. EarliestUnacked(c) \in SeqNo
      BY <1>2, <2>1, BegunFacts, UnackedType
    <3> QED BY <3>1, NumPos
  <2>4. e <= n /\ AcksWithin(toServer[r], e, n)
    BY <2>1, <2>2 DEF RowReleases
  <2> HIDE DEF e
  <2>5. e <= m /\ AcksWithin(toServer'[r], e, m)
    BY <1>1, <1>2, <2>3, <2>4, AcksMove
  <2>6. \A b \in Given(Plan(i), Len(heard[i])) :
            b \in QueuedIn(c.sendbuf) \/ Elems(Units(b)) \subseteq Elems(Got(r))
    BY <2>1, <2>2 DEF RowReleases, Q
  <2> QED BY <1>2, <1>4, <2>1, <2>2, <2>5, <2>6 DEF RowReleases, Q, e
<1>6. CASE Taken(i)
  <2>1. /\ EarliestUnacked(d) = Num(0) /\ heard[i] = <<>>
    BY <1>2, <1>6 DEF Taken, EarliestUnacked, NetInv, RowRight
  <2>2. Pos(EarliestUnacked(d)) = 0
    <3>1. 0 \in 0..(SeqSpace - 1)
      BY SeqAssumption
    <3> QED BY <2>1, <3>1, PosNum
  <2>3. 0 <= n /\ AcksWithin(toServer[r], 0, n) /\ 0 \in Nat
    BY <1>1, <1>2, <1>3 DEF ReleaseInv
  <2>4. 0 <= m /\ AcksWithin(toServer'[r], 0, m)
    BY <1>1, <1>2, <2>3, AcksMove
  <2>5. Given(Plan(i)', Len(heard'[i])) = {}
    BY <1>2, <2>1, EmptySeq, GivenNone
  <2> QED BY <2>2, <2>4, <2>5 DEF RowReleases
<1> QED BY <1>5, <1>6 DEF Settled, Ended

\* A row that takes an acknowledgement frees what its client has read, and queues
\* the answer it gives.
LEMMA AnsweredReleases ==
    ASSUME ReleaseInv, AnswersInv', NEW r \in Remotes, ServerReceive(r),
           NEW s, s = Head(toServer[r]), s \in Uplink(client[r].plan, r),
           NEW i \in Slots, NEW ds, Answered(i, s, ds),
           Given(Plan(i), Len(heard'[i])) = Given(Plan(i), Len(heard[i])) \cup Elems(ds),
           Reading(r)
    PROVE  tcp_conns'[i].remote = r /\ RowReleases(i)'
<1> DEFINE c == tcp_conns[i]
           a == Acknowledged(c, s)
           d == tcp_conns'[i]
           p == client[r].plan
           got == Got(r)
           n == Len(got)
           e == Pos(EarliestUnacked(c))
           f == Pos(EarliestUnacked(a))
           q == toServer[r]
           Read(b) == Elems(Units(b)) \subseteq Elems(got)
<1>1. /\ AnswersInv /\ NetInv /\ Target(i, s) /\ Begun(c) /\ SameEnds(d, c)
      /\ EarliestUnacked(d) = EarliestUnacked(a)
      /\ QueuedIn(d.sendbuf) = QueuedIn(a.sendbuf) \cup Elems(ds)
  BY DEF Answered, Begun, ReleaseInv, AnswersInv
<1>2. s \in Segment /\ c.remote = r /\ d.remote = r
  BY <1>1, TargetRight DEF SameEnds
<1>3. /\ Live(c) /\ p \in DOMAIN Asked /\ Plan(i) = p
      /\ QueueRight(c.sendbuf, p) /\ Tiles(c.sendbuf, c.nextOut)
  BY <1>1, <1>2, BegunFacts
<1>4. /\ client' = client /\ q # <<>> /\ toServer'[r] = Tail(q) /\ q \in Seq(Segment)
  BY <1>1 DEF ServerReceive, NetInv, QueuesRight
<1>5. e \in Nat /\ f \in Nat
  <2>1. Live(a)
    BY <1>2, <1>3, AcknowledgedLive
  <2>2. EarliestUnacked(a) \in SeqNo /\ EarliestUnacked(c) \in SeqNo
    BY <1>3, <2>1, UnackedType
  <2> QED BY <2>2, NumPos
<1>6. e <= n /\ AcksWithin(q, e, n)
      /\ \A b \in Given(p, Len(heard[i])) : b \in QueuedIn(c.sendbuf) \/ Read(b)
  <2>1. RowReleases(i)
    BY <1>1, <1>2 DEF ReleaseInv
  <2> QED BY <1>2, <1>3, <2>1 DEF RowReleases, Q
<1>7. got \in Seq(Unit) /\ n \in Nat /\ \A k \in 1..n : got[k] = Stream(p)[k]
  BY <1>1, GotType
<1>8. /\ f <= n /\ AcksWithin(Tail(q), f, n)
      /\ \A b \in QueuedIn(c.sendbuf) : b \in QueuedIn(a.sendbuf) \/ Read(b)
  <2>1. ASSUME IsAck(s)
        PROVE  /\ f <= n /\ AcksWithin(Tail(q), f, n)
               /\ \A b \in QueuedIn(c.sendbuf) : b \in QueuedIn(a.sendbuf) \/ Read(b)
    <3> DEFINE x == Pos(s.ack)
    <3>1. e <= x /\ x <= n /\ x \in Nat
      <4>1. 1 \in 1..Len(q) /\ s = q[1]
        <5> HIDE DEF q
        <5>1. Len(q) \in Nat /\ Len(q) # 0
          BY <1>4, LenProperties, EmptySeq
        <5> QED BY <1>4, <5>1 DEF q
      <4> HIDE DEF q
      <4> QED BY <1>2, <1>6, <2>1, <4>1, PosType DEF AcksWithin
    <3>2. /\ f <= x
          /\ \A b \in QueuedIn(c.sendbuf) :
                \/ b \in QueuedIn(a.sendbuf)
                \/ \E o \in Nat : Placed(p, b, o) /\ o + BufLen[b] <= x
      <4> HIDE DEF p, x
      <4> QED BY <1>2, <1>3, <2>1, <3>1, AckAdvances DEF x
    <3>3. f <= n
      <4> HIDE DEF f, x, n
      <4> QED BY <1>5, <1>7, <3>1, <3>2
    <3>4. AcksWithin(Tail(q), f, n)
      <4> HIDE DEF q, f, n, e
      <4>1. s = Head(q)
        BY DEF q
      <4> QED BY <1>4, <1>5, <1>6, <1>7, <2>1, <3>2, <4>1, AcksBehind
    <3>5. ASSUME NEW b \in QueuedIn(c.sendbuf) PROVE b \in QueuedIn(a.sendbuf) \/ Read(b)
      <4>1. b \in Buffers
        BY <1>1, QueueType DEF QueuedIn, Q, NetInv
      <4>2. ASSUME NEW o \in Nat, Placed(p, b, o), o + BufLen[b] <= x PROVE Read(b)
        <5>1. BufLen[b] \in Nat
          BY <4>1, BufferAssumption
        <5>2. o + BufLen[b] <= n
          <6> HIDE DEF x, n
          <6> QED BY <1>7, <3>1, <4>2, <5>1
        <5> HIDE DEF p, got
        <5> QED BY <1>3, <1>7, <4>1, <4>2, <5>2, PlacedIsRead
      <4> QED BY <3>2, <4>2
    <3> QED BY <3>3, <3>4, <3>5
  <2>2. ASSUME ~IsAck(s)
        PROVE  /\ f <= n /\ AcksWithin(Tail(q), f, n)
               /\ \A b \in QueuedIn(c.sendbuf) : b \in QueuedIn(a.sendbuf) \/ Read(b)
    <3>1. a = c
      BY <2>2 DEF Acknowledged, IsAck
    <3>2. f = e
      BY <3>1
    <3>3. AcksWithin(Tail(q), e, n)
      <4> HIDE DEF q, n, e
      <4> QED BY <1>4, <1>6, AcksTail
    <3> QED BY <1>6, <3>1, <3>2, <3>3
  <2> QED BY <2>1, <2>2
<1>9. \A b \in Given(p, Len(heard'[i])) : b \in QueuedIn(d.sendbuf) \/ Read(b)
  BY <1>1, <1>3, <1>6, <1>8
<1>10. Plan(i)' = p /\ Got(r)' = got
  BY <1>2, <1>4 DEF Plan, Got
<1> HIDE DEF p, got
<1> QED BY <1>1, <1>2, <1>4, <1>8, <1>9, <1>10 DEF RowReleases, Q, got

\* A row settles, or has its answer to the segment the router received.
LEMMA RowsMove ==
    ASSUME AnswersInv, [NetNext]_allVars, NEW i \in Slots
    PROVE  /\ \A x \in Remotes : client'[x].plan = client[x].plan
           /\ \/ Settled(i)
              \/ \E r \in Remotes :
                    /\ ServerReceive(r) /\ Outcome(i, Head(toServer[r]))
                    /\ Head(toServer[r]) \in Uplink(client[r].plan, r)
<1>1. CASE \/ ServerListen \/ ServerProcess
           \/ \E j \in Slots : ServerElapse(j) \/ ServerClockSet(j)
  BY <1>1, RouterIsStep
<1>2. ASSUME NEW r \in Remotes, ServerReceive(r)
      PROVE  /\ \A x \in Remotes : client'[x].plan = client[x].plan
             /\ Outcome(i, Head(toServer[r]))
             /\ Head(toServer[r]) \in Uplink(client[r].plan, r)
  <2> DEFINE s == Head(toServer[r])
  <2>1. s \in Uplink(client[r].plan, r) /\ \A j \in Slots : Outcome(j, s)
    BY <1>2, ReceiveIsStep
  <2>2. client' = client
    BY <1>2 DEF ServerReceive
  <2> QED BY <2>1, <2>2
<1>3. CASE \/ \E r \in Remotes : ClientStep(r) \/ ClientRetransmit(r) \/ Fault(r)
           \/ UNCHANGED allVars
  <2>1. UNCHANGED vars /\ heard' = heard
    BY <1>3 DEF ClientStep, ClientOpen, ClientSend, ClientClose, ClientReceive,
                ClientRetransmit, Fault, allVars, netVars
  <2>2. \A x \in Remotes : client'[x].plan = client[x].plan
    BY <1>3, PlansStay DEF AnswersInv
  <2>3. Kept(i)
    BY <2>1, SameKept DEF vars, SameEnds
  <2> QED BY <2>1, <2>2, <2>3 DEF Settled
<1> QED BY <1>1, <1>2, <1>3 DEF NetNext

LEMMA ReleaseStep ==
    ASSUME ReleaseInv, [NetNext]_allVars, InOrderNet
    PROVE  ReleaseInv'
<1>1. /\ AnswersInv /\ AnswersInv' /\ NetInv /\ NetInv'
      /\ \A x \in Remotes : ClientMoves(x)
  <2>1. AnswersInv /\ NetInv
    BY DEF ReleaseInv, AnswersInv
  <2>2. AnswersInv'
    BY <2>1, NetIsStep
  <2>3. \A x \in Remotes : ClientMoves(x)
    BY <2>1, ClientsMove
  <2> QED BY <2>1, <2>2, <2>3 DEF AnswersInv
<1>2. ASSUME NEW r \in Remotes, Reading(r)'
      PROVE  AcksWithin(toServer'[r], 0, Len(Got(r)'))
  <2>1. ClientMoves(r) /\ Reading(r)
    BY <1>1, <1>2 DEF ClientMoves
  <2>2. AcksWithin(toServer[r], 0, Len(Got(r))) /\ 0 \in Nat /\ 0 <= Len(Got(r))
    BY <1>1, <2>1, GotType DEF ReleaseInv
  <2> QED BY <1>1, <1>2, <2>1, <2>2, AcksMove
<1>3. ASSUME NEW i \in Slots, Begun(tcp_conns'[i]), NEW r, r = tcp_conns'[i].remote,
             Reading(r)'
      PROVE  RowReleases(i)'
  <2>1. \A x \in Remotes : client'[x].plan = client[x].plan
    BY <1>1, RowsMove
  <2>2. CASE Settled(i)
    <3>1. r \in Remotes
      <4>1. TypeInv'
        BY <1>1 DEF NetInv
      <4>2. Row(tcp_conns'[i])
        BY <4>1 DEF TypeInv, Table
      <4> QED BY <1>3, <4>2 DEF Row, Listening, Connected, Live, ClosedConn, Begun
    <3> QED BY <1>1, <1>3, <2>1, <2>2, <3>1, SettledReleases
  <2>3. ASSUME NEW x \in Remotes, NEW s, s = Head(toServer[x]), ServerReceive(x),
               Outcome(i, s), s \in Uplink(client[x].plan, x), ~Settled(i)
        PROVE  RowReleases(i)'
    <3>1. PICK ds : /\ Answered(i, s, ds)
                    /\ Given(Plan(i), Len(heard'[i])) =
                            Given(Plan(i), Len(heard[i])) \cup Elems(ds)
      BY <2>3 DEF Outcome
    <3>2. x = r
      BY <1>1, <1>3, <2>3, <3>1, TargetRight DEF Answered, SameEnds
    <3>3. Reading(x)
      BY <1>1, <1>3, <3>2 DEF ClientMoves
    <3> QED BY <1>1, <2>3, <3>1, <3>3, AnsweredReleases
  <2> QED BY <1>1, <2>2, <2>3, RowsMove
<1> QED BY <1>1, <1>2, <1>3 DEF ReleaseInv

LEMMA ReleaseInit == NetInit => ReleaseInv
<1> SUFFICES ASSUME NetInit PROVE ReleaseInv
  OBVIOUS
<1>1. AnswersInv
  BY AnswersInit
<1>2. ASSUME NEW r \in Remotes PROVE AcksWithin(toServer[r], 0, Len(Got(r)))
  <2>1. toServer[r] = <<>>
    BY DEF NetInit
  <2> QED BY <2>1, EmptySeq DEF AcksWithin
<1>3. ASSUME NEW i \in Slots PROVE ~Begun(tcp_conns[i])
  BY DEF NetInit, Init, ClosedConn, Begun
<1> QED BY <1>1, <1>2, <1>3 DEF ReleaseInv

\* On a network that may lose segments but keeps them in order, the router gives a
\* buffer of an open connection back only when its client has read all of it
\* (tcp.c:134-163).  Repeated or overtaken, an old acknowledgement is taken for one
\* of almost all of the sequence space, and releases buffers that were not read.
THEOREM ReleasedOnlyWhenRead ==
    ASSUME InOrderNet
    PROVE  NetSpec => []ReleasedWhenRead
<1>1. ReleaseInv /\ [NetNext]_allVars => ReleaseInv'
  BY ReleaseStep
<1>2. ReleaseInv => ReleasedWhenRead
  <2> SUFFICES ASSUME ReleaseInv, NEW i \in Slots, NEW r, r = tcp_conns[i].remote,
                      tcp_conns[i].state = "ESTABLISHED",
                      client[r].state = "ESTABLISHED",
                      NEW n \in 1..Len(heard[i]),
                      NEW b \in Elems(Replies[client[r].plan][n]), owner[b] = "app"
               PROVE  Elems(Units(b)) \subseteq Elems(client[r].got)
    BY DEF ReleasedWhenRead
  <2>1. RowReleases(i) /\ BufferOwnership
    BY DEF ReleaseInv, AnswersInv, TcpInv, Begun, Reading
  <2>2. b \in Given(Plan(i), Len(heard[i]))
    BY DEF Given, Plan
  <2>3. b \notin QueuedIn(Q(i))
    <3>1. DOMAIN Q(i) = 1..Len(Q(i))
      BY QueueType DEF ReleaseInv, AnswersInv, NetInv
    <3>2. \A k \in 1..Len(Q(i)) : owner[Q(i)[k].data] = "stack"
      BY <2>1, <3>1 DEF BufferOwnership, Q
    <3> QED BY <3>2 DEF QueuedIn
  <2> QED BY <2>1, <2>2, <2>3 DEF RowReleases, Got
<1> QED BY ReleaseInit, <1>1, <1>2, PTL DEF NetSpec
=============================================================================
