----------------------------- MODULE TcpProofs -----------------------------
(***************************************************************************)
(* Theorems about module Tcp, for every table size, segment size, sequence  *)
(* space, set of buffers and set of segments that may arrive: its types;    *)
(* that no two rows serve one connection, that the application knows        *)
(* exactly the open rows and that a row only moves forward; and that the    *)
(* queued buffers of a row tile its sequence space, so that what is sent    *)
(* again has its first numbers.                                             *)
(***************************************************************************)
EXTENDS Tcp, TLAPS, SequenceTheorems, WellFoundedInduction

USE DEF SeqNo, Slots, Flag

----------------------------------------------------------------------------
\* Natural numbers.

\* Every non-empty set of natural numbers has a least element.
LEMMA LeastNat ==
    ASSUME NEW T \in SUBSET Nat, T # {}
    PROVE  \E m \in T : \A k \in T : m <= k
<1> DEFINE R == OpToRel(<, Nat)
<1>1. R = {p \in Nat \X Nat : p[1] < p[2]}
  BY DEF OpToRel
<1>2. IsWellFoundedOn(R, Nat)
  BY NatLessThanWellFounded
<1> HIDE DEF R
<1>3. PICK m \in T : \A k \in T : <<k, m>> \notin R
  BY <1>2, WFMin
<1>4. ASSUME NEW k \in T, k < m PROVE FALSE
  <2>1. <<k, m>> \in Nat \X Nat /\ <<k, m>>[1] < <<k, m>>[2]
    BY <1>4
  <2> QED BY <1>1, <1>3, <2>1
<1>5. ASSUME NEW k \in T PROVE m <= k
  BY <1>4
<1> QED BY <1>5

----------------------------------------------------------------------------
\* The send queue.

LEMMA RemainingType ==
    ASSUME NEW b \in TcpBuf
    PROVE  Remaining(b) \in Int
BY BufferAssumption DEF Remaining, TcpBuf

\* The sums of Before are defined for every queue: a least prefix without
\* them would be one unit longer than a prefix that has them.
LEMMA BeforeDef ==
    ASSUME NEW q \in Seq(TcpBuf)
    PROVE  Before(q) = [i \in 0..Len(q) |->
                IF i = 0 THEN 0 ELSE Before(q)[i - 1] + Remaining(q[i])]
<1> DEFINE Sums(n, f) == f = [i \in 0..n |-> IF i = 0 THEN 0
                                              ELSE f[i - 1] + Remaining(q[i])]
           Missing == {n \in 0..Len(q) : ~\E f : Sums(n, f)}
<1>1. Len(q) \in Nat
  BY LenProperties
<1>2. Missing = {}
  <2>1. SUFFICES ASSUME Missing # {} PROVE FALSE
    OBVIOUS
  <2>2. PICK m \in Missing : \A k \in Missing : m <= k
    <3>1. Missing \in SUBSET Nat
      BY <1>1
    <3> HIDE DEF Missing
    <3> QED BY <2>1, <3>1, LeastNat
  <2>3. m \in 0..Len(q) /\ ~\E f : Sums(m, f)
    BY <2>2
  <2>4. m # 0
    <3>1. Sums(0, [i \in 0..0 |-> 0])
      OBVIOUS
    <3> QED BY <2>3, <3>1
  <2>5. PICK g : Sums(m - 1, g)
    <3>1. m \in Int /\ m - 1 \in 0..Len(q)
      BY <1>1, <2>3, <2>4
    <3>2. m - 1 \notin Missing
      <4> HIDE DEF Missing
      <4> QED BY <2>2, <3>1
    <3> QED BY <3>1, <3>2
  <2> DEFINE h == [i \in 0..m |-> IF i = m THEN g[m - 1] + Remaining(q[m]) ELSE g[i]]
  <2>6. ASSUME NEW i \in 0..m
        PROVE  h[i] = IF i = 0 THEN 0 ELSE h[i - 1] + Remaining(q[i])
    <3>1. CASE i = m
      <4>1. m - 1 \in 0..m /\ m - 1 # m
        BY <1>1, <2>3, <2>4
      <4> QED BY <2>4, <3>1, <4>1
    <3>2. CASE i # m
      <4>1. i \in 0..(m - 1) /\ (i # 0 => i - 1 \in 0..m /\ i - 1 # m)
        BY <1>1, <2>3, <3>2
      <4> QED BY <2>5, <3>2, <4>1
    <3> QED BY <3>1, <3>2
  <2>7. Sums(m, h)
    BY <2>6
  <2> QED BY <2>3, <2>7
<1>3. \E f : Sums(Len(q), f)
  BY <1>1, <1>2
<1>4. Before(q) = CHOOSE f : Sums(Len(q), f)
  BY DEF Before
<1> HIDE DEF Sums
<1>5. Sums(Len(q), Before(q))
  BY <1>3, <1>4
<1> QED BY <1>5 DEF Sums

LEMMA BeforeType ==
    ASSUME NEW q \in Seq(TcpBuf)
    PROVE  Before(q) \in [0..Len(q) -> Int]
<1> DEFINE Bad == {n \in 0..Len(q) : Before(q)[n] \notin Int}
<1>1. Len(q) \in Nat
  BY LenProperties
<1>2. SUFFICES ASSUME Bad # {} PROVE FALSE
  BY BeforeDef
<1>3. PICK m \in Bad : \A k \in Bad : m <= k
  <2>1. Bad \in SUBSET Nat
    BY <1>1
  <2> HIDE DEF Bad
  <2> QED BY <1>2, <2>1, LeastNat
<1>4. m \in 0..Len(q) /\ m # 0
  BY <1>3, BeforeDef
<1>5. Before(q)[m] = Before(q)[m - 1] + Remaining(q[m])
  BY <1>4, BeforeDef
<1>6. Before(q)[m - 1] \in Int
  BY <1>1, <1>3, <1>4
<1>7. Remaining(q[m]) \in Int
  BY <1>1, <1>4, ElementOfSeq, RemainingType
<1> QED BY <1>3, <1>5, <1>6, <1>7

\* The loop stops: Freed is the least number of buffers at which it does.
LEMMA FreedStops ==
    ASSUME NEW q \in Seq(TcpBuf), NEW n \in Int
    PROVE  /\ Freed(q, n) \in 0..Len(q) /\ Stops(q, n, Freed(q, n))
           /\ \A j \in 0..(Freed(q, n) - 1) : ~Stops(q, n, j)
<1> DEFINE S == {k \in 0..Len(q) : Stops(q, n, k)}
<1>1. Len(q) \in Nat
  BY LenProperties
<1>2. S # {} /\ S \in SUBSET Nat
  BY <1>1 DEF Stops
<1>3. PICK k \in S : \A j \in S : k <= j
  <2> HIDE DEF S
  <2> QED BY <1>2, LeastNat
<1>4. \A j \in 0..(k - 1) : ~Stops(q, n, j)
  BY <1>1, <1>3
<1>5. \E x \in 0..Len(q) : Stops(q, n, x) /\ \A j \in 0..(x - 1) : ~Stops(q, n, j)
  BY <1>3, <1>4
<1> QED BY <1>5 DEF Freed

\* What an acknowledgement leaves of a queue: some buffers at its head are
\* gone, the first one left may be acknowledged in part but never in full,
\* and the others are as they were.
OffsetsInBuffer(q) ==
    \A k \in 1..Len(q) : q[k].ofs = 0 \/ q[k].ofs < BufLen[q[k].data]

\* q is r without its first d buffers; a part of the next one may be gone too.
HeadDropped(q, r, d) ==
    /\ Len(q) = Len(r) - d
    /\ \A k \in 1..(Len(r) - d) :
        /\ q[k].data = r[k + d].data /\ q[k].seq = r[k + d].seq
        /\ k > 1 => q[k].ofs = r[k + d].ofs

LEMMA UnbufferEffect ==
    ASSUME NEW q \in Seq(TcpBuf), NEW n \in Nat, OffsetsInBuffer(q)
    PROVE  /\ Unbuffer(q, n) \in Seq(TcpBuf)
           /\ OffsetsInBuffer(Unbuffer(q, n))
           /\ Freed(q, n) \in 0..Len(q) /\ HeadDropped(Unbuffer(q, n), q, Freed(q, n))
           /\ Freed(q, n) < Len(q) =>
                LET d == Freed(q, n)
                IN  Unbuffer(q, n)[1].ofs =
                        IF Before(q)[d] < n THEN q[d + 1].ofs + n - Before(q)[d]
                                            ELSE q[d + 1].ofs
<1> DEFINE d == Freed(q, n)
           rest == SubSeq(q, d + 1, Len(q))
           B == Before(q)
           u == Unbuffer(q, n)
<1>1. Len(q) \in Nat /\ d \in 0..Len(q) /\ Stops(q, n, d)
  <2>1. n \in Int
    OBVIOUS
  <2>2. Freed(q, n) \in 0..Len(q) /\ Stops(q, n, Freed(q, n))
    BY <2>1, FreedStops
  <2> QED BY <2>2, LenProperties
<1>2. \A i \in 1..Len(q) : q[i] \in TcpBuf
  BY ElementOfSeq
<1>3. /\ rest \in Seq(TcpBuf)
      /\ Len(rest) = Len(q) - d
      /\ \A k \in 1..(Len(q) - d) : rest[k] = q[k + d]
  <2>1. /\ d + 1 \in Int /\ Len(q) \in Int
        /\ \A i \in (d + 1)..Len(q) : q[i] \in TcpBuf
    BY <1>1, <1>2
  <2>2. /\ rest \in Seq(TcpBuf)
        /\ Len(rest) = IF d + 1 <= Len(q) THEN Len(q) - (d + 1) + 1 ELSE 0
        /\ \A k \in 1..(Len(q) - (d + 1) + 1) : rest[k] = q[d + 1 + k - 1]
    <3> HIDE DEF d
    <3> QED BY <2>1, SubSeqProperties
  <2> HIDE DEF rest, d
  <2> QED BY <1>1, <2>2
<1>4. u = IF d < Len(q) /\ B[d] < n THEN [rest EXCEPT ![1].ofs = @ + n - B[d]] ELSE rest
  BY DEF Unbuffer
<1>5. \A k \in 1..Len(rest) : rest[k].ofs = 0 \/ rest[k].ofs < BufLen[rest[k].data]
  <2> HIDE DEF rest, d
  <2> QED BY <1>1, <1>3 DEF OffsetsInBuffer
<1> DEFINE HeadOffset == d < Len(q) =>
                u[1].ofs = IF B[d] < n THEN q[d + 1].ofs + n - B[d] ELSE q[d + 1].ofs
<1>6. ASSUME ~(d < Len(q) /\ B[d] < n)
      PROVE  u \in Seq(TcpBuf) /\ OffsetsInBuffer(u) /\ HeadDropped(u, q, d) /\ HeadOffset
  <2>1. u = rest
    BY <1>4, <1>6
  <2>2. OffsetsInBuffer(u) /\ HeadDropped(u, q, d)
    <3> HIDE DEF rest, d, u, B
    <3> QED BY <1>1, <1>3, <1>5, <2>1 DEF OffsetsInBuffer, HeadDropped
  <2>3. HeadOffset
    <3> SUFFICES ASSUME d < Len(q) PROVE u[1].ofs = q[d + 1].ofs /\ ~(B[d] < n)
      OBVIOUS
    <3>1. 1 \in 1..(Len(q) - d) /\ 1 + d = d + 1
      <4> HIDE DEF d
      <4> QED BY <1>1
    <3> HIDE DEF rest, d, u, B
    <3>2. u[1] = q[d + 1]
      BY <1>3, <2>1, <3>1
    <3> QED BY <1>6, <3>2
  <2> QED BY <1>1, <1>3, <2>1, <2>2, <2>3
<1>7. ASSUME d < Len(q) /\ B[d] < n
      PROVE  u \in Seq(TcpBuf) /\ OffsetsInBuffer(u) /\ HeadDropped(u, q, d) /\ HeadOffset
  <2> DEFINE b == rest[1]
             c == [b EXCEPT !.ofs = @ + n - B[d]]
  <2>1. 1 \in 1..Len(rest) /\ b = q[d + 1] /\ d + 1 \in 1..Len(q)
    <3> HIDE DEF rest, d
    <3> QED BY <1>1, <1>3, <1>7
  <2>2. B[d] \in Int /\ B[d + 1] \in Int
    <3> HIDE DEF d
    <3> QED BY <1>1, <1>7, BeforeType
  <2>3. B[d + 1] = B[d] + Remaining(b) /\ B[d + 1] > n
    <3>1. d + 1 \in 0..Len(q) /\ d + 1 # 0 /\ (d + 1) - 1 = d
      <4> HIDE DEF d
      <4> QED BY <1>1, <1>7
    <3>2. B[d + 1] = B[d] + Remaining(q[d + 1])
      <4> HIDE DEF d
      <4> QED BY <3>1, BeforeDef
    <3>3. B[d + 1] > n
      <4> HIDE DEF d, B
      <4> QED BY <1>1, <1>7, <2>2 DEF Stops, B
    <3> QED BY <2>1, <3>2, <3>3
  <2>4. b \in TcpBuf
    <3> HIDE DEF d, rest
    <3> QED BY <1>2, <2>1
  <2>5. c \in TcpBuf /\ c.data = b.data /\ c.seq = b.seq /\ c.ofs < BufLen[c.data]
    <3> DEFINE before == B[d]
               x == b.ofs + n - before
    <3>1. before \in Int /\ before < n /\ before + Remaining(b) > n
      <4> HIDE DEF d, rest, B, b
      <4> QED BY <1>7, <2>2, <2>3
    <3> HIDE DEF d, rest, B, before, b
    <3>2. b.ofs \in Nat /\ BufLen[b.data] \in Nat
      BY <2>4, BufferAssumption DEF TcpBuf
    <3>3. x \in Nat /\ x < BufLen[b.data]
      BY <3>1, <3>2 DEF Remaining
    <3>4. c = [b EXCEPT !.ofs = x]
      BY DEF before
    <3> HIDE DEF x, c
    <3> QED BY <2>4, <3>3, <3>4 DEF TcpBuf
  <2>6. u = [rest EXCEPT ![1] = c]
    BY <1>4, <1>7
  <2>7. /\ u \in Seq(TcpBuf) /\ Len(u) = Len(rest)
        /\ \A k \in 1..Len(rest) : u[k] = IF k = 1 THEN c ELSE rest[k]
    <3> HIDE DEF c, rest, u
    <3> QED BY <1>3, <2>1, <2>5, <2>6, ExceptSeq
  <2> HIDE DEF u, rest, d, c
  <2>8. OffsetsInBuffer(u)
    BY <1>1, <1>3, <1>5, <2>1, <2>5, <2>7 DEF OffsetsInBuffer
  <2>9. HeadDropped(u, q, d)
    <3> HIDE DEF b
    <3>1. Len(u) = Len(q) - d
      BY <1>3, <2>7
    <3>2. ASSUME NEW k \in 1..(Len(q) - d)
          PROVE  /\ u[k].data = q[k + d].data /\ u[k].seq = q[k + d].seq
                 /\ k > 1 => u[k].ofs = q[k + d].ofs
      <4>1. k \in 1..Len(rest) /\ rest[k] = q[k + d] /\ k \in Int
        BY <1>1, <1>3
      <4>2. CASE k = 1
        <5>1. u[k] = c /\ k + d = d + 1
          BY <1>1, <2>7, <4>1, <4>2
        <5>2. q[k + d] = b
          BY <2>1, <5>1
        <5> QED BY <2>5, <4>2, <5>1, <5>2
      <4>3. CASE k # 1
        <5>1. u[k] = rest[k]
          BY <2>7, <4>1, <4>3
        <5> QED BY <4>1, <5>1
      <4> QED BY <4>2, <4>3
    <3> QED BY <3>1, <3>2 DEF HeadDropped
  <2>10. u[1].ofs = q[d + 1].ofs + n - B[d]
    <3>1. u[1] = c
      BY <2>1, <2>7
    <3>2. c.ofs = b.ofs + n - B[d]
      <4> HIDE DEF b, d, B
      <4> QED BY <2>4 DEF c, TcpBuf
    <3> HIDE DEF b, B
    <3> QED BY <2>1, <3>1, <3>2
  <2> HIDE DEF b
  <2>11. HeadOffset
    BY <1>7, <2>10
  <2> QED BY <1>3, <2>7, <2>8, <2>9, <2>11
<1>8. /\ u \in Seq(TcpBuf) /\ OffsetsInBuffer(u) /\ HeadDropped(u, q, d)
      /\ HeadOffset
  BY <1>6, <1>7
<1> QED BY <1>1, <1>8

----------------------------------------------------------------------------
\* Connections and the segments they send.

LEMMA ModType ==
    ASSUME NEW a \in Int
    PROVE  a % SeqSpace \in SeqNo
BY SeqAssumption

\* The connection values a row can hold while it is open.
Live(c) ==
    /\ c \in TcpConn
    /\ c.remote \in Remotes /\ c.port \in Ports
    /\ OffsetsInBuffer(c.sendbuf)

SameEnds(c, d) == c.remote = d.remote /\ c.port = d.port

LEMMA CommitLive ==
    ASSUME NEW c, Live(c), NEW n \in Int
    PROVE  /\ Live(CommitSequenceRange(c, n))
           /\ SameEnds(CommitSequenceRange(c, n), c)
           /\ CommitSequenceRange(c, n).state = c.state
           /\ CommitSequenceRange(c, n).sendbuf = c.sendbuf
<1>1. c \in TcpConn /\ c.nextOut \in Int
  BY DEF Live, TcpConn
<1>2. (c.nextOut + n) % SeqSpace \in SeqNo
  BY <1>1, ModType
<1> QED BY <1>1, <1>2 DEF Live, TcpConn, CommitSequenceRange, SameEnds

LEMMA HeaderType ==
    ASSUME NEW c, Live(c), NEW flags \in SUBSET Flag, NEW seq \in SeqNo
    PROVE  Header(c, flags, seq) \in Segment
BY SeqAssumption DEF Live, TcpConn, Header, Segment

LEMMA AckType ==
    ASSUME NEW c, Live(c)
    PROVE  Ack(c) \in Segment /\ SynAck(c) \in Segment /\ FinAck(c) \in Segment
<1>1. c.nextOut \in SeqNo
  BY DEF Live, TcpConn
<1>2. /\ {"ACK"} \in SUBSET Flag /\ {"SYN", "ACK"} \in SUBSET Flag
      /\ {"FIN", "ACK"} \in SUBSET Flag
  OBVIOUS
<1> QED BY <1>1, <1>2, HeaderType DEF Ack, SynAck, FinAck

LEMMA ChunkType ==
    ASSUME NEW c, Live(c), NEW b \in TcpBuf, NEW o \in Nat, o <= BufLen[b.data]
    PROVE  Chunk(c, b, o) \in Segment
<1> DEFINE left == BufLen[b.data] - o
           h == Header(c, {"ACK"}, (b.seq + o) % SeqSpace)
           len == IF left < MAXSEGSIZE THEN left ELSE MAXSEGSIZE
<1>1. b.data \in Buffers /\ b.seq \in Int /\ BufLen[b.data] \in Nat
  BY BufferAssumption DEF TcpBuf
<1>2. h \in Segment
  <2>1. (b.seq + o) % SeqSpace \in SeqNo
    BY <1>1, ModType
  <2> QED BY <2>1, HeaderType
<1>3. len \in Nat
  BY <1>1, SizeAssumption
<1>4. Chunk(c, b, o) = [h EXCEPT !.len = len, !.data = b.data, !.ofs = o]
  BY DEF Chunk, DataSegment
<1> HIDE DEF h, len
<1> QED BY <1>1, <1>2, <1>3, <1>4 DEF Segment

\* Every chunk tcp_send_buffer sends starts inside the buffer.
LEMMA ChunkOffset ==
    ASSUME NEW L \in Nat, NEW M \in Nat \ {0}, NEW k \in 1..((L + M - 1) \div M)
    PROVE  (k - 1) * M \in Nat /\ (k - 1) * M < L
<1> DEFINE d == (L + M - 1) \div M
<1>1. d \in Int /\ M * d <= L + M - 1
  OBVIOUS
<1> HIDE DEF d
<1>2. k \in Nat /\ k >= 1 /\ k <= d
  BY <1>1 DEF d
<1>3. M * k <= M * d
  BY <1>1, <1>2
<1>4. (k - 1) * M = M * k - M /\ M * k \in Int
  BY <1>2
<1>5. (k - 1) * M \in Nat
  BY <1>2
<1> QED BY <1>1, <1>3, <1>4, <1>5

LEMMA ChunksType ==
    ASSUME NEW c, Live(c), NEW b \in TcpBuf
    PROVE  Chunks(c, b) \in Seq(Segment)
<1> DEFINE L == BufLen[b.data]
           n == (L + MAXSEGSIZE - 1) \div MAXSEGSIZE
<1>1. L \in Nat
  BY BufferAssumption DEF TcpBuf
<1>2. ASSUME NEW k \in 1..n PROVE Chunk(c, b, (k - 1) * MAXSEGSIZE) \in Segment
  <2>1. (k - 1) * MAXSEGSIZE \in Nat /\ (k - 1) * MAXSEGSIZE < L
    BY <1>1, SizeAssumption, ChunkOffset
  <2>2. (k - 1) * MAXSEGSIZE <= L
    BY <1>1, <2>1
  <2> QED BY <2>1, <2>2, ChunkType
<1>3. n \in Nat
  BY <1>1, SizeAssumption
<1>4. Chunks(c, b) = [k \in 1..n |-> Chunk(c, b, (k - 1) * MAXSEGSIZE)]
  BY DEF Chunks
<1>5. Chunks(c, b) \in [1..n -> Segment]
  <2> HIDE DEF n
  <2> QED BY <1>2, <1>4
<1> HIDE DEF n
<1> QED BY <1>3, <1>5

\* An acknowledgement changes nothing but the queue and its timer, and only
\* takes buffers from the head of the queue.
LEMMA AcknowledgedLive ==
    ASSUME NEW c, Live(c), NEW s \in Segment
    PROVE  /\ Live(Acknowledged(c, s))
           /\ SameEnds(Acknowledged(c, s), c)
           /\ Acknowledged(c, s).state = c.state
           /\ Acknowledged(c, s).incoming = c.incoming
           /\ Acknowledged(c, s).nextOut = c.nextOut
           /\ \E d \in 0..Len(c.sendbuf) :
                HeadDropped(Acknowledged(c, s).sendbuf, c.sendbuf, d)
<1>1. c \in TcpConn /\ c.sendbuf \in Seq(TcpBuf) /\ OffsetsInBuffer(c.sendbuf)
  BY DEF Live, TcpConn
<1>2. CASE "ACK" \notin s.flags \/ Drop(c, s) = 0
  <2>1. Acknowledged(c, s) = c
    BY <1>2 DEF Acknowledged
  <2>2. Len(c.sendbuf) \in Nat
    BY <1>1, LenProperties
  <2>3. 0 \in 0..Len(c.sendbuf) /\ HeadDropped(c.sendbuf, c.sendbuf, 0)
    BY <2>2 DEF HeadDropped
  <2> QED BY <2>1, <2>3 DEF SameEnds
<1>3. CASE ~("ACK" \notin s.flags \/ Drop(c, s) = 0)
  <2> DEFINE n == Drop(c, s)
             q == Unbuffer(c.sendbuf, n)
  <2>1. n \in Nat
    <3>1. s.ack \in Int
      BY DEF Segment
    <3>2. EarliestUnacked(c) \in Int
      <4>1. CASE c.sendbuf # <<>>
        <5>1. c.sendbuf[1] \in TcpBuf
          BY <1>1, <4>1, EmptySeq, ElementOfSeq
        <5>2. (c.sendbuf[1].seq + c.sendbuf[1].ofs) % SeqSpace \in SeqNo
          BY <5>1, ModType DEF TcpBuf
        <5> QED BY <4>1, <5>2 DEF EarliestUnacked
      <4>2. CASE c.sendbuf = <<>>
        BY <1>1, <4>2 DEF EarliestUnacked, TcpConn
      <4> QED BY <4>1, <4>2
    <3>3. (s.ack - EarliestUnacked(c)) % SeqSpace \in SeqNo
      BY <3>1, <3>2, ModType
    <3> QED BY <3>3 DEF Drop
  <2>2. Acknowledged(c, s) = [c EXCEPT !.sendbuf = q, !.due = (q # <<>>)]
    BY <1>3 DEF Acknowledged
  <2> HIDE DEF n
  <2>3. /\ q \in Seq(TcpBuf) /\ OffsetsInBuffer(q)
        /\ \E d \in 0..Len(c.sendbuf) : HeadDropped(q, c.sendbuf, d)
    BY <1>1, <2>1, UnbufferEffect
  <2> HIDE DEF q
  <2> DEFINE a == [c EXCEPT !.sendbuf = q, !.due = (q # <<>>)]
  <2>4. /\ a \in TcpConn /\ a.sendbuf = q /\ a.state = c.state
        /\ a.remote = c.remote /\ a.port = c.port
        /\ a.incoming = c.incoming /\ a.nextOut = c.nextOut
    BY <1>1, <2>3 DEF TcpConn
  <2> HIDE DEF a
  <2>5. Acknowledged(c, s) = a
    BY <2>2 DEF a
  <2>6. Live(a) /\ SameEnds(a, c)
    BY <2>3, <2>4 DEF Live, SameEnds
  <2> QED BY <2>3, <2>4, <2>5, <2>6
<1> QED BY <1>2, <1>3

LEMMA SentLive ==
    ASSUME NEW c, Live(c), NEW d \in Buffers
    PROVE  /\ Live(Sent(c, d))
           /\ SameEnds(Sent(c, d), c)
           /\ Sent(c, d).state = c.state
           /\ NewBuf(c, d) \in TcpBuf
           /\ Len(Sent(c, d).sendbuf) = Len(c.sendbuf) + 1
           /\ \A k \in 1..Len(c.sendbuf) : Sent(c, d).sendbuf[k] = c.sendbuf[k]
           /\ Sent(c, d).sendbuf[Len(c.sendbuf) + 1] = NewBuf(c, d)
           /\ Sent(c, d).sendbuf[Len(c.sendbuf) + 1].data = d
           /\ Sent(c, d).nextOut = (c.nextOut + BufLen[d]) % SeqSpace
<1> DEFINE n == CommitSequenceRange(c, BufLen[d])
           b == NewBuf(c, d)
           q == Append(c.sendbuf, b)
<1>1. BufLen[d] \in Nat
  BY BufferAssumption
<1>2. /\ Live(n) /\ SameEnds(n, c) /\ n.state = c.state /\ n.sendbuf = c.sendbuf
      /\ n.nextOut = (c.nextOut + BufLen[d]) % SeqSpace
  BY <1>1, CommitLive DEF CommitSequenceRange, Live, TcpConn
<1>3. b \in TcpBuf /\ b.data = d /\ b.ofs = 0
  BY DEF Live, TcpConn, TcpBuf, NewBuf
<1>4. c.sendbuf \in Seq(TcpBuf) /\ OffsetsInBuffer(c.sendbuf)
  BY DEF Live, TcpConn
<1> HIDE DEF b, n
<1>5. /\ q \in Seq(TcpBuf) /\ Len(q) = Len(c.sendbuf) + 1
      /\ \A k \in 1..Len(c.sendbuf) : q[k] = c.sendbuf[k]
      /\ q[Len(c.sendbuf) + 1] = b
  BY <1>3, <1>4, AppendProperties
<1> HIDE DEF q
<1>6. Sent(c, d) = [n EXCEPT !.sendbuf = q]
  BY <1>2 DEF Sent, n, q, b
<1>7. OffsetsInBuffer(q)
  <2>1. Len(c.sendbuf) \in Nat
    BY <1>4, LenProperties
  <2> QED BY <1>3, <1>4, <1>5, <2>1 DEF OffsetsInBuffer
<1>8. NewBuf(c, d) \in TcpBuf /\ b = NewBuf(c, d)
  BY <1>3 DEF b
<1> DEFINE r == [n EXCEPT !.sendbuf = q]
<1>9. /\ r \in TcpConn /\ r.sendbuf = q /\ r.state = c.state
      /\ r.nextOut = (c.nextOut + BufLen[d]) % SeqSpace
      /\ r.remote = c.remote /\ r.port = c.port
      /\ r.remote \in Remotes /\ r.port \in Ports
  BY <1>2, <1>5 DEF Live, TcpConn, SameEnds
<1> HIDE DEF r
<1> QED BY <1>3, <1>5, <1>6, <1>7, <1>8, <1>9 DEF Live, SameEnds, r

\* What the application sends from a callback: at most two distinct buffers.
Batch(ds) ==
    /\ ds \in Seq(Buffers) /\ Len(ds) \in 0..2
    /\ \A k, m \in 1..Len(ds) : ds[k] = ds[m] => k = m

LEMMA ResponsesAreBatches ==
    ASSUME NEW ds \in Responses
    PROVE  Batch(ds) /\ Elems(ds) \subseteq OwnedByApp
<1>1. CASE ds = <<>>
  BY <1>1 DEF Batch, Elems
<1>2. ASSUME NEW b \in OwnedByApp, ds = <<b>>
      PROVE  Batch(ds) /\ Elems(ds) \subseteq OwnedByApp
  <2>1. ds \in Seq(Buffers) /\ Len(ds) = 1 /\ ds[1] = b
    BY <1>2 DEF OwnedByApp
  <2>2. Elems(ds) = {b}
    BY <2>1 DEF Elems
  <2> QED BY <2>1, <2>2 DEF Batch
<1>3. ASSUME NEW p \in OwnedByApp \X OwnedByApp, p[1] # p[2], ds = <<p[1], p[2]>>
      PROVE  Batch(ds) /\ Elems(ds) \subseteq OwnedByApp
  <2>1. p[1] \in OwnedByApp /\ p[2] \in OwnedByApp
    BY <1>3
  <2>2. ds \in Seq(Buffers) /\ Len(ds) = 2 /\ ds[1] = p[1] /\ ds[2] = p[2]
    BY <1>3, <2>1 DEF OwnedByApp
  <2>3. \A k \in 1..Len(ds) : k = 1 \/ k = 2
    BY <2>2
  <2>4. Elems(ds) \subseteq {p[1], p[2]}
    BY <2>2, <2>3 DEF Elems
  <2> QED BY <1>3, <2>1, <2>2, <2>3, <2>4 DEF Batch
<1> QED BY <1>1, <1>2, <1>3 DEF Responses

LEMMA SendAllLive ==
    ASSUME NEW c, Live(c), NEW ds, Batch(ds)
    PROVE  /\ Live(SendAll(c, ds))
           /\ SameEnds(SendAll(c, ds), c)
           /\ SendAll(c, ds).state = c.state
           /\ SentChunks(c, ds) \in Seq(Segment)
           /\ Len(SendAll(c, ds).sendbuf) = Len(c.sendbuf) + Len(ds)
           /\ \A k \in 1..Len(c.sendbuf) : SendAll(c, ds).sendbuf[k] = c.sendbuf[k]
           /\ \A k \in 1..Len(ds) :
                SendAll(c, ds).sendbuf[Len(c.sendbuf) + k].data = ds[k]
<1>1. ds \in Seq(Buffers) /\ Len(ds) \in 0..2 /\ \A k \in 1..Len(ds) : ds[k] \in Buffers
  <2>1. ds \in Seq(Buffers) /\ Len(ds) \in 0..2
    BY DEF Batch
  <2>2. ASSUME NEW k \in 1..Len(ds) PROVE ds[k] \in Buffers
    BY <2>1, ElementOfSeq
  <2> QED BY <2>1, <2>2
<1>2. Len(c.sendbuf) \in Nat
  BY LenProperties DEF Live, TcpConn
<1>3. CASE Len(ds) = 0
  <2>1. SendAll(c, ds) = c /\ SentChunks(c, ds) = <<>>
    BY <1>3 DEF SendAll, SentChunks
  <2> QED BY <1>2, <1>3, <2>1 DEF SameEnds
<1>4. CASE Len(ds) = 1
  <2>1. ds[1] \in Buffers
    BY <1>1, <1>4
  <2>2. SendAll(c, ds) = Sent(c, ds[1]) /\ SentChunks(c, ds) = Chunks(c, NewBuf(c, ds[1]))
    BY <1>4 DEF SendAll, SentChunks
  <2>3. NewBuf(c, ds[1]) \in TcpBuf
    BY <2>1, SentLive
  <2>4. Chunks(c, NewBuf(c, ds[1])) \in Seq(Segment)
    BY <2>3, ChunksType
  <2>5. /\ Live(Sent(c, ds[1])) /\ SameEnds(Sent(c, ds[1]), c)
        /\ Sent(c, ds[1]).state = c.state
        /\ Len(Sent(c, ds[1]).sendbuf) = Len(c.sendbuf) + 1
        /\ \A k \in 1..Len(c.sendbuf) : Sent(c, ds[1]).sendbuf[k] = c.sendbuf[k]
        /\ Sent(c, ds[1]).sendbuf[Len(c.sendbuf) + 1].data = ds[1]
    BY <2>1, SentLive
  <2> QED BY <1>4, <2>2, <2>4, <2>5
<1>5. CASE Len(ds) = 2
  <2> DEFINE e == Sent(c, ds[1])
             f == Sent(e, ds[2])
  <2>1. ds[1] \in Buffers /\ ds[2] \in Buffers
    BY <1>1, <1>5
  <2>2. /\ SendAll(c, ds) = f
        /\ SentChunks(c, ds) = Chunks(c, NewBuf(c, ds[1])) \o Chunks(c, NewBuf(e, ds[2]))
    BY <1>5 DEF SendAll, SentChunks
  <2>3. /\ Live(e) /\ SameEnds(e, c) /\ e.state = c.state
        /\ NewBuf(c, ds[1]) \in TcpBuf
        /\ Len(e.sendbuf) = Len(c.sendbuf) + 1
        /\ \A k \in 1..Len(c.sendbuf) : e.sendbuf[k] = c.sendbuf[k]
        /\ e.sendbuf[Len(c.sendbuf) + 1].data = ds[1]
    BY <2>1, SentLive
  <2> HIDE DEF e
  <2>4. /\ Live(f) /\ SameEnds(f, e) /\ f.state = e.state
        /\ NewBuf(e, ds[2]) \in TcpBuf
        /\ Len(f.sendbuf) = Len(e.sendbuf) + 1
        /\ \A k \in 1..Len(e.sendbuf) : f.sendbuf[k] = e.sendbuf[k]
        /\ f.sendbuf[Len(e.sendbuf) + 1].data = ds[2]
    BY <2>1, <2>3, SentLive
  <2> HIDE DEF f
  <2>5. SentChunks(c, ds) \in Seq(Segment)
    <3>1. /\ Chunks(c, NewBuf(c, ds[1])) \in Seq(Segment)
          /\ Chunks(c, NewBuf(e, ds[2])) \in Seq(Segment)
      BY <2>3, <2>4, ChunksType
    <3> QED BY <2>2, <3>1, ConcatProperties
  <2>6. SameEnds(f, c) /\ f.state = c.state
    BY <2>3, <2>4 DEF SameEnds
  <2>7. /\ Len(f.sendbuf) = Len(c.sendbuf) + 2
        /\ \A k \in 1..Len(c.sendbuf) : f.sendbuf[k] = c.sendbuf[k]
        /\ f.sendbuf[Len(c.sendbuf) + 1].data = ds[1]
        /\ f.sendbuf[Len(c.sendbuf) + 2].data = ds[2]
    BY <1>2, <2>3, <2>4
  <2>8. \A k \in 1..Len(ds) : f.sendbuf[Len(c.sendbuf) + k].data = ds[k]
    <3>1. \A k \in 1..Len(ds) : k = 1 \/ k = 2
      BY <1>5
    <3> QED BY <2>7, <3>1
  <2> QED BY <1>5, <2>2, <2>4, <2>5, <2>6, <2>7, <2>8
<1> QED BY <1>1, <1>3, <1>4, <1>5

----------------------------------------------------------------------------
\* Type correctness.

\* A row is idle, a listener or a connection.
Listening(c) ==
    /\ c \in TcpConn
    /\ c.state = "LISTENING" /\ c.remote = NoRemote /\ c.port \in Ports
    /\ c.sendbuf = <<>>

Connected(c) == Live(c) /\ c.state \notin {"CLOSED", "LISTENING"}

Row(c) == c = ClosedConn \/ Listening(c) \/ Connected(c)

Table(t) == t \in [Slots -> TcpConn] /\ \A i \in Slots : Row(t[i])

\* The invariant TypeOK follows from.
TypeInv ==
    /\ Table(tcp_conns)
    /\ owner \in [Buffers -> {"app", "stack", "dropped"}]
    /\ opened \in SUBSET Slots
    /\ out \in [Slots -> Seq(Segment)]

LEMMA ClosedConnType == ClosedConn \in TcpConn /\ ClosedConn.sendbuf = <<>>
BY SeqAssumption DEF ClosedConn, TcpConn, State

LEMMA UpdateTable ==
    ASSUME NEW t, Table(t), NEW i \in Slots, NEW c \in TcpConn, Row(c)
    PROVE  Table([t EXCEPT ![i] = c])
BY DEF Table

LEMMA EmitType ==
    ASSUME NEW i, NEW ss \in Seq(Segment)
    PROVE  Emit(i, ss) \in [Slots -> Seq(Segment)]
BY DEF Emit

LEMMA SilentType == Silent \in [Slots -> Seq(Segment)]
BY DEF Silent

LEMMA OwnType ==
    ASSUME NEW S, NEW who \in {"app", "stack", "dropped"},
           owner \in [Buffers -> {"app", "stack", "dropped"}]
    PROVE  Own(S, who) \in [Buffers -> {"app", "stack", "dropped"}]
BY DEF Own

\* A row that a segment is for is a connection.
LEMMA TargetConnected ==
    ASSUME TypeInv, NEW i \in Slots, NEW s \in Segment, Target(i, s)
    PROVE  Connected(tcp_conns[i])
<1>1. tcp_conns[i].remote = s.remote /\ s.remote \in Remotes /\ tcp_conns[i].state # "CLOSED"
  BY DEF Target, IsFirst, Connections, Segment
<1>2. Row(tcp_conns[i])
  BY DEF TypeInv, Table
<1> QED BY <1>1, <1>2, NoneAssumption DEF Row, Listening, ClosedConn

LEMMA OpenConnected ==
    ASSUME TypeInv, NEW i \in Slots, Open(i)
    PROVE  Connected(tcp_conns[i])
BY DEF TypeInv, Table, Row, Open, Listening, ClosedConn

THEOREM TypeInit == Init => TypeInv
<1> SUFFICES ASSUME Init PROVE TypeInv
  OBVIOUS
<1>1. Table(tcp_conns)
  BY ClosedConnType DEF Init, Table, Row
<1> QED BY <1>1, SilentType DEF Init, TypeInv

\* The step each action contributes to the type invariant.
LEMMA TypeListen ==
    ASSUME TypeInv, NEW p \in Ports, TcpNewListenSock(p)
    PROVE  TypeInv'
<1>1. PICK i \in Slots : tcp_conns' = [tcp_conns EXCEPT ![i] =
                            [ClosedConn EXCEPT !.state = "LISTENING", !.port = p]]
  BY DEF TcpNewListenSock
<1> DEFINE c == [ClosedConn EXCEPT !.state = "LISTENING", !.port = p]
<1>2. c \in TcpConn /\ Row(c)
  BY ClosedConnType DEF Row, Listening, ClosedConn, TcpConn, State
<1> HIDE DEF c
<1>3. Table(tcp_conns')
  BY <1>1, <1>2, UpdateTable DEF TypeInv, c
<1> QED BY <1>3, SilentType DEF TypeInv, TcpNewListenSock

LEMMA TypeKill ==
    ASSUME TypeInv, NEW i \in Slots, Kill(i), out' \in [Slots -> Seq(Segment)]
    PROVE  TypeInv'
<1>1. Table(tcp_conns')
  BY ClosedConnType, UpdateTable DEF Kill, TypeInv, Row
<1>2. owner' \in [Buffers -> {"app", "stack", "dropped"}]
  BY OwnType DEF Kill, TypeInv
<1>3. opened' \in SUBSET Slots
  BY DEF Kill, TypeInv
<1> QED BY <1>1, <1>2, <1>3 DEF TypeInv

LEMMA TypeSyn ==
    ASSUME TypeInv, NEW s \in Segment, HandleListenPort(s)
    PROVE  TypeInv'
<1> DEFINE c == [ClosedConn EXCEPT !.state = "SYN", !.remote = s.remote,
                    !.port = s.port, !.incoming = (s.seq + 1) % SeqSpace,
                    !.nextOut = InitSeq]
<1>1. PICK i \in Slots :
        /\ tcp_conns' = [tcp_conns EXCEPT ![i] = CommitSequenceRange(c, 1)]
        /\ out' = Emit(i, <<SynAck(c)>>)
        /\ opened' = opened \cup {i}
  BY DEF HandleListenPort
<1>2. Connected(c)
  <2>1. (s.seq + 1) % SeqSpace \in SeqNo
    BY ModType DEF Segment
  <2>2. c \in TcpConn /\ c.sendbuf = <<>> /\ c.state = "SYN"
    BY <2>1, ClosedConnType, SeqAssumption DEF ClosedConn, TcpConn, State, Segment
  <2>3. c.remote \in Remotes /\ c.port \in Ports
    BY DEF ClosedConn, Segment
  <2> HIDE DEF c
  <2> QED BY <2>2, <2>3 DEF Connected, Live, OffsetsInBuffer
<1> HIDE DEF c
<1>3. Connected(CommitSequenceRange(c, 1))
  BY <1>2, CommitLive DEF Connected
<1>4. Table(tcp_conns')
  BY <1>1, <1>3, UpdateTable DEF TypeInv, Row, Connected, Live
<1>5. out' \in [Slots -> Seq(Segment)]
  <2>1. SynAck(c) \in Segment
    BY <1>2, AckType DEF Connected
  <2>2. <<SynAck(c)>> \in Seq(Segment)
    BY <2>1
  <2> QED BY <1>1, <2>2, EmitType
<1>6. owner' = owner /\ opened' \in SUBSET Slots
  BY <1>1 DEF HandleListenPort, TypeInv
<1> QED BY <1>4, <1>5, <1>6 DEF TypeInv

LEMMA TypeEstablish ==
    ASSUME TypeInv, NEW i \in Slots, NEW s \in Segment, EstablishConnection(i, s)
    PROVE  TypeInv'
<1> DEFINE c == [tcp_conns[i] EXCEPT !.state = "ESTABLISHED"]
<1>1. Connected(tcp_conns[i])
  BY TargetConnected DEF EstablishConnection
<1>2. c \in TcpConn /\ Row(c)
  BY <1>1 DEF Row, Connected, Live, TcpConn, State
<1>3. tcp_conns' = [tcp_conns EXCEPT ![i] = c]
  BY DEF EstablishConnection
<1> HIDE DEF c
<1>4. Table(tcp_conns')
  BY <1>2, <1>3, UpdateTable DEF TypeInv
<1> QED BY <1>4, SilentType DEF TypeInv, EstablishConnection

\* Reset, last acknowledgement: kill_connection and nothing sent.
LEMMA TypeKilled ==
    ASSUME TypeInv, NEW i \in Slots, NEW s \in Segment,
           ConnectionReset(i, s) \/ LastAck(i, s)
    PROVE  TypeInv'
BY TypeKill, SilentType DEF ConnectionReset, LastAck

LEMMA TypeFin ==
    ASSUME TypeInv, NEW i \in Slots, NEW s \in Segment, HandleFin(i, s)
    PROVE  TypeInv'
<1> DEFINE a == Acknowledged(tcp_conns[i], s)
           c == [a EXCEPT !.incoming = (@ + 1) % SeqSpace]
<1>1. Connected(tcp_conns[i])
  BY TargetConnected DEF HandleFin, PassesAckStep
<1>2. Live(a) /\ a.state = tcp_conns[i].state
  BY <1>1, AcknowledgedLive DEF Connected
<1> HIDE DEF a
<1>3. Live(c) /\ c.state = a.state
  <2> DEFINE n == (a.incoming + 1) % SeqSpace
  <2>1. n \in SeqNo
    <3>1. a.incoming \in SeqNo
      BY <1>2 DEF Live, TcpConn
    <3>2. a.incoming + 1 \in Int
      BY <3>1, SeqAssumption DEF SeqNo
    <3> QED BY <3>2, ModType
  <2>2. c = [a EXCEPT !.incoming = n]
    BY <1>2 DEF Live, TcpConn
  <2> HIDE DEF n, c
  <2>3. /\ c \in TcpConn /\ c.state = a.state /\ c.sendbuf = a.sendbuf
        /\ c.remote = a.remote /\ c.port = a.port
    BY <1>2, <2>1, <2>2 DEF Live, TcpConn
  <2> QED BY <1>2, <2>3 DEF Live
<1> HIDE DEF c
<1>4. CASE c.state = "ESTABLISHED"
  <2>1. /\ tcp_conns' = [tcp_conns EXCEPT ![i] = FinSent(c)]
        /\ owner' = Own(Released(i, c.sendbuf), "app")
        /\ out' = Emit(i, <<Ack(c), FinAck(c)>>)
        /\ opened' = opened
    BY <1>4 DEF HandleFin, c, a
  <2>2. FinSent(c) \in TcpConn /\ Row(FinSent(c))
    <3>1. Live(CommitSequenceRange(c, 1))
      BY <1>3, CommitLive
    <3> QED BY <3>1 DEF FinSent, Row, Connected, Live, TcpConn, State
  <2>3. Table(tcp_conns')
    BY <2>1, <2>2, UpdateTable DEF TypeInv
  <2>4. out' \in [Slots -> Seq(Segment)]
    <3>1. Ack(c) \in Segment /\ FinAck(c) \in Segment
      BY <1>3, AckType
    <3>2. <<Ack(c), FinAck(c)>> \in Seq(Segment)
      BY <3>1
    <3> QED BY <2>1, <3>2, EmitType
  <2>5. owner' \in [Buffers -> {"app", "stack", "dropped"}]
    BY <2>1, OwnType DEF TypeInv
  <2> QED BY <2>1, <2>3, <2>4, <2>5 DEF TypeInv
<1>5. CASE c.state # "ESTABLISHED"
  <2>1. Kill(i) /\ out' = Emit(i, <<Ack(c)>>)
    BY <1>5 DEF HandleFin, c, a
  <2>2. Ack(c) \in Segment
    BY <1>3, AckType
  <2>3. <<Ack(c)>> \in Seq(Segment)
    BY <2>2
  <2> QED BY <2>1, <2>3, EmitType, TypeKill
<1> QED BY <1>4, <1>5

LEMMA TypeData ==
    ASSUME TypeInv, NEW i \in Slots, NEW s \in Segment, NEW ds, Batch(ds),
           HandleData(i, s, ds)
    PROVE  TypeInv'
<1> DEFINE a == Acknowledged(tcp_conns[i], s)
           c == [a EXCEPT !.incoming = (s.seq + s.len) % SeqSpace]
           e == IF c.state = "ESTABLISHED" THEN SendAll(c, ds) ELSE c
           ss == IF c.state = "ESTABLISHED"
                 THEN Append(SentChunks(c, ds), Ack(SendAll(c, ds))) ELSE <<Ack(c)>>
<1>1. Connected(tcp_conns[i])
  BY TargetConnected DEF HandleData, PassesAckStep
<1>2. Live(a) /\ a.state = tcp_conns[i].state
  BY <1>1, AcknowledgedLive DEF Connected
<1> HIDE DEF a
<1>3. Live(c) /\ c.state = a.state
  <2>1. (s.seq + s.len) % SeqSpace \in SeqNo
    BY ModType DEF Segment
  <2> QED BY <1>2, <2>1 DEF Live, TcpConn
<1>4. /\ tcp_conns' = [tcp_conns EXCEPT ![i] = e]
      /\ out' = Emit(i, ss)
      /\ opened' = opened
  BY DEF HandleData, a
<1> HIDE DEF c
<1>5. /\ Live(SendAll(c, ds)) /\ SendAll(c, ds).state = c.state
      /\ SentChunks(c, ds) \in Seq(Segment)
  BY <1>3, SendAllLive
<1>6. e \in TcpConn /\ Row(e)
  BY <1>1, <1>2, <1>3, <1>5 DEF Row, Connected, Live
<1>7. ss \in Seq(Segment)
  <2>1. Ack(c) \in Segment /\ Ack(SendAll(c, ds)) \in Segment
    BY <1>3, <1>5, AckType
  <2>2. Append(SentChunks(c, ds), Ack(SendAll(c, ds))) \in Seq(Segment)
    BY <1>5, <2>1, AppendProperties
  <2>3. <<Ack(c)>> \in Seq(Segment)
    BY <2>1
  <2> QED BY <2>2, <2>3
<1>8. owner' \in [Buffers -> {"app", "stack", "dropped"}]
  BY DEF HandleData, TypeInv
<1> HIDE DEF e, ss
<1>9. Table(tcp_conns')
  BY <1>4, <1>6, UpdateTable DEF TypeInv
<1> QED BY <1>4, <1>7, <1>8, <1>9, EmitType DEF TypeInv

LEMMA TypeAck ==
    ASSUME TypeInv, NEW i \in Slots, NEW s \in Segment, HandleAck(i, s)
    PROVE  TypeInv'
<1> DEFINE c == Acknowledged(tcp_conns[i], s)
<1>1. Connected(tcp_conns[i])
  BY TargetConnected DEF HandleAck, PassesAckStep
<1>2. c \in TcpConn /\ Row(c)
  BY <1>1, AcknowledgedLive DEF Connected, Row, Live
<1>3. /\ tcp_conns' = [tcp_conns EXCEPT ![i] = c]
      /\ owner' = Own(Released(i, c.sendbuf), "app")
      /\ out' = Silent /\ opened' = opened
  BY DEF HandleAck
<1> HIDE DEF c
<1>4. Table(tcp_conns')
  BY <1>2, <1>3, UpdateTable DEF TypeInv
<1> QED BY <1>3, <1>4, SilentType, OwnType DEF TypeInv

LEMMA TypeReceive ==
    ASSUME TypeInv, NEW s \in Segment, Receive(s)
    PROVE  TypeInv'
<1>2. CASE HandleListenPort(s)
  BY <1>2, TypeSyn
<1>3. CASE \E i \in Slots : EstablishConnection(i, s)
  BY <1>3, TypeEstablish
<1>4. CASE \E i \in Slots : ConnectionReset(i, s) \/ LastAck(i, s)
  BY <1>4, TypeKilled
<1>5. CASE \E i \in Slots : HandleFin(i, s)
  BY <1>5, TypeFin
<1>6. CASE \E i \in Slots : HandleAck(i, s)
  BY <1>6, TypeAck
<1>7. CASE \E i \in Slots, ds \in Responses : HandleData(i, s, ds)
  BY <1>7, TypeData, ResponsesAreBatches
<1> QED BY <1>2, <1>3, <1>4, <1>5, <1>6, <1>7 DEF Receive, Control

LEMMA TypeSend ==
    ASSUME TypeInv, NEW i \in Slots, NEW d \in Buffers, TcpSend(i, d)
    PROVE  TypeInv'
<1>1. owner' \in [Buffers -> {"app", "stack", "dropped"}] /\ opened' = opened
  BY OwnType DEF TcpSend, TypeInv
<1>2. CASE tcp_conns[i].state = "ESTABLISHED"
  <2>1. Connected(tcp_conns[i])
    BY <1>2, OpenConnected DEF Open
  <2>2. /\ tcp_conns' = [tcp_conns EXCEPT ![i] = Sent(tcp_conns[i], d)]
        /\ out' = Emit(i, SentChunks(tcp_conns[i], <<d>>))
    BY <1>2 DEF TcpSend
  <2>3. Batch(<<d>>)
    BY DEF Batch
  <2>4. /\ Sent(tcp_conns[i], d) \in TcpConn /\ Row(Sent(tcp_conns[i], d))
        /\ SentChunks(tcp_conns[i], <<d>>) \in Seq(Segment)
    <3>1. Live(Sent(tcp_conns[i], d)) /\ Sent(tcp_conns[i], d).state = tcp_conns[i].state
      BY <2>1, SentLive DEF Connected
    <3>2. SentChunks(tcp_conns[i], <<d>>) \in Seq(Segment)
      BY <2>1, <2>3, SendAllLive DEF Connected
    <3> QED BY <2>1, <3>1, <3>2 DEF Row, Connected, Live
  <2>5. Table(tcp_conns')
    BY <2>2, <2>4, UpdateTable DEF TypeInv
  <2> QED BY <1>1, <2>2, <2>4, <2>5, EmitType DEF TypeInv
<1>3. CASE tcp_conns[i].state # "ESTABLISHED"
  BY <1>1, <1>3, SilentType DEF TcpSend, TypeInv
<1> QED BY <1>2, <1>3

LEMMA TypeClose ==
    ASSUME TypeInv, NEW i \in Slots, TcpClose(i)
    PROVE  TypeInv'
<1> DEFINE n == CommitSequenceRange(tcp_conns[i], 1)
           c == [n EXCEPT !.state = "CLOSING"]
<1>1. Live(tcp_conns[i])
  BY OpenConnected DEF TcpClose, Open, Connected
<1>2. Live(n)
  BY <1>1, CommitLive
<1>3. /\ tcp_conns' = [tcp_conns EXCEPT ![i] = c]
      /\ out' = Emit(i, <<FinAck(tcp_conns[i])>>)
      /\ owner' = owner /\ opened' = opened
  BY DEF TcpClose
<1> HIDE DEF n
<1>4. c \in TcpConn /\ Row(c)
  BY <1>2 DEF Row, Connected, Live, TcpConn, State
<1> HIDE DEF c
<1>5. Table(tcp_conns')
  BY <1>3, <1>4, UpdateTable DEF TypeInv
<1>6. <<FinAck(tcp_conns[i])>> \in Seq(Segment)
  <2>1. FinAck(tcp_conns[i]) \in Segment
    BY <1>1, AckType
  <2> QED BY <2>1
<1> QED BY <1>3, <1>5, <1>6, EmitType DEF TypeInv

\* Setting or clearing the timer of a row keeps it a row.
LEMMA DueRow ==
    ASSUME NEW c \in TcpConn, Row(c), NEW b \in BOOLEAN, c.sendbuf # <<>>
    PROVE  [c EXCEPT !.due = b] \in TcpConn /\ Row([c EXCEPT !.due = b])
<1>1. Connected(c)
  BY ClosedConnType DEF Row, Listening
<1> QED BY <1>1 DEF Connected, Row, Live, TcpConn

LEMMA TypeElapse ==
    ASSUME TypeInv, NEW i \in Slots, Elapse(i)
    PROVE  TypeInv'
<1>1. Table(tcp_conns')
  BY DueRow, UpdateTable DEF Elapse, TypeInv, Table
<1> QED BY <1>1, SilentType DEF Elapse, TypeInv

LEMMA TypeProcess ==
    ASSUME TypeInv, TcpProcess
    PROVE  TypeInv'
<1>1. Table(tcp_conns')
  <2>1. ASSUME NEW i \in Slots
        PROVE  tcp_conns'[i] \in TcpConn /\ Row(tcp_conns'[i])
    <3>1. tcp_conns[i] \in TcpConn /\ Row(tcp_conns[i])
      BY DEF TypeInv, Table
    <3>2. CASE Expired(i)
      <4>1. tcp_conns'[i] = [tcp_conns[i] EXCEPT !.due = FALSE]
        BY <3>2 DEF TcpProcess
      <4>2. tcp_conns[i].sendbuf # <<>>
        BY <3>2 DEF Expired
      <4> QED BY <3>1, <4>1, <4>2, DueRow
    <3>3. CASE ~Expired(i)
      BY <3>1, <3>3 DEF TcpProcess
    <3> QED BY <3>2, <3>3
  <2>2. tcp_conns' = [i \in Slots |-> tcp_conns'[i]]
    BY DEF TcpProcess
  <2> QED BY <2>1, <2>2 DEF Table
<1>2. ASSUME NEW i \in Slots, Expired(i)
      PROVE  Retransmission(tcp_conns[i]) \in Seq(Segment)
  <2> DEFINE b == tcp_conns[i].sendbuf[1]
  <2>1. Live(tcp_conns[i]) /\ tcp_conns[i].sendbuf \in Seq(TcpBuf)
    BY <1>2, OpenConnected DEF Expired, Connected, Live, TcpConn
  <2>2. 1 \in 1..Len(tcp_conns[i].sendbuf)
    BY <1>2, <2>1, EmptySeq DEF Expired
  <2>3. b \in TcpBuf /\ b.ofs <= BufLen[b.data]
    <3>1. b \in TcpBuf
      BY <2>1, <2>2, ElementOfSeq
    <3>2. b.ofs = 0 \/ b.ofs < BufLen[b.data]
      BY <2>1, <2>2 DEF Live, OffsetsInBuffer
    <3> HIDE DEF b
    <3> QED BY <3>1, <3>2, BufferAssumption DEF TcpBuf
  <2>4. Chunk(tcp_conns[i], b, b.ofs) \in Segment
    BY <2>1, <2>3, ChunkType DEF TcpBuf
  <2>5. <<Chunk(tcp_conns[i], b, b.ofs)>> \in Seq(Segment)
    BY <2>4
  <2> QED BY <2>5 DEF Retransmission
<1>3. out' \in [Slots -> Seq(Segment)]
  BY <1>2 DEF TcpProcess
<1> QED BY <1>1, <1>3 DEF TcpProcess, TypeInv

\* The steps of the component when any segment at all may arrive: those of Next
\* and, with the clients and the network of TcpNet, those of the router.
AnyNext ==
    \/ \E p \in Ports : TcpNewListenSock(p)
    \/ \E s \in Segment : Receive(s)
    \/ \E i \in Slots : \/ \E d \in Buffers : TcpSend(i, d)
                        \/ TcpClose(i)
                        \/ Elapse(i)
    \/ TcpProcess

LEMMA NextIsAny == [Next]_vars => [AnyNext]_vars
BY WireAssumption DEF Next, AnyNext

LEMMA TypeStep ==
    ASSUME TypeInv, [AnyNext]_vars
    PROVE  TypeInv'
<1>1. CASE \E p \in Ports : TcpNewListenSock(p)
  BY <1>1, TypeListen
<1>2. CASE \E s \in Segment : Receive(s)
  BY <1>2, TypeReceive
<1>3. CASE \E i \in Slots, d \in Buffers : TcpSend(i, d)
  BY <1>3, TypeSend
<1>4. CASE \E i \in Slots : TcpClose(i)
  BY <1>4, TypeClose
<1>5. CASE \E i \in Slots : Elapse(i)
  BY <1>5, TypeElapse
<1>6. CASE TcpProcess
  BY <1>6, TypeProcess
<1>7. CASE UNCHANGED vars
  BY <1>7 DEF vars, TypeInv
<1> QED BY <1>1, <1>2, <1>3, <1>4, <1>5, <1>6, <1>7 DEF AnyNext

\* Every row of the table stays a connection of the declared type, and every
\* segment sent is one, whatever segments arrive (tcp.c).
THEOREM TypeCorrect == Spec => []TypeOK
<1>1. TypeInv /\ [Next]_vars => TypeInv'
  BY TypeStep, NextIsAny
<1>2. TypeInv => TypeOK
  BY DEF TypeInv, TypeOK, Table
<1> QED BY TypeInit, <1>1, <1>2, PTL DEF Spec
----------------------------------------------------------------------------
\* The connection table.  Every action but the two that take a free row changes
\* a row by one RowStep.

\* What a step that takes no free row may do to row i.
Unchanged(i) == tcp_conns'[i] = tcp_conns[i] /\ (i \in opened' <=> i \in opened)

Closed(i) == Open(i) /\ tcp_conns'[i] = ClosedConn /\ i \notin opened'

Moved(i) ==
    /\ Open(i) /\ Open(i)'
    /\ SameEnds(tcp_conns'[i], tcp_conns[i])
    /\ Rank(tcp_conns[i].state) <= Rank(tcp_conns'[i].state)
    /\ i \in opened' <=> i \in opened

RowStep(i) == Unchanged(i) \/ Closed(i) \/ Moved(i)

LEMMA SegmentNumbers ==
    ASSUME NEW s \in Segment
    PROVE  (s.seq + 1) % SeqSpace \in SeqNo /\ (s.seq + s.len) % SeqSpace \in SeqNo
<1>1. s.seq \in SeqNo /\ s.len \in Nat
  BY DEF Segment
<1>2. s.seq + 1 \in Int /\ s.seq + s.len \in Int
  BY <1>1, SeqAssumption DEF SeqNo
<1> QED BY <1>2, ModType

LEMMA RankType == \A st : Rank(st) \in 1..3
BY DEF Rank

\* An update of one open row, and a kill, are row steps of every row.
LEMMA UpdateIsRowStep ==
    ASSUME TypeInv, NEW i \in Slots, Open(i), NEW c, opened' = opened,
           tcp_conns' = [tcp_conns EXCEPT ![i] = c],
           SameEnds(c, tcp_conns[i]), c.state \notin {"CLOSED", "LISTENING"},
           Rank(tcp_conns[i].state) <= Rank(c.state)
    PROVE  \A j \in Slots : RowStep(j)
<1>1. tcp_conns'[i] = c /\ \A j \in Slots \ {i} : tcp_conns'[j] = tcp_conns[j]
  BY DEF TypeInv, Table
<1>2. Moved(i)
  BY <1>1 DEF Moved, Open
<1> QED BY <1>1, <1>2 DEF RowStep, Unchanged

LEMMA KillIsRowStep ==
    ASSUME TypeInv, NEW i \in Slots, Open(i), Kill(i)
    PROVE  \A j \in Slots : RowStep(j)
BY DEF Kill, TypeInv, Table, RowStep, Unchanged, Closed

LEMMA ConnectedIsOpen ==
    ASSUME TypeInv, NEW i \in Slots, NEW s \in Segment, Target(i, s)
    PROVE  Open(i) /\ Live(tcp_conns[i])
BY TargetConnected DEF Connected, Open

LEMMA RankReflexive == \A st : Rank(st) <= Rank(st)
BY RankType

LEMMA ReceiveRowStep ==
    ASSUME TypeInv, NEW i \in Slots, NEW s \in Segment, NEW ds, Batch(ds),
           \/ EstablishConnection(i, s) \/ ConnectionReset(i, s) \/ LastAck(i, s)
           \/ HandleFin(i, s) \/ HandleAck(i, s) \/ HandleData(i, s, ds)
    PROVE  \A j \in Slots : RowStep(j)
<1> DEFINE r == tcp_conns[i]
           a == Acknowledged(r, s)
<1>1. Target(i, s)
  BY DEF EstablishConnection, ConnectionReset, LastAck, HandleFin, HandleAck,
         HandleData, PassesAckStep
<1>2. Open(i) /\ Live(r) /\ r \in TcpConn
  BY <1>1, ConnectedIsOpen DEF Live
<1>3. Live(a) /\ SameEnds(a, r) /\ a.state = r.state /\ a \in TcpConn
  BY <1>2, AcknowledgedLive DEF Live
<1> HIDE DEF a
<1>4. CASE EstablishConnection(i, s)
  <2> DEFINE c == [r EXCEPT !.state = "ESTABLISHED"]
  <2>1. tcp_conns' = [tcp_conns EXCEPT ![i] = c] /\ opened' = opened /\ r.state = "SYN"
    BY <1>4 DEF EstablishConnection
  <2>2. SameEnds(c, r) /\ c.state = "ESTABLISHED"
    BY <1>2 DEF SameEnds, TcpConn
  <2>3. Rank(r.state) <= Rank(c.state)
    BY <2>1, <2>2 DEF Rank
  <2> HIDE DEF c
  <2> QED BY <1>2, <2>1, <2>2, <2>3, UpdateIsRowStep
<1>5. CASE ConnectionReset(i, s) \/ LastAck(i, s)
  BY <1>2, <1>5, KillIsRowStep DEF ConnectionReset, LastAck
<1>6. CASE HandleFin(i, s)
  <2> DEFINE c == [a EXCEPT !.incoming = (@ + 1) % SeqSpace]
  <2>1. SameEnds(c, r) /\ c.state = r.state
    BY <1>3 DEF SameEnds, TcpConn
  <2>2. Live(c)
    <3>1. (a.incoming + 1) % SeqSpace \in SeqNo
      <4>1. a.incoming + 1 \in Int
        BY <1>3, SeqAssumption DEF TcpConn, SeqNo
      <4> QED BY <4>1, ModType
    <3>2. /\ c \in TcpConn /\ c.sendbuf = a.sendbuf
          /\ c.remote = a.remote /\ c.port = a.port
      BY <1>3, <3>1 DEF TcpConn
    <3> HIDE DEF c
    <3> QED BY <1>3, <3>2 DEF Live
  <2>3. IF c.state = "ESTABLISHED"
        THEN tcp_conns' = [tcp_conns EXCEPT ![i] = FinSent(c)] /\ opened' = opened
        ELSE Kill(i)
    BY <1>6 DEF HandleFin, a
  <2> HIDE DEF c
  <2>4. SameEnds(FinSent(c), r) /\ FinSent(c).state = "LAST_ACK"
    <3>1. Live(CommitSequenceRange(c, 1)) /\ SameEnds(CommitSequenceRange(c, 1), c)
      BY <2>2, CommitLive
    <3> QED BY <2>1, <3>1 DEF FinSent, SameEnds, Live, TcpConn
  <2>5. Rank("LAST_ACK") = 3
    BY DEF Rank
  <2>6. CASE c.state = "ESTABLISHED"
    <3>1. tcp_conns' = [tcp_conns EXCEPT ![i] = FinSent(c)] /\ opened' = opened
      BY <2>3, <2>6
    <3>2. Rank(r.state) <= Rank(FinSent(c).state)
      BY <2>4, <2>5, RankType
    <3> QED BY <1>2, <2>4, <3>1, <3>2, UpdateIsRowStep
  <2>7. CASE c.state # "ESTABLISHED"
    BY <1>2, <2>3, <2>7, KillIsRowStep
  <2> QED BY <2>6, <2>7
<1>7. CASE HandleAck(i, s)
  <2>1. tcp_conns' = [tcp_conns EXCEPT ![i] = a] /\ opened' = opened
    BY <1>7 DEF HandleAck, a
  <2>2. Rank(r.state) <= Rank(a.state) /\ a.state \notin {"CLOSED", "LISTENING"}
    BY <1>2, <1>3, RankReflexive DEF Open
  <2> QED BY <1>2, <1>3, <2>1, <2>2, UpdateIsRowStep
<1>8. CASE HandleData(i, s, ds)
  <2> DEFINE c == [a EXCEPT !.incoming = (s.seq + s.len) % SeqSpace]
             e == IF c.state = "ESTABLISHED" THEN SendAll(c, ds) ELSE c
  <2>1. SameEnds(c, r) /\ c.state = r.state
    BY <1>3 DEF SameEnds, TcpConn
  <2>2. Live(c)
    <3>1. (s.seq + s.len) % SeqSpace \in SeqNo
      BY SegmentNumbers
    <3>2. /\ c \in TcpConn /\ c.sendbuf = a.sendbuf
          /\ c.remote = a.remote /\ c.port = a.port
      BY <1>3, <3>1 DEF TcpConn
    <3> HIDE DEF c
    <3> QED BY <1>3, <3>2 DEF Live
  <2>3. tcp_conns' = [tcp_conns EXCEPT ![i] = e] /\ opened' = opened
    BY <1>8 DEF HandleData, a
  <2> HIDE DEF c
  <2>4. SameEnds(SendAll(c, ds), c) /\ SendAll(c, ds).state = c.state
    BY <2>2, SendAllLive
  <2>5. SameEnds(e, r) /\ e.state = r.state
    BY <2>1, <2>4 DEF SameEnds
  <2> HIDE DEF e
  <2>6. Rank(r.state) <= Rank(e.state) /\ e.state \notin {"CLOSED", "LISTENING"}
    BY <1>2, <2>5, RankReflexive DEF Open
  <2> QED BY <1>2, <2>3, <2>5, <2>6, UpdateIsRowStep
<1> QED BY <1>4, <1>5, <1>6, <1>7, <1>8

LEMMA SendRowStep ==
    ASSUME TypeInv, NEW i \in Slots, NEW d \in Buffers, TcpSend(i, d)
    PROVE  \A j \in Slots : RowStep(j)
<1>1. opened' = opened
  BY DEF TcpSend
<1>2. CASE tcp_conns[i].state = "ESTABLISHED"
  <2>1. Open(i) /\ Live(tcp_conns[i])
    BY <1>2, OpenConnected DEF Open, Connected
  <2>2. SameEnds(Sent(tcp_conns[i], d), tcp_conns[i])
        /\ Sent(tcp_conns[i], d).state = tcp_conns[i].state
    BY <2>1, SentLive
  <2>3. tcp_conns' = [tcp_conns EXCEPT ![i] = Sent(tcp_conns[i], d)]
    BY <1>2 DEF TcpSend
  <2>4. Rank(tcp_conns[i].state) <= Rank(Sent(tcp_conns[i], d).state)
    BY <2>2, RankReflexive
  <2> QED BY <1>1, <1>2, <2>1, <2>2, <2>3, <2>4, UpdateIsRowStep
<1>3. CASE tcp_conns[i].state # "ESTABLISHED"
  BY <1>1, <1>3 DEF TcpSend, RowStep, Unchanged
<1> QED BY <1>2, <1>3

LEMMA CloseRowStep ==
    ASSUME TypeInv, NEW i \in Slots, TcpClose(i)
    PROVE  \A j \in Slots : RowStep(j)
<1> DEFINE n == CommitSequenceRange(tcp_conns[i], 1)
           c == [n EXCEPT !.state = "CLOSING"]
<1>1. Open(i) /\ Live(tcp_conns[i]) /\ tcp_conns[i].state = "ESTABLISHED"
  BY OpenConnected DEF TcpClose, Open, Connected
<1>2. Live(n) /\ SameEnds(n, tcp_conns[i])
  BY <1>1, CommitLive
<1>3. tcp_conns' = [tcp_conns EXCEPT ![i] = c] /\ opened' = opened
  BY DEF TcpClose
<1> HIDE DEF n
<1>4. SameEnds(c, tcp_conns[i]) /\ c.state = "CLOSING"
  BY <1>2 DEF SameEnds, Live, TcpConn
<1> HIDE DEF c
<1>5. Rank(tcp_conns[i].state) <= Rank(c.state)
  BY <1>1, <1>4 DEF Rank
<1> QED BY <1>1, <1>3, <1>4, <1>5, UpdateIsRowStep

\* The timer of an open row is all that tcp_process and time itself change.
LEMMA TimerRowStep ==
    ASSUME TypeInv, TcpProcess \/ \E i \in Slots : Elapse(i)
    PROVE  \A j \in Slots : RowStep(j)
<1> SUFFICES ASSUME NEW j \in Slots PROVE RowStep(j)
  OBVIOUS
<1>1. PICK b \in BOOLEAN :
        /\ opened' = opened
        /\ \/ tcp_conns'[j] = tcp_conns[j]
           \/ /\ tcp_conns[j].sendbuf # <<>>
              /\ tcp_conns'[j] = [tcp_conns[j] EXCEPT !.due = b]
  <2>1. CASE TcpProcess
    BY <2>1 DEF TcpProcess, Expired
  <2>2. CASE \E i \in Slots : Elapse(i)
    BY <2>2 DEF Elapse, TypeInv, Table
  <2> QED BY <2>1, <2>2
<1>2. CASE tcp_conns'[j] = tcp_conns[j]
  BY <1>1, <1>2 DEF RowStep, Unchanged
<1>3. CASE /\ tcp_conns[j].sendbuf # <<>>
           /\ tcp_conns'[j] = [tcp_conns[j] EXCEPT !.due = b]
  <2>1. tcp_conns[j] \in TcpConn /\ Row(tcp_conns[j])
    BY DEF TypeInv, Table
  <2>2. Open(j)
    BY <1>3, <2>1, ClosedConnType DEF Row, Listening, Connected, Open
  <2>3. SameEnds(tcp_conns'[j], tcp_conns[j]) /\ tcp_conns'[j].state = tcp_conns[j].state
    BY <1>3, <2>1 DEF SameEnds, TcpConn
  <2>4. Open(j)'
    BY <2>2, <2>3 DEF Open
  <2> QED BY <1>1, <2>2, <2>3, <2>4, RankReflexive DEF RowStep, Moved
<1> QED BY <1>1, <1>2, <1>3

\* Every step takes a free row or steps each row.
TakesRow ==
    \/ \E p \in Ports : TcpNewListenSock(p)
    \/ \E s \in Segment : HandleListenPort(s)

LEMMA StepOfTable ==
    ASSUME TypeInv, [AnyNext]_vars
    PROVE  TakesRow \/ \A j \in Slots : RowStep(j)
<1>1. CASE \E s \in Segment : Receive(s)
  <2>1. PICK s \in Segment : Receive(s)
    BY <1>1
  <2>2. Batch(<<>>)
    BY DEF Batch
  <2>3. CASE HandleListenPort(s)
    BY <2>3 DEF TakesRow
  <2>4. CASE \E i \in Slots : EstablishConnection(i, s) \/ ConnectionReset(i, s)
                \/ LastAck(i, s) \/ HandleFin(i, s) \/ HandleAck(i, s)
    BY <2>2, <2>4, ReceiveRowStep
  <2>5. CASE \E i \in Slots, ds \in Responses : HandleData(i, s, ds)
    BY <2>5, ReceiveRowStep, ResponsesAreBatches
  <2> QED BY <2>1, <2>3, <2>4, <2>5 DEF Receive, Control
<1>2. CASE \E i \in Slots, d \in Buffers : TcpSend(i, d)
  BY <1>2, SendRowStep
<1>3. CASE \E i \in Slots : TcpClose(i)
  BY <1>3, CloseRowStep
<1>4. CASE TcpProcess \/ \E i \in Slots : Elapse(i)
  BY <1>4, TimerRowStep
<1>5. CASE \E p \in Ports : TcpNewListenSock(p)
  BY <1>5 DEF TakesRow
<1>6. CASE UNCHANGED vars
  BY <1>6 DEF vars, RowStep, Unchanged
<1> QED BY <1>1, <1>2, <1>3, <1>4, <1>5, <1>6 DEF AnyNext

\* What the two actions that take a row do with it.
LEMMA RowTaken ==
    ASSUME TypeInv, TakesRow
    PROVE  \E i \in Slots, c \in TcpConn :
            /\ tcp_conns[i].state = "CLOSED" /\ c.state # "CLOSED"
            /\ c.port \in Ports
            /\ tcp_conns' = [tcp_conns EXCEPT ![i] = c]
            /\ opened' = IF c.state = "LISTENING" THEN opened ELSE opened \cup {i}
            /\ \A j \in Slots : tcp_conns[j].state # "CLOSED" => ~SameEnds(tcp_conns[j], c)
<1>1. ASSUME NEW p \in Ports, TcpNewListenSock(p)
      PROVE  \E i \in Slots, c \in TcpConn :
                /\ tcp_conns[i].state = "CLOSED" /\ c.state = "LISTENING"
                /\ c.port = p /\ c.remote = NoRemote
                /\ tcp_conns' = [tcp_conns EXCEPT ![i] = c] /\ opened' = opened
  <2> DEFINE c == [ClosedConn EXCEPT !.state = "LISTENING", !.port = p]
  <2>1. c \in TcpConn /\ c.state = "LISTENING" /\ c.port = p /\ c.remote = NoRemote
    BY ClosedConnType DEF ClosedConn, TcpConn, State
  <2>2. PICK i \in Slots : IsLast(i, Free) /\ tcp_conns' = [tcp_conns EXCEPT ![i] = c]
    BY <1>1 DEF TcpNewListenSock
  <2>3. tcp_conns[i].state = "CLOSED" /\ opened' = opened
    BY <1>1, <2>2 DEF TcpNewListenSock, IsLast, Free
  <2> HIDE DEF c
  <2> QED BY <2>1, <2>2, <2>3
<1>2. ASSUME NEW s \in Segment, HandleListenPort(s)
      PROVE  \E i \in Slots, c \in TcpConn :
                /\ tcp_conns[i].state = "CLOSED" /\ c.state = "SYN"
                /\ c.port = s.port /\ c.remote = s.remote
                /\ tcp_conns' = [tcp_conns EXCEPT ![i] = c] /\ opened' = opened \cup {i}
  <2> DEFINE o == [ClosedConn EXCEPT !.state = "SYN", !.remote = s.remote,
                    !.port = s.port, !.incoming = (s.seq + 1) % SeqSpace,
                    !.nextOut = InitSeq]
             c == CommitSequenceRange(o, 1)
  <2>1. PICK i \in Slots : /\ IsFirst(i, Free)
                           /\ tcp_conns' = [tcp_conns EXCEPT ![i] = c]
                           /\ opened' = opened \cup {i}
    BY <1>2 DEF HandleListenPort
  <2>2. Live(o) /\ o.state = "SYN" /\ o.port = s.port /\ o.remote = s.remote
    <3>1. (s.seq + 1) % SeqSpace \in SeqNo
      BY SegmentNumbers
    <3>2. /\ o \in TcpConn /\ o.sendbuf = <<>> /\ o.state = "SYN"
          /\ o.port = s.port /\ o.remote = s.remote
      BY <3>1, ClosedConnType, SeqAssumption DEF ClosedConn, TcpConn, State, Segment
    <3> HIDE DEF o
    <3> QED BY <3>2 DEF Live, OffsetsInBuffer, Segment
  <2> HIDE DEF o
  <2>3. /\ c \in TcpConn /\ c.state = "SYN"
        /\ c.port = s.port /\ c.remote = s.remote
    BY <2>2, CommitLive DEF Live, SameEnds
  <2>4. tcp_conns[i].state = "CLOSED"
    BY <2>1 DEF IsFirst, Free
  <2> HIDE DEF c
  <2> QED BY <2>1, <2>3, <2>4
<1>3. ASSUME NEW p \in Ports, TcpNewListenSock(p), NEW c, c.port = p, c.remote = NoRemote
      PROVE  \A j \in Slots : tcp_conns[j].state # "CLOSED" => ~SameEnds(tcp_conns[j], c)
  BY <1>3 DEF TcpNewListenSock, Listeners, SameEnds
<1>4. ASSUME NEW s \in Segment, HandleListenPort(s), NEW c, c.port = s.port, c.remote = s.remote
      PROVE  \A j \in Slots : tcp_conns[j].state # "CLOSED" => ~SameEnds(tcp_conns[j], c)
  BY <1>4 DEF HandleListenPort, Connections, SameEnds
<1>5. CASE \E p \in Ports : TcpNewListenSock(p)
  <2>1. PICK p \in Ports : TcpNewListenSock(p)
    BY <1>5
  <2>2. PICK i \in Slots, c \in TcpConn :
                /\ tcp_conns[i].state = "CLOSED" /\ c.state = "LISTENING"
                /\ c.port = p /\ c.remote = NoRemote
                /\ tcp_conns' = [tcp_conns EXCEPT ![i] = c] /\ opened' = opened
    BY <1>1, <2>1
  <2> QED BY <1>3, <2>1, <2>2
<1>6. CASE \E s \in Segment : HandleListenPort(s)
  <2>1. PICK s \in Segment : HandleListenPort(s)
    BY <1>6
  <2>2. PICK i \in Slots, c \in TcpConn :
                /\ tcp_conns[i].state = "CLOSED" /\ c.state = "SYN"
                /\ c.port = s.port /\ c.remote = s.remote
                /\ tcp_conns' = [tcp_conns EXCEPT ![i] = c] /\ opened' = opened \cup {i}
    BY <1>2, <2>1
  <2>3. s.port \in Ports
    BY DEF Segment
  <2> QED BY <1>4, <2>1, <2>2, <2>3
<1> QED BY <1>5, <1>6 DEF TakesRow

----------------------------------------------------------------------------
TableInv == TypeInv /\ UniqueConnections /\ OpenedMatchesState

LEMMA ClosedRow ==
    ASSUME TypeInv, NEW i \in Slots, tcp_conns[i].state = "CLOSED"
    PROVE  tcp_conns[i].port = NoPort
BY DEF TypeInv, Table, Row, Listening, Connected, ClosedConn

LEMMA UsedRow ==
    ASSUME TypeInv, NEW i \in Slots, tcp_conns[i].state # "CLOSED"
    PROVE  tcp_conns[i].port \in Ports
BY DEF TypeInv, Table, Row, Listening, Connected, Live, ClosedConn

\* It is enough that no two used rows have the same ends.
DistinctUsedRows ==
    \A i, j \in Slots :
        /\ tcp_conns[i].state # "CLOSED" /\ tcp_conns[j].state # "CLOSED"
        /\ SameEnds(tcp_conns[i], tcp_conns[j])
        => i = j

LEMMA UniqueAmongUsed == TypeInv /\ DistinctUsedRows => UniqueConnections
<1> SUFFICES ASSUME TypeInv, DistinctUsedRows,
                    NEW i \in Slots, NEW j \in Slots,
                    tcp_conns[i].state # "CLOSED",
                    tcp_conns[i].port = tcp_conns[j].port,
                    tcp_conns[i].remote = tcp_conns[j].remote
             PROVE  i = j
  BY DEF UniqueConnections
<1>1. tcp_conns[j].state # "CLOSED"
  BY ClosedRow, UsedRow, NoneAssumption
<1> QED BY <1>1 DEF SameEnds, DistinctUsedRows

LEMMA UniqueStep ==
    ASSUME TableInv, TypeInv', [AnyNext]_vars
    PROVE  UniqueConnections'
<1> SUFFICES ASSUME NEW i \in Slots, NEW j \in Slots,
                    tcp_conns'[i].state # "CLOSED", tcp_conns'[j].state # "CLOSED",
                    tcp_conns'[i].remote = tcp_conns'[j].remote,
                    tcp_conns'[i].port = tcp_conns'[j].port
             PROVE  i = j
  <2>1. TypeInv' /\ DistinctUsedRows' => UniqueConnections'
    BY UniqueAmongUsed, PTL
  <2> QED BY <2>1 DEF DistinctUsedRows, SameEnds
<1>1. TypeInv /\ UniqueConnections
  BY DEF TableInv
<1>2. CASE \A k \in Slots : RowStep(k)
  <2>1. ASSUME NEW k \in Slots, tcp_conns'[k].state # "CLOSED"
        PROVE  tcp_conns[k].state # "CLOSED" /\ SameEnds(tcp_conns'[k], tcp_conns[k])
    BY <1>2, <2>1 DEF RowStep, Unchanged, Closed, Moved, Open, ClosedConn, SameEnds
  <2>2. tcp_conns[i].state # "CLOSED" /\ SameEnds(tcp_conns[i], tcp_conns[j])
    BY <2>1 DEF SameEnds
  <2> QED BY <1>1, <2>2 DEF UniqueConnections, SameEnds
<1>3. CASE TakesRow
  <2>1. PICK k \in Slots, c \in TcpConn :
            /\ tcp_conns' = [tcp_conns EXCEPT ![k] = c]
            /\ \A l \in Slots : tcp_conns[l].state # "CLOSED" => ~SameEnds(tcp_conns[l], c)
    BY <1>1, <1>3, RowTaken
  <2>2. tcp_conns'[k] = c /\ \A l \in Slots \ {k} : tcp_conns'[l] = tcp_conns[l]
    BY <1>1, <2>1 DEF TypeInv, Table
  <2>3. CASE i # k /\ j # k
    BY <1>1, <2>2, <2>3 DEF UniqueConnections, SameEnds
  <2>4. CASE i = k /\ j # k
    BY <2>1, <2>2, <2>4 DEF SameEnds
  <2>5. CASE i # k /\ j = k
    BY <2>1, <2>2, <2>5 DEF SameEnds
  <2> QED BY <2>3, <2>4, <2>5
<1> QED BY <1>1, <1>2, <1>3, StepOfTable

LEMMA OpenedStep ==
    ASSUME TableInv, TypeInv', [AnyNext]_vars
    PROVE  OpenedMatchesState'
<1> SUFFICES ASSUME NEW i \in Slots PROVE i \in opened' <=> Open(i)'
  <2>1. opened' \subseteq Slots
    BY DEF TypeInv
  <2> QED BY <2>1 DEF OpenedMatchesState
<1>1. TypeInv /\ (i \in opened <=> Open(i))
  BY DEF TableInv, OpenedMatchesState
<1>2. CASE \A k \in Slots : RowStep(k)
  <2>1. RowStep(i)
    BY <1>2
  <2> QED BY <1>1, <2>1 DEF RowStep, Unchanged, Closed, Moved, Open, ClosedConn
<1>3. CASE TakesRow
  <2>1. PICK k \in Slots, c \in TcpConn :
            /\ tcp_conns[k].state = "CLOSED" /\ c.state # "CLOSED"
            /\ tcp_conns' = [tcp_conns EXCEPT ![k] = c]
            /\ opened' = IF c.state = "LISTENING" THEN opened ELSE opened \cup {k}
    BY <1>1, <1>3, RowTaken
  <2>2. tcp_conns'[k] = c /\ \A l \in Slots \ {k} : tcp_conns'[l] = tcp_conns[l]
    BY <1>1, <2>1 DEF TypeInv, Table
  <2>3. CASE i = k
    BY <1>1, <2>1, <2>2, <2>3 DEF Open
  <2>4. CASE i # k
    BY <1>1, <2>1, <2>2, <2>4 DEF Open
  <2> QED BY <2>3, <2>4
<1> QED BY <1>1, <1>2, <1>3, StepOfTable

LEMMA TableInit == Init => TableInv
<1> SUFFICES ASSUME Init PROVE TableInv
  OBVIOUS
<1>1. TypeInv
  BY TypeInit
<1>2. \A i \in Slots : tcp_conns[i].state = "CLOSED"
  BY DEF Init, ClosedConn
<1>3. OpenedMatchesState
  BY <1>2 DEF OpenedMatchesState, Open, Init
<1> QED BY <1>1, <1>2, <1>3 DEF TableInv, UniqueConnections

THEOREM TableInvariant == Spec => []TableInv
<1>1. TableInv /\ [AnyNext]_vars => TableInv'
  BY TypeStep, UniqueStep, OpenedStep DEF TableInv
<1> QED BY TableInit, <1>1, NextIsAny, PTL DEF Spec

\* No two rows ever serve the same remote end and port, whatever arrives
\* (tcp_find_connection, tcp_find_listener).
THEOREM ConnectionsAreUnique == Spec => []UniqueConnections
<1>1. TableInv => UniqueConnections
  BY DEF TableInv
<1> QED BY <1>1, TableInvariant, PTL

\* The application has seen ev_opened and no ev_closed for exactly the rows
\* that are connections (handle_listen_port, kill_connection).
THEOREM ApplicationKnowsOpenRows == Spec => []OpenedMatchesState
<1>1. TableInv => OpenedMatchesState
  BY DEF TableInv
<1> QED BY <1>1, TableInvariant, PTL

LEMMA ForwardStep ==
    ASSUME TypeInv, [AnyNext]_vars
    PROVE  ConnectionSteps
<1> SUFFICES ASSUME NEW i \in Slots, Open(i), tcp_conns'[i].state # "CLOSED"
             PROVE  /\ tcp_conns'[i].remote = tcp_conns[i].remote
                    /\ tcp_conns'[i].port = tcp_conns[i].port
                    /\ Rank(tcp_conns[i].state) <= Rank(tcp_conns'[i].state)
  BY DEF ConnectionSteps
<1>1. CASE \A k \in Slots : RowStep(k)
  <2>1. RowStep(i)
    BY <1>1
  <2> QED BY <2>1, RankReflexive
          DEF RowStep, Unchanged, Closed, Moved, ClosedConn, SameEnds
<1>2. CASE TakesRow
  <2>1. PICK k \in Slots, c \in TcpConn :
          tcp_conns[k].state = "CLOSED" /\ tcp_conns' = [tcp_conns EXCEPT ![k] = c]
    BY <1>2, RowTaken
  <2>2. i # k
    BY <2>1 DEF Open
  <2>3. tcp_conns'[i] = tcp_conns[i]
    BY <2>1, <2>2 DEF TypeInv, Table
  <2> QED BY <2>3, RankReflexive
<1> QED BY <1>1, <1>2, StepOfTable

\* A row changes hands only by way of kill_connection, and a connection never
\* goes back to an earlier state.
THEOREM RowsMoveForward == Spec => ConnectionsMoveForward
<1>1. TypeInv /\ [Next]_vars => ConnectionSteps
  BY ForwardStep, NextIsAny
<1>2. TableInv => TypeInv
  BY DEF TableInv
<1> QED BY <1>1, <1>2, TableInvariant, PTL DEF Spec, ConnectionsMoveForward

----------------------------------------------------------------------------
\* Sequence numbers of the queued buffers.

LEMMA ModIdentity ==
    ASSUME NEW M \in Nat \ {0}, NEW a \in 0..(M - 1)
    PROVE  a % M = a
OBVIOUS

LEMMA ModUndo ==
    ASSUME NEW M \in Nat \ {0}, NEW a \in 0..(M - 1)
    PROVE  (((a + 1) % M) - 1) % M = a
<1>1. CASE a + 1 < M
  BY <1>1
<1>2. CASE a + 1 = M
  <2>1. M % M = 0
    OBVIOUS
  <2>2. (0 - 1) % M = M - 1
    OBVIOUS
  <2> QED BY <1>2, <2>1, <2>2
<1> QED BY <1>1, <1>2

\* The queue q ends at the sequence number last.
Tiles(q, last) ==
    \A k \in 1..Len(q) :
        /\ EndSeq(q[k]) = IF k < Len(q) THEN q[k + 1].seq ELSE last
        /\ k > 1 => q[k].ofs = 0

QueueEnd(c) == (c.nextOut - FinTaken(c)) % SeqSpace

LEMMA ContiguousTiles ==
    ASSUME NEW c, Live(c)
    PROVE  Contiguous(c) <=> Tiles(c.sendbuf, QueueEnd(c))
<1>1. DOMAIN c.sendbuf = 1..Len(c.sendbuf)
  BY LenProperties DEF Live, TcpConn
<1> QED BY <1>1 DEF Contiguous, Tiles, QueueEnd, Live, OffsetsInBuffer

LEMMA EmptyTiles == ASSUME NEW last PROVE Tiles(<<>>, last)
BY EmptySeq DEF Tiles

LEMMA ContiguousEmpty == ASSUME NEW c, c.sendbuf = <<>> PROVE Contiguous(c)
BY DEF Contiguous

\* Freeing buffers at the head leaves the rest where it was.
LEMMA DropTiles ==
    ASSUME NEW r \in Seq(TcpBuf), NEW q \in Seq(TcpBuf), NEW last, Tiles(r, last),
           NEW d \in 0..Len(r), HeadDropped(q, r, d)
    PROVE  Tiles(q, last)
<1>1. Len(r) \in Nat /\ Len(q) = Len(r) - d
  BY LenProperties DEF HeadDropped
<1> SUFFICES ASSUME NEW k \in 1..Len(q)
             PROVE  /\ EndSeq(q[k]) = IF k < Len(q) THEN q[k + 1].seq ELSE last
                    /\ k > 1 => q[k].ofs = 0
  BY DEF Tiles
<1>2. k \in 1..(Len(r) - d) /\ k + d \in 1..Len(r) /\ (k < Len(q) <=> k + d < Len(r))
  BY <1>1
<1>3. /\ EndSeq(r[k + d]) = IF k + d < Len(r) THEN r[k + d + 1].seq ELSE last
      /\ k + d > 1 => r[k + d].ofs = 0
  BY <1>2 DEF Tiles
<1>4. /\ q[k].data = r[k + d].data /\ q[k].seq = r[k + d].seq
      /\ k > 1 => q[k].ofs = r[k + d].ofs
  BY <1>2 DEF HeadDropped
<1>5. EndSeq(q[k]) = EndSeq(r[k + d])
  BY <1>4 DEF EndSeq
<1>6. ASSUME k < Len(q) PROVE q[k + 1].seq = r[k + d + 1].seq
  <2>1. k + 1 \in 1..(Len(r) - d) /\ (k + 1) + d = k + d + 1
    BY <1>1, <1>6
  <2> QED BY <2>1 DEF HeadDropped
<1>7. k > 1 => k + d > 1
  BY <1>2
<1> QED BY <1>2, <1>3, <1>4, <1>5, <1>6, <1>7

LEMMA AcknowledgedTiles ==
    ASSUME NEW c, Live(c), Contiguous(c), NEW s \in Segment
    PROVE  Tiles(Acknowledged(c, s).sendbuf, QueueEnd(c))
<1>1. Live(Acknowledged(c, s)) /\
      \E d \in 0..Len(c.sendbuf) : HeadDropped(Acknowledged(c, s).sendbuf, c.sendbuf, d)
  BY AcknowledgedLive
<1>2. Acknowledged(c, s).sendbuf \in Seq(TcpBuf) /\ c.sendbuf \in Seq(TcpBuf)
  BY <1>1 DEF Live, TcpConn
<1> QED BY <1>1, <1>2, ContiguousTiles, DropTiles

\* A buffer takes the numbers from next_outgoing_seq_no on.
LEMMA SentTiles ==
    ASSUME NEW c, Live(c), c.state = "ESTABLISHED", Contiguous(c), NEW d \in Buffers
    PROVE  Contiguous(Sent(c, d))
<1> DEFINE e == Sent(c, d)
           b == NewBuf(c, d)
           q == e.sendbuf
           r == c.sendbuf
<1>1. /\ Live(e) /\ e.state = "ESTABLISHED" /\ b \in TcpBuf
      /\ Len(q) = Len(r) + 1 /\ \A k \in 1..Len(r) : q[k] = r[k]
      /\ q[Len(r) + 1] = b /\ e.nextOut = (c.nextOut + BufLen[d]) % SeqSpace
  BY SentLive
<1>2. /\ c.nextOut \in 0..(SeqSpace - 1) /\ e.nextOut \in 0..(SeqSpace - 1)
      /\ r \in Seq(TcpBuf)
  BY <1>1 DEF Live, TcpConn, SeqNo
<1>3. Len(r) \in Nat
  BY <1>2, LenProperties
<1>4. b.data = d /\ b.ofs = 0 /\ b.seq = c.nextOut
  BY DEF NewBuf
<1>5. Tiles(r, c.nextOut)
  <2>1. QueueEnd(c) = c.nextOut % SeqSpace
    BY <1>2, SeqAssumption DEF QueueEnd, FinTaken
  <2> QED BY <1>2, <2>1, ContiguousTiles, ModIdentity, SeqAssumption
<1>6. QueueEnd(e) = EndSeq(b)
  <2>1. QueueEnd(e) = e.nextOut % SeqSpace
    BY <1>1, <1>2, SeqAssumption DEF QueueEnd, FinTaken
  <2>2. EndSeq(b) = e.nextOut
    BY <1>1, <1>4 DEF EndSeq
  <2> QED BY <1>2, <2>1, <2>2, ModIdentity, SeqAssumption
<1> HIDE DEF e, b, q, r
<1>7. Tiles(q, QueueEnd(e))
  <2> SUFFICES ASSUME NEW k \in 1..Len(q)
               PROVE  /\ EndSeq(q[k]) = IF k < Len(q) THEN q[k + 1].seq ELSE QueueEnd(e)
                      /\ k > 1 => q[k].ofs = 0
    BY DEF Tiles
  <2>1. CASE k = Len(r) + 1
    BY <1>1, <1>3, <1>4, <1>6, <2>1
  <2>2. CASE k = Len(r)
    BY <1>1, <1>3, <1>4, <1>5, <2>2 DEF Tiles
  <2>3. CASE k < Len(r)
    <3>1. k \in 1..Len(r) /\ k + 1 \in 1..Len(r) /\ k < Len(q)
      BY <1>1, <1>3, <2>3
    <3> QED BY <1>1, <1>5, <2>3, <3>1 DEF Tiles
  <2> QED BY <1>1, <1>3, <2>1, <2>2, <2>3
<1>8. Contiguous(e)
  BY <1>1, <1>7, ContiguousTiles DEF q
<1> QED BY <1>8 DEF e

LEMMA SendAllTiles ==
    ASSUME NEW c, Live(c), c.state = "ESTABLISHED", Contiguous(c), NEW ds, Batch(ds)
    PROVE  Contiguous(SendAll(c, ds))
<1>1. ds \in Seq(Buffers) /\ Len(ds) \in 0..2
  BY DEF Batch
<1>2. \A k \in 1..Len(ds) : ds[k] \in Buffers
  BY <1>1, ElementOfSeq
<1>3. CASE Len(ds) = 0
  BY <1>3 DEF SendAll
<1>4. CASE Len(ds) = 1
  BY <1>2, <1>4, SentTiles DEF SendAll
<1>5. CASE Len(ds) = 2
  <2>1. /\ ds[1] \in Buffers /\ ds[2] \in Buffers
        /\ SendAll(c, ds) = Sent(Sent(c, ds[1]), ds[2])
    BY <1>2, <1>5 DEF SendAll
  <2>2. /\ Live(Sent(c, ds[1])) /\ Sent(c, ds[1]).state = "ESTABLISHED"
        /\ Contiguous(Sent(c, ds[1]))
    BY <2>1, SentLive, SentTiles
  <2> QED BY <2>1, <2>2, SentTiles
<1> QED BY <1>1, <1>3, <1>4, <1>5

\* The FIN takes the number after the last buffer, and the queue stays.
LEMMA FinTiles ==
    ASSUME NEW c, Live(c), c.state = "ESTABLISHED", Contiguous(c),
           NEW e, Live(e), e.sendbuf = c.sendbuf, e.state \in {"CLOSING", "LAST_ACK"},
           e.nextOut = (c.nextOut + 1) % SeqSpace
    PROVE  Contiguous(e)
<1>1. c.nextOut \in 0..(SeqSpace - 1)
  BY DEF Live, TcpConn, SeqNo
<1>2. QueueEnd(c) = c.nextOut
  <2>1. QueueEnd(c) = c.nextOut % SeqSpace
    BY <1>1, SeqAssumption DEF QueueEnd, FinTaken
  <2> QED BY <1>1, <2>1, ModIdentity, SeqAssumption
<1>3. QueueEnd(e) = c.nextOut
  <2>1. QueueEnd(e) = (((c.nextOut + 1) % SeqSpace) - 1) % SeqSpace
    BY DEF QueueEnd, FinTaken
  <2> QED BY <1>1, <2>1, ModUndo, SeqAssumption
<1> QED BY <1>2, <1>3, ContiguousTiles

----------------------------------------------------------------------------
\* The steps.

LEMMA RowContiguous ==
    ASSUME TypeInv, SendSpaceContiguous, NEW i \in Slots, NEW c, Contiguous(c),
           tcp_conns' = [tcp_conns EXCEPT ![i] = c]
    PROVE  SendSpaceContiguous'
BY DEF SendSpaceContiguous, TypeInv, Table

LEMMA KillContiguous ==
    ASSUME TypeInv, SendSpaceContiguous, NEW i \in Slots, Kill(i)
    PROVE  SendSpaceContiguous'
BY ContiguousEmpty, ClosedConnType, RowContiguous DEF Kill

LEMMA SameSpace ==
    ASSUME NEW c, Contiguous(c), NEW e, e.sendbuf = c.sendbuf,
           e.nextOut = c.nextOut, FinTaken(e) = FinTaken(c)
    PROVE  Contiguous(e)
BY DEF Contiguous

LEMMA AcknowledgedContiguous ==
    ASSUME NEW c, Live(c), Contiguous(c), NEW s \in Segment
    PROVE  Contiguous(Acknowledged(c, s))
<1> DEFINE a == Acknowledged(c, s)
<1>1. Live(a) /\ a.state = c.state /\ a.nextOut = c.nextOut
  BY AcknowledgedLive
<1>2. QueueEnd(a) = QueueEnd(c)
  BY <1>1 DEF QueueEnd, FinTaken
<1>3. Tiles(a.sendbuf, QueueEnd(a))
  BY <1>2, AcknowledgedTiles
<1> HIDE DEF a
<1>4. Contiguous(a)
  BY <1>1, <1>3, ContiguousTiles
<1> QED BY <1>4 DEF a

\* What follows the acknowledgement of a segment: only incoming is set.
LEMMA IncomingContiguous ==
    ASSUME TypeInv, SendSpaceContiguous, NEW i \in Slots, NEW s \in Segment,
           Target(i, s), NEW n \in SeqNo
    PROVE  LET c == [Acknowledged(tcp_conns[i], s) EXCEPT !.incoming = n]
           IN  Live(c) /\ Contiguous(c)
<1> DEFINE a == Acknowledged(tcp_conns[i], s)
           c == [a EXCEPT !.incoming = n]
<1>1. Live(a) /\ Contiguous(a)
  BY ConnectedIsOpen, AcknowledgedLive, AcknowledgedContiguous DEF SendSpaceContiguous
<1> HIDE DEF a
<1>2. /\ c \in TcpConn /\ c.sendbuf = a.sendbuf /\ c.nextOut = a.nextOut
      /\ c.state = a.state /\ c.remote = a.remote /\ c.port = a.port
  BY <1>1 DEF Live, TcpConn
<1> HIDE DEF c
<1>3. Live(c) /\ Contiguous(c)
  BY <1>1, <1>2, SameSpace DEF Live, FinTaken
<1> QED BY <1>3 DEF c, a

LEMMA CommitContiguous ==
    ASSUME NEW c, Live(c)
    PROVE  /\ Live(CommitSequenceRange(c, 1))
           /\ CommitSequenceRange(c, 1).sendbuf = c.sendbuf
           /\ CommitSequenceRange(c, 1).nextOut = (c.nextOut + 1) % SeqSpace
<1>1. c \in TcpConn
  BY DEF Live
<1>2. CommitSequenceRange(c, 1).nextOut = (c.nextOut + 1) % SeqSpace
  BY <1>1 DEF CommitSequenceRange, TcpConn
<1> QED BY <1>2, CommitLive

LEMMA FinContiguous ==
    ASSUME TypeInv, SendSpaceContiguous, NEW i \in Slots, NEW s \in Segment, HandleFin(i, s)
    PROVE  SendSpaceContiguous'
<1> DEFINE a == Acknowledged(tcp_conns[i], s)
           n == (a.incoming + 1) % SeqSpace
           c == [a EXCEPT !.incoming = n]
<1>1. Target(i, s) /\ IF c.state = "ESTABLISHED"
                      THEN tcp_conns' = [tcp_conns EXCEPT ![i] = FinSent(c)]
                      ELSE Kill(i)
  BY DEF HandleFin, PassesAckStep
<1>2. n \in SeqNo
  <2>1. a.incoming \in Int
    BY <1>1, ConnectedIsOpen, AcknowledgedLive, SeqAssumption DEF Live, TcpConn, SeqNo
  <2> HIDE DEF a
  <2> QED BY <2>1, ModType
<1>3. Live(c) /\ Contiguous(c)
  BY <1>1, <1>2, IncomingContiguous
<1> HIDE DEF c
<1>4. CASE c.state = "ESTABLISHED"
  <2>1. /\ Live(FinSent(c)) /\ FinSent(c).sendbuf = c.sendbuf
        /\ FinSent(c).state = "LAST_ACK"
        /\ FinSent(c).nextOut = (c.nextOut + 1) % SeqSpace
    <3> DEFINE m == CommitSequenceRange(c, 1)
               e == [m EXCEPT !.state = "LAST_ACK"]
    <3>1. Live(m) /\ m.sendbuf = c.sendbuf /\ m.nextOut = (c.nextOut + 1) % SeqSpace
      BY <1>3, CommitContiguous
    <3> HIDE DEF m
    <3>2. /\ e \in TcpConn /\ e.sendbuf = m.sendbuf /\ e.nextOut = m.nextOut
          /\ e.remote = m.remote /\ e.port = m.port /\ e.state = "LAST_ACK"
      BY <3>1 DEF Live, TcpConn, State
    <3> HIDE DEF e
    <3>3. FinSent(c) = e
      BY DEF FinSent, e, m
    <3> QED BY <3>1, <3>2, <3>3 DEF Live
  <2>2. Contiguous(FinSent(c))
    BY <1>3, <1>4, <2>1, FinTiles
  <2> QED BY <1>1, <1>4, <2>2, RowContiguous
<1>5. CASE c.state # "ESTABLISHED"
  BY <1>1, <1>5, KillContiguous
<1> QED BY <1>4, <1>5

LEMMA DataContiguous ==
    ASSUME TypeInv, SendSpaceContiguous, NEW i \in Slots, NEW s \in Segment,
           NEW ds \in Responses, HandleData(i, s, ds)
    PROVE  SendSpaceContiguous'
<1> DEFINE c == [Acknowledged(tcp_conns[i], s) EXCEPT !.incoming = (s.seq + s.len) % SeqSpace]
<1>1. Target(i, s) /\ tcp_conns' = [tcp_conns EXCEPT ![i] =
                        IF c.state = "ESTABLISHED" THEN SendAll(c, ds) ELSE c]
  BY DEF HandleData, PassesAckStep
<1>2. Live(c) /\ Contiguous(c)
  BY <1>1, SegmentNumbers, IncomingContiguous
<1> HIDE DEF c
<1>3. Contiguous(IF c.state = "ESTABLISHED" THEN SendAll(c, ds) ELSE c)
  BY <1>2, ResponsesAreBatches, SendAllTiles
<1> QED BY <1>1, <1>3, RowContiguous

LEMMA SendContiguous ==
    ASSUME TypeInv, SendSpaceContiguous, NEW i \in Slots, NEW d \in Buffers, TcpSend(i, d)
    PROVE  SendSpaceContiguous'
<1>1. CASE tcp_conns[i].state = "ESTABLISHED"
  <2>1. Live(tcp_conns[i]) /\ Contiguous(tcp_conns[i])
    BY <1>1, OpenConnected DEF Open, Connected, SendSpaceContiguous
  <2>2. Contiguous(Sent(tcp_conns[i], d))
    BY <1>1, <2>1, SentTiles
  <2> QED BY <1>1, <2>2, RowContiguous DEF TcpSend
<1>2. CASE tcp_conns[i].state # "ESTABLISHED"
  BY <1>2 DEF TcpSend, SendSpaceContiguous
<1> QED BY <1>1, <1>2

LEMMA CloseContiguous ==
    ASSUME TypeInv, SendSpaceContiguous, NEW i \in Slots, TcpClose(i)
    PROVE  SendSpaceContiguous'
<1> DEFINE r == tcp_conns[i]
           m == CommitSequenceRange(r, 1)
           e == [m EXCEPT !.state = "CLOSING"]
<1>1. Live(r) /\ Contiguous(r) /\ r.state = "ESTABLISHED"
  BY OpenConnected DEF TcpClose, Open, Connected, SendSpaceContiguous
<1>2. Live(m) /\ m.sendbuf = r.sendbuf /\ m.nextOut = (r.nextOut + 1) % SeqSpace
  BY <1>1, CommitContiguous
<1>3. tcp_conns' = [tcp_conns EXCEPT ![i] = e]
  BY DEF TcpClose
<1> HIDE DEF m, r
<1>4. /\ e \in TcpConn /\ e.sendbuf = m.sendbuf /\ e.nextOut = m.nextOut
      /\ e.remote = m.remote /\ e.port = m.port /\ e.state = "CLOSING"
  BY <1>2 DEF Live, TcpConn, State
<1> HIDE DEF e
<1>5. Contiguous(e)
  BY <1>1, <1>2, <1>4, FinTiles DEF Live
<1> QED BY <1>3, <1>5, RowContiguous

\* Rows whose queue is empty, and rows of which only the timer or SYN changes.
LEMMA QuietContiguous ==
    ASSUME TypeInv, SendSpaceContiguous,
           \/ \E p \in Ports : TcpNewListenSock(p)
           \/ \E s \in Segment : HandleListenPort(s)
           \/ \E i \in Slots, s \in Segment : EstablishConnection(i, s)
           \/ \E i \in Slots : Elapse(i)
    PROVE  SendSpaceContiguous'
<1>1. CASE \E p \in Ports : TcpNewListenSock(p)
  <2>1. PICK p \in Ports, i \in Slots :
            tcp_conns' = [tcp_conns EXCEPT ![i] =
                            [ClosedConn EXCEPT !.state = "LISTENING", !.port = p]]
    BY <1>1 DEF TcpNewListenSock
  <2>2. [ClosedConn EXCEPT !.state = "LISTENING", !.port = p].sendbuf = <<>>
    BY DEF ClosedConn
  <2> QED BY <2>1, <2>2, ContiguousEmpty, RowContiguous
<1>2. CASE \E s \in Segment : HandleListenPort(s)
  <2>1. PICK s \in Segment : HandleListenPort(s)
    BY <1>2
  <2> DEFINE c == CommitSequenceRange(
                    [ClosedConn EXCEPT !.state = "SYN", !.remote = s.remote,
                        !.port = s.port, !.incoming = (s.seq + 1) % SeqSpace,
                        !.nextOut = InitSeq], 1)
  <2>2. PICK i \in Slots : tcp_conns' = [tcp_conns EXCEPT ![i] = c]
    BY <2>1 DEF HandleListenPort
  <2>3. c.sendbuf = <<>>
    BY DEF ClosedConn, CommitSequenceRange
  <2> HIDE DEF c
  <2> QED BY <2>2, <2>3, ContiguousEmpty, RowContiguous
<1>3. CASE \E i \in Slots, s \in Segment : EstablishConnection(i, s)
  <2>1. PICK i \in Slots, s \in Segment : EstablishConnection(i, s)
    BY <1>3
  <2> DEFINE r == tcp_conns[i]
             c == [r EXCEPT !.state = "ESTABLISHED"]
  <2>2. /\ r \in TcpConn /\ Contiguous(r) /\ r.state = "SYN"
        /\ tcp_conns' = [tcp_conns EXCEPT ![i] = c]
    BY <2>1 DEF EstablishConnection, TypeInv, Table, SendSpaceContiguous
  <2> HIDE DEF r
  <2>3. /\ c.sendbuf = r.sendbuf /\ c.nextOut = r.nextOut
        /\ FinTaken(c) = FinTaken(r)
    BY <2>2 DEF TcpConn, FinTaken
  <2> HIDE DEF c
  <2>4. Contiguous(c)
    BY <2>2, <2>3, SameSpace
  <2> QED BY <2>2, <2>4, RowContiguous
<1>4. CASE \E i \in Slots : Elapse(i)
  <2>1. PICK i \in Slots : Elapse(i)
    BY <1>4
  <2> DEFINE r == tcp_conns[i]
             c == [r EXCEPT !.due = ~@]
  <2>2. /\ r \in TcpConn /\ Contiguous(r)
        /\ tcp_conns' = [tcp_conns EXCEPT ![i] = c]
    BY <2>1 DEF Elapse, TypeInv, Table, SendSpaceContiguous
  <2> HIDE DEF r
  <2>3. /\ c.sendbuf = r.sendbuf /\ c.nextOut = r.nextOut
        /\ FinTaken(c) = FinTaken(r)
    BY <2>2 DEF TcpConn, FinTaken
  <2> HIDE DEF c
  <2>4. Contiguous(c)
    BY <2>2, <2>3, SameSpace
  <2> QED BY <2>2, <2>4, RowContiguous
<1> QED BY <1>1, <1>2, <1>3, <1>4

LEMMA ProcessContiguous ==
    ASSUME TypeInv, SendSpaceContiguous, TcpProcess
    PROVE  SendSpaceContiguous'
<1> SUFFICES ASSUME NEW i \in Slots PROVE Contiguous(tcp_conns'[i])
  BY DEF SendSpaceContiguous
<1>1. tcp_conns[i] \in TcpConn /\ Contiguous(tcp_conns[i])
  BY DEF TypeInv, Table, SendSpaceContiguous
<1>2. \/ tcp_conns'[i] = tcp_conns[i]
      \/ tcp_conns'[i] = [tcp_conns[i] EXCEPT !.due = FALSE]
  BY DEF TcpProcess
<1>3. /\ tcp_conns'[i].sendbuf = tcp_conns[i].sendbuf
      /\ tcp_conns'[i].nextOut = tcp_conns[i].nextOut
      /\ FinTaken(tcp_conns'[i]) = FinTaken(tcp_conns[i])
  BY <1>1, <1>2 DEF TcpConn, FinTaken
<1> QED BY <1>1, <1>3, SameSpace

LEMMA ReceiveContiguous ==
    ASSUME TypeInv, SendSpaceContiguous, NEW s \in Segment, Receive(s)
    PROVE  SendSpaceContiguous'
<1>1. CASE HandleListenPort(s) \/ \E i \in Slots : EstablishConnection(i, s)
  BY <1>1, QuietContiguous
<1>2. CASE \E i \in Slots : ConnectionReset(i, s) \/ LastAck(i, s)
  BY <1>2, KillContiguous DEF ConnectionReset, LastAck
<1>3. CASE \E i \in Slots : HandleFin(i, s)
  BY <1>3, FinContiguous
<1>4. CASE \E i \in Slots : HandleAck(i, s)
  <2>1. PICK i \in Slots : HandleAck(i, s)
    BY <1>4
  <2>2. /\ Target(i, s)
        /\ tcp_conns' = [tcp_conns EXCEPT ![i] = Acknowledged(tcp_conns[i], s)]
    BY <2>1 DEF HandleAck, PassesAckStep
  <2>3. Contiguous(Acknowledged(tcp_conns[i], s))
    BY <2>2, ConnectedIsOpen, AcknowledgedContiguous DEF SendSpaceContiguous
  <2> QED BY <2>2, <2>3, RowContiguous
<1>5. CASE \E i \in Slots, ds \in Responses : HandleData(i, s, ds)
  BY <1>5, DataContiguous
<1> QED BY <1>1, <1>2, <1>3, <1>4, <1>5 DEF Receive, Control

LEMMA SpaceStep ==
    ASSUME TypeInv, SendSpaceContiguous, [AnyNext]_vars
    PROVE  SendSpaceContiguous'
<1>1. CASE \E s \in Segment : Receive(s)
  BY <1>1, ReceiveContiguous
<1>2. CASE \E i \in Slots, d \in Buffers : TcpSend(i, d)
  BY <1>2, SendContiguous
<1>3. CASE \E i \in Slots : TcpClose(i)
  BY <1>3, CloseContiguous
<1>4. CASE \E i \in Slots : Elapse(i)
  BY <1>4, QuietContiguous
<1>5. CASE TcpProcess
  BY <1>5, ProcessContiguous
<1>6. CASE \E p \in Ports : TcpNewListenSock(p)
  BY <1>6, QuietContiguous
<1>7. CASE UNCHANGED vars
  BY <1>7 DEF vars, SendSpaceContiguous
<1> QED BY <1>1, <1>2, <1>3, <1>4, <1>5, <1>6, <1>7 DEF AnyNext

LEMMA SpaceInit == Init => TypeInv /\ SendSpaceContiguous
<1> SUFFICES ASSUME Init PROVE TypeInv /\ SendSpaceContiguous
  OBVIOUS
<1>1. \A i \in Slots : tcp_conns[i].sendbuf = <<>>
  BY ClosedConnType DEF Init
<1> QED BY <1>1, TypeInit, ContiguousEmpty DEF SendSpaceContiguous

\* The queued buffers of a connection tile its sequence space up to
\* next_outgoing_seq_no, less the number a FIN took, whatever is sent,
\* acknowledged or closed in between (tcp_commit_sequence_range, tcp_unbuffer).
THEOREM QueuesTileSequenceSpace == Spec => []SendSpaceContiguous
<1>1. TypeInv /\ SendSpaceContiguous /\ [Next]_vars => (TypeInv /\ SendSpaceContiguous)'
  BY SpaceStep, TypeStep, NextIsAny
<1> QED BY SpaceInit, <1>1, PTL DEF Spec
=============================================================================
