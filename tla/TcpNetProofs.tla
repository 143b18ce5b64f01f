---------------------------- MODULE TcpNetProofs ----------------------------
(***************************************************************************)
(* The router and its clients over a network, for every number of clients, *)
(* rows and faults, every network that loses, repeats and reorders, every  *)
(* size of segments and every initial sequence number: the application     *)
(* hears each request in order, and each client reads its response as it   *)
(* was sent.                                                               *)
(***************************************************************************)
EXTENDS TcpProofs, TcpNet

USE DEF SeqNo, Slots, Flag

----------------------------------------------------------------------------
\* What the server sends.

\* How long the first n answers are.
Upto(p, n) ==
    CASE n = 0 -> 0
      [] n = 1 -> Len(AllOf(Replies[p][1]))
      [] OTHER -> Len(Stream(p))

\* The sequence number of the unit at offset o of a response.
Num(o) == (InitSeq + 1 + o) % SeqSpace

\* The units of the buffer d are in u from o on, or in the stream of p.
Lies(u, d, o) ==
    /\ o \in Nat /\ o + BufLen[d] <= Len(u)
    /\ \A k \in 0..(BufLen[d] - 1) : u[o + 1 + k] = <<d, k>>

Placed(p, d, o) == Lies(Stream(p), d, o)

----------------------------------------------------------------------------
\* The inductive invariant.

\* Segments of a client that asks for p, and of the router to such a client.
Uplink(p, r) ==
    {s \in Segment :
        /\ s.remote = r
        /\ s.flags = {"SYN"} => s.seq = 0 /\ s.len = 0
        /\ s.len # 0 => /\ s.len = 1 /\ s.flags = {"ACK"} /\ s.ofs = s.seq
                        /\ s.seq \in 1..Len(Replies[p])}

Carries(s, p) ==
    \E o \in Nat : /\ o + s.len <= Len(Stream(p)) /\ s.seq = Num(o)
                   /\ \A k \in 0..(s.len - 1) : Stream(p)[o + 1 + k] = <<s.data, s.ofs + k>>

Downlink(p, r) ==
    {s \in Segment : /\ s.remote = r
                     /\ s.flags = {"SYN", "ACK"} => s.seq = InitSeq
                     /\ s.len # 0 => Carries(s, p)}

Client ==
    [plan : DOMAIN Asked,
     state : {"IDLE", "SYN_SENT", "ESTABLISHED", "FIN_WAIT", "TIME_WAIT"},
     una : Nat, nxt : Nat, rcv : SeqNo, got : Seq(Buffers \X Nat)]

\* A client numbers what it sends, and has read the start of its stream.
ClientRight(c) ==
    /\ c \in Client
    /\ c.una <= c.nxt /\ c.nxt <= Len(Replies[c.plan]) + 2
    /\ c.state = "IDLE" => c.nxt = 0
    /\ c.state = "SYN_SENT" => c.nxt = 1
    /\ c.state = "ESTABLISHED" => c.nxt <= Len(Replies[c.plan]) + 1
    /\ c.state \in {"IDLE", "SYN_SENT"} => c.got = <<>>
    /\ c.state \in {"ESTABLISHED", "FIN_WAIT"} => c.rcv = Num(Len(c.got))
    /\ Len(c.got) <= Len(Stream(c.plan))
    /\ \A k \in 1..Len(c.got) : c.got[k] = Stream(c.plan)[k]

QueueRight(q, p) ==
    \A k \in 1..Len(q) : \E o \in Nat : Placed(p, q[k].data, o) /\ q[k].seq = Num(o)

InOrder(h) == h \in Seq(Nat) /\ \A k \in 1..Len(h) : h[k] = k

\* The connection c with a client that asks for p, which has brought n units:
\* it expects unit n + 1, and numbers its next unit by its place in the stream.
Converses(c, p, n) ==
    /\ c.state \in {"SYN", "ESTABLISHED", "LAST_ACK"}
    /\ n <= Len(Replies[p])
    /\ c.state # "LAST_ACK" => c.incoming = n + 1 /\ c.nextOut = Num(Upto(p, n))
    /\ QueueRight(c.sendbuf, p)

RowRight(i) ==
    /\ i \in opened <=> Open(i)
    /\ InOrder(heard[i])
    /\ ~Open(i) => heard[i] = <<>>
    /\ Open(i) => Converses(tcp_conns[i], client[tcp_conns[i].remote].plan, Len(heard[i]))

QueuesRight ==
    /\ toServer \in [Remotes -> Seq(Segment)] /\ toClient \in [Remotes -> Seq(Segment)]
    /\ \A r \in Remotes : /\ toServer[r] \in Seq(Uplink(client[r].plan, r))
                          /\ toClient[r] \in Seq(Downlink(client[r].plan, r))

NetInv ==
    /\ TypeInv
    /\ client \in [Remotes -> Client] /\ \A r \in Remotes : ClientRight(client[r])
    /\ QueuesRight
    /\ heard \in [Slots -> Seq(Nat)] /\ \A i \in Slots : RowRight(i)

----------------------------------------------------------------------------
\* Sequence numbers.

LEMMA NumType == ASSUME NEW o \in Nat PROVE Num(o) \in SeqNo
BY SeqAssumption, ModType DEF Num

LEMMA ModOnce ==
    ASSUME NEW M \in Nat \ {0}, NEW x \in 0..(M + M - 1)
    PROVE  x % M = IF x < M THEN x ELSE x - M
OBVIOUS

LEMMA ModBelow ==
    ASSUME NEW M \in Nat \ {0}, NEW x \in (0 - M)..(0 - 1)
    PROVE  x % M = x + M
OBVIOUS

LEMMA NumCases ==
    ASSUME NEW o \in 0..(SeqSpace - 1)
    PROVE  Num(o) = IF InitSeq + 1 + o < SeqSpace THEN InitSeq + 1 + o
                    ELSE InitSeq + 1 + o - SeqSpace
<1> DEFINE x == InitSeq + 1 + o
<1>1. x \in 0..(SeqSpace + SeqSpace - 1) /\ SeqSpace \in Nat \ {0}
  BY SeqAssumption
<1>2. Num(o) = x % SeqSpace
  BY DEF Num
<1> HIDE DEF x
<1>3. x % SeqSpace = IF x < SeqSpace THEN x ELSE x - SeqSpace
  BY <1>1, ModOnce
<1> QED BY <1>1, <1>2, <1>3, SeqAssumption DEF x

LEMMA NumAdd ==
    ASSUME NEW o \in Nat, NEW n \in Nat, o + n < SeqSpace
    PROVE  (Num(o) + n) % SeqSpace = Num(o + n)
<1>1. o \in 0..(SeqSpace - 1) /\ o + n \in 0..(SeqSpace - 1)
  BY SeqAssumption
<1>2. /\ Num(o) = IF InitSeq + 1 + o < SeqSpace THEN InitSeq + 1 + o
                   ELSE InitSeq + 1 + o - SeqSpace
      /\ Num(o + n) = IF InitSeq + 1 + (o + n) < SeqSpace THEN InitSeq + 1 + (o + n)
                       ELSE InitSeq + 1 + (o + n) - SeqSpace
  BY <1>1, NumCases
<1>3. Num(o) + n \in 0..(SeqSpace + SeqSpace - 1)
  BY <1>1, <1>2, SeqAssumption
<1>4. (Num(o) + n) % SeqSpace =
        IF Num(o) + n < SeqSpace THEN Num(o) + n ELSE Num(o) + n - SeqSpace
  <2> DEFINE x == Num(o) + n
  <2>1. x \in 0..(SeqSpace + SeqSpace - 1) /\ SeqSpace \in Nat \ {0}
    BY <1>3, SeqAssumption
  <2> HIDE DEF x
  <2>2. x % SeqSpace = IF x < SeqSpace THEN x ELSE x - SeqSpace
    BY <2>1, ModOnce
  <2> QED BY <1>1, <2>1, <2>2, NumType, SeqAssumption DEF x
<1> QED BY <1>1, <1>2, <1>4, SeqAssumption

LEMMA NumDistance ==
    ASSUME NEW g \in 0..(SeqSpace - 1), NEW o \in 0..(SeqSpace - 1)
    PROVE  (Num(g) - Num(o)) % SeqSpace = IF o <= g THEN g - o ELSE SeqSpace - (o - g)
<1> DEFINE d == Num(g) - Num(o)
<1>1. /\ Num(g) = IF InitSeq + 1 + g < SeqSpace THEN InitSeq + 1 + g
                   ELSE InitSeq + 1 + g - SeqSpace
      /\ Num(o) = IF InitSeq + 1 + o < SeqSpace THEN InitSeq + 1 + o
                   ELSE InitSeq + 1 + o - SeqSpace
  BY NumCases
<1>2. d \in (0 - SeqSpace)..(SeqSpace - 1)
  BY <1>1, SeqAssumption
<1>3. d % SeqSpace = IF d < 0 THEN d + SeqSpace ELSE d
  <2> HIDE DEF d
  <2>1. CASE d < 0
    <3>1. d \in (0 - SeqSpace)..(0 - 1)
      BY <1>2, <2>1, SeqAssumption
    <3> QED BY <2>1, <3>1, SeqAssumption, ModBelow
  <2>2. CASE ~(d < 0)
    <3>1. d \in 0..(SeqSpace + SeqSpace - 1) /\ d < SeqSpace
      BY <1>2, <2>2, SeqAssumption
    <3> QED BY <2>2, <3>1, SeqAssumption, ModOnce
  <2> QED BY <2>1, <2>2
<1> QED BY <1>1, <1>3, SeqAssumption

----------------------------------------------------------------------------
\* The answers and the stream they make.

LEMMA RepliesType ==
    ASSUME NEW p \in DOMAIN Asked
    PROVE  /\ Len(Replies[p]) \in {1, 2} /\ DOMAIN Replies[p] = 1..Len(Replies[p])
           /\ \A n \in 1..Len(Replies[p]) : Batch(Replies[p][n])
<1> DEFINE f == Replies[p]
           S == {f[n] : n \in DOMAIN f}
<1>1. DOMAIN f = 1..1 \/ DOMAIN f = 1..2
  <2>1. DOMAIN f = DOMAIN Segments(Asked[p])
    BY DEF Replies
  <2>2. \E x, y : Segments(Asked[p]) = <<x>> \/ Segments(Asked[p]) = <<x, y>>
    BY DEF Segments
  <2> QED BY <2>1, <2>2
<1>2. f = [n \in DOMAIN f |-> f[n]]
  BY DEF Replies
<1> HIDE DEF f
<1>3. f \in [DOMAIN f -> S]
  BY <1>2
<1> HIDE DEF S
<1>4. f \in Seq(S) /\ Len(f) \in {1, 2} /\ DOMAIN f = 1..Len(f)
  BY <1>1, <1>3
<1>5. ASSUME NEW n \in DOMAIN f PROVE Batch(f[n])
  <2>1. \/ f[n] \in {<<>>} \cup {<<b>> : b \in Buffers}
        \/ \E b, c \in Buffers : b # c /\ f[n] = <<b, c>>
    BY <1>5, AnswersAssumption DEF f
  <2>2. CASE f[n] = <<>>
    BY <2>2 DEF Batch
  <2>3. ASSUME NEW b \in Buffers, f[n] = <<b>> PROVE Batch(f[n])
    BY <2>3 DEF Batch
  <2>4. ASSUME NEW b \in Buffers, NEW c \in Buffers, b # c, f[n] = <<b, c>>
        PROVE  Batch(f[n])
    <3> DEFINE ds == <<b, c>>
    <3>1. ds \in Seq(Buffers) /\ Len(ds) = 2 /\ ds[1] = b /\ ds[2] = c
      OBVIOUS
    <3> HIDE DEF ds
    <3>2. Batch(ds)
      BY <2>4, <3>1 DEF Batch
    <3> QED BY <2>4, <3>2 DEF ds
  <2> QED BY <2>1, <2>2, <2>3, <2>4
<1> QED BY <1>4, <1>5 DEF f

Unit == Buffers \X Nat

LEMMA UnitsType ==
    ASSUME NEW b \in Buffers
    PROVE  Units(b) \in Seq(Unit) /\ Len(Units(b)) = BufLen[b] /\ Lies(Units(b), b, 0)
<1> DEFINE n == BufLen[b]
           u == Units(b)
<1>1. n \in Nat
  BY BufferAssumption
<1>2. u = [k \in 1..n |-> <<b, k - 1>>]
  BY DEF Units
<1> HIDE DEF n, u
<1>3. u \in [1..n -> Unit]
  BY <1>1, <1>2 DEF Unit
<1>4. u \in Seq(Unit) /\ Len(u) = n
  BY <1>1, <1>3
<1>5. ASSUME NEW k \in 0..(n - 1) PROVE u[0 + 1 + k] = <<b, k>>
  <2>1. 0 + 1 + k \in 1..n /\ (0 + 1 + k) - 1 = k
    BY <1>1
  <2> QED BY <1>2, <2>1
<1>6. 0 + n <= Len(u)
  BY <1>1, <1>4
<1> QED BY <1>4, <1>5, <1>6 DEF n, u, Lies

LEMMA LiesInConcat ==
    ASSUME NEW u \in Seq(Unit), NEW v \in Seq(Unit), NEW d \in Buffers, NEW o \in Nat
    PROVE  /\ u \o v \in Seq(Unit) /\ Len(u \o v) = Len(u) + Len(v)
           /\ Lies(u, d, o) => Lies(u \o v, d, o)
           /\ Lies(v, d, o) => Lies(u \o v, d, Len(u) + o)
<1> DEFINE w == u \o v
           n == BufLen[d]
<1>1. n \in Nat /\ Len(u) \in Nat /\ Len(v) \in Nat
  BY BufferAssumption, LenProperties
<1>2. /\ w \in Seq(Unit) /\ Len(w) = Len(u) + Len(v)
      /\ \A k \in 1..(Len(u) + Len(v)) : w[k] = IF k <= Len(u) THEN u[k] ELSE v[k - Len(u)]
  BY ConcatProperties
<1> HIDE DEF w, n
<1>3. ASSUME Lies(u, d, o) PROVE Lies(w, d, o)
  <2>1. o + n <= Len(u) /\ \A k \in 0..(n - 1) : u[o + 1 + k] = <<d, k>>
    BY <1>3 DEF Lies, n
  <2>2. ASSUME NEW k \in 0..(n - 1) PROVE w[o + 1 + k] = <<d, k>>
    <3> DEFINE m == o + 1 + k
    <3>1. m \in 1..(Len(u) + Len(v)) /\ m <= Len(u)
      BY <1>1, <2>1
    <3>2. u[m] = <<d, k>>
      BY <2>1
    <3> HIDE DEF m
    <3>3. w[m] = <<d, k>>
      BY <1>2, <3>1, <3>2
    <3> QED BY <3>3 DEF m
  <2>3. o + n <= Len(w)
    BY <1>1, <1>2, <2>1
  <2> QED BY <2>2, <2>3 DEF Lies, n
<1>4. ASSUME Lies(v, d, o) PROVE Lies(w, d, Len(u) + o)
  <2>1. o + n <= Len(v) /\ \A k \in 0..(n - 1) : v[o + 1 + k] = <<d, k>>
    BY <1>4 DEF Lies, n
  <2>2. ASSUME NEW k \in 0..(n - 1) PROVE w[(Len(u) + o) + 1 + k] = <<d, k>>
    <3> DEFINE m == (Len(u) + o) + 1 + k
    <3>1. m \in 1..(Len(u) + Len(v)) /\ ~(m <= Len(u)) /\ m - Len(u) = o + 1 + k
      BY <1>1, <2>1
    <3>2. v[o + 1 + k] = <<d, k>>
      BY <2>1
    <3> HIDE DEF m
    <3>3. w[m] = <<d, k>>
      BY <1>2, <3>1, <3>2
    <3> QED BY <3>3 DEF m
  <2>3. Len(u) + o \in Nat /\ (Len(u) + o) + n <= Len(w)
    BY <1>1, <1>2, <2>1
  <2> QED BY <2>2, <2>3 DEF Lies, n
<1> QED BY <1>2, <1>3, <1>4 DEF w

\* The buffers of ds are one after the other in u from o on, and end at n.
Follow(u, ds, o, n) ==
    CASE Len(ds) = 0 -> n = o
      [] Len(ds) = 1 -> Lies(u, ds[1], o) /\ n = o + BufLen[ds[1]]
      [] OTHER -> /\ Lies(u, ds[1], o) /\ Lies(u, ds[2], o + BufLen[ds[1]])
                  /\ n = o + BufLen[ds[1]] + BufLen[ds[2]]

LEMMA BatchType ==
    ASSUME NEW ds, Batch(ds)
    PROVE  /\ Len(ds) \in 0..2
           /\ \A k \in 1..Len(ds) : ds[k] \in Buffers /\ BufLen[ds[k]] \in Nat
<1>1. ds \in Seq(Buffers) /\ Len(ds) \in 0..2
  BY DEF Batch
<1> QED BY <1>1, ElementOfSeq, BufferAssumption

LEMMA AllOfFollow ==
    ASSUME NEW ds, Batch(ds)
    PROVE  AllOf(ds) \in Seq(Unit) /\ Follow(AllOf(ds), ds, 0, Len(AllOf(ds)))
<1>1. CASE Len(ds) = 0
  <2>1. AllOf(ds) = <<>>
    BY <1>1 DEF AllOf
  <2>2. AllOf(ds) \in Seq(Unit) /\ Len(AllOf(ds)) = 0
    BY <2>1
  <2> QED BY <1>1, <2>2 DEF Follow
<1>2. CASE Len(ds) = 1
  <2>1. ds[1] \in Buffers /\ BufLen[ds[1]] \in Nat /\ AllOf(ds) = Units(ds[1])
    BY <1>2, BatchType DEF AllOf, UnitsOf
  <2> QED BY <1>2, <2>1, UnitsType DEF Follow
<1>3. CASE Len(ds) = 2
  <2> DEFINE b == ds[1]
             c == ds[2]
             u == Units(b)
             v == Units(c)
  <2>1. /\ b \in Buffers /\ c \in Buffers /\ AllOf(ds) = u \o v
        /\ BufLen[b] \in Nat /\ BufLen[c] \in Nat
    BY <1>3, BatchType DEF AllOf, UnitsOf
  <2>2. /\ u \in Seq(Unit) /\ Len(u) = BufLen[b] /\ Lies(u, b, 0)
        /\ v \in Seq(Unit) /\ Len(v) = BufLen[c] /\ Lies(v, c, 0)
    BY <2>1, UnitsType
  <2> HIDE DEF u, v
  <2>3. /\ u \o v \in Seq(Unit) /\ Len(u \o v) = BufLen[b] + BufLen[c]
        /\ Lies(u \o v, b, 0)
    BY <2>1, <2>2, LiesInConcat
  <2>4. Lies(u \o v, c, BufLen[b] + 0)
    BY <2>1, <2>2, LiesInConcat
  <2>5. BufLen[b] + 0 = 0 + BufLen[b] /\ Len(u \o v) = 0 + BufLen[b] + BufLen[c]
    BY <2>1, <2>3
  <2> QED BY <1>3, <2>1, <2>3, <2>4, <2>5 DEF Follow
<1> QED BY <1>1, <1>2, <1>3, BatchType

LEMMA FollowInConcat ==
    ASSUME NEW u \in Seq(Unit), NEW v \in Seq(Unit), NEW ds, Batch(ds), NEW n \in Nat
    PROVE  /\ Follow(u, ds, 0, n) => Follow(u \o v, ds, 0, n)
           /\ Follow(v, ds, 0, n) => Follow(u \o v, ds, Len(u), Len(u) + n)
<1>1. Len(u) \in Nat
  BY LenProperties
<1>2. CASE Len(ds) = 0
  BY <1>1, <1>2 DEF Follow
<1>3. CASE Len(ds) = 1
  <2> DEFINE b == ds[1]
  <2>1. b \in Buffers /\ BufLen[b] \in Nat
    <3>1. 1 \in 1..Len(ds)
      BY <1>3
    <3> QED BY <3>1, BatchType
  <2>2. /\ Lies(u, b, 0) => Lies(u \o v, b, 0)
        /\ Lies(v, b, 0) => Lies(u \o v, b, Len(u) + 0)
    BY <2>1, LiesInConcat
  <2>3. Len(u) + 0 = Len(u) /\ Len(u) + (0 + BufLen[b]) = Len(u) + BufLen[b]
    BY <1>1, <2>1
  <2> QED BY <1>3, <2>2, <2>3 DEF Follow
<1>4. CASE Len(ds) = 2
  <2> DEFINE b == ds[1]
             c == ds[2]
             o == 0 + BufLen[b]
  <2>1. b \in Buffers /\ BufLen[b] \in Nat /\ c \in Buffers /\ BufLen[c] \in Nat
    BY <1>4, BatchType
  <2>2. o \in Nat
    BY <2>1
  <2>3. /\ Lies(u, b, 0) => Lies(u \o v, b, 0)
        /\ Lies(v, b, 0) => Lies(u \o v, b, Len(u) + 0)
        /\ Lies(u, c, o) => Lies(u \o v, c, o)
        /\ Lies(v, c, o) => Lies(u \o v, c, Len(u) + o)
    <3> HIDE DEF o
    <3> QED BY <2>1, <2>2, LiesInConcat
  <2>4. /\ Len(u) + 0 = Len(u) /\ Len(u) + o = Len(u) + BufLen[b]
        /\ Len(u) + (0 + BufLen[b] + BufLen[c]) = Len(u) + BufLen[b] + BufLen[c]
    BY <1>1, <2>1
  <2> QED BY <1>4, <2>3, <2>4 DEF Follow
<1> QED BY <1>2, <1>3, <1>4, BatchType

\* Answer n + 1 follows the first n in the stream.
LEMMA AnswersFollow ==
    ASSUME NEW p \in DOMAIN Asked, NEW n \in Nat, n < Len(Replies[p])
    PROVE  /\ Stream(p) \in Seq(Unit)
           /\ Upto(p, n) \in Nat /\ Upto(p, n + 1) \in Nat
           /\ Upto(p, n + 1) <= Len(Stream(p))
           /\ Follow(Stream(p), Replies[p][n + 1], Upto(p, n), Upto(p, n + 1))
<1> DEFINE N == Len(Replies[p])
           ds == Replies[p][1]
           es == Replies[p][2]
           u == AllOf(ds)
           v == AllOf(es)
<1>1. N \in {1, 2} /\ \A k \in 1..N : Batch(Replies[p][k])
  BY RepliesType
<1>2. CASE N = 1
  <2>1. Batch(ds) /\ n = 0 /\ Stream(p) = u
    BY <1>1, <1>2 DEF Stream
  <2>2. u \in Seq(Unit) /\ Follow(u, ds, 0, Len(u)) /\ Len(u) \in Nat
    BY <2>1, AllOfFollow, LenProperties
  <2>3. Upto(p, 0) = 0 /\ Upto(p, 1) = Len(u) /\ 0 + 1 = 1
    BY DEF Upto
  <2> HIDE DEF ds, u
  <2>4. Replies[p][1] = ds
    BY DEF ds
  <2> QED BY <2>1, <2>2, <2>3, <2>4
<1>3. CASE N = 2
  <2>1. Batch(ds) /\ Batch(es) /\ n \in {0, 1} /\ Stream(p) = u \o v
    BY <1>1, <1>3 DEF Stream
  <2>2. /\ u \in Seq(Unit) /\ Follow(u, ds, 0, Len(u)) /\ Len(u) \in Nat
        /\ v \in Seq(Unit) /\ Follow(v, es, 0, Len(v)) /\ Len(v) \in Nat
    BY <2>1, AllOfFollow, LenProperties
  <2>3. /\ Upto(p, 0) = 0 /\ Upto(p, 1) = Len(u) /\ Upto(p, 2) = Len(Stream(p))
        /\ 0 + 1 = 1 /\ 1 + 1 = 2
    BY DEF Upto
  <2>4. Replies[p][1] = ds /\ Replies[p][2] = es
    OBVIOUS
  <2> HIDE DEF ds, es, u, v
  <2>5. u \o v \in Seq(Unit) /\ Len(u \o v) = Len(u) + Len(v)
    BY <2>2, ConcatProperties
  <2>6. Follow(u \o v, ds, 0, Len(u)) /\ Follow(u \o v, es, Len(u), Len(u) + Len(v))
    BY <2>1, <2>2, FollowInConcat
  <2>7. CASE n = 0
    BY <2>1, <2>2, <2>3, <2>4, <2>5, <2>6, <2>7
  <2>8. CASE n = 1
    BY <2>1, <2>2, <2>3, <2>4, <2>5, <2>6, <2>8
  <2> QED BY <2>1, <2>7, <2>8
<1> QED BY <1>1, <1>2, <1>3

LEMMA StreamType ==
    ASSUME NEW p \in DOMAIN Asked
    PROVE  /\ Stream(p) \in Seq(Unit) /\ Len(Stream(p)) \in Nat
           /\ Len(Stream(p)) < SeqSpace
<1> DEFINE N == Len(Replies[p])
<1>1. N \in {1, 2}
  BY RepliesType
<1>2. 0 < N
  <2> HIDE DEF N
  <2> QED BY <1>1
<1>3. Stream(p) \in Seq(Unit)
  BY <1>2, AnswersFollow
<1> QED BY <1>3, LenProperties, LengthAssumption

----------------------------------------------------------------------------
\* The send queue and the segments sent.

LEMMA ControlDown ==
    ASSUME NEW c, Live(c), NEW p
    PROVE  /\ Ack(c) \in Downlink(p, c.remote) /\ FinAck(c) \in Downlink(p, c.remote)
           /\ c.nextOut = InitSeq => SynAck(c) \in Downlink(p, c.remote)
<1>1. Ack(c) \in Segment /\ SynAck(c) \in Segment /\ FinAck(c) \in Segment
  BY AckType
<1>2. {"ACK"} # {"SYN", "ACK"} /\ {"FIN", "ACK"} # {"SYN", "ACK"}
  OBVIOUS
<1>3. /\ Ack(c).remote = c.remote /\ Ack(c).len = 0 /\ Ack(c).flags = {"ACK"}
      /\ FinAck(c).remote = c.remote /\ FinAck(c).len = 0
      /\ FinAck(c).flags = {"FIN", "ACK"}
      /\ SynAck(c).remote = c.remote /\ SynAck(c).len = 0 /\ SynAck(c).seq = c.nextOut
  BY DEF Ack, FinAck, SynAck, Header
<1> QED BY <1>1, <1>2, <1>3 DEF Downlink

\* A chunk of a buffer that lies where its number says.
LEMMA ChunkDown ==
    ASSUME NEW p \in DOMAIN Asked, NEW c, Live(c), NEW b \in TcpBuf,
           NEW o, Placed(p, b.data, o), b.seq = Num(o),
           NEW x \in Nat, x <= BufLen[b.data]
    PROVE  Chunk(c, b, x) \in Downlink(p, c.remote)
<1> DEFINE s == Chunk(c, b, x)
           L == BufLen[b.data]
           left == L - x
           len == IF left < MAXSEGSIZE THEN left ELSE MAXSEGSIZE
<1>1. s \in Segment
  BY ChunkType
<1>2. b.data \in Buffers /\ L \in Nat
  BY BufferAssumption DEF TcpBuf
<1>3. /\ s.remote = c.remote /\ s.flags = {"ACK"} /\ s.seq = (b.seq + x) % SeqSpace
      /\ s.len = len /\ s.data = b.data /\ s.ofs = x
  BY DEF Chunk, DataSegment, Header
<1>4. /\ o \in Nat /\ o + L <= Len(Stream(p)) /\ Len(Stream(p)) < SeqSpace
      /\ \A k \in 0..(L - 1) : Stream(p)[o + 1 + k] = <<b.data, k>>
  BY LengthAssumption DEF Placed, Lies
<1>5. len \in Nat /\ len <= left
  BY <1>2, SizeAssumption
<1> HIDE DEF s, L, len
<1>6. Stream(p) \in Seq(Unit) /\ Len(Stream(p)) \in Nat
  BY StreamType
<1>7. s.seq = Num(o + x)
  <2>1. o + x < SeqSpace
    BY <1>2, <1>4, <1>6, SeqAssumption DEF L
  <2> QED BY <1>3, <1>4, <2>1, NumAdd
<1>8. ASSUME NEW k \in 0..(s.len - 1)
      PROVE  Stream(p)[(o + x) + 1 + k] = <<s.data, s.ofs + k>>
  <2>1. s.len = len /\ len \in Nat /\ len <= L - x
    BY <1>3, <1>5 DEF left
  <2>2. k \in Nat /\ k < L - x
    BY <1>2, <2>1
  <2>3. x + k \in 0..(L - 1) /\ o + 1 + (x + k) = (o + x) + 1 + k
    BY <1>2, <1>4, <2>2
  <2> QED BY <1>3, <1>4, <2>3
<1>9. o + x \in Nat /\ (o + x) + s.len <= Len(Stream(p))
  BY <1>2, <1>3, <1>4, <1>5, <1>6
<1>10. Carries(s, p)
  BY <1>7, <1>8, <1>9 DEF Carries
<1>11. s.flags # {"SYN", "ACK"}
  BY <1>3
<1> QED BY <1>1, <1>3, <1>10, <1>11 DEF Downlink, s

LEMMA ChunksDown ==
    ASSUME NEW p \in DOMAIN Asked, NEW c, Live(c), NEW b \in TcpBuf,
           NEW o, Placed(p, b.data, o), b.seq = Num(o)
    PROVE  Chunks(c, b) \in Seq(Downlink(p, c.remote))
<1> DEFINE L == BufLen[b.data]
           n == (L + MAXSEGSIZE - 1) \div MAXSEGSIZE
           D == Downlink(p, c.remote)
<1>1. L \in Nat
  BY BufferAssumption DEF TcpBuf
<1>2. ASSUME NEW k \in 1..n PROVE Chunk(c, b, (k - 1) * MAXSEGSIZE) \in D
  <2>1. (k - 1) * MAXSEGSIZE \in Nat /\ (k - 1) * MAXSEGSIZE < L
    BY <1>1, SizeAssumption, ChunkOffset
  <2>2. (k - 1) * MAXSEGSIZE <= L
    BY <1>1, <2>1
  <2> QED BY <2>1, <2>2, ChunkDown
<1>3. n \in Nat
  BY <1>1, SizeAssumption
<1>4. Chunks(c, b) = [k \in 1..n |-> Chunk(c, b, (k - 1) * MAXSEGSIZE)]
  BY DEF Chunks
<1> HIDE DEF n, D
<1>5. Chunks(c, b) \in [1..n -> D]
  BY <1>2, <1>4
<1> QED BY <1>3, <1>5 DEF D

\* An acknowledgement leaves the numbers of the queue as they were.
LEMMA AckRight ==
    ASSUME NEW c, Live(c), NEW p, QueueRight(c.sendbuf, p), NEW s \in Segment
    PROVE  QueueRight(Acknowledged(c, s).sendbuf, p)
<1> DEFINE q == Acknowledged(c, s).sendbuf
           r == c.sendbuf
<1>1. PICK d \in 0..Len(r) : HeadDropped(q, r, d)
  BY AcknowledgedLive
<1>2. Len(r) \in Nat
  BY LenProperties DEF Live, TcpConn
<1> HIDE DEF q, r
<1>3. ASSUME NEW k \in 1..Len(q)
      PROVE  \E o \in Nat : Placed(p, q[k].data, o) /\ q[k].seq = Num(o)
  <2>1. k \in 1..(Len(r) - d) /\ k + d \in 1..Len(r)
    BY <1>1, <1>2 DEF HeadDropped
  <2>2. q[k].data = r[k + d].data /\ q[k].seq = r[k + d].seq
    BY <1>1, <2>1 DEF HeadDropped
  <2> QED BY <2>1, <2>2 DEF QueueRight, r
<1> QED BY <1>3 DEF QueueRight, q

LEMMA SendRight ==
    ASSUME NEW p \in DOMAIN Asked, NEW c, Live(c), QueueRight(c.sendbuf, p),
           NEW d \in Buffers, NEW o, Placed(p, d, o), c.nextOut = Num(o)
    PROVE  /\ QueueRight(Sent(c, d).sendbuf, p)
           /\ Sent(c, d).nextOut = Num(o + BufLen[d])
           /\ Chunks(c, NewBuf(c, d)) \in Seq(Downlink(p, c.remote))
<1> DEFINE e == Sent(c, d)
           b == NewBuf(c, d)
<1>1. /\ b \in TcpBuf /\ Len(e.sendbuf) = Len(c.sendbuf) + 1
      /\ \A k \in 1..Len(c.sendbuf) : e.sendbuf[k] = c.sendbuf[k]
      /\ e.sendbuf[Len(c.sendbuf) + 1] = b
      /\ e.nextOut = (c.nextOut + BufLen[d]) % SeqSpace
  BY SentLive
<1>2. b.data = d /\ b.seq = Num(o) /\ o \in Nat
  BY DEF NewBuf, Placed, Lies
<1>3. Len(c.sendbuf) \in Nat
  BY LenProperties DEF Live, TcpConn
<1> HIDE DEF e, b
<1>4. QueueRight(e.sendbuf, p)
  <2> SUFFICES ASSUME NEW k \in 1..Len(e.sendbuf)
               PROVE  \E x \in Nat : /\ Placed(p, e.sendbuf[k].data, x)
                                     /\ e.sendbuf[k].seq = Num(x)
    BY DEF QueueRight
  <2>1. CASE k = Len(c.sendbuf) + 1
    BY <1>1, <1>2, <2>1
  <2>2. CASE k # Len(c.sendbuf) + 1
    <3>1. k \in 1..Len(c.sendbuf) /\ e.sendbuf[k] = c.sendbuf[k]
      BY <1>1, <1>3, <2>2
    <3> QED BY <3>1 DEF QueueRight
  <2> QED BY <2>1, <2>2
<1>5. e.nextOut = Num(o + BufLen[d])
  <2>1. BufLen[d] \in Nat /\ o + BufLen[d] <= Len(Stream(p)) /\ Len(Stream(p)) < SeqSpace
    BY BufferAssumption, LengthAssumption DEF Placed, Lies
  <2>2. Len(Stream(p)) \in Nat
    BY StreamType
  <2>3. o + BufLen[d] < SeqSpace
    BY <1>2, <2>1, <2>2, SeqAssumption
  <2> QED BY <1>1, <1>2, <2>1, <2>3, NumAdd
<1>6. Chunks(c, b) \in Seq(Downlink(p, c.remote))
  BY <1>1, <1>2, ChunksDown
<1> QED BY <1>4, <1>5, <1>6 DEF e, b

LEMMA SendAllRight ==
    ASSUME NEW p \in DOMAIN Asked, NEW c, Live(c), QueueRight(c.sendbuf, p),
           NEW ds, Batch(ds), NEW o \in Nat, NEW n \in Nat,
           Follow(Stream(p), ds, o, n), c.nextOut = Num(o)
    PROVE  /\ QueueRight(SendAll(c, ds).sendbuf, p)
           /\ SendAll(c, ds).nextOut = Num(n)
           /\ SentChunks(c, ds) \in Seq(Downlink(p, c.remote))
<1>1. CASE Len(ds) = 0
  <2>1. SendAll(c, ds) = c /\ SentChunks(c, ds) = <<>> /\ n = o
    BY <1>1 DEF SendAll, SentChunks, Follow
  <2> QED BY <2>1
<1>2. CASE Len(ds) = 1
  <2>1. /\ SendAll(c, ds) = Sent(c, ds[1])
        /\ SentChunks(c, ds) = Chunks(c, NewBuf(c, ds[1]))
        /\ Placed(p, ds[1], o) /\ n = o + BufLen[ds[1]]
    BY <1>2 DEF SendAll, SentChunks, Follow, Placed
  <2>2. ds[1] \in Buffers
    <3>1. 1 \in 1..Len(ds)
      BY <1>2
    <3> QED BY <3>1, BatchType
  <2> QED BY <2>1, <2>2, SendRight
<1>3. CASE Len(ds) = 2
  <2> DEFINE b == ds[1]
             d == ds[2]
             e == Sent(c, b)
             m == o + BufLen[b]
             f == Sent(e, d)
             D == Downlink(p, c.remote)
  <2>1. /\ SendAll(c, ds) = f
        /\ SentChunks(c, ds) = Chunks(c, NewBuf(c, b)) \o Chunks(c, NewBuf(e, d))
    BY <1>3 DEF SendAll, SentChunks
  <2>2. b \in Buffers /\ d \in Buffers
    <3>1. 1 \in 1..Len(ds) /\ 2 \in 1..Len(ds)
      BY <1>3
    <3> QED BY <3>1, BatchType
  <2>3. Placed(p, b, o) /\ Placed(p, d, m) /\ n = m + BufLen[d]
    BY <1>3 DEF Follow, Placed
  <2> HIDE DEF b, d, m
  <2>4. /\ QueueRight(e.sendbuf, p) /\ e.nextOut = Num(m)
        /\ Chunks(c, NewBuf(c, b)) \in Seq(D)
    BY <2>2, <2>3, SendRight DEF m
  <2>5. Live(e)
    BY <2>2, SentLive
  <2> HIDE DEF e
  <2>6. QueueRight(f.sendbuf, p) /\ f.nextOut = Num(n)
    BY <2>2, <2>3, <2>4, <2>5, SendRight
  <2>7. Chunks(c, NewBuf(e, d)) \in Seq(D)
    <3>1. NewBuf(e, d) \in TcpBuf
      BY <2>2, <2>5, SentLive
    <3>2. NewBuf(e, d).data = d /\ NewBuf(e, d).seq = Num(m)
      BY <2>4 DEF NewBuf
    <3> QED BY <2>3, <3>1, <3>2, ChunksDown
  <2> HIDE DEF f, D
  <2>8. SentChunks(c, ds) \in Seq(D)
    BY <2>1, <2>4, <2>7, ConcatProperties
  <2> QED BY <2>1, <2>6, <2>8 DEF D
<1> QED BY <1>1, <1>2, <1>3, BatchType

----------------------------------------------------------------------------
\* The rows of the table.

LEMMA PlanType ==
    ASSUME NetInv, NEW r \in Remotes
    PROVE  client[r].plan \in DOMAIN Asked
BY DEF NetInv, Client

\* A row that a segment of client r is for.
LEMMA TargetRight ==
    ASSUME NetInv, NEW r \in Remotes, NEW s \in Uplink(client[r].plan, r),
           NEW i \in Slots, Target(i, s)
    PROVE  /\ s \in Segment /\ Live(tcp_conns[i]) /\ tcp_conns[i].remote = r
           /\ i \in opened /\ InOrder(heard[i]) /\ Len(heard[i]) \in Nat
           /\ Converses(tcp_conns[i], client[r].plan, Len(heard[i]))
<1>1. s \in Segment /\ s.remote = r
  BY DEF Uplink
<1>2. Connected(tcp_conns[i]) /\ tcp_conns[i].remote = r
  <2>1. Connected(tcp_conns[i])
    BY <1>1, TargetConnected DEF NetInv
  <2> QED BY <1>1, <2>1 DEF Target, IsFirst, Connections
<1>3. Live(tcp_conns[i]) /\ Open(i)
  BY <1>2 DEF Connected, Open
<1>4. RowRight(i)
  BY DEF NetInv
<1>5. Len(heard[i]) \in Nat
  BY <1>4, LenProperties DEF RowRight, InOrder
<1> QED BY <1>1, <1>2, <1>3, <1>4, <1>5 DEF RowRight

LEMMA ControlHeard ==
    ASSUME NetInv, Heard(0, <<>>)
    PROVE  /\ heard' \in [Slots -> Seq(Nat)]
           /\ \A j \in Slots : heard'[j] = IF j \in opened' THEN heard[j] ELSE <<>>
<1>1. \A j \in Slots : heard[j] \in Seq(Nat)
  BY DEF NetInv
<1>2. \A j \in Slots : heard[j] \o <<>> = heard[j]
  BY <1>1, ConcatEmptySeq
<1>3. ASSUME NEW j \in Slots
      PROVE  heard'[j] = IF j \in opened' THEN heard[j] ELSE <<>>
  BY <1>2 DEF Heard
<1>4. heard' = [j \in Slots |-> heard'[j]]
  BY DEF Heard
<1>5. <<>> \in Seq(Nat)
  OBVIOUS
<1>6. \A j \in Slots : heard'[j] \in Seq(Nat)
  BY <1>1, <1>3, <1>5
<1> QED BY <1>3, <1>4, <1>6

LEMMA RowConverses ==
    ASSUME NetInv, NEW i \in Slots, NEW c, tcp_conns'[i] = c,
           i \in opened', NEW h, heard'[i] = h, InOrder(h), client' = client,
           Converses(c, client[c.remote].plan, Len(h))
    PROVE  RowRight(i)'
<1>1. Open(i)'
  BY DEF Open, Converses
<1> QED BY <1>1 DEF RowRight

LEMMA RowIdle ==
    ASSUME NEW i \in Slots, tcp_conns'[i].state \in {"CLOSED", "LISTENING"},
           i \notin opened', heard'[i] = <<>>
    PROVE  RowRight(i)'
<1>1. ~Open(i)'
  BY DEF Open
<1>2. InOrder(<<>>)
  BY DEF InOrder
<1> QED BY <1>1, <1>2 DEF RowRight

LEMMA OtherRows ==
    ASSUME NetInv, client' = client, NEW i \in Slots, RowRight(i)',
           \A j \in Slots \ {i} : /\ tcp_conns'[j] = tcp_conns[j]
                                  /\ j \in opened' <=> j \in opened
                                  /\ heard'[j] = IF j \in opened' THEN heard[j] ELSE <<>>
    PROVE  \A j \in Slots : RowRight(j)'
<1> SUFFICES ASSUME NEW j \in Slots, j # i PROVE RowRight(j)'
  OBVIOUS
<1>1. RowRight(j)
  BY DEF NetInv
<1>2. tcp_conns'[j] = tcp_conns[j] /\ (j \in opened' <=> j \in opened)
  OBVIOUS
<1>3. heard'[j] = heard[j]
  BY <1>1, <1>2 DEF RowRight
<1>4. Open(j)' <=> Open(j)
  BY <1>2 DEF Open
<1> QED BY <1>1, <1>2, <1>3, <1>4 DEF RowRight

\* What a step of the router sends, row by row.
OutRight ==
    \A j \in Slots : \/ out'[j] = <<>>
                     \/ \E r \in Remotes : out'[j] \in Seq(Downlink(client[r].plan, r))

LEMMA OutSilent == ASSUME out' = Silent PROVE OutRight
BY DEF OutRight, Silent

LEMMA OutEmit ==
    ASSUME NEW i \in Slots, NEW r \in Remotes, NEW ss \in Seq(Downlink(client[r].plan, r)),
           out' = Emit(i, ss)
    PROVE  OutRight
BY DEF OutRight, Emit

LEMMA KillRows ==
    ASSUME NetInv, NEW i \in Slots, Kill(i), Heard(0, <<>>), client' = client
    PROVE  \A j \in Slots : RowRight(j)'
<1>1. /\ tcp_conns'[i] = ClosedConn /\ i \notin opened'
      /\ \A j \in Slots \ {i} : /\ tcp_conns'[j] = tcp_conns[j]
                                /\ j \in opened' <=> j \in opened
  BY DEF Kill, NetInv, TypeInv, Table
<1>2. \A j \in Slots : heard'[j] = IF j \in opened' THEN heard[j] ELSE <<>>
  BY ControlHeard
<1>3. RowRight(i)'
  BY <1>1, <1>2, RowIdle DEF ClosedConn
<1> QED BY <1>1, <1>2, <1>3, OtherRows

\* A row that goes on with what it has heard.
LEMMA ContinuedRows ==
    ASSUME NetInv, NEW i \in Slots, i \in opened, InOrder(heard[i]), NEW c,
           tcp_conns' = [tcp_conns EXCEPT ![i] = c], opened' = opened,
           Heard(0, <<>>), client' = client,
           Converses(c, client[c.remote].plan, Len(heard[i]))
    PROVE  \A j \in Slots : RowRight(j)'
<1>1. /\ tcp_conns'[i] = c
      /\ \A j \in Slots \ {i} : tcp_conns'[j] = tcp_conns[j]
  BY DEF NetInv, TypeInv, Table
<1>2. \A j \in Slots : heard'[j] = IF j \in opened' THEN heard[j] ELSE <<>>
  BY ControlHeard
<1>3. RowRight(i)'
  BY <1>1, <1>2, RowConverses
<1> QED BY <1>1, <1>2, <1>3, OtherRows

LEMMA ListenRows ==
    ASSUME NetInv, NEW p \in Ports, TcpNewListenSock(p), heard' = heard, client' = client
    PROVE  \A j \in Slots : RowRight(j)'
<1>1. PICK i \in Slots :
        /\ i \in Free
        /\ tcp_conns' = [tcp_conns EXCEPT ![i] =
                            [ClosedConn EXCEPT !.state = "LISTENING", !.port = p]]
  BY DEF TcpNewListenSock, IsLast
<1>2. [ClosedConn EXCEPT !.state = "LISTENING", !.port = p].state = "LISTENING"
  BY DEF ClosedConn
<1>3. /\ tcp_conns'[i].state = "LISTENING"
      /\ \A j \in Slots \ {i} : tcp_conns'[j] = tcp_conns[j]
  BY <1>1, <1>2 DEF NetInv, TypeInv, Table
<1>4. i \notin opened /\ heard[i] = <<>>
  BY <1>1 DEF NetInv, RowRight, Open, Free
<1>5. opened' = opened
  BY DEF TcpNewListenSock
<1>6. RowRight(i)'
  BY <1>3, <1>4, <1>5, RowIdle
<1>7. \A j \in Slots : heard[j] = IF j \in opened THEN heard[j] ELSE <<>>
  BY DEF NetInv, RowRight
<1> QED BY <1>3, <1>5, <1>6, <1>7, OtherRows

LEMMA SynRows ==
    ASSUME NetInv, NEW r \in Remotes, NEW s \in Uplink(client[r].plan, r),
           HandleListenPort(s), Heard(0, <<>>), client' = client
    PROVE  OutRight /\ \A j \in Slots : RowRight(j)'
<1> DEFINE c == [ClosedConn EXCEPT !.state = "SYN", !.remote = s.remote,
                    !.port = s.port, !.incoming = (s.seq + 1) % SeqSpace,
                    !.nextOut = InitSeq]
           e == CommitSequenceRange(c, 1)
           p == client[r].plan
<1>1. PICK i \in Slots :
        /\ i \in Free
        /\ tcp_conns' = [tcp_conns EXCEPT ![i] = e]
        /\ out' = Emit(i, <<SynAck(c)>>)
        /\ opened' = opened \cup {i}
  BY DEF HandleListenPort, IsFirst
<1>2. s \in Segment /\ s.remote = r /\ s.seq = 0
  BY DEF HandleListenPort, Uplink
<1>3. p \in DOMAIN Asked /\ Len(Replies[p]) \in {1, 2} /\ Len(Replies[p]) + 2 < SeqSpace
  BY PlanType, RepliesType, LengthAssumption
<1>4. 1 % SeqSpace = 1 /\ Num(0) = (InitSeq + 1) % SeqSpace /\ 0 <= Len(Replies[p])
  <2>1. 1 \in 0..(SeqSpace + SeqSpace - 1) /\ 1 < SeqSpace /\ 0 <= Len(Replies[p])
    <3> DEFINE N == Len(Replies[p])
    <3> HIDE DEF N
    <3>1. N \in {1, 2} /\ N + 2 < SeqSpace
      BY <1>3 DEF N
    <3>2. 1 \in 0..(SeqSpace + SeqSpace - 1) /\ 1 < SeqSpace /\ 0 <= N
      BY <3>1, SeqAssumption
    <3> QED BY <3>2 DEF N
  <2>2. 1 % SeqSpace = 1
    BY <2>1, SeqAssumption, ModOnce
  <2>3. InitSeq + 1 + 0 = InitSeq + 1
    BY SeqAssumption
  <2> QED BY <2>1, <2>2, <2>3 DEF Num
<1>5. /\ Live(c) /\ c.remote = r /\ c.nextOut = InitSeq
  <2>1. (s.seq + 1) % SeqSpace \in SeqNo
    BY <1>2, ModType DEF Segment
  <2>2. c \in TcpConn /\ c.sendbuf = <<>> /\ c.nextOut = InitSeq
    BY <1>2, <2>1, ClosedConnType, SeqAssumption DEF ClosedConn, TcpConn, State, Segment
  <2>3. c.remote = s.remote /\ c.port = s.port /\ s.port \in Ports
    BY <1>2 DEF ClosedConn, Segment
  <2> HIDE DEF c
  <2> QED BY <1>2, <2>2, <2>3 DEF Live, OffsetsInBuffer
<1>6. /\ e.state = "SYN" /\ e.remote = r /\ e.sendbuf = <<>>
      /\ e.incoming = 0 + 1 /\ e.nextOut = Num(0)
  BY <1>2, <1>4 DEF ClosedConn, CommitSequenceRange
<1>7. SynAck(c) \in Downlink(p, r)
  BY <1>5, ControlDown
<1> HIDE DEF e, c
<1>8. OutRight
  <2>1. <<SynAck(c)>> \in Seq(Downlink(p, r))
    BY <1>7
  <2> QED BY <1>1, <2>1, OutEmit
<1>9. Converses(e, p, 0)
  BY <1>4, <1>6 DEF Converses, QueueRight, Upto
<1>10. heard[i] = <<>> /\ i \in opened'
  BY <1>1 DEF NetInv, RowRight, Open, Free
<1>11. /\ tcp_conns'[i] = e
       /\ \A j \in Slots \ {i} : /\ tcp_conns'[j] = tcp_conns[j]
                                 /\ j \in opened' <=> j \in opened
  BY <1>1 DEF NetInv, TypeInv, Table
<1>12. \A j \in Slots : heard'[j] = IF j \in opened' THEN heard[j] ELSE <<>>
  BY ControlHeard
<1>13. RowRight(i)'
  <2>1. heard'[i] = <<>> /\ InOrder(<<>>) /\ Len(<<>>) = 0
    BY <1>10, <1>12 DEF InOrder
  <2> QED BY <1>6, <1>9, <1>10, <1>11, <2>1, RowConverses
<1> QED BY <1>8, <1>11, <1>12, <1>13, OtherRows

LEMMA EstablishRows ==
    ASSUME NetInv, NEW r \in Remotes, NEW s \in Uplink(client[r].plan, r),
           NEW i \in Slots, EstablishConnection(i, s), Heard(0, <<>>), client' = client
    PROVE  OutRight /\ \A j \in Slots : RowRight(j)'
<1> DEFINE c == tcp_conns[i]
           e == [c EXCEPT !.state = "ESTABLISHED"]
<1>1. /\ Target(i, s) /\ c.state = "SYN" /\ out' = Silent /\ opened' = opened
      /\ tcp_conns' = [tcp_conns EXCEPT ![i] = e]
  BY DEF EstablishConnection
<1>2. /\ Live(c) /\ c.remote = r /\ i \in opened /\ InOrder(heard[i])
      /\ Converses(c, client[r].plan, Len(heard[i]))
  BY <1>1, TargetRight
<1> HIDE DEF c
<1>3. /\ e.state = "ESTABLISHED" /\ e.remote = c.remote /\ e.sendbuf = c.sendbuf
      /\ e.incoming = c.incoming /\ e.nextOut = c.nextOut
  BY <1>2 DEF Live, TcpConn
<1> HIDE DEF e
<1>4. Converses(e, client[r].plan, Len(heard[i]))
  BY <1>1, <1>2, <1>3 DEF Converses
<1> QED BY <1>1, <1>2, <1>3, <1>4, ContinuedRows, OutSilent

LEMMA AckRows ==
    ASSUME NetInv, NEW r \in Remotes, NEW s \in Uplink(client[r].plan, r),
           NEW i \in Slots, HandleAck(i, s), Heard(0, <<>>), client' = client
    PROVE  OutRight /\ \A j \in Slots : RowRight(j)'
<1> DEFINE c == tcp_conns[i]
           e == Acknowledged(c, s)
<1>1. /\ Target(i, s) /\ out' = Silent /\ opened' = opened
      /\ tcp_conns' = [tcp_conns EXCEPT ![i] = e]
  BY DEF HandleAck, PassesAckStep
<1>2. /\ Live(c) /\ c.remote = r /\ i \in opened /\ InOrder(heard[i]) /\ s \in Segment
      /\ Converses(c, client[r].plan, Len(heard[i]))
  BY <1>1, TargetRight
<1>3. /\ e.state = c.state /\ e.remote = c.remote
      /\ e.incoming = c.incoming /\ e.nextOut = c.nextOut
      /\ QueueRight(e.sendbuf, client[r].plan)
  BY <1>2, AcknowledgedLive, AckRight DEF SameEnds, Converses
<1> HIDE DEF c, e
<1>4. Converses(e, client[r].plan, Len(heard[i]))
  BY <1>2, <1>3 DEF Converses
<1> QED BY <1>1, <1>2, <1>3, <1>4, ContinuedRows, OutSilent

LEMMA FinRows ==
    ASSUME NetInv, NEW r \in Remotes, NEW s \in Uplink(client[r].plan, r),
           NEW i \in Slots, HandleFin(i, s), Heard(0, <<>>), client' = client
    PROVE  OutRight /\ \A j \in Slots : RowRight(j)'
<1> DEFINE a == Acknowledged(tcp_conns[i], s)
           n == (a.incoming + 1) % SeqSpace
           c == [a EXCEPT !.incoming = n]
           m == CommitSequenceRange(c, 1)
           e == [m EXCEPT !.state = "LAST_ACK"]
           p == client[r].plan
<1>1. Target(i, s) /\ IF c.state = "ESTABLISHED"
                      THEN /\ tcp_conns' = [tcp_conns EXCEPT ![i] = e]
                           /\ out' = Emit(i, <<Ack(c), FinAck(c)>>)
                           /\ opened' = opened
                      ELSE Kill(i) /\ out' = Emit(i, <<Ack(c)>>)
  BY DEF HandleFin, PassesAckStep, FinSent
<1>2. /\ Live(tcp_conns[i]) /\ tcp_conns[i].remote = r /\ i \in opened
      /\ InOrder(heard[i]) /\ s \in Segment
      /\ Converses(tcp_conns[i], p, Len(heard[i]))
  BY <1>1, TargetRight
<1>3. /\ Live(a) /\ a.remote = r /\ QueueRight(a.sendbuf, p)
  BY <1>2, AcknowledgedLive, AckRight DEF SameEnds, Converses
<1> HIDE DEF a
<1>4. n \in SeqNo
  <2>1. a.incoming + 1 \in Int
    BY <1>3, SeqAssumption DEF Live, TcpConn
  <2> QED BY <2>1, ModType
<1> HIDE DEF n
<1>5. Live(c) /\ c.remote = r /\ c.sendbuf = a.sendbuf
  BY <1>3, <1>4 DEF Live, TcpConn
<1> HIDE DEF c
<1>6. Ack(c) \in Downlink(p, r) /\ FinAck(c) \in Downlink(p, r)
  BY <1>5, ControlDown
<1>7. CASE c.state = "ESTABLISHED"
  <2>1. Live(m) /\ m.sendbuf = c.sendbuf /\ m.remote = c.remote
    BY <1>5, CommitLive DEF SameEnds
  <2> HIDE DEF m
  <2>2. e.state = "LAST_ACK" /\ e.remote = m.remote /\ e.sendbuf = m.sendbuf
    BY <2>1 DEF Live, TcpConn
  <2> HIDE DEF e
  <2>3. Converses(e, p, Len(heard[i]))
    BY <1>2, <1>3, <1>5, <2>1, <2>2 DEF Converses
  <2>4. \A j \in Slots : RowRight(j)'
    BY <1>1, <1>2, <1>5, <1>7, <2>1, <2>2, <2>3, ContinuedRows
  <2>5. <<Ack(c), FinAck(c)>> \in Seq(Downlink(p, r))
    BY <1>6
  <2> QED BY <1>1, <1>7, <2>4, <2>5, OutEmit
<1>8. CASE c.state # "ESTABLISHED"
  <2>1. <<Ack(c)>> \in Seq(Downlink(p, r))
    BY <1>6
  <2> QED BY <1>1, <1>8, <2>1, KillRows, OutEmit
<1> QED BY <1>7, <1>8

LEMMA SendAllIncoming ==
    ASSUME NEW c, Live(c), NEW ds, Batch(ds)
    PROVE  SendAll(c, ds).incoming = c.incoming
<1>1. ASSUME NEW e, Live(e), NEW d \in Buffers
      PROVE  Sent(e, d).incoming = e.incoming
  BY <1>1 DEF Sent, CommitSequenceRange, Live, TcpConn
<1>2. CASE Len(ds) = 0
  BY <1>2 DEF SendAll
<1>3. CASE Len(ds) = 1
  <2>1. 1 \in 1..Len(ds)
    BY <1>3
  <2>2. ds[1] \in Buffers
    BY <2>1, BatchType
  <2> QED BY <1>1, <1>3, <2>2 DEF SendAll
<1>4. CASE Len(ds) = 2
  <2>1. 1 \in 1..Len(ds) /\ 2 \in 1..Len(ds)
    BY <1>4
  <2>2. ds[1] \in Buffers /\ ds[2] \in Buffers
    BY <2>1, BatchType
  <2>3. SendAll(c, ds) = Sent(Sent(c, ds[1]), ds[2])
    BY <1>4 DEF SendAll
  <2>4. Live(Sent(c, ds[1]))
    BY <2>2, SentLive
  <2> QED BY <1>1, <2>2, <2>3, <2>4
<1> QED BY <1>2, <1>3, <1>4, BatchType

\* The next unit of a request, and its answer.
LEMMA DataAnswer ==
    ASSUME NetInv, NEW r \in Remotes, NEW s \in Uplink(client[r].plan, r),
           NEW i \in Slots, HandleData(i, s, Reply(r, i))
    PROVE  LET p == client[r].plan
               n == Len(heard[i])
           IN  /\ tcp_conns[i].state = "ESTABLISHED"
               /\ s.seq = n + 1 /\ s.len = 1 /\ s.ofs = n + 1 /\ n < Len(Replies[p])
               /\ Reply(r, i) = Replies[p][n + 1] /\ Batch(Reply(r, i))
<1> DEFINE p == client[r].plan
           n == Len(heard[i])
           c == tcp_conns[i]
<1>1. /\ Target(i, s) /\ c.state # "SYN" /\ ~(c.state = "LAST_ACK" /\ "ACK" \in s.flags)
      /\ s.len # 0 /\ s.seq = Acknowledged(c, s).incoming
  BY DEF HandleData, PassesAckStep, InSequence
<1>2. /\ Live(c) /\ s \in Segment /\ n \in Nat /\ Converses(c, p, n)
  BY <1>1, TargetRight
<1>3. s.len = 1 /\ s.flags = {"ACK"} /\ s.ofs = s.seq /\ s.seq \in 1..Len(Replies[p])
  BY <1>1 DEF Uplink
<1>4. c.state = "ESTABLISHED"
  BY <1>1, <1>2, <1>3 DEF Converses
<1>5. Acknowledged(c, s).incoming = c.incoming
  BY <1>2, AcknowledgedLive
<1>6. s.seq = n + 1
  BY <1>1, <1>2, <1>4, <1>5 DEF Converses
<1>7. p \in DOMAIN Asked
  BY PlanType
<1>8. Len(Replies[p]) \in {1, 2} /\ \A k \in 1..Len(Replies[p]) : Batch(Replies[p][k])
  BY <1>7, RepliesType
<1>9. n < Len(Replies[p]) /\ n + 1 \in 1..Len(Replies[p])
  <2> DEFINE N == Len(Replies[p])
  <2> HIDE DEF N, n
  <2>1. N \in Nat /\ n \in Nat /\ n + 1 \in 1..N
    BY <1>2, <1>3, <1>6, <1>8 DEF N
  <2>2. n < N /\ n + 1 \in 1..N
    BY <2>1
  <2> QED BY <2>2 DEF N
<1>10. Reply(r, i) = Replies[p][n + 1]
  BY <1>9 DEF Reply, Requests
<1> QED BY <1>3, <1>4, <1>6, <1>8, <1>9, <1>10

LEMMA DataRows ==
    ASSUME NetInv, NEW r \in Remotes, NEW s \in Uplink(client[r].plan, r),
           NEW i \in Slots, HandleData(i, s, Reply(r, i)), Heard(i, <<s.ofs>>),
           client' = client
    PROVE  /\ OutRight /\ heard' \in [Slots -> Seq(Nat)]
           /\ \A j \in Slots : RowRight(j)'
<1> DEFINE p == client[r].plan
           n == Len(heard[i])
           ds == Reply(r, i)
           a == Acknowledged(tcp_conns[i], s)
           m == (s.seq + s.len) % SeqSpace
           c == [a EXCEPT !.incoming = m]
           e == SendAll(c, ds)
           ss == Append(SentChunks(c, ds), Ack(e))
<1>1. /\ tcp_conns[i].state = "ESTABLISHED"
      /\ s.seq = n + 1 /\ s.len = 1 /\ s.ofs = n + 1 /\ n < Len(Replies[p])
      /\ ds = Replies[p][n + 1] /\ Batch(ds)
  BY DataAnswer
<1>2. Target(i, s)
  BY DEF HandleData, PassesAckStep
<1>3. /\ Live(tcp_conns[i]) /\ tcp_conns[i].remote = r /\ i \in opened
      /\ InOrder(heard[i]) /\ s \in Segment /\ n \in Nat
      /\ Converses(tcp_conns[i], p, n)
  BY <1>2, TargetRight
<1>4. /\ Live(a) /\ a.remote = r /\ QueueRight(a.sendbuf, p) /\ a.state = "ESTABLISHED"
      /\ a.nextOut = Num(Upto(p, n))
  BY <1>1, <1>3, AcknowledgedLive, AckRight DEF SameEnds, Converses
<1>5. /\ tcp_conns' = [tcp_conns EXCEPT ![i] = IF c.state = "ESTABLISHED" THEN e ELSE c]
      /\ out' = Emit(i, IF c.state = "ESTABLISHED" THEN ss ELSE <<Ack(c)>>)
      /\ opened' = opened
  BY DEF HandleData
<1>6. p \in DOMAIN Asked /\ Len(Replies[p]) \in Nat /\ Len(Replies[p]) + 2 < SeqSpace
  <2>1. p \in DOMAIN Asked
    BY PlanType
  <2> QED BY <2>1, RepliesType, LengthAssumption
<1>7. m = n + 2
  <2>1. s.seq + s.len = n + 2 /\ n + 2 \in 0..(SeqSpace + SeqSpace - 1) /\ n + 2 < SeqSpace
    BY <1>1, <1>3, <1>6, SeqAssumption
  <2> QED BY <2>1, SeqAssumption, ModOnce
<1>8. m \in SeqNo
  <2>1. s.seq + s.len \in Int
    BY <1>1, <1>3
  <2> QED BY <2>1, ModType
<1> HIDE DEF a, m
<1>9. /\ Live(c) /\ c.remote = r /\ c.sendbuf = a.sendbuf /\ c.state = "ESTABLISHED"
      /\ c.nextOut = a.nextOut /\ c.incoming = m
  BY <1>4, <1>8 DEF Live, TcpConn
<1> HIDE DEF c
<1>10. /\ Upto(p, n) \in Nat /\ Upto(p, n + 1) \in Nat
       /\ Follow(Stream(p), ds, Upto(p, n), Upto(p, n + 1))
  BY <1>1, <1>3, <1>6, AnswersFollow
<1> HIDE DEF ds
<1>11. /\ QueueRight(e.sendbuf, p) /\ e.nextOut = Num(Upto(p, n + 1))
       /\ SentChunks(c, ds) \in Seq(Downlink(p, r))
  BY <1>1, <1>4, <1>6, <1>9, <1>10, SendAllRight
<1>12. Live(e) /\ e.remote = r /\ e.state = "ESTABLISHED" /\ e.incoming = m
  BY <1>1, <1>9, SendAllLive, SendAllIncoming DEF SameEnds
<1> HIDE DEF e
<1>13. Ack(e) \in Downlink(p, r)
  BY <1>12, ControlDown
<1>14. ss \in Seq(Downlink(p, r))
  BY <1>11, <1>13, AppendProperties
<1> HIDE DEF ss
<1>15. OutRight
  BY <1>5, <1>9, <1>14, OutEmit
<1> DEFINE h == heard[i] \o <<n + 1>>
<1>16. h \in Seq(Nat) /\ Len(h) = n + 1 /\ InOrder(h)
  <2>1. heard[i] \in Seq(Nat) /\ \A k \in 1..n : heard[i][k] = k
    BY <1>3 DEF InOrder
  <2>2. <<n + 1>> \in Seq(Nat) /\ Len(<<n + 1>>) = 1 /\ <<n + 1>>[1] = n + 1
    BY <1>3
  <2>3. /\ h \in Seq(Nat) /\ Len(h) = n + 1
        /\ \A k \in 1..(n + 1) : h[k] = IF k <= n THEN heard[i][k] ELSE <<n + 1>>[k - n]
    BY <2>1, <2>2, ConcatProperties
  <2> HIDE DEF h
  <2>4. ASSUME NEW k \in 1..(n + 1) PROVE h[k] = k
    <3>1. CASE k <= n
      <4>1. k \in 1..n
        BY <1>3, <3>1
      <4>2. h[k] = heard[i][k] /\ heard[i][k] = k
        BY <2>1, <2>3, <3>1, <4>1
      <4> QED BY <4>2
    <3>2. CASE ~(k <= n)
      <4>1. k = n + 1 /\ k - n = 1
        BY <1>3, <3>2
      <4> QED BY <2>2, <2>3, <3>2, <4>1
    <3> QED BY <3>1, <3>2
  <2> QED BY <2>3, <2>4 DEF InOrder
<1>17. Converses(e, p, n + 1)
  <2>1. e.incoming = (n + 1) + 1 /\ n + 1 <= Len(Replies[p])
    BY <1>1, <1>3, <1>6, <1>7, <1>12
  <2> QED BY <1>11, <1>12, <2>1 DEF Converses
<1>18. /\ heard'[i] = h
       /\ \A j \in Slots \ {i} : heard'[j] = IF j \in opened' THEN heard[j] ELSE <<>>
  <2>1. \A j \in Slots : heard[j] \o <<>> = heard[j]
    BY ConcatEmptySeq DEF NetInv
  <2>2. s.ofs = n + 1 /\ i \in opened'
    BY <1>1, <1>3, <1>5
  <2> QED BY <2>1, <2>2 DEF Heard
<1> HIDE DEF h
<1>19. heard' \in [Slots -> Seq(Nat)]
  <2>1. \A j \in Slots : heard'[j] \in Seq(Nat)
    <3>1. <<>> \in Seq(Nat)
      OBVIOUS
    <3> QED BY <1>16, <1>18, <3>1 DEF NetInv
  <2>2. heard' = [j \in Slots |-> heard'[j]]
    BY DEF Heard
  <2> QED BY <2>1, <2>2
<1>20. /\ tcp_conns'[i] = e
       /\ \A j \in Slots \ {i} : tcp_conns'[j] = tcp_conns[j]
  BY <1>5, <1>9 DEF NetInv, TypeInv, Table
<1>21. RowRight(i)'
  BY <1>3, <1>5, <1>12, <1>16, <1>17, <1>18, <1>20, RowConverses
<1>22. \A j \in Slots : RowRight(j)'
  BY <1>5, <1>18, <1>20, <1>21, OtherRows
<1> QED BY <1>15, <1>19, <1>22

\* A row of which only the timer changes.
LEMMA RowTimed ==
    ASSUME NEW i \in Slots, RowRight(i), opened' = opened, heard' = heard, client' = client,
           tcp_conns'[i].state = tcp_conns[i].state,
           tcp_conns'[i].remote = tcp_conns[i].remote,
           tcp_conns'[i].incoming = tcp_conns[i].incoming,
           tcp_conns'[i].nextOut = tcp_conns[i].nextOut,
           tcp_conns'[i].sendbuf = tcp_conns[i].sendbuf
    PROVE  RowRight(i)'
<1>1. Open(i)' <=> Open(i)
  BY DEF Open
<1> QED BY <1>1 DEF RowRight, Converses

LEMMA ElapseRows ==
    ASSUME NetInv, NEW i \in Slots, Elapse(i), heard' = heard, client' = client
    PROVE  \A j \in Slots : RowRight(j)'
<1> SUFFICES ASSUME NEW j \in Slots PROVE RowRight(j)'
  OBVIOUS
<1>1. tcp_conns[j] \in TcpConn /\ RowRight(j) /\ opened' = opened
  BY DEF NetInv, TypeInv, Table, Elapse
<1>2. \/ tcp_conns'[j] = tcp_conns[j]
      \/ tcp_conns'[j] = [tcp_conns[j] EXCEPT !.due = ~@]
  BY DEF NetInv, TypeInv, Table, Elapse
<1> QED BY <1>1, <1>2, RowTimed DEF TcpConn

LEMMA ProcessRows ==
    ASSUME NetInv, TcpProcess, heard' = heard, client' = client
    PROVE  OutRight /\ \A j \in Slots : RowRight(j)'
<1>1. ASSUME NEW j \in Slots PROVE RowRight(j)'
  <2>1. tcp_conns[j] \in TcpConn /\ RowRight(j) /\ opened' = opened
    BY DEF NetInv, TypeInv, Table, TcpProcess
  <2>2. \/ tcp_conns'[j] = tcp_conns[j]
        \/ tcp_conns'[j] = [tcp_conns[j] EXCEPT !.due = FALSE]
    BY DEF TcpProcess
  <2> QED BY <2>1, <2>2, RowTimed DEF TcpConn
<1>2. ASSUME NEW j \in Slots
      PROVE  \/ out'[j] = <<>>
             \/ \E r \in Remotes : out'[j] \in Seq(Downlink(client[r].plan, r))
  <2> DEFINE c == tcp_conns[j]
             b == c.sendbuf[1]
             r == c.remote
             p == client[r].plan
  <2>1. out'[j] = IF Expired(j) THEN Retransmission(c) ELSE <<>>
    BY DEF TcpProcess
  <2>2. CASE ~Expired(j)
    BY <2>1, <2>2
  <2>3. CASE Expired(j)
    <3>1. Open(j) /\ c.sendbuf # <<>> /\ Live(c)
      BY <2>3, OpenConnected DEF Expired, NetInv, Connected
    <3>2. c.sendbuf \in Seq(TcpBuf) /\ r \in Remotes
      BY <3>1 DEF Live, TcpConn
    <3>3. 1 \in 1..Len(c.sendbuf)
      BY <3>1, <3>2, EmptySeq
    <3>4. b \in TcpBuf
      BY <3>2, <3>3, ElementOfSeq
    <3>5. b.ofs \in Nat /\ b.ofs <= BufLen[b.data]
      <4>1. b.ofs = 0 \/ b.ofs < BufLen[b.data]
        BY <3>1, <3>3 DEF Live, OffsetsInBuffer
      <4>2. b.ofs \in Nat /\ BufLen[b.data] \in Nat
        BY <3>4, BufferAssumption DEF TcpBuf
      <4> QED BY <4>1, <4>2
    <3>6. QueueRight(c.sendbuf, p) /\ p \in DOMAIN Asked
      BY <3>1, <3>2, PlanType DEF NetInv, RowRight, Converses
    <3>7. PICK o \in Nat : Placed(p, b.data, o) /\ b.seq = Num(o)
      BY <3>3, <3>6 DEF QueueRight
    <3>8. Chunk(c, b, b.ofs) \in Downlink(p, r)
      BY <3>1, <3>4, <3>5, <3>6, <3>7, ChunkDown
    <3>9. Retransmission(c) = IF Remaining(b) = 0 THEN <<>> ELSE <<Chunk(c, b, b.ofs)>>
      BY DEF Retransmission
    <3> DEFINE k == Chunk(c, b, b.ofs)
    <3> HIDE DEF k
    <3>10. <<k>> \in Seq(Downlink(p, r))
      BY <3>8 DEF k
    <3>11. out'[j] = <<>> \/ out'[j] = <<k>>
      BY <2>1, <2>3, <3>9 DEF k
    <3> QED BY <3>2, <3>10, <3>11
  <2> QED BY <2>2, <2>3
<1> QED BY <1>1, <1>2 DEF OutRight

----------------------------------------------------------------------------
\* The queues of the network.

LEMMA SeqSubset ==
    ASSUME NEW S, NEW T, S \subseteq T, NEW q \in Seq(S)
    PROVE  q \in Seq(T)
<1>1. q \in [1..Len(q) -> S] /\ Len(q) \in Nat
  BY LenProperties
<1>2. q \in [1..Len(q) -> T]
  BY <1>1
<1> QED BY <1>1, <1>2

LEMMA QueuesSet ==
    ASSUME NEW p, NEW r,
           NEW q \in Seq(Uplink(p, r)), NEW d \in Seq(Downlink(p, r))
    PROVE  q \in Seq(Segment) /\ d \in Seq(Segment)
<1>1. Uplink(p, r) \subseteq Segment /\ Downlink(p, r) \subseteq Segment
  BY DEF Uplink, Downlink
<1> QED BY <1>1, SeqSubset

\* Clients keep their plans, so a queue is right whose segments are.
LEMMA QueuesKept ==
    ASSUME \A r \in Remotes : client'[r].plan = client[r].plan,
           toServer' = [r \in Remotes |-> toServer'[r]],
           toClient' = [r \in Remotes |-> toClient'[r]],
           \A r \in Remotes : /\ toServer'[r] \in Seq(Uplink(client[r].plan, r))
                              /\ toClient'[r] \in Seq(Downlink(client[r].plan, r))
    PROVE  QueuesRight'
<1>1. \A r \in Remotes : toServer'[r] \in Seq(Segment) /\ toClient'[r] \in Seq(Segment)
  BY QueuesSet
<1>2. toServer' \in [Remotes -> Seq(Segment)] /\ toClient' \in [Remotes -> Seq(Segment)]
  BY <1>1
<1> QED BY <1>2 DEF QueuesRight

LEMMA ServerQueueSet ==
    ASSUME NetInv, NEW r \in Remotes, NEW q \in Seq(Uplink(client[r].plan, r)),
           toServer' = [toServer EXCEPT ![r] = q]
    PROVE  /\ toServer' = [x \in Remotes |-> toServer'[x]]
           /\ \A x \in Remotes : toServer'[x] \in Seq(Uplink(client[x].plan, x))
BY DEF NetInv, QueuesRight

LEMMA ClientQueueSet ==
    ASSUME NetInv, NEW r \in Remotes, NEW q \in Seq(Downlink(client[r].plan, r)),
           toClient' = [toClient EXCEPT ![r] = q]
    PROVE  /\ toClient' = [x \in Remotes |-> toClient'[x]]
           /\ \A x \in Remotes : toClient'[x] \in Seq(Downlink(client[x].plan, x))
BY DEF NetInv, QueuesRight

LEMMA QueuesSame ==
    ASSUME NetInv
    PROVE  /\ toServer = [x \in Remotes |-> toServer[x]]
           /\ toClient = [x \in Remotes |-> toClient[x]]
           /\ \A x \in Remotes : /\ toServer[x] \in Seq(Uplink(client[x].plan, x))
                                 /\ toClient[x] \in Seq(Downlink(client[x].plan, x))
BY DEF NetInv, QueuesRight

\* What the router sends reaches the client it is for.
LEMMA TransmitRight ==
    ASSUME NetInv, OutRight, Transmit
    PROVE  /\ toClient' = [x \in Remotes |-> toClient'[x]]
           /\ \A x \in Remotes : toClient'[x] \in Seq(Downlink(client[x].plan, x))
<1>1. toClient' = [x \in Remotes |-> toClient'[x]]
  BY DEF Transmit
<1>2. ASSUME NEW x \in Remotes
      PROVE  toClient'[x] \in Seq(Downlink(client[x].plan, x))
  <2> DEFINE rows == {i \in Slots : out'[i] # <<>> /\ out'[i][1].remote = x}
             i == CHOOSE j \in rows : TRUE
             ss == out'[i]
             D(r) == Downlink(client[r].plan, r)
  <2>1. /\ rows = {} => toClient'[x] = toClient[x]
        /\ rows # {} => toClient'[x] = toClient[x] \o ss
    BY DEF Transmit
  <2>2. toClient[x] \in Seq(D(x))
    BY QueuesSame
  <2>3. CASE rows = {}
    BY <2>1, <2>2, <2>3
  <2>4. CASE rows # {}
    <3>1. i \in rows
      BY <2>4
    <3>2. i \in Slots /\ ss # <<>> /\ ss[1].remote = x
      BY <3>1
    <3> HIDE DEF i
    <3>3. PICK r \in Remotes : ss \in Seq(D(r))
      BY <3>2 DEF OutRight
    <3> HIDE DEF ss, D
    <3>4. ss[1] \in D(r)
      <4>1. 1 \in 1..Len(ss)
        BY <3>2, <3>3, EmptySeq
      <4> QED BY <3>3, <4>1, ElementOfSeq
    <3>5. r = x
      BY <3>2, <3>4 DEF D, Downlink
    <3>6. toClient[x] \o ss \in Seq(D(x))
      BY <2>2, <3>3, <3>5, ConcatProperties
    <3> QED BY <2>1, <2>4, <3>6 DEF D
  <2> QED BY <2>3, <2>4
<1> QED BY <1>1, <1>2

----------------------------------------------------------------------------
\* The steps of the router.

\* What is left to show of a step in which the clients do nothing.
LEMMA RouterStep ==
    ASSUME NetInv, client' = client, TypeInv', QueuesRight',
           heard' \in [Slots -> Seq(Nat)], \A i \in Slots : RowRight(i)'
    PROVE  NetInv'
<1>1. /\ client' \in [Remotes -> Client]
      /\ \A r \in Remotes : ClientRight(client'[r])
  BY DEF NetInv
<1> QED BY <1>1 DEF NetInv

LEMMA ControlRows ==
    ASSUME NetInv, NEW r \in Remotes, NEW s \in Uplink(client[r].plan, r),
           Control(s), Heard(0, <<>>), client' = client
    PROVE  /\ TypeInv' /\ OutRight
           /\ \A j \in Slots : RowRight(j)'
<1>1. s \in Segment /\ TypeInv
  BY DEF Uplink, NetInv
<1>2. CASE HandleListenPort(s)
  BY <1>1, <1>2, TypeSyn, SynRows
<1>3. ASSUME NEW i \in Slots, EstablishConnection(i, s)
      PROVE  /\ TypeInv' /\ OutRight
             /\ \A j \in Slots : RowRight(j)'
  BY <1>1, <1>3, TypeEstablish, EstablishRows
<1>4. ASSUME NEW i \in Slots, ConnectionReset(i, s) \/ LastAck(i, s)
      PROVE  /\ TypeInv' /\ OutRight
             /\ \A j \in Slots : RowRight(j)'
  <2>1. Kill(i) /\ out' = Silent
    BY <1>4 DEF ConnectionReset, LastAck
  <2>2. TypeInv'
    BY <1>1, <1>4, TypeKilled
  <2> QED BY <2>1, <2>2, KillRows, OutSilent
<1>5. ASSUME NEW i \in Slots, HandleFin(i, s)
      PROVE  /\ TypeInv' /\ OutRight
             /\ \A j \in Slots : RowRight(j)'
  BY <1>1, <1>5, TypeFin, FinRows
<1>6. ASSUME NEW i \in Slots, HandleAck(i, s)
      PROVE  /\ TypeInv' /\ OutRight
             /\ \A j \in Slots : RowRight(j)'
  BY <1>1, <1>6, TypeAck, AckRows
<1> QED BY <1>2, <1>3, <1>4, <1>5, <1>6 DEF Control

\* Rows are as they were when only clients or the network do something.
LEMMA RowsStay ==
    ASSUME NetInv, UNCHANGED <<vars, heard>>,
           \A r \in Remotes : client'[r].plan = client[r].plan
    PROVE  /\ TypeInv' /\ heard' \in [Slots -> Seq(Nat)]
           /\ \A i \in Slots : RowRight(i)'
<1>1. /\ tcp_conns' = tcp_conns /\ owner' = owner /\ opened' = opened /\ out' = out
      /\ heard' = heard
  BY DEF vars
<1>2. TypeInv' /\ heard' \in [Slots -> Seq(Nat)]
  BY <1>1 DEF NetInv, TypeInv
<1>3. ASSUME NEW i \in Slots PROVE RowRight(i)'
  <2>1. RowRight(i)
    BY DEF NetInv
  <2>2. Open(i)' <=> Open(i)
    BY <1>1 DEF Open
  <2>3. Open(i) => tcp_conns[i].remote \in Remotes
    BY OpenConnected DEF NetInv, Connected, Live
  <2>4. Open(i) => client'[tcp_conns[i].remote].plan = client[tcp_conns[i].remote].plan
    BY <2>3
  <2> QED BY <1>1, <2>1, <2>2, <2>4 DEF RowRight
<1> QED BY <1>2, <1>3

LEMMA ReceiveRight ==
    ASSUME NetInv, NEW r \in Remotes, ServerReceive(r)
    PROVE  NetInv'
<1> DEFINE s == Head(toServer[r])
           U == Uplink(client[r].plan, r)
<1>1. /\ toServer[r] # <<>> /\ client' = client
      /\ toServer' = [toServer EXCEPT ![r] = Tail(toServer[r])]
      /\ \/ Control(s) /\ Heard(0, <<>>)
         \/ \E i \in Slots : HandleData(i, s, Reply(r, i)) /\ Heard(i, <<s.ofs>>)
         \/ Ignored(s) /\ UNCHANGED <<vars, heard>>
      /\ IF Ignored(s) THEN UNCHANGED toClient ELSE Transmit
  BY DEF ServerReceive
<1>2. s \in U /\ Tail(toServer[r]) \in Seq(U)
  <2>1. toServer[r] \in Seq(U)
    BY QueuesSame
  <2> HIDE DEF U
  <2> QED BY <1>1, <2>1, HeadTailProperties
<1> HIDE DEF s
<1>3. /\ toServer' = [x \in Remotes |-> toServer'[x]]
      /\ \A x \in Remotes : toServer'[x] \in Seq(Uplink(client[x].plan, x))
  BY <1>1, <1>2, ServerQueueSet
<1>4. ASSUME Ignored(s) \/ OutRight PROVE QueuesRight'
  <2>1. /\ toClient' = [x \in Remotes |-> toClient'[x]]
        /\ \A x \in Remotes : toClient'[x] \in Seq(Downlink(client[x].plan, x))
    BY <1>1, <1>4, QueuesSame, TransmitRight
  <2> QED BY <1>1, <1>3, <2>1, QueuesKept
<1>5. CASE Control(s) /\ Heard(0, <<>>)
  BY <1>1, <1>2, <1>4, <1>5, ControlRows, ControlHeard, RouterStep
<1>6. ASSUME NEW i \in Slots, HandleData(i, s, Reply(r, i)), Heard(i, <<s.ofs>>)
      PROVE  NetInv'
  <2>1. s \in Segment /\ TypeInv /\ Batch(Reply(r, i))
    BY <1>2, <1>6, DataAnswer DEF Uplink, NetInv
  <2>2. TypeInv'
    BY <1>6, <2>1, TypeData
  <2> QED BY <1>1, <1>2, <1>4, <1>6, <2>2, DataRows, RouterStep
<1>7. CASE Ignored(s) /\ UNCHANGED <<vars, heard>>
  BY <1>1, <1>4, <1>7, RowsStay, RouterStep
<1> QED BY <1>1, <1>5, <1>6, <1>7

LEMMA RouterRight ==
    ASSUME NetInv, \/ ServerListen \/ ServerProcess
                   \/ \E i \in Slots : ServerElapse(i) \/ ServerClockSet(i)
    PROVE  NetInv'
<1>1. TypeInv /\ HttpPort \in Ports /\ heard \in [Slots -> Seq(Nat)]
  BY NetAssumption DEF NetInv
<1>2. ASSUME toServer' = toServer, toClient' = toClient, client' = client
      PROVE  QueuesRight'
  BY <1>2, QueuesSame, QueuesKept
<1>3. CASE ServerListen
  <2>1. TcpNewListenSock(HttpPort) /\ UNCHANGED netVars
    BY <1>3 DEF ServerListen
  <2>2. /\ heard' = heard /\ client' = client
        /\ toServer' = toServer /\ toClient' = toClient
    BY <2>1 DEF netVars
  <2> QED BY <1>1, <1>2, <2>1, <2>2, TypeListen, ListenRows, RouterStep
<1>4. CASE ServerProcess
  <2>1. /\ TcpProcess /\ Transmit /\ heard' = heard /\ client' = client
        /\ toServer' = toServer
    BY <1>4 DEF ServerProcess
  <2>2. OutRight /\ \A j \in Slots : RowRight(j)'
    BY <2>1, ProcessRows
  <2>3. QueuesRight'
    BY <2>1, <2>2, TransmitRight, QueuesSame, QueuesKept
  <2> QED BY <1>1, <2>1, <2>2, <2>3, TypeProcess, RouterStep
<1>5. ASSUME NEW i \in Slots, ServerElapse(i) \/ ServerClockSet(i)
      PROVE  NetInv'
  <2>1. /\ Elapse(i) /\ heard' = heard /\ client' = client
        /\ toServer' = toServer /\ toClient' = toClient
    BY <1>5 DEF ServerElapse, ServerClockSet, netVars
  <2> QED BY <1>1, <1>2, <2>1, TypeElapse, ElapseRows, RouterStep
<1> QED BY <1>3, <1>4, <1>5

----------------------------------------------------------------------------
\* The steps of the clients.

LEMMA ClientFacts ==
    ASSUME NetInv, NEW r \in Remotes
    PROVE  LET c == client[r]
           IN  /\ c \in Client /\ ClientRight(c) /\ c.plan \in DOMAIN Asked
               /\ Requests(r) \in Nat /\ Requests(r) = Len(Replies[c.plan])
               /\ 0 < Requests(r) /\ Requests(r) + 2 < SeqSpace
<1> DEFINE N == Requests(r)
<1>1. client[r] \in Client /\ ClientRight(client[r]) /\ client[r].plan \in DOMAIN Asked
  BY PlanType DEF NetInv
<1>2. N = Len(Replies[client[r].plan])
  BY DEF Requests
<1> HIDE DEF N
<1>3. N \in {1, 2} /\ N + 2 < SeqSpace
  BY <1>1, <1>2, RepliesType, LengthAssumption
<1>4. N \in Nat /\ 0 < N
  BY <1>3
<1> QED BY <1>1, <1>2, <1>3, <1>4 DEF N

\* Whatever a client sends is numbered by its place in the request.
LEMMA SegmentRight ==
    ASSUME NetInv, NEW r \in Remotes, NEW n \in Nat, n <= Requests(r) + 2
    PROVE  SegmentAt(r, n) \in Uplink(client[r].plan, r)
<1> DEFINE N == Requests(r)
           s == SegmentAt(r, n)
<1>1. client[r] \in Client /\ N \in Nat /\ N = Len(Replies[client[r].plan]) /\ N + 2 < SeqSpace
  BY ClientFacts
<1>2. n \in SeqNo /\ 0 \in SeqNo /\ client[r].rcv \in SeqNo /\ HttpPort \in Ports
  <2> HIDE DEF N
  <2>1. n <= N + 2
    BY DEF N
  <2>2. n \in SeqNo /\ 0 \in SeqNo
    BY <1>1, <2>1, SeqAssumption
  <2> QED BY <1>1, <2>2, NetAssumption DEF Client
<1> DEFINE F(flags, len) == FromClient(r, flags, n, len)
<1>3. ASSUME NEW flags \in SUBSET Flag, NEW len \in Nat
      PROVE  /\ F(flags, len) \in Segment /\ F(flags, len).remote = r
             /\ F(flags, len).flags = flags /\ F(flags, len).seq = n
             /\ F(flags, len).len = len /\ F(flags, len).ofs = n
  BY <1>2 DEF FromClient, Segment
<1>4. {"SYN"} \in SUBSET Flag /\ {"FIN", "ACK"} \in SUBSET Flag /\ {"ACK"} \in SUBSET Flag
  OBVIOUS
<1>5. {"FIN", "ACK"} # {"SYN"} /\ {"ACK"} # {"SYN"}
  OBVIOUS
<1>6. \/ n = 0 /\ s = F({"SYN"}, 0)
      \/ n > N /\ s = F({"FIN", "ACK"}, 0)
      \/ n \in 1..N /\ s = F({"ACK"}, 1)
  <2>1. CASE n = 0
    <3>1. ~(n > N)
      BY <1>1, <2>1
    <3> QED BY <2>1, <3>1 DEF SegmentAt
  <2>2. CASE n > N
    <3>1. n # 0
      BY <1>1, <2>2
    <3> QED BY <2>2, <3>1 DEF SegmentAt
  <2>3. CASE n # 0 /\ ~(n > N)
    <3>1. n \in 1..N
      <4> HIDE DEF N
      <4> QED BY <1>1, <2>3
    <3> QED BY <2>3, <3>1 DEF SegmentAt
  <2> QED BY <2>1, <2>2, <2>3
<1> HIDE DEF s, F, N
<1>7. CASE n = 0 /\ s = F({"SYN"}, 0)
  BY <1>3, <1>4, <1>7 DEF Uplink, s
<1>8. CASE n > N /\ s = F({"FIN", "ACK"}, 0)
  BY <1>3, <1>4, <1>5, <1>8 DEF Uplink, s
<1>9. CASE n \in 1..N /\ s = F({"ACK"}, 1)
  <2>1. /\ s \in Segment /\ s.remote = r /\ s.flags = {"ACK"} /\ s.seq = n
        /\ s.len = 1 /\ s.ofs = n
    BY <1>3, <1>4, <1>9
  <2>2. s.seq \in 1..Len(Replies[client[r].plan]) /\ s.flags # {"SYN"}
    BY <1>1, <1>5, <1>9, <2>1
  <2> QED BY <2>1, <2>2 DEF Uplink, s
<1> QED BY <1>6, <1>7, <1>8, <1>9

\* A step of client r, whose record becomes c, and which may send s.
LEMMA ClientChanges ==
    ASSUME NetInv, UNCHANGED <<vars, heard>>, NEW r \in Remotes, NEW c,
           ClientRight(c), c.plan = client[r].plan,
           client' = [client EXCEPT ![r] = c],
           toServer' = toServer \/ \E s \in Uplink(client[r].plan, r) : Put(r, s),
           \/ toClient' = toClient
           \/ toClient[r] # <<>> /\ toClient' = [toClient EXCEPT ![r] = Tail(@)]
    PROVE  NetInv'
<1>1. /\ client' \in [Remotes -> Client] /\ \A x \in Remotes : ClientRight(client'[x])
      /\ \A x \in Remotes : client'[x].plan = client[x].plan
  BY DEF NetInv, ClientRight
<1>2. /\ toServer' = [x \in Remotes |-> toServer'[x]]
      /\ \A x \in Remotes : toServer'[x] \in Seq(Uplink(client[x].plan, x))
  <2>1. ASSUME NEW s \in Uplink(client[r].plan, r), Put(r, s)
        PROVE  /\ toServer' = [x \in Remotes |-> toServer'[x]]
               /\ \A x \in Remotes : toServer'[x] \in Seq(Uplink(client[x].plan, x))
    <3>1. Append(toServer[r], s) \in Seq(Uplink(client[r].plan, r))
      BY QueuesSame, AppendProperties
    <3> QED BY <2>1, <3>1, ServerQueueSet DEF Put
  <2> QED BY <2>1, QueuesSame
<1>3. /\ toClient' = [x \in Remotes |-> toClient'[x]]
      /\ \A x \in Remotes : toClient'[x] \in Seq(Downlink(client[x].plan, x))
  <2>1. CASE toClient[r] # <<>> /\ toClient' = [toClient EXCEPT ![r] = Tail(@)]
    <3>1. Tail(toClient[r]) \in Seq(Downlink(client[r].plan, r))
      <4> DEFINE D == Downlink(client[r].plan, r)
      <4>1. toClient[r] \in Seq(D)
        BY QueuesSame
      <4> HIDE DEF D
      <4>2. Tail(toClient[r]) \in Seq(D)
        BY <2>1, <4>1, HeadTailProperties
      <4> QED BY <4>2 DEF D
    <3> QED BY <2>1, <3>1, ClientQueueSet
  <2> QED BY <2>1, QueuesSame
<1>4. QueuesRight'
  BY <1>1, <1>2, <1>3, QueuesKept
<1> QED BY <1>1, <1>4, RowsStay DEF NetInv

LEMMA SendsRight ==
    ASSUME NetInv, NEW r \in Remotes, ClientOpen(r) \/ ClientSend(r) \/ ClientClose(r)
    PROVE  NetInv'
<1> DEFINE c == client[r]
           N == Requests(r)
           n == c.nxt
<1>1. /\ c \in Client /\ ClientRight(c) /\ N \in Nat /\ N = Len(Replies[c.plan])
      /\ 0 < N
  BY ClientFacts
<1>2. c.una \in Nat /\ n \in Nat /\ n + 1 \in Nat /\ c.una <= n /\ n <= N + 2
  <2> HIDE DEF c, N
  <2>1. c.una \in Nat /\ n \in Nat /\ c.una <= n /\ n <= N + 2
    BY <1>1 DEF Client, ClientRight
  <2> QED BY <2>1
<1>3. UNCHANGED <<vars, heard>> /\ toClient' = toClient
  BY DEF ClientOpen, ClientSend, ClientClose
<1>4. SegmentAt(r, 0) \in Uplink(c.plan, r) /\ SegmentAt(r, n) \in Uplink(c.plan, r)
  <2>1. 0 \in Nat /\ 0 <= N + 2
    <3> HIDE DEF N
    <3> QED BY <1>1
  <2> QED BY <1>2, <2>1, SegmentRight
<1>5. CASE ClientOpen(r)
  <2> DEFINE e == [c EXCEPT !.state = "SYN_SENT", !.nxt = 1]
  <2>1. c.state = "IDLE" /\ Put(r, SegmentAt(r, 0)) /\ client' = [client EXCEPT ![r] = e]
    BY <1>5 DEF ClientOpen
  <2>2. /\ e \in Client /\ e.plan = c.plan /\ e.state = "SYN_SENT" /\ e.una = c.una
        /\ e.nxt = 1 /\ e.rcv = c.rcv /\ e.got = c.got
    BY <1>1 DEF Client
  <2>3. n = 0 /\ c.got = <<>>
    BY <1>1, <2>1 DEF ClientRight
  <2> HIDE DEF e
  <2>4. c.una <= 1 /\ 1 <= N + 2
    <3> HIDE DEF N
    <3> QED BY <1>1, <1>2, <2>3
  <2>5. ClientRight(e)
    BY <1>1, <2>2, <2>3, <2>4 DEF ClientRight
  <2> QED BY <1>3, <1>4, <2>1, <2>2, <2>5, ClientChanges
<1>6. CASE ClientSend(r)
  <2> DEFINE e == [c EXCEPT !.nxt = @ + 1]
  <2>1. /\ c.state = "ESTABLISHED" /\ n <= N /\ Put(r, SegmentAt(r, n))
        /\ client' = [client EXCEPT ![r] = e]
    BY <1>6 DEF ClientSend
  <2>2. /\ e \in Client /\ e.plan = c.plan /\ e.state = "ESTABLISHED" /\ e.una = c.una
        /\ e.nxt = n + 1 /\ e.rcv = c.rcv /\ e.got = c.got
    BY <1>1, <1>2, <2>1 DEF Client
  <2> HIDE DEF e
  <2>3. c.una <= n + 1 /\ n + 1 <= N + 1 /\ n + 1 <= N + 2
    <3> HIDE DEF N, c, n
    <3> QED BY <1>1, <1>2, <2>1
  <2>4. ClientRight(e)
    BY <1>1, <2>1, <2>2, <2>3 DEF ClientRight
  <2> QED BY <1>3, <1>4, <2>1, <2>2, <2>4, ClientChanges
<1>7. CASE ClientClose(r)
  <2> DEFINE e == [c EXCEPT !.state = "FIN_WAIT", !.nxt = @ + 1]
  <2>1. /\ c.state = "ESTABLISHED" /\ Put(r, SegmentAt(r, n))
        /\ client' = [client EXCEPT ![r] = e]
    BY <1>7 DEF ClientClose
  <2>2. /\ e \in Client /\ e.plan = c.plan /\ e.state = "FIN_WAIT" /\ e.una = c.una
        /\ e.nxt = n + 1 /\ e.rcv = c.rcv /\ e.got = c.got
    BY <1>1, <1>2, <2>1 DEF Client
  <2> HIDE DEF e
  <2>3. n <= N + 1
    BY <1>1, <2>1 DEF ClientRight
  <2>4. c.una <= n + 1 /\ n + 1 <= N + 2
    <3> HIDE DEF N, c, n
    <3> QED BY <1>1, <1>2, <2>3
  <2>5. ClientRight(e)
    BY <1>1, <2>1, <2>2, <2>4 DEF ClientRight
  <2> QED BY <1>3, <1>4, <2>1, <2>2, <2>5, ClientChanges
<1> QED BY <1>5, <1>6, <1>7

LEMMA RetransmitRight ==
    ASSUME NetInv, NEW r \in Remotes, ClientRetransmit(r)
    PROVE  NetInv'
<1> DEFINE c == client[r]
<1>1. /\ UNCHANGED <<vars, heard>> /\ toClient' = toClient
      /\ client' = client /\ Put(r, SegmentAt(r, c.una))
  BY DEF ClientRetransmit
<1>2. c \in Client /\ ClientRight(c) /\ Requests(r) = Len(Replies[c.plan]) /\ Requests(r) \in Nat
  BY ClientFacts
<1>3. c.una \in Nat /\ c.una <= Requests(r) + 2
  <2> DEFINE N == Requests(r)
  <2> HIDE DEF c, N
  <2>1. c.una \in Nat /\ c.nxt \in Nat /\ c.una <= c.nxt /\ c.nxt <= N + 2 /\ N \in Nat
    BY <1>2 DEF Client, ClientRight, N
  <2>2. c.una <= N + 2
    BY <2>1
  <2> QED BY <2>1, <2>2 DEF N
<1>4. SegmentAt(r, c.una) \in Uplink(c.plan, r)
  BY <1>3, SegmentRight
<1>5. client' = [client EXCEPT ![r] = c]
  BY <1>1 DEF NetInv
<1> QED BY <1>1, <1>2, <1>4, <1>5, ClientChanges

\* Data that starts at or before the next unit the client expects, and ends
\* after it, goes on where the client has read to.
LEMMA SkipRight ==
    ASSUME NEW p \in DOMAIN Asked, NEW s \in Segment, s.len # 0, Carries(s, p),
           NEW g \in Nat, g <= Len(Stream(p)),
           NEW skip, skip = (Num(g) - s.seq) % SeqSpace, skip < s.len
    PROVE  /\ skip \in Nat /\ g + (s.len - skip) <= Len(Stream(p))
           /\ (s.seq + s.len) % SeqSpace = Num(g + (s.len - skip))
           /\ \A k \in 1..(s.len - skip) :
                /\ Stream(p)[g + k] = <<s.data, s.ofs + skip + k - 1>>
                /\ g + k \in 1..Len(Stream(p))
<1> DEFINE L == Len(Stream(p))
           l == s.len
           u == Stream(p)
           x == skip
<1>1. PICK o \in Nat : /\ o + l <= L /\ s.seq = Num(o)
                       /\ \A k \in 0..(l - 1) : u[o + 1 + k] = <<s.data, s.ofs + k>>
  BY DEF Carries
<1>2. L \in Nat /\ L < SeqSpace /\ SeqSpace \in Nat /\ l \in Nat /\ s.ofs \in Nat
  BY StreamType, SeqAssumption DEF Segment
<1> HIDE DEF L, l, u, x
<1>3. g <= L /\ x < l /\ l # 0
  BY DEF L, l, x
<1>4. g \in 0..(SeqSpace - 1) /\ o \in 0..(SeqSpace - 1)
  BY <1>1, <1>2, <1>3
<1>5. x = IF o <= g THEN g - o ELSE SeqSpace - (o - g)
  BY <1>1, <1>4, NumDistance DEF x
<1>6. o <= g /\ x = g - o
  BY <1>1, <1>2, <1>3, <1>4, <1>5
<1>7. x \in Nat /\ g + (l - x) = o + l /\ g + (l - x) <= L
  BY <1>1, <1>2, <1>6
<1>8. (s.seq + l) % SeqSpace = Num(g + (l - x))
  <2>1. o + l < SeqSpace
    BY <1>1, <1>2
  <2>2. (Num(o) + l) % SeqSpace = Num(o + l)
    BY <1>2, <2>1, NumAdd
  <2> QED BY <1>1, <1>7, <2>2
<1>9. ASSUME NEW k \in 1..(l - x)
      PROVE  u[g + k] = <<s.data, s.ofs + x + k - 1>> /\ g + k \in 1..L
  <2>1. /\ x + k - 1 \in 0..(l - 1) /\ o + 1 + (x + k - 1) = g + k
        /\ s.ofs + (x + k - 1) = s.ofs + x + k - 1
    BY <1>2, <1>3, <1>6, <1>7
  <2>2. u[o + 1 + (x + k - 1)] = <<s.data, s.ofs + (x + k - 1)>>
    BY <1>1, <2>1
  <2>3. g + k \in 1..L
    BY <1>2, <1>3, <1>7
  <2> QED BY <2>1, <2>2, <2>3
<1> QED BY <1>7, <1>8, <1>9 DEF L, l, u, x

\* What a client has read, with the units of s after the first skip.
Grown(got, s, skip) ==
    got \o [k \in 1..(s.len - skip) |-> <<s.data, s.ofs + skip + k - 1>>]

\* A client that receives data of its stream has read more of it, or no more.
LEMMA ReadsRight ==
    ASSUME NEW p \in DOMAIN Asked, NEW s \in Segment, s.len # 0, Carries(s, p),
           NEW got \in Seq(Unit), Len(got) <= Len(Stream(p)),
           \A k \in 1..Len(got) : got[k] = Stream(p)[k],
           NEW skip, skip = (Num(Len(got)) - s.seq) % SeqSpace, skip < s.len,
           NEW new, new = Grown(got, s, skip)
    PROVE  /\ new \in Seq(Unit) /\ Len(new) <= Len(Stream(p))
           /\ \A k \in 1..Len(new) : new[k] = Stream(p)[k]
           /\ (s.seq + s.len) % SeqSpace = Num(Len(new))
<1> DEFINE g == Len(got)
           n == s.len - skip
           u == Stream(p)
           w == new
           v == [k \in 1..n |-> <<s.data, s.ofs + skip + k - 1>>]
<1>1. g \in Nat
  BY LenProperties
<1>2. /\ skip \in Nat /\ g + n <= Len(u) /\ (s.seq + s.len) % SeqSpace = Num(g + n)
      /\ \A k \in 1..n : /\ u[g + k] = <<s.data, s.ofs + skip + k - 1>>
                         /\ g + k \in 1..Len(u)
  BY <1>1, SkipRight
<1>3. n \in Nat
  BY <1>2 DEF Segment
<1>4. u \in Seq(Unit)
  BY StreamType
<1>5. w = got \o v
  BY DEF Grown
<1>6. \A k \in 1..n : v[k] = u[g + k]
  BY <1>2
<1>7. v = [k \in 1..n |-> v[k]]
  OBVIOUS
<1> HIDE DEF g, n, u, v, w
<1>8. \A k \in 1..n : v[k] \in Unit
  BY <1>2, <1>4, <1>6, ElementOfSeq
<1>9. v \in Seq(Unit) /\ Len(v) = n
  <2>1. v \in [1..n -> Unit]
    BY <1>7, <1>8
  <2> QED BY <1>3, <2>1
<1>10. /\ w \in Seq(Unit) /\ Len(w) = g + n
       /\ \A k \in 1..(g + n) : w[k] = IF k <= g THEN got[k] ELSE v[k - g]
  BY <1>5, <1>9, ConcatProperties DEF g
<1>11. ASSUME NEW k \in 1..(g + n) PROVE w[k] = u[k]
  <2>1. CASE k <= g
    <3>1. k \in 1..g
      BY <1>1, <1>3, <2>1
    <3> QED BY <1>10, <2>1, <3>1 DEF g, u
  <2>2. CASE ~(k <= g)
    <3>1. k - g \in 1..n /\ g + (k - g) = k
      BY <1>1, <1>3, <2>2
    <3> QED BY <1>6, <1>10, <2>2, <3>1
  <2> QED BY <2>1, <2>2
<1> QED BY <1>2, <1>10, <1>11 DEF u, w

LEMMA ReceivedRight ==
    ASSUME NetInv, NEW r \in Remotes, client[r].state # "IDLE",
           NEW s \in Downlink(client[r].plan, r)
    PROVE  ClientRight(Received(r, s)) /\ Received(r, s).plan = client[r].plan
<1> DEFINE c == client[r]
           p == c.plan
           N == Len(Replies[p])
           reads == c.state # "TIME_WAIT"
           skip == (c.rcv - s.seq) % SeqSpace
           una == IF s.ack \in (c.una + 1)..c.nxt THEN s.ack ELSE c.una
           d == [c EXCEPT !.una = una]
           e == Received(r, s)
<1>1. c \in Client /\ ClientRight(c) /\ p \in DOMAIN Asked /\ N \in Nat /\ 0 < N
  BY ClientFacts
<1>2. s \in Segment /\ s.seq \in SeqNo /\ s.ack \in Nat /\ s.len \in Nat
  BY SeqAssumption DEF Downlink, Segment
<1>3. /\ c.una \in Nat /\ c.nxt \in Nat /\ c.una <= c.nxt /\ c.nxt <= N + 2
      /\ c.rcv \in SeqNo /\ c.got \in Seq(Unit) /\ Len(c.got) \in Nat
  BY <1>1, LenProperties DEF Client, ClientRight, Unit
<1>4. una \in Nat /\ una <= c.nxt
  BY <1>2, <1>3
<1>5. CASE c.state = "SYN_SENT"
  <2> DEFINE m == (s.seq + 1) % SeqSpace
             f == [c EXCEPT !.state = "ESTABLISHED", !.una = 1, !.rcv = m]
  <2>1. e = IF s.flags = {"SYN", "ACK"} /\ s.ack = 1 THEN f ELSE c
    BY <1>5 DEF Received
  <2>2. CASE s.flags = {"SYN", "ACK"}
    <3>1. c.got = <<>> /\ c.nxt = 1
      BY <1>1, <1>5 DEF ClientRight
    <3>2. m = Num(0) /\ m \in SeqNo
      <4>1. s.seq = InitSeq
        BY <2>2 DEF Downlink
      <4>2. InitSeq + 1 + 0 = InitSeq + 1 /\ s.seq + 1 \in Int
        BY <4>1, SeqAssumption
      <4>3. m = Num(0)
        BY <4>1, <4>2 DEF Num
      <4>4. m \in SeqNo
        BY <4>2, ModType
      <4> QED BY <4>3, <4>4
    <3> HIDE DEF m
    <3>3. /\ f \in Client /\ f.plan = p /\ f.state = "ESTABLISHED" /\ f.una = 1
          /\ f.nxt = 1 /\ f.rcv = m /\ f.got = <<>>
      BY <1>1, <3>1, <3>2 DEF Client
    <3>4. 1 <= N + 1 /\ 1 <= N + 2 /\ Len(<<>>) = 0
      <4> HIDE DEF N
      <4> QED BY <1>1
    <3> HIDE DEF f
    <3>5. ClientRight(f)
      BY <1>1, <3>1, <3>2, <3>3, <3>4 DEF ClientRight
    <3> QED BY <1>1, <2>1, <3>3, <3>5
  <2>3. CASE s.flags # {"SYN", "ACK"}
    BY <1>1, <2>1, <2>3
  <2> QED BY <2>2, <2>3
<1>6. CASE c.state # "SYN_SENT"
  <2> DEFINE m == (s.seq + s.len) % SeqSpace
             new == c.got \o [k \in 1..(s.len - skip) |->
                                <<s.data, s.ofs + skip + k - 1>>]
             f == [c EXCEPT !.una = una, !.rcv = m, !.got = new]
             n == (c.rcv + 1) % SeqSpace
             g == [c EXCEPT !.una = una, !.rcv = n, !.state = "TIME_WAIT"]
  <2>1. e = IF reads /\ s.len > 0 /\ skip < s.len THEN f
            ELSE IF reads /\ "FIN" \in s.flags /\ s.seq = c.rcv THEN g
            ELSE d
    BY <1>6 DEF Received
  <2>2. m \in SeqNo /\ n \in SeqNo
    <3>1. s.seq + s.len \in Int /\ c.rcv + 1 \in Int
      BY <1>2, <1>3, SeqAssumption
    <3> QED BY <3>1, ModType
  <2> HIDE DEF una
  <2>3. CASE reads /\ s.len > 0 /\ skip < s.len
    <3>1. c.state \in {"ESTABLISHED", "FIN_WAIT"} /\ c.rcv = Num(Len(c.got))
      BY <1>1, <1>6, <2>3 DEF Client, ClientRight
    <3>2. s.len # 0 /\ Carries(s, p)
      BY <1>2, <2>3 DEF Downlink
    <3>3. /\ Len(c.got) <= Len(Stream(p))
          /\ \A k \in 1..Len(c.got) : c.got[k] = Stream(p)[k]
      BY <1>1 DEF ClientRight
    <3>4. /\ new \in Seq(Unit) /\ Len(new) <= Len(Stream(p))
          /\ \A k \in 1..Len(new) : new[k] = Stream(p)[k]
          /\ m = Num(Len(new))
      <4> HIDE DEF c, p, skip
      <4>1. skip = (Num(Len(c.got)) - s.seq) % SeqSpace
        BY <3>1 DEF skip
      <4>2. skip < s.len
        BY <2>3
      <4>3. p \in DOMAIN Asked
        BY <1>1
      <4>4. new = Grown(c.got, s, skip)
        BY DEF Grown
      <4> DEFINE q == c.got
      <4>5. m = (s.seq + s.len) % SeqSpace /\ s \in Segment /\ q \in Seq(Unit)
        BY <1>2, <1>3
      <4>6. /\ skip = (Num(Len(q)) - s.seq) % SeqSpace /\ new = Grown(q, s, skip)
            /\ Len(q) <= Len(Stream(p)) /\ \A k \in 1..Len(q) : q[k] = Stream(p)[k]
        BY <3>3, <4>1, <4>4
      <4> HIDE DEF new, m, q
      <4> QED BY <3>2, <4>2, <4>3, <4>5, <4>6, ReadsRight
    <3> HIDE DEF m, new, skip
    <3>5. /\ f \in Client /\ f.plan = p /\ f.state = c.state /\ f.una = una
          /\ f.nxt = c.nxt /\ f.rcv = m /\ f.got = new
      BY <1>1, <1>4, <2>2, <3>4 DEF Client, Unit
    <3> HIDE DEF f
    <3>6. ClientRight(f)
      BY <1>1, <1>3, <1>4, <3>1, <3>4, <3>5 DEF ClientRight
    <3> QED BY <2>1, <2>3, <3>5, <3>6 DEF skip
  <2>4. CASE reads /\ "FIN" \in s.flags /\ s.seq = c.rcv
    <3> HIDE DEF n
    <3>1. /\ g \in Client /\ g.plan = p /\ g.state = "TIME_WAIT" /\ g.una = una
          /\ g.nxt = c.nxt /\ g.rcv = n /\ g.got = c.got
      BY <1>1, <1>4, <2>2 DEF Client
    <3> HIDE DEF g
    <3>2. ClientRight(g)
      BY <1>1, <1>3, <1>4, <3>1 DEF ClientRight
    <3> QED BY <2>1, <2>3, <2>4, <3>1, <3>2
  <2>5. CASE /\ ~(reads /\ s.len > 0 /\ skip < s.len)
             /\ ~(reads /\ "FIN" \in s.flags /\ s.seq = c.rcv)
    <3>1. /\ d \in Client /\ d.plan = p /\ d.state = c.state /\ d.una = una
          /\ d.nxt = c.nxt /\ d.rcv = c.rcv /\ d.got = c.got
      BY <1>1, <1>4 DEF Client
    <3>2. e = d
      BY <2>1, <2>5
    <3> HIDE DEF d
    <3>3. ClientRight(d)
      BY <1>1, <1>3, <1>4, <3>1 DEF ClientRight
    <3> QED BY <3>1, <3>2, <3>3
  <2> QED BY <2>3, <2>4, <2>5
<1> QED BY <1>5, <1>6

LEMMA ClientReceiveRight ==
    ASSUME NetInv, NEW r \in Remotes, ClientReceive(r)
    PROVE  NetInv'
<1> DEFINE p == client[r].plan
           D == Downlink(p, r)
           s == Head(toClient[r])
           c == Received(r, s)
           a == FromClient(r, {"ACK"}, c.nxt, 0)
           ack == [a EXCEPT !.ack = c.rcv]
<1>1. /\ toClient[r] # <<>> /\ client[r].state # "IDLE"
      /\ client' = [client EXCEPT ![r] = c]
      /\ toServer' = toServer \/ Put(r, ack)
      /\ toClient' = [toClient EXCEPT ![r] = Tail(@)]
      /\ UNCHANGED <<vars, heard>>
  BY DEF ClientReceive
<1>2. s \in D
  <2>1. toClient[r] \in Seq(D)
    BY QueuesSame
  <2> HIDE DEF D
  <2> QED BY <1>1, <2>1, HeadTailProperties
<1> HIDE DEF s
<1>3. ClientRight(c) /\ c.plan = p
  BY <1>1, <1>2, ReceivedRight
<1> HIDE DEF c
<1>4. ack \in Uplink(p, r)
  <2>1. c.rcv \in SeqNo /\ c.nxt \in Nat /\ c.nxt <= Len(Replies[p]) + 2
    BY <1>3 DEF ClientRight, Client
  <2>2. Len(Replies[p]) \in Nat /\ Len(Replies[p]) + 2 < SeqSpace
    BY ClientFacts
  <2>3. c.nxt \in SeqNo
    <3> DEFINE N == Len(Replies[p])
    <3> HIDE DEF N
    <3>1. c.nxt <= N + 2 /\ N \in Nat /\ N + 2 < SeqSpace
      BY <2>1, <2>2 DEF N
    <3> QED BY <2>1, <3>1, SeqAssumption
  <2>4. /\ ack.remote = r /\ ack.port = HttpPort /\ ack.flags = {"ACK"}
        /\ ack.seq = c.nxt /\ ack.ack = c.rcv /\ ack.len = 0 /\ ack.data = NoBuf
        /\ ack.ofs = c.nxt
    BY DEF FromClient
  <2>5. ack \in Segment
    BY <2>1, <2>3, NetAssumption DEF FromClient, Segment
  <2>6. {"ACK"} # {"SYN"}
    OBVIOUS
  <2> QED BY <2>4, <2>5, <2>6 DEF Uplink
<1> HIDE DEF ack
<1> QED BY <1>1, <1>3, <1>4, ClientChanges

----------------------------------------------------------------------------
\* The steps of the network.

LEMMA FaultyRight ==
    ASSUME NEW S, NEW q \in Seq(S), q # <<>>, NEW dir, NEW x \in Faulty(dir, q)
    PROVE  x \in Seq(S)
<1>1. Head(q) \in S /\ Tail(q) \in Seq(S)
  BY HeadTailProperties
<1>2. Append(q, Head(q)) \in Seq(S) /\ Append(Tail(q), Head(q)) \in Seq(S)
  BY <1>1, AppendProperties
<1>3. x \in {Tail(q), Append(q, Head(q)), Append(Tail(q), Head(q))}
  BY DEF Faulty
<1> QED BY <1>1, <1>2, <1>3

LEMMA FaultRight ==
    ASSUME NetInv, NEW r \in Remotes, Fault(r)
    PROVE  NetInv'
<1> DEFINE p == client[r].plan
<1>1. UNCHANGED <<vars, heard>> /\ client' = client
  BY DEF Fault
<1>2. /\ toServer' = [x \in Remotes |-> toServer'[x]]
      /\ \A x \in Remotes : toServer'[x] \in Seq(Uplink(client[x].plan, x))
  <2>1. CASE toServer' = toServer
    BY <2>1, QueuesSame
  <2>2. ASSUME toServer[r] # <<>>, NEW q \in Faulty("toServer", toServer[r]),
               toServer' = [toServer EXCEPT ![r] = q]
        PROVE  /\ toServer' = [x \in Remotes |-> toServer'[x]]
               /\ \A x \in Remotes : toServer'[x] \in Seq(Uplink(client[x].plan, x))
    <3>1. toServer[r] \in Seq(Uplink(p, r))
      BY QueuesSame
    <3>2. q \in Seq(Uplink(p, r))
      BY <2>2, <3>1, FaultyRight
    <3> QED BY <2>2, <3>2, ServerQueueSet
  <2> QED BY <2>1, <2>2 DEF Fault
<1>3. /\ toClient' = [x \in Remotes |-> toClient'[x]]
      /\ \A x \in Remotes : toClient'[x] \in Seq(Downlink(client[x].plan, x))
  <2>1. CASE toClient' = toClient
    BY <2>1, QueuesSame
  <2>2. ASSUME toClient[r] # <<>>, NEW q \in Faulty("toClient", toClient[r]),
               toClient' = [toClient EXCEPT ![r] = q]
        PROVE  /\ toClient' = [x \in Remotes |-> toClient'[x]]
               /\ \A x \in Remotes : toClient'[x] \in Seq(Downlink(client[x].plan, x))
    <3>1. toClient[r] \in Seq(Downlink(p, r))
      BY QueuesSame
    <3>2. q \in Seq(Downlink(p, r))
      BY <2>2, <3>1, FaultyRight
    <3> QED BY <2>2, <3>2, ClientQueueSet
  <2> QED BY <2>1, <2>2 DEF Fault
<1>4. QueuesRight'
  BY <1>1, <1>2, <1>3, QueuesKept
<1> QED BY <1>1, <1>4, RowsStay, RouterStep

----------------------------------------------------------------------------
\* The theorems.

\* At first every row is closed, every queue empty and every client idle.
THEOREM NetInit_NetInv == NetInit => NetInv
<1> SUFFICES ASSUME NetInit PROVE NetInv
  OBVIOUS
<1>1. /\ Init /\ toServer = [r \in Remotes |-> <<>>] /\ toClient = [r \in Remotes |-> <<>>]
      /\ heard = [i \in Slots |-> <<>>]
      /\ client \in [Remotes -> {NewClient(p) : p \in DOMAIN Asked}]
  BY DEF NetInit
<1>2. TypeInv
  BY <1>1, TypeInit
<1>3. ASSUME NEW p \in DOMAIN Asked
      PROVE  /\ NewClient(p) \in Client /\ ClientRight(NewClient(p))
  <2> DEFINE c == NewClient(p)
             N == Len(Replies[p])
             L == Len(Stream(p))
  <2>1. N \in {1, 2} /\ Stream(p) \in Seq(Unit) /\ L \in Nat
    BY RepliesType, StreamType
  <2>2. 0 <= N + 2 /\ 0 <= L /\ 0 \in SeqNo
    <3> HIDE DEF N, L
    <3> QED BY <2>1, SeqAssumption
  <2>3. /\ c.plan = p /\ c.state = "IDLE" /\ c.una = 0 /\ c.nxt = 0 /\ c.rcv = 0
        /\ c.got = <<>>
    BY DEF NewClient
  <2>4. c \in Client
    BY <2>2 DEF NewClient, Client
  <2> HIDE DEF c
  <2>5. ClientRight(c)
    BY <2>2, <2>3, <2>4 DEF ClientRight
  <2> QED BY <2>4, <2>5 DEF c
<1>4. client \in [Remotes -> Client] /\ \A r \in Remotes : ClientRight(client[r])
  BY <1>1, <1>3
<1>5. QueuesRight
  BY <1>1 DEF QueuesRight
<1>6. heard \in [Slots -> Seq(Nat)] /\ \A i \in Slots : RowRight(i)
  <2>1. ASSUME NEW i \in Slots PROVE RowRight(i)
    <3>1. tcp_conns[i].state = "CLOSED" /\ i \notin opened /\ heard[i] = <<>>
      BY <1>1 DEF Init, ClosedConn
    <3>2. ~Open(i) /\ InOrder(<<>>)
      BY <3>1 DEF Open, InOrder
    <3> QED BY <3>1, <3>2 DEF RowRight
  <2> QED BY <1>1, <2>1
<1> QED BY <1>2, <1>4, <1>5, <1>6 DEF NetInv

LEMMA NetStep ==
    ASSUME NetInv, [NetNext]_allVars
    PROVE  NetInv'
<1>1. CASE \/ ServerListen \/ ServerProcess
           \/ \E i \in Slots : ServerElapse(i) \/ ServerClockSet(i)
  BY <1>1, RouterRight
<1>2. ASSUME NEW r \in Remotes,
             ClientStep(r) \/ ClientRetransmit(r) \/ ServerReceive(r) \/ Fault(r)
      PROVE  NetInv'
  BY <1>2, SendsRight, ClientReceiveRight, RetransmitRight, ReceiveRight, FaultRight
     DEF ClientStep
<1>3. CASE UNCHANGED allVars
  <2>1. /\ UNCHANGED <<vars, heard>> /\ client' = client
        /\ toServer' = toServer /\ toClient' = toClient
    BY <1>3 DEF allVars, netVars
  <2>2. QueuesRight'
    BY <2>1, QueuesSame, QueuesKept
  <2> QED BY <2>1, <2>2, RowsStay, RouterStep
<1> QED BY <1>1, <1>2, <1>3 DEF NetNext

\* Clients and router keep the invariant over any network (tcp.c:163-423).
THEOREM NetInvariant == NetSpec => []NetInv
<1>1. NetInv /\ [NetNext]_allVars => NetInv'
  BY NetStep
<1> QED BY NetInit_NetInv, <1>1, PTL DEF NetSpec

\* However the network loses, repeats and reorders segments, and however
\* connections come and go, the application is handed the units of a request from
\* the first one on, in order, each once (tcp.c:320-325).
THEOREM RequestsStayInOrder == NetSpec => []RequestInOrder
<1>1. NetInv => RequestInOrder
  <2> SUFFICES ASSUME NetInv, NEW i \in Slots, NEW k \in DOMAIN heard[i]
               PROVE  heard[i][k] = k
    BY DEF RequestInOrder
  <2>1. InOrder(heard[i])
    BY DEF NetInv, RowRight
  <2>2. DOMAIN heard[i] = 1..Len(heard[i])
    BY <2>1 DEF InOrder
  <2> QED BY <2>1, <2>2 DEF InOrder
<1> QED BY NetInvariant, <1>1, PTL

\* What a client has read is a prefix of the stream of the answers to its
\* request: no byte of another buffer, none twice and none skipped, whatever the
\* network does, wherever the sequence numbers wrap, and whatever part of a buffer
\* a client acknowledged before a retransmission (tcp.c:163-219, 408-423).
THEOREM ResponsesArriveAsSent ==
    ASSUME AnsweredAsExpected
    PROVE  NetSpec => []ResponseIsPrefix
<1>1. NetInv => ResponseIsPrefix
  <2> SUFFICES ASSUME NetInv, NEW r \in Remotes
               PROVE  IsPrefixOf(client[r].got, Response(r))
    BY DEF ResponseIsPrefix
  <2> DEFINE g == client[r].got
             u == Response(r)
  <2>1. ClientRight(client[r]) /\ client[r].plan \in DOMAIN Asked
    BY ClientFacts
  <2>2. u = Stream(client[r].plan)
    BY <2>1 DEF AnsweredAsExpected, Response
  <2>3. /\ g \in Seq(Unit) /\ u \in Seq(Unit) /\ Len(g) <= Len(u)
        /\ \A k \in 1..Len(g) : g[k] = u[k]
    BY <2>1, <2>2, StreamType DEF ClientRight, Client, Unit
  <2> HIDE DEF g, u
  <2>4. g = SubSeq(u, 1, Len(g))
    <3> DEFINE n == Len(g)
               v == SubSeq(u, 1, n)
    <3>1. n \in Nat /\ Len(u) \in Nat /\ n <= Len(u)
      BY <2>3, LenProperties
    <3>2. /\ v \in Seq(Unit) /\ Len(v) = n
          /\ \A k \in 1..n : v[k] = u[k]
      <4> HIDE DEF n
      <4>1. n \in 0..Len(u)
        BY <3>1
      <4> QED BY <2>3, <3>1, <4>1
    <3> HIDE DEF v
    <3>3. \A k \in 1..n : g[k] = v[k]
      BY <2>3, <3>2
    <3> QED BY <2>3, <3>2, <3>3, SeqEqual DEF v
  <2> QED BY <2>3, <2>4 DEF IsPrefixOf, g, u
<1> QED BY NetInvariant, <1>1, PTL

\* The router's part of the state keeps its type in this composition too: what
\* TcpNet does to it are steps the module Tcp knows.
THEOREM NetTypeCorrect == NetSpec => []TypeOK
<1>1. NetInv => TypeOK
  BY DEF NetInv, TypeInv, TypeOK, Table
<1> QED BY NetInvariant, <1>1, PTL
=============================================================================
