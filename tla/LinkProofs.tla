----------------------------- MODULE LinkProofs -----------------------------
(***************************************************************************)
(* Theorems about the ethernet driver, for every size of a ring, every set  *)
(* of interfaces, stations and frames: what a ring takes for the router's   *)
(* own, that a frame sent alone is taken three times at most, and that its  *)
(* station is learnt where it is.                                           *)
(***************************************************************************)
EXTENDS Link, TLAPS, SequenceTheorems

Sent == Frames \cup Own

----------------------------------------------------------------------------
\* Counting around a ring.

LEMMA ModUnique ==
    ASSUME NEW M \in Nat \ {0}, NEW q \in Int, NEW r \in 0..(M - 1), NEW a \in Int,
           a = M * q + r
    PROVE  a % M = r
OBVIOUS

Back(x, k) == IF k <= x THEN x - k ELSE x - k + RSB_SIZE

LEMMA ModIsBack ==
    ASSUME NEW x \in Slots, NEW k \in Slots
    PROVE  (x - k) % RSB_SIZE = Back(x, k) /\ Back(x, k) \in Slots
<1>1. RSB_SIZE \in Nat \ {0, 1} /\ x - k \in Int
  BY LinkAssumption DEF Slots
<1>2. CASE k <= x
  <2>1. x - k \in 0..(RSB_SIZE - 1) /\ x - k = RSB_SIZE * 0 + (x - k)
    BY <1>1, <1>2 DEF Slots
  <2>2. (x - k) % RSB_SIZE = x - k
    BY <1>1, <2>1, ModUnique
  <2> QED BY <1>2, <2>1, <2>2 DEF Back, Slots
<1>3. CASE k > x
  <2>1. /\ x - k + RSB_SIZE \in 0..(RSB_SIZE - 1)
        /\ x - k = RSB_SIZE * (-1) + (x - k + RSB_SIZE)
    BY <1>1, <1>3 DEF Slots
  <2>2. (x - k) % RSB_SIZE = x - k + RSB_SIZE
    <3>1. -1 \in Int
      OBVIOUS
    <3> QED BY <1>1, <2>1, <3>1, ModUnique
  <2>3. ~(k <= x)
    BY <1>3 DEF Slots
  <2> QED BY <2>1, <2>2, <2>3 DEF Back, Slots
<1>4. k <= x \/ k > x
  BY DEF Slots
<1> QED BY <1>2, <1>3, <1>4

LEMMA AfterIs ==
    ASSUME NEW x \in Slots
    PROVE  After(x) = (IF x = RSB_SIZE - 1 THEN 0 ELSE x + 1) /\ After(x) \in Slots
<1>1. RSB_SIZE \in Nat \ {0, 1} /\ x + 1 \in Int
  BY LinkAssumption DEF Slots
<1>2. CASE x = RSB_SIZE - 1
  <2>1. 0 \in 0..(RSB_SIZE - 1) /\ x + 1 = RSB_SIZE * 1 + 0 /\ 1 \in Int
    BY <1>1, <1>2
  <2>2. (x + 1) % RSB_SIZE = 0
    BY <1>1, <2>1, ModUnique
  <2> QED BY <1>1, <1>2, <2>2 DEF After, Slots
<1>3. CASE x # RSB_SIZE - 1
  <2>1. x + 1 \in 0..(RSB_SIZE - 1) /\ x + 1 = RSB_SIZE * 0 + (x + 1) /\ 0 \in Int
    BY <1>1, <1>3 DEF Slots
  <2>2. (x + 1) % RSB_SIZE = x + 1
    BY <1>1, <2>1, ModUnique
  <2> QED BY <1>1, <1>3, <2>1, <2>2 DEF After, Slots
<1> QED BY <1>2, <1>3

----------------------------------------------------------------------------
\* The inductive invariant: where in a ring the frames of a log are.

RingType(ring) ==
    /\ ring.packets \in [Slots -> Sent \cup {NeverFilled}]
    /\ ring.head \in Slots /\ ring.tail \in Slots

\* Until it is full, a ring has the log in the slots from the second on, and
\* its first slot was never filled.
Filling(ring, l) ==
    /\ Len(l) < RSB_SIZE /\ ring.head = Len(l) /\ ring.tail = 0
    /\ \A x \in Slots : ring.packets[x] = IF x \in 1..Len(l) THEN l[x] ELSE NeverFilled

\* From then on, the log ends at the head and goes once around.
Full(ring, l) ==
    /\ Len(l) = RSB_SIZE /\ ring.tail = After(ring.head)
    /\ \A k \in Slots : ring.packets[Back(ring.head, k)] = l[RSB_SIZE - k]

RingInv(ring, l) ==
    /\ l \in Seq(Sent) /\ RingType(ring)
    /\ Filling(ring, l) \/ Full(ring, l)

LinkInv ==
    /\ rings \in [Ifaces -> [packets : [Slots -> Sent \cup {NeverFilled}],
                             head : Slots, tail : Slots]]
    /\ log \in [Ifaces -> Seq(Sent)] /\ captured \in [Ifaces -> Seq(Sent)]
    /\ unsent \subseteq Frames
    /\ \A i \in Ifaces : RingInv(rings[i], log[i])

LEMMA WindowWhenFilling ==
    ASSUME NEW ring, NEW l, RingInv(ring, l), Filling(ring, l)
    PROVE  Window(ring) = {x \in Slots : x < Len(l)}
<1>1. /\ RSB_SIZE \in Nat /\ 0 \in Slots /\ Len(l) \in Slots
      /\ ring.tail = 0 /\ ring.head = Len(l)
  BY LinkAssumption, LenProperties DEF RingInv, Filling, Slots
<1>2. ASSUME NEW x \in Slots PROVE (x - ring.tail) % RSB_SIZE = x
  BY <1>1, ModIsBack DEF Back, Slots
<1> QED BY <1>1, <1>2 DEF Window, RingInv, RingType

LEMMA WindowWhenFull ==
    ASSUME NEW ring, NEW l, RingInv(ring, l), Full(ring, l)
    PROVE  Window(ring) = Slots \ {ring.head}
<1>1. /\ RSB_SIZE \in Nat \ {0, 1} /\ ring.head \in Slots /\ ring.tail \in Slots
      /\ ring.tail = IF ring.head = RSB_SIZE - 1 THEN 0 ELSE ring.head + 1
  BY LinkAssumption, AfterIs DEF RingInv, RingType, Full
<1>2. (ring.head - ring.tail) % RSB_SIZE = RSB_SIZE - 1
  BY <1>1, ModIsBack DEF Back, Slots
<1>3. ASSUME NEW x \in Slots
      PROVE  (x - ring.tail) % RSB_SIZE < RSB_SIZE - 1 <=> x # ring.head
  BY <1>1, ModIsBack DEF Back, Slots
<1> QED BY <1>2, <1>3 DEF Window

\* What the invariant means for rsb_check.
LEMMA RingMeans ==
    ASSUME NEW ring, NEW l, RingInv(ring, l), NEW f \in Sent
    PROVE  RsbCheck(ring, f) <=>
                \/ 0 < Len(l) /\ Len(l) < RSB_SIZE
                \/ \E k \in 1..(RSB_SIZE - 1) : k < Len(l) /\ l[Len(l) - k] = f
<1>1. RSB_SIZE \in Nat \ {0, 1} /\ Len(l) \in Nat /\ NeverFilled \notin Sent
  BY LinkAssumption, LenProperties DEF RingInv, Sent
<1>2. CASE Filling(ring, l)
  <2>1. Window(ring) = {x \in Slots : x < Len(l)}
    BY <1>2, WindowWhenFilling
  <2>2. CASE Len(l) = 0
    BY <1>1, <2>1, <2>2 DEF RsbCheck, Slots
  <2>3. CASE Len(l) # 0
    <3>1. 0 \in Window(ring) /\ ring.packets[0] = NeverFilled
      BY <1>1, <1>2, <2>1, <2>3 DEF Filling, Slots
    <3> QED BY <1>1, <1>2, <2>3, <3>1 DEF RsbCheck, Filling
  <2> QED BY <2>2, <2>3
<1>3. CASE Full(ring, l)
  <2>1. /\ Window(ring) = Slots \ {ring.head} /\ ring.head \in Slots
        /\ Len(l) = RSB_SIZE
    BY <1>3, WindowWhenFull DEF RingInv, RingType, Full
  <2>2. ASSUME NEW x \in Window(ring)
        PROVE  \E k \in 1..(RSB_SIZE - 1) : x = Back(ring.head, k)
    <3> DEFINE k == Back(ring.head, x)
    <3>1. k \in 1..(RSB_SIZE - 1) /\ x = Back(ring.head, k)
      BY <1>1, <2>1 DEF Back, Slots
    <3> QED BY <3>1
  <2>3. ASSUME NEW k \in 1..(RSB_SIZE - 1)
        PROVE  /\ Back(ring.head, k) \in Window(ring)
               /\ ring.packets[Back(ring.head, k)] = l[RSB_SIZE - k]
               /\ l[RSB_SIZE - k] \in Sent
    <3>1. k \in Slots /\ Back(ring.head, k) \in Slots \ {ring.head}
      BY <1>1, <2>1 DEF Back, Slots
    <3>2. l[RSB_SIZE - k] \in Sent
      <4>1. RSB_SIZE - k \in 1..Len(l)
        BY <1>1, <2>1
      <4> QED BY <4>1, ElementOfSeq DEF RingInv
    <3> QED BY <1>3, <2>1, <3>1, <3>2 DEF Full
  <2>4. RsbCheck(ring, f) <=> \E k \in 1..(RSB_SIZE - 1) : l[RSB_SIZE - k] = f
    BY <1>1, <2>2, <2>3 DEF RsbCheck
  <2> QED BY <1>1, <2>1, <2>4
<1> QED BY <1>2, <1>3 DEF RingInv

----------------------------------------------------------------------------
\* rsb_insert.

LEMMA InsertedType ==
    ASSUME NEW ring, RingType(ring), NEW f \in Sent
    PROVE  /\ RsbInsert(ring, f) \in [packets : [Slots -> Sent \cup {NeverFilled}],
                                      head : Slots, tail : Slots]
           /\ RsbInsert(ring, f).head = After(ring.head)
           /\ RsbInsert(ring, f).tail =
                IF ring.tail = After(ring.head) THEN After(After(ring.head)) ELSE ring.tail
           /\ \A x \in Slots : RsbInsert(ring, f).packets[x] =
                IF x = After(ring.head) THEN f ELSE ring.packets[x]
<1>1. After(ring.head) \in Slots /\ After(After(ring.head)) \in Slots
  BY AfterIs DEF RingType
<1> QED BY <1>1 DEF RingType, RsbInsert

LEMMA RingKept ==
    ASSUME NEW ring, NEW l, RingInv(ring, l), NEW f \in Sent
    PROVE  RingInv(RsbInsert(ring, f), Append(Recent(l), f))
<1> DEFINE r == RsbInsert(ring, f)
           m == Append(Recent(l), f)
           N == RSB_SIZE
<1>1. /\ N \in Nat \ {0, 1} /\ l \in Seq(Sent) /\ Len(l) \in Nat
      /\ ring.head \in Slots /\ ring.tail \in Slots
  BY LinkAssumption, LenProperties DEF RingInv, RingType
<1>2. /\ RingType(r) /\ r.head = After(ring.head)
      /\ r.tail = IF ring.tail = r.head THEN After(r.head) ELSE ring.tail
      /\ \A x \in Slots : r.packets[x] = IF x = r.head THEN f ELSE ring.packets[x]
  BY InsertedType DEF RingInv, RingType
<1>3. After(ring.head) = IF ring.head = N - 1 THEN 0 ELSE ring.head + 1
  BY <1>1, AfterIs
<1> HIDE DEF r
<1>4. CASE Filling(ring, l)
  <2>1. m = Append(l, f)
    BY <1>4 DEF Filling, Recent
  <2>2. /\ m \in Seq(Sent) /\ Len(m) = Len(l) + 1 /\ m[Len(l) + 1] = f
        /\ \A x \in 1..Len(l) : m[x] = l[x]
    BY <1>1, <2>1, AppendProperties
  <2> HIDE DEF m
  <2>3. /\ ring.head = Len(l) /\ ring.tail = 0 /\ Len(l) < N
        /\ \A x \in Slots : ring.packets[x] = IF x \in 1..Len(l) THEN l[x] ELSE NeverFilled
    BY <1>4 DEF Filling
  <2>4. CASE Len(l) + 1 < N
    <3>1. r.head = Len(m) /\ r.tail = 0
      BY <1>1, <1>2, <1>3, <2>2, <2>3, <2>4
    <3>2. ASSUME NEW x \in Slots
          PROVE  r.packets[x] = IF x \in 1..Len(m) THEN m[x] ELSE NeverFilled
      <4>1. CASE x = Len(l) + 1
        BY <1>1, <1>2, <2>2, <3>1, <4>1
      <4>2. CASE x # Len(l) + 1
        <5>1. r.packets[x] = ring.packets[x]
          BY <1>2, <2>2, <3>1, <4>2
        <5>2. x \in 1..Len(m) <=> x \in 1..Len(l)
          BY <1>1, <2>2, <4>2 DEF Slots
        <5> QED BY <2>2, <2>3, <5>1, <5>2
      <4> QED BY <4>1, <4>2
    <3>3. Filling(r, m)
      BY <2>2, <2>4, <3>1, <3>2 DEF Filling
    <3> QED BY <1>2, <2>2, <3>3 DEF RingInv, m, r
  <2>5. CASE Len(l) + 1 = N
    <3>1. r.head = 0 /\ r.tail = After(r.head) /\ Len(m) = N
      BY <1>1, <1>2, <1>3, <2>2, <2>3, <2>5
    <3>2. ASSUME NEW k \in Slots PROVE r.packets[Back(r.head, k)] = m[N - k]
      <4>1. CASE k = 0
        BY <1>1, <1>2, <2>2, <2>5, <3>1, <4>1 DEF Back, Slots
      <4>2. CASE k # 0
        <5>1. Back(r.head, k) = N - k /\ N - k \in Slots /\ N - k \in 1..Len(l)
          BY <1>1, <2>5, <3>1, <4>2 DEF Back, Slots
        <5>2. N - k # r.head
          BY <1>1, <3>1, <4>2 DEF Slots
        <5>3. r.packets[N - k] = ring.packets[N - k]
          BY <1>2, <5>1, <5>2
        <5> QED BY <2>2, <2>3, <5>1, <5>3
      <4> QED BY <4>1, <4>2
    <3>3. Full(r, m)
      BY <3>1, <3>2 DEF Full
    <3> QED BY <1>2, <2>2, <3>3 DEF RingInv, m, r
  <2> QED BY <1>1, <2>3, <2>4, <2>5
<1>5. CASE Full(ring, l)
  <2>1. /\ Len(l) = N /\ ring.tail = After(ring.head)
        /\ \A k \in Slots : ring.packets[Back(ring.head, k)] = l[N - k]
    BY <1>5 DEF Full
  <2>2. m = Append(Tail(l), f)
    BY <1>1, <2>1 DEF Recent
  <2>3. /\ Tail(l) \in Seq(Sent) /\ Len(Tail(l)) = N - 1
        /\ \A x \in 1..(N - 1) : Tail(l)[x] = l[x + 1]
    BY <1>1, <2>1
  <2>4. /\ m \in Seq(Sent) /\ Len(m) = N /\ m[N] = f
        /\ \A x \in 1..(N - 1) : m[x] = l[x + 1]
    <3> HIDE DEF m
    <3>1. /\ m \in Seq(Sent) /\ Len(m) = Len(Tail(l)) + 1 /\ m[Len(Tail(l)) + 1] = f
          /\ \A x \in 1..Len(Tail(l)) : m[x] = Tail(l)[x]
      BY <2>2, <2>3, AppendProperties
    <3>2. Len(Tail(l)) + 1 = N
      BY <1>1, <2>3
    <3> QED BY <2>3, <3>1, <3>2
  <2> HIDE DEF m
  <2>5. r.tail = After(r.head) /\ r.head \in Slots
    BY <1>2, <2>1 DEF RingType
  <2>6. ASSUME NEW k \in Slots PROVE r.packets[Back(r.head, k)] = m[N - k]
    <3>1. CASE k = 0
      BY <1>1, <1>2, <2>4, <2>5, <3>1 DEF Back, Slots
    <3>2. CASE k # 0
      <4>1. /\ k - 1 \in Slots /\ Back(r.head, k) = Back(ring.head, k - 1)
            /\ Back(r.head, k) \in Slots /\ Back(r.head, k) # r.head
        BY <1>1, <1>2, <1>3, <2>5, <3>2 DEF Back, Slots
      <4>2. r.packets[Back(r.head, k)] = ring.packets[Back(ring.head, k - 1)]
        BY <1>2, <4>1
      <4>3. ring.packets[Back(ring.head, k - 1)] = l[N - (k - 1)]
        BY <2>1, <4>1
      <4>4. N - k \in 1..(N - 1) /\ N - (k - 1) = (N - k) + 1
        BY <1>1, <3>2 DEF Slots
      <4> QED BY <2>4, <4>2, <4>3, <4>4
    <3> QED BY <3>1, <3>2
  <2>7. Full(r, m)
    BY <2>4, <2>5, <2>6 DEF Full
  <2> QED BY <1>2, <2>4, <2>7 DEF RingInv, m, r
<1> QED BY <1>4, <1>5 DEF RingInv

----------------------------------------------------------------------------
\* The steps of the driver and of the stations.

LEMMA EmptyRingInv == RingInv(EmptyRing, <<>>) /\ EmptyRing.head \in Slots
<1>1. RSB_SIZE \in Nat \ {0, 1} /\ 0 \in Slots
  BY LinkAssumption DEF Slots
<1>2. RingType(EmptyRing)
  BY <1>1 DEF RingType, EmptyRing
<1>3. Filling(EmptyRing, <<>>)
  BY <1>1 DEF Filling, EmptyRing
<1> QED BY <1>2, <1>3, EmptySeq DEF RingInv, RingType

LEMMA InitRings == LinkInit => LinkInv
<1> SUFFICES ASSUME LinkInit PROVE LinkInv
  OBVIOUS
<1>1. EmptyRing \in [packets : [Slots -> Sent \cup {NeverFilled}], head : Slots, tail : Slots]
  BY EmptyRingInv DEF EmptyRing
<1>2. <<>> \in Seq(Sent)
  BY EmptySeq
<1>3. \A i \in Ifaces : RingInv(rings[i], log[i])
  BY EmptyRingInv DEF LinkInit
<1> QED BY <1>1, <1>2, <1>3 DEF LinkInit, LinkInv

\* What pcap holds once it has captured a frame.
LEMMA CaptureType ==
    ASSUME NEW S, NEW s \in Seq(S), NEW f \in S
    PROVE  /\ Capture(s, f) \in Seq(S)
           /\ Capture(s, f) = s \/ Capture(s, f) = Append(s, f)
BY AppendProperties DEF Capture

LEMMA InjectedRings ==
    ASSUME LinkInv, NEW f \in Sent, NEW D, NEW pending \in [Ifaces -> Seq(Sent)],
           Inject(f, D, pending), unsent' = unsent
    PROVE  LinkInv'
<1>1. ASSUME NEW i \in Ifaces
      PROVE  /\ RingInv(rings[i], log[i]) /\ RingType(rings[i]) /\ log[i] \in Seq(Sent)
             /\ rings[i] \in [packets : [Slots -> Sent \cup {NeverFilled}],
                              head : Slots, tail : Slots]
  BY DEF LinkInv, RingInv
<1>2. ASSUME NEW i \in Ifaces
      PROVE  /\ RingInv(rings'[i], log'[i]) /\ log'[i] \in Seq(Sent)
             /\ captured'[i] \in Seq(Sent)
             /\ rings'[i] \in [packets : [Slots -> Sent \cup {NeverFilled}],
                               head : Slots, tail : Slots]
  <2>1. CASE i \in D
    <3>1. /\ rings'[i] = RsbInsert(rings[i], f) /\ log'[i] = Append(Recent(log[i]), f)
          /\ captured'[i] = Capture(pending[i], f)
      BY <2>1 DEF Inject
    <3>2. RingInv(rings'[i], log'[i])
      BY <1>1, <3>1, RingKept
    <3>3. rings'[i] \in [packets : [Slots -> Sent \cup {NeverFilled}], head : Slots, tail : Slots]
      BY <1>1, <3>1, InsertedType
    <3>4. captured'[i] \in Seq(Sent)
      BY <3>1, CaptureType
    <3> QED BY <3>2, <3>3, <3>4 DEF RingInv
  <2>2. CASE i \notin D
    <3>1. rings'[i] = rings[i] /\ log'[i] = log[i] /\ captured'[i] = pending[i]
      BY <2>2 DEF Inject
    <3> QED BY <1>1, <3>1
  <2> QED BY <2>1, <2>2
<1>3. /\ rings' = [i \in Ifaces |-> rings'[i]] /\ log' = [i \in Ifaces |-> log'[i]]
      /\ captured' = [i \in Ifaces |-> captured'[i]]
  BY DEF Inject
<1>4. unsent' \subseteq Frames
  BY DEF LinkInv
<1>5. rings' \in [Ifaces -> [packets : [Slots -> Sent \cup {NeverFilled}],
                             head : Slots, tail : Slots]]
  BY <1>2, <1>3
<1>6. log' \in [Ifaces -> Seq(Sent)] /\ captured' \in [Ifaces -> Seq(Sent)]
  BY <1>2, <1>3
<1> QED BY <1>2, <1>4, <1>5, <1>6 DEF LinkInv

LEMMA ReceivedRings ==
    ASSUME LinkInv, NEW i \in Ifaces, Receive(i)
    PROVE  LinkInv'
<1> DEFINE f == Head(captured[i])
           pending == [captured EXCEPT ![i] = Tail(@)]
<1>1. captured \in [Ifaces -> Seq(Sent)] /\ captured[i] \in Seq(Sent) /\ captured[i] # <<>>
  BY DEF LinkInv, Receive
<1>2. f \in Sent /\ Tail(captured[i]) \in Seq(Sent)
  BY <1>1, HeadTailProperties
<1>3. pending \in [Ifaces -> Seq(Sent)]
  BY <1>1, <1>2
<1>4. unsent' = unsent
  BY DEF Receive
<1>5. CASE RsbCheck(rings[i], f)
  <2>1. captured' = pending /\ rings' = rings /\ log' = log
    BY <1>5 DEF Receive
  <2> HIDE DEF pending
  <2> QED BY <1>3, <1>4, <2>1 DEF LinkInv
<1>6. CASE ~RsbCheck(rings[i], f)
  <2>1. Inject(f, Outgoing(i, DestIface(f)), pending)
    BY <1>6 DEF Receive
  <2> HIDE DEF pending, f
  <2> QED BY <1>2, <1>3, <1>4, <2>1, InjectedRings
<1> QED BY <1>5, <1>6

LEMMA LinkStep == ASSUME LinkInv, [LinkNext]_linkVars PROVE LinkInv'
<1>1. CASE StationSends
  <2>1. PICK f \in unsent :
            /\ captured' = [captured EXCEPT ![Home[f.src]] = Capture(@, f)]
            /\ unsent' = unsent \ {f} /\ rings' = rings /\ log' = log
    BY <1>1 DEF StationSends
  <2>2. f \in Sent /\ Home[f.src] \in Ifaces
    BY LinkAssumption DEF LinkInv, Sent
  <2>3. captured' \in [Ifaces -> Seq(Sent)]
    <3>1. Capture(captured[Home[f.src]], f) \in Seq(Sent)
      BY <2>2, CaptureType DEF LinkInv
    <3> QED BY <2>1, <2>2, <3>1 DEF LinkInv
  <2> QED BY <2>1, <2>3 DEF LinkInv
<1>2. CASE SendOwn
  <2>1. PICK f \in Own : Inject(f, Ifaces, captured)
    BY <1>2 DEF SendOwn
  <2>2. unsent' = unsent /\ f \in Sent /\ captured \in [Ifaces -> Seq(Sent)]
    BY <1>2 DEF SendOwn, Sent, LinkInv
  <2> QED BY <2>1, <2>2, InjectedRings
<1>3. CASE \E i \in Ifaces : Receive(i)
  BY <1>3, ReceivedRings
<1>4. CASE UNCHANGED linkVars
  <2>1. rings' = rings /\ log' = log /\ captured' = captured /\ unsent' = unsent
    BY <1>4 DEF linkVars
  <2> QED BY <2>1 DEF LinkInv
<1> QED BY <1>1, <1>2, <1>3, <1>4 DEF LinkNext

LEMMA LinkInvariant == LinkSpec => []LinkInv
<1> QED BY InitRings, LinkStep, PTL DEF LinkSpec

\* A ring takes for the router's own exactly the frames sent before the newest,
\* back to the RSB_SIZE-th, and every frame from the first one sent until it is
\* full (hal_ethernet.c:36-66).
THEOREM RingsRemember == LinkSpec => []RingRemembers
<1>1. LinkInv => RingRemembers
  <2> SUFFICES ASSUME LinkInv PROVE RingRemembers
    OBVIOUS
  <2>1. \A i \in Ifaces : RingInv(rings[i], log[i])
    BY DEF LinkInv
  <2> QED BY <2>1, RingMeans DEF RingRemembers, Sent
<1> QED BY <1>1, LinkInvariant, PTL

----------------------------------------------------------------------------
\* What a log has at its end once a frame is sent.

Newest(l, f) == Len(l) > 0 /\ l[Len(l)] = f

\* The ring recognises f, however many frames were sent.
Twice(l, f) == Len(l) > 1 /\ l[Len(l)] = f /\ l[Len(l) - 1] = f

NotIn(l, f) == \A x \in 1..Len(l) : l[x] # f

\* The ring is full and f is the frame it does not look at.
OnlyNewest(l, f) ==
    /\ Len(l) = RSB_SIZE /\ l[RSB_SIZE] = f
    /\ \A x \in 1..(RSB_SIZE - 1) : l[x] # f

LEMMA Logged ==
    ASSUME NEW l \in Seq(Sent), Len(l) <= RSB_SIZE, NEW f \in Sent
    PROVE  LET m == Append(Recent(l), f)
           IN  /\ m \in Seq(Sent)
               /\ Len(m) = IF Len(l) < RSB_SIZE THEN Len(l) + 1 ELSE RSB_SIZE
               /\ m[Len(m)] = f
               /\ Len(l) > 0 => Len(m) > 1 /\ m[Len(m) - 1] = l[Len(l)]
               /\ \A x \in 1..(Len(m) - 1) : \E y \in 1..Len(l) : m[x] = l[y]
<1> DEFINE m == Append(Recent(l), f)
           N == RSB_SIZE
<1>1. N \in Nat \ {0, 1} /\ Len(l) \in Nat
  BY LinkAssumption, LenProperties
<1>2. CASE Len(l) < N
  <2>1. m = Append(l, f)
    BY <1>2 DEF Recent
  <2>2. /\ m \in Seq(Sent) /\ Len(m) = Len(l) + 1 /\ m[Len(l) + 1] = f
        /\ \A x \in 1..Len(l) : m[x] = l[x]
    BY <2>1, AppendProperties
  <2> HIDE DEF m
  <2>3. ASSUME NEW x \in 1..(Len(m) - 1) PROVE x \in 1..Len(l) /\ m[x] = l[x]
    BY <1>1, <2>2
  <2>4. Len(l) > 0 => Len(m) > 1 /\ m[Len(m) - 1] = l[Len(l)]
    BY <1>1, <2>2
  <2>5. m[Len(m)] = f
    BY <2>2
  <2> QED BY <1>2, <2>2, <2>3, <2>4, <2>5 DEF m
<1>3. CASE Len(l) = N
  <2>1. m = Append(Tail(l), f)
    BY <1>1, <1>3 DEF Recent
  <2>2. /\ Tail(l) \in Seq(Sent) /\ Len(Tail(l)) = N - 1
        /\ \A x \in 1..(N - 1) : Tail(l)[x] = l[x + 1]
    BY <1>1, <1>3
  <2> HIDE DEF m
  <2>3. /\ m \in Seq(Sent) /\ Len(m) = N /\ m[N] = f
        /\ \A x \in 1..(N - 1) : m[x] = l[x + 1]
    <3>1. /\ m \in Seq(Sent) /\ Len(m) = Len(Tail(l)) + 1 /\ m[Len(Tail(l)) + 1] = f
          /\ \A x \in 1..Len(Tail(l)) : m[x] = Tail(l)[x]
      BY <2>1, <2>2, AppendProperties
    <3>2. Len(Tail(l)) + 1 = N
      BY <1>1, <2>2
    <3> QED BY <2>2, <3>1, <3>2
  <2>4. ASSUME NEW x \in 1..(Len(m) - 1) PROVE x + 1 \in 1..Len(l) /\ m[x] = l[x + 1]
    BY <1>1, <1>3, <2>3
  <2>5. Len(m) > 1 /\ m[Len(m) - 1] = l[Len(l)]
    <3>1. N - 1 \in 1..(N - 1) /\ N - 1 + 1 = N
      BY <1>1
    <3> QED BY <1>1, <1>3, <2>3, <3>1
  <2> QED BY <1>1, <1>3, <2>3, <2>4, <2>5 DEF m
<1> QED BY <1>1, <1>2, <1>3

LEMMA NewestAgain ==
    ASSUME NEW l \in Seq(Sent), Len(l) <= RSB_SIZE, NEW f \in Sent
    PROVE  /\ Newest(Append(Recent(l), f), f)
           /\ Newest(l, f) => Twice(Append(Recent(l), f), f)
           /\ NotIn(l, f) /\ Len(l) = RSB_SIZE => OnlyNewest(Append(Recent(l), f), f)
<1> DEFINE m == Append(Recent(l), f)
<1>1. /\ m \in Seq(Sent)
      /\ Len(m) = IF Len(l) < RSB_SIZE THEN Len(l) + 1 ELSE RSB_SIZE
      /\ m[Len(m)] = f
      /\ Len(l) > 0 => Len(m) > 1 /\ m[Len(m) - 1] = l[Len(l)]
      /\ \A x \in 1..(Len(m) - 1) : \E y \in 1..Len(l) : m[x] = l[y]
  BY Logged
<1> HIDE DEF m
<1>2. RSB_SIZE \in Nat \ {0, 1} /\ Len(l) \in Nat
  BY LinkAssumption, LenProperties
<1>3. Newest(m, f)
  BY <1>1, <1>2 DEF Newest
<1>4. Newest(l, f) => Twice(m, f)
  BY <1>1 DEF Newest, Twice
<1>5. NotIn(l, f) /\ Len(l) = RSB_SIZE => OnlyNewest(m, f)
  BY <1>1, <1>2 DEF NotIn, OnlyNewest
<1> QED BY <1>3, <1>4, <1>5 DEF m

\* When the ring takes f for the router's own.
LEMMA Recognised ==
    ASSUME NEW ring, NEW l, RingInv(ring, l), NEW f \in Sent
    PROVE  /\ Len(l) <= RSB_SIZE
           /\ Twice(l, f) => RsbCheck(ring, f)
           /\ OnlyNewest(l, f) => ~RsbCheck(ring, f)
           /\ NotIn(l, f) /\ Len(l) > 0 /\ ~RsbCheck(ring, f) => Len(l) = RSB_SIZE
<1>1. RSB_SIZE \in Nat \ {0, 1} /\ Len(l) \in Nat
  BY LinkAssumption, LenProperties DEF RingInv
<1>2. Len(l) <= RSB_SIZE
  BY <1>1 DEF RingInv, Filling, Full
<1>3. RsbCheck(ring, f) <=>
        \/ 0 < Len(l) /\ Len(l) < RSB_SIZE
        \/ \E k \in 1..(RSB_SIZE - 1) : k < Len(l) /\ l[Len(l) - k] = f
  BY RingMeans
<1>4. ASSUME Twice(l, f) PROVE RsbCheck(ring, f)
  <2>1. 1 \in 1..(RSB_SIZE - 1) /\ 1 < Len(l) /\ l[Len(l) - 1] = f
    BY <1>1, <1>4 DEF Twice
  <2> QED BY <1>3, <2>1
<1>5. ASSUME OnlyNewest(l, f) PROVE ~RsbCheck(ring, f)
  <2>1. ASSUME NEW k \in 1..(RSB_SIZE - 1) PROVE l[Len(l) - k] # f
    BY <1>1, <1>5 DEF OnlyNewest
  <2> QED BY <1>1, <1>3, <1>5, <2>1 DEF OnlyNewest
<1>6. ASSUME NotIn(l, f), Len(l) > 0, ~RsbCheck(ring, f) PROVE Len(l) = RSB_SIZE
  BY <1>1, <1>2, <1>3, <1>6
<1> QED BY <1>2, <1>4, <1>5, <1>6

----------------------------------------------------------------------------
\* The ARP cache, where a station is named as its physical address.

\* An address has one entry, and it is the one of its station.
ArpInv(t) ==
    /\ t = [k \in Entries |-> t[k]]
    /\ \A k \in Live(t) : t[k].net_addr = t[k].phys_addr
    /\ \A k, l \in Live(t) : t[k].net_addr = t[l].net_addr => k = l

\* Stations other than those in X are on their own interfaces.
HomeBut(t, X) ==
    \A k \in Entries :
        t[k].phys_addr \in Macs \ X => t[k].iface = Home[t[k].phys_addr]

LEMMA Learns ==
    ASSUME NEW t, ArpInv(t), NEW i, NEW m
    PROVE  LET u == Insert(t, i, m, m)
           IN  /\ ArpInv(u)
               /\ \A X : HomeBut(t, X) /\ m \notin Macs \ X => HomeBut(u, X)
               /\ HomeBut(t, {m}) /\ m \in Macs /\ i = Home[m] => HomeBut(u, {})
<1> DEFINE u == Insert(t, i, m, m)
           s == FindSlot(t, m)
           e == [iface |-> i, net_addr |-> m, phys_addr |-> m]
<1>1. /\ u = [k \in Entries |-> u[k]]
      /\ \A k \in Entries : u[k] = IF k = s THEN e ELSE t[k]
  BY DEF ArpInv, Insert
<1>2. Mapping(t, m) # {} => s \in Mapping(t, m)
  BY DEF FindSlot
<1>3. e.iface = i /\ e.net_addr = m /\ e.phys_addr = m
  OBVIOUS
<1> HIDE DEF u, s, e
<1>4. ASSUME NEW k \in Live(t), t[k].net_addr = m PROVE k = s
  <2>1. k \in Mapping(t, m)
    BY <1>4 DEF Mapping
  <2>2. s \in Live(t) /\ t[s].net_addr = m
    BY <1>2, <2>1 DEF Mapping
  <2> QED BY <1>4, <2>2 DEF ArpInv
<1>5. ASSUME NEW k \in Live(u) PROVE k \in Entries /\ (k # s => k \in Live(t) /\ u[k] = t[k])
  BY <1>1 DEF Live
<1>6. ArpInv(u)
  <2>1. ASSUME NEW k \in Live(u) PROVE u[k].net_addr = u[k].phys_addr
    BY <1>1, <1>3, <1>5 DEF ArpInv
  <2>2. ASSUME NEW k \in Live(u), NEW l \in Live(u), u[k].net_addr = u[l].net_addr PROVE k = l
    <3>1. CASE k = s /\ l # s
      BY <1>1, <1>3, <1>4, <1>5, <2>2, <3>1
    <3>2. CASE k # s /\ l = s
      BY <1>1, <1>3, <1>4, <1>5, <2>2, <3>2
    <3>3. CASE k # s /\ l # s
      BY <1>5, <2>2, <3>3 DEF ArpInv
    <3> QED BY <3>1, <3>2, <3>3
  <2> QED BY <1>1, <2>1, <2>2 DEF ArpInv
<1>7. ASSUME NEW X, HomeBut(t, X), m \notin Macs \ X PROVE HomeBut(u, X)
  BY <1>1, <1>3, <1>7 DEF HomeBut
<1>8. ASSUME HomeBut(t, {m}), m \in Macs, i = Home[m] PROVE HomeBut(u, {})
  <2>1. ASSUME NEW k \in Entries, u[k].phys_addr \in Macs PROVE u[k].iface = Home[u[k].phys_addr]
    <3>1. CASE k = s
      BY <1>1, <1>3, <1>8, <3>1
    <3>2. CASE k # s
      <4>1. u[k] = t[k]
        BY <1>1, <3>2
      <4>2. t[k] # NoEntry
        BY <2>1, <4>1, ArpAssumption DEF NoEntry
      <4>3. k \in Live(t) /\ t[k].net_addr = t[k].phys_addr
        BY <4>2 DEF Live, ArpInv
      <4>4. t[k].phys_addr # m
        BY <1>4, <3>2, <4>3
      <4> QED BY <1>8, <2>1, <4>1, <4>4 DEF HomeBut
    <3> QED BY <3>1, <3>2
  <2> QED BY <2>1 DEF HomeBut
<1> QED BY <1>6, <1>7, <1>8 DEF u

----------------------------------------------------------------------------
\* The life of a frame that a station, or the router, sends when nothing else is
\* under way; its home is the interface of its station.

AtHome == HomeBut(arptab, {})

\* All that pcap holds is f.
Only(f) == \A i \in Ifaces : captured[i] \in Seq({f})

\* f was taken n times at most, and no other frame too often.
Taken(f, n) == \A g \in Frames : taken[g] <= IF g = f THEN n ELSE MaxTaken

\* Nothing is under way.
AtRest == Quiet /\ AtHome /\ \A g \in Frames : taken[g] <= MaxTaken

\* f is the router's own: it teaches the router nothing about a station.
Mute(f) == f \in Own /\ Only(f) /\ AtHome /\ Taken(f, MaxTaken)

\* The router has not taken f yet.
Fresh(f, h) ==
    /\ captured[h] = <<f>> /\ NotIn(log[h], f) /\ AtHome /\ Taken(f, 0)
    /\ \A i \in Ifaces \ {h} : captured[i] = <<>>

\* It was sent on to the one interface where its receiver was learnt.
Passed(f) ==
    /\ ~Stacked(f) /\ DestIface(f) # EveryIface /\ AtHome /\ Taken(f, 1)
    /\ \A i \in Ifaces : /\ captured[i] \in {<<>>, <<f>>}
                         /\ i # DestIface(f) => captured[i] = <<>>

\* f goes to all interfaces; the router learns from it if it is a broadcast.
Flooded(f) == f.dst = BcastMac \/ (~Stacked(f) /\ DestIface(f) = EveryIface)

Strays(f) == IF Stacked(f) THEN {f.src} ELSE {}

\* It was sent on once, and may be taken again where it was sent to.
SentOn(f, h) ==
    /\ Flooded(f) /\ Taken(f, 1) /\ AtHome
    /\ captured[h] = <<>> /\ NotIn(log[h], f) /\ Len(log[h]) = RSB_SIZE
    /\ \A i \in Ifaces \ {h} : captured[i] \in {<<>>, <<f>>} /\ Newest(log[i], f)

\* It was taken again from j, and learnt there; the copy that went home will be
\* taken, no other.
Astray(f, h, j) ==
    /\ Flooded(f) /\ Taken(f, 2) /\ HomeBut(arptab, Strays(f))
    /\ captured[h] = <<f>> /\ OnlyNewest(log[h], f)
    /\ captured[j] = <<>> /\ Newest(log[j], f)
    /\ \A i \in Ifaces \ {h, j} : captured[i] \in Seq({f}) /\ Twice(log[i], f)

\* The copy from home was taken: all that is left is dropped.
DyingOut(f, h) ==
    /\ Flooded(f) /\ Taken(f, MaxTaken) /\ AtHome
    /\ captured[h] = <<>>
    /\ \A i \in Ifaces \ {h} : captured[i] \in Seq({f}) /\ Twice(log[i], f)

Journey(f, h) ==
    \/ Fresh(f, h) \/ Passed(f) \/ SentOn(f, h) \/ DyingOut(f, h)
    \/ \E j \in Ifaces \ {h} : Astray(f, h, j)

Alone(f) == Mute(f) \/ (f \in Frames /\ Journey(f, Home[f.src]))

\* What no station sent yet was never captured nor sent on; all interfaces sent
\* something once the router did.
LogInv ==
    /\ own \in Nat /\ (own > 0 => \A i \in Ifaces : Len(log[i]) > 0)
    /\ taken \in [Frames -> Nat]
    /\ \A f \in unsent : /\ taken[f] = 0
                         /\ \A i \in Ifaces : NotIn(log[i], f) /\ NotIn(captured[i], f)

LearntInv ==
    /\ LogInv /\ ArpInv(arptab)
    /\ ~mixed => AtRest \/ \E f \in Sent : Alone(f)

\* A step of the driver, interface by interface.
LEMMA Received ==
    ASSUME LinkInv, NEW i \in Ifaces, Receive(i), NEW f, f = Head(captured[i])
    PROVE  /\ own > 0 /\ captured[i] # <<>>
           /\ unsent' = unsent /\ own' = own /\ mixed' = mixed
           /\ \/ /\ RsbCheck(rings[i], f) /\ arptab' = arptab /\ taken' = taken
                 /\ \A j \in Ifaces :
                        /\ log'[j] = log[j]
                        /\ captured'[j] = IF j = i THEN Tail(captured[j]) ELSE captured[j]
              \/ /\ ~RsbCheck(rings[i], f)
                 /\ arptab' = IF Stacked(f) THEN Insert(arptab, i, f.src, f.src) ELSE arptab
                 /\ taken' = [g \in Frames |-> IF g = f THEN OnceMore(taken[g]) ELSE taken[g]]
                 /\ \A j \in Ifaces :
                    LET held == IF j = i THEN Tail(captured[j]) ELSE captured[j]
                    IN  IF j \in Outgoing(i, DestIface(f))
                        THEN log'[j] = Append(Recent(log[j]), f) /\ captured'[j] = Capture(held, f)
                        ELSE log'[j] = log[j] /\ captured'[j] = held
<1> DEFINE pending == [captured EXCEPT ![i] = Tail(@)]
<1>1. \A j \in Ifaces : pending[j] = IF j = i THEN Tail(captured[j]) ELSE captured[j]
  BY DEF LinkInv
<1>2. /\ own > 0 /\ captured[i] # <<>>
      /\ unsent' = unsent /\ own' = own /\ mixed' = mixed
  BY DEF Receive
<1>3. CASE RsbCheck(rings[i], f)
  <2>1. captured' = pending /\ log' = log /\ arptab' = arptab /\ taken' = taken
    BY <1>3 DEF Receive
  <2> HIDE DEF pending
  <2> QED BY <1>1, <1>2, <1>3, <2>1
<1>4. CASE ~RsbCheck(rings[i], f)
  <2>1. /\ Inject(f, Outgoing(i, DestIface(f)), pending)
        /\ arptab' = IF Stacked(f) THEN Insert(arptab, i, f.src, f.src) ELSE arptab
        /\ taken' = [g \in Frames |-> IF g = f THEN OnceMore(taken[g]) ELSE taken[g]]
    BY <1>4 DEF Receive
  <2> HIDE DEF pending
  <2> QED BY <1>1, <1>2, <1>4, <2>1 DEF Inject
<1> QED BY <1>3, <1>4

LEMMA FloodGoes ==
    ASSUME NEW f, Flooded(f), NEW i \in Ifaces
    PROVE  Outgoing(i, DestIface(f)) = Ifaces \ {i}
<1>1. DestIface(f) = EveryIface
  BY LinkAssumption DEF DestIface, Flooded
<1> QED BY <1>1 DEF Outgoing

LEMMA RouterKeeps ==
    ASSUME NEW f, f.dst = RouterMac, NEW i \in Ifaces
    PROVE  Outgoing(i, DestIface(f)) = {}
<1>1. DestIface(f) = IFACE_INTERNAL
  BY LinkAssumption DEF DestIface
<1> QED BY <1>1 DEF Outgoing, IFACE_INTERNAL, EveryIface

\* What is not the stations' own keeps out of the way of the rest.
LEMMA SentIs ==
    ASSUME NEW f \in Sent
    PROVE  /\ f \in Own => f \notin Frames /\ f.src \notin Macs /\ f.dst = BcastMac
           /\ f \in Frames => f.src \in Macs /\ Home[f.src] \in Ifaces
BY LinkAssumption DEF Sent

LEMMA OnlyOne ==
    ASSUME NEW f
    PROVE  /\ \A s \in Seq({f}) : s # <<>> => Head(s) = f /\ Tail(s) \in Seq({f})
           /\ \A s \in Seq({f}) : Capture(s, f) \in Seq({f})
           /\ <<>> \in Seq({f}) /\ <<f>> \in Seq({f})
           /\ <<f>> # <<>> /\ Head(<<f>>) = f /\ Tail(<<f>>) = <<>> /\ Capture(<<>>, f) = <<f>>
<1>1. ASSUME NEW s \in Seq({f}), s # <<>> PROVE Head(s) = f /\ Tail(s) \in Seq({f})
  BY <1>1, HeadTailProperties
<1>2. ASSUME NEW s \in Seq({f}) PROVE Capture(s, f) \in Seq({f})
  BY CaptureType
<1>3. Capture(<<>>, f) = <<f>>
  BY LinkAssumption DEF Capture
<1> QED BY <1>1, <1>2, <1>3

\* How often a frame was taken, after a step.
LEMMA TakenMore ==
    ASSUME NEW f, taken \in [Frames -> Nat],
           taken' = [g \in Frames |-> IF g = f THEN OnceMore(taken[g]) ELSE taken[g]]
    PROVE  /\ taken' \in [Frames -> Nat]
           /\ Taken(f, 0) => Taken(f, 1)'
           /\ Taken(f, 1) => Taken(f, 2)'
           /\ Taken(f, 2) => Taken(f, MaxTaken)'
           /\ Taken(f, MaxTaken) /\ f \notin Frames => Taken(f, MaxTaken)'
BY DEF Taken, OnceMore, MaxTaken

LEMMA TakenFew ==
    ASSUME NEW f, taken \in [Frames -> Nat], NEW n \in 0..MaxTaken, Taken(f, n)
    PROVE  \A g \in Frames : taken[g] <= MaxTaken
BY DEF Taken, MaxTaken

\* What f teaches the router on interface i, where t is its table.
LEMMA Taught ==
    ASSUME NEW t, ArpInv(t), NEW f \in Frames, NEW i, NEW u,
           u = IF Stacked(f) THEN Insert(t, i, f.src, f.src) ELSE t
    PROVE  /\ HomeBut(t, {}) => HomeBut(u, Strays(f))
           /\ HomeBut(t, Strays(f)) /\ i = Home[f.src] => HomeBut(u, {})
           /\ HomeBut(t, {}) /\ i = Home[f.src] => HomeBut(u, {})
<1>1. f.src \in Macs /\ (HomeBut(t, {}) => HomeBut(t, {f.src}))
  BY SentIs DEF Sent, HomeBut
<1> QED BY <1>1, Learns DEF Strays

LEMMA MuteStep ==
    ASSUME LinkInv, LearntInv, NEW i \in Ifaces, Receive(i), NEW f \in Sent, Mute(f)
    PROVE  Mute(f)'
<1>1. captured[i] \in Seq({f}) /\ captured[i] # <<>> /\ Head(captured[i]) = f
  BY OnlyOne DEF Mute, Only, Receive
<1>2. AtHome'
  <2>1. \/ arptab' = arptab
        \/ arptab' = Insert(arptab, i, f.src, f.src)
    BY <1>1, Received
  <2>2. HomeBut(Insert(arptab, i, f.src, f.src), {})
    BY Learns, SentIs DEF LearntInv, Mute, AtHome
  <2> QED BY <2>1, <2>2 DEF Mute, AtHome
<1>3. ASSUME NEW j \in Ifaces PROVE captured'[j] \in Seq({f})
  <2>1. /\ captured[j] \in Seq({f})
        /\ j = i => captured[j] # <<>>
    BY <1>1 DEF Mute, Only
  <2>2. (IF j = i THEN Tail(captured[j]) ELSE captured[j]) \in Seq({f})
    BY <2>1, OnlyOne
  <2>3. \/ captured'[j] = IF j = i THEN Tail(captured[j]) ELSE captured[j]
        \/ captured'[j] = Capture(IF j = i THEN Tail(captured[j]) ELSE captured[j], f)
    BY <1>1, Received
  <2> DEFINE held == IF j = i THEN Tail(captured[j]) ELSE captured[j]
  <2>4. held \in Seq({f}) /\ captured'[j] \in {held, Capture(held, f)}
    BY <2>2, <2>3
  <2> HIDE DEF held
  <2>5. Capture(held, f) \in Seq({f})
    BY <2>4, OnlyOne
  <2> QED BY <2>4, <2>5
<1>4. Taken(f, MaxTaken)'
  <2>1. \/ taken' = taken
        \/ taken' = [g \in Frames |-> IF g = f THEN OnceMore(taken[g]) ELSE taken[g]]
    BY <1>1, Received
  <2>2. f \notin Frames /\ taken \in [Frames -> Nat] /\ Taken(f, MaxTaken)
    BY SentIs DEF Mute, LearntInv, LogInv
  <2>3. CASE taken' = taken
    BY <2>2, <2>3 DEF Taken
  <2> QED BY <2>1, <2>2, <2>3, TakenMore
<1> QED BY <1>2, <1>3, <1>4 DEF Mute, Only

\* What a step does with a frame that goes everywhere.
LEMMA FloodStep ==
    ASSUME LinkInv, LearntInv, NEW i \in Ifaces, Receive(i), NEW f \in Sent,
           f = Head(captured[i]), Flooded(f)
    PROVE  /\ Flooded(f)'
           /\ \/ /\ RsbCheck(rings[i], f) /\ arptab' = arptab /\ taken' = taken
                 /\ \A j \in Ifaces : log'[j] = log[j]
                 /\ captured'[i] = Tail(captured[i])
                 /\ \A j \in Ifaces \ {i} : captured'[j] = captured[j]
              \/ /\ ~RsbCheck(rings[i], f)
                 /\ arptab' = IF Stacked(f) THEN Insert(arptab, i, f.src, f.src) ELSE arptab
                 /\ taken' = [g \in Frames |-> IF g = f THEN OnceMore(taken[g]) ELSE taken[g]]
                 /\ captured'[i] = Tail(captured[i]) /\ log'[i] = log[i]
                 /\ \A j \in Ifaces \ {i} :
                    /\ captured'[j] = Capture(captured[j], f)
                    /\ log'[j] = Append(Recent(log[j]), f)
                    /\ Newest(log'[j], f)
                    /\ Newest(log[j], f) => Twice(log'[j], f)
                    /\ NotIn(log[j], f) /\ Len(log[j]) = RSB_SIZE => OnlyNewest(log'[j], f)
<1>1. Outgoing(i, DestIface(f)) = Ifaces \ {i}
  BY FloodGoes
<1>2. Flooded(f)'
  <2>1. ~Stacked(f) => arptab' = arptab
    BY Received
  <2>2. f.dst # BcastMac => DestIface(f)' = DestIface(f)
    BY <2>1 DEF DestIface, Flooded
  <2> QED BY <2>2 DEF Flooded, Stacked
<1>3. CASE RsbCheck(rings[i], f)
  BY <1>2, <1>3, Received
<1>4. CASE ~RsbCheck(rings[i], f)
  <2>1. /\ arptab' = IF Stacked(f) THEN Insert(arptab, i, f.src, f.src) ELSE arptab
        /\ taken' = [g \in Frames |-> IF g = f THEN OnceMore(taken[g]) ELSE taken[g]]
        /\ captured'[i] = Tail(captured[i]) /\ log'[i] = log[i]
        /\ \A j \in Ifaces \ {i} :
              captured'[j] = Capture(captured[j], f) /\ log'[j] = Append(Recent(log[j]), f)
    BY <1>1, <1>4, Received
  <2>2. ASSUME NEW j \in Ifaces \ {i}
        PROVE  LET m == Append(Recent(log[j]), f)
               IN  /\ Newest(m, f)
                   /\ Newest(log[j], f) => Twice(m, f)
                   /\ NotIn(log[j], f) /\ Len(log[j]) = RSB_SIZE => OnlyNewest(m, f)
    <3>1. log[j] \in Seq(Sent) /\ RingInv(rings[j], log[j])
      BY DEF LinkInv
    <3>2. Len(log[j]) <= RSB_SIZE
      BY <3>1, Recognised
    <3> QED BY <3>1, <3>2, NewestAgain
  <2> QED BY <1>2, <1>4, <2>1, <2>2
<1> QED BY <1>3, <1>4

LEMMA FreshStep ==
    ASSUME LinkInv, LearntInv, NEW i \in Ifaces, Receive(i), NEW f \in Frames,
           NEW h \in Ifaces, h = Home[f.src], Fresh(f, h)
    PROVE  SentOn(f, h)' \/ Passed(f)' \/ AtRest'
<1>1. /\ i = h /\ captured[i] = <<f>> /\ NotIn(log[h], f) /\ AtHome /\ f \in Sent
      /\ \A j \in Ifaces \ {h} : captured[j] = <<>>
      /\ taken \in [Frames -> Nat] /\ Taken(f, 0)
  BY DEF Fresh, Receive, Sent, LearntInv, LogInv
<1>2. f = Head(captured[i]) /\ Tail(captured[i]) = <<>> /\ Capture(<<>>, f) = <<f>>
  BY <1>1, OnlyOne
<1>3. CASE RsbCheck(rings[i], f)
  <2>1. /\ arptab' = arptab /\ taken' = taken
        /\ \A j \in Ifaces : captured'[j] = <<>>
    BY <1>1, <1>2, <1>3, Received
  <2>2. \A g \in Frames : taken[g] <= MaxTaken
    BY <1>1, TakenFew DEF MaxTaken
  <2> QED BY <1>1, <2>1, <2>2 DEF AtRest, Quiet, AtHome
<1>4. CASE ~RsbCheck(rings[i], f)
  <2>0. /\ arptab' = IF Stacked(f) THEN Insert(arptab, i, f.src, f.src) ELSE arptab
        /\ taken' = [g \in Frames |-> IF g = f THEN OnceMore(taken[g]) ELSE taken[g]]
    BY <1>2, <1>4, Received
  <2>1. ASSUME NEW j \in Ifaces
        PROVE  /\ captured'[j] \in {<<>>, <<f>>}
               /\ j \notin Outgoing(i, DestIface(f)) => captured'[j] = <<>>
    <3> DEFINE held == IF j = i THEN Tail(captured[j]) ELSE captured[j]
    <3>1. held = <<>>
      BY <1>1, <1>2
    <3>2. captured'[j] = IF j \in Outgoing(i, DestIface(f)) THEN Capture(held, f) ELSE held
      BY <1>2, <1>4, Received
    <3> HIDE DEF held
    <3> QED BY <1>2, <3>1, <3>2
  <2>2. AtHome'
    <3>1. ArpInv(arptab) /\ HomeBut(arptab, {}) /\ i = Home[f.src]
      BY <1>1 DEF LearntInv, AtHome
    <3>2. HomeBut(arptab', {})
      BY <2>0, <3>1, Taught
    <3> QED BY <3>2 DEF AtHome
  <2>3. Taken(f, 1)' /\ \A g \in Frames : taken'[g] <= MaxTaken
    <3>1. Taken(f, 0) /\ taken \in [Frames -> Nat]
      BY <1>1
    <3>2. Taken(f, 1)' /\ taken' \in [Frames -> Nat]
      BY <2>0, <3>1, TakenMore
    <3> QED BY <3>2 DEF Taken, MaxTaken
  <2>4. CASE Flooded(f)
    <3>1. /\ Flooded(f)' /\ captured'[i] = <<>> /\ log'[i] = log[i]
          /\ \A j \in Ifaces \ {i} : Newest(log'[j], f)
      BY <1>1, <1>2, <1>4, <2>4, FloodStep
    <3>2. Len(log[h]) = RSB_SIZE
      <4>1. RingInv(rings[i], log[i]) /\ Len(log[i]) > 0
        BY <1>1, <1>2, Received DEF LinkInv, LearntInv, LogInv
      <4> QED BY <1>1, <1>4, <4>1, Recognised
    <3> QED BY <1>1, <2>1, <2>2, <2>3, <3>1, <3>2 DEF SentOn
  <2>5. CASE f.dst = RouterMac
    <3>1. \A j \in Ifaces : captured'[j] = <<>>
      BY <2>1, <2>5, RouterKeeps
    <3> QED BY <2>2, <2>3, <3>1 DEF AtRest, Quiet
  <2>6. CASE ~Stacked(f) /\ DestIface(f) # EveryIface
    <3>1. arptab' = arptab
      BY <2>0, <2>6
    <3>2. DestIface(f)' = DestIface(f)
      BY <3>1 DEF DestIface
    <3>3. \A j \in Ifaces : j # DestIface(f) => captured'[j] = <<>>
      BY <2>1, <2>6 DEF Outgoing
    <3> QED BY <2>1, <2>2, <2>3, <2>6, <3>2, <3>3 DEF Passed, Stacked
  <2> QED BY <2>4, <2>5, <2>6 DEF Flooded, Stacked
<1> QED BY <1>3, <1>4

LEMMA PassedStep ==
    ASSUME LinkInv, LearntInv, NEW i \in Ifaces, Receive(i), NEW f \in Frames, Passed(f)
    PROVE  AtRest'
<1>1. /\ i = DestIface(f) /\ captured[i] = <<f>> /\ ~Stacked(f) /\ i # EveryIface /\ AtHome
      /\ \A j \in Ifaces \ {i} : captured[j] = <<>>
      /\ taken \in [Frames -> Nat] /\ Taken(f, 1)
  BY DEF Passed, Receive, LearntInv, LogInv
<1>2. f = Head(captured[i]) /\ Tail(captured[i]) = <<>>
  BY <1>1, OnlyOne
<1>3. Outgoing(i, DestIface(f)) = {}
  BY <1>1 DEF Outgoing
<1>4. arptab' = arptab /\ \A j \in Ifaces : captured'[j] = <<>>
  <2>1. arptab' = arptab
    BY <1>1, <1>2, Received
  <2>2. ASSUME NEW j \in Ifaces PROVE captured'[j] = <<>>
    <3> DEFINE held == IF j = i THEN Tail(captured[j]) ELSE captured[j]
    <3>1. held = <<>>
      BY <1>1, <1>2
    <3>2. captured'[j] = held
      BY <1>2, <1>3, Received
    <3> QED BY <3>1, <3>2
  <2> QED BY <2>1, <2>2
<1>5. \A g \in Frames : taken'[g] <= MaxTaken
  <2>1. \/ taken' = taken
        \/ taken' = [g \in Frames |-> IF g = f THEN OnceMore(taken[g]) ELSE taken[g]]
    BY <1>2, Received
  <2>2. CASE taken' = taken
    BY <1>1, <2>2 DEF Taken, MaxTaken
  <2>3. CASE taken' = [g \in Frames |-> IF g = f THEN OnceMore(taken[g]) ELSE taken[g]]
    <3>1. Taken(f, 2)' /\ taken' \in [Frames -> Nat]
      BY <1>1, <2>3, TakenMore
    <3> QED BY <3>1 DEF Taken, MaxTaken
  <2> QED BY <2>1, <2>2, <2>3
<1> QED BY <1>1, <1>4, <1>5 DEF AtRest, Quiet, AtHome

LEMMA SentOnStep ==
    ASSUME LinkInv, LearntInv, NEW i \in Ifaces, Receive(i), NEW f \in Frames,
           NEW h \in Ifaces, SentOn(f, h)
    PROVE  SentOn(f, h)' \/ (i # h /\ Astray(f, h, i)')
<1>1. /\ Flooded(f) /\ Taken(f, 1) /\ AtHome /\ taken \in [Frames -> Nat]
      /\ captured[h] = <<>> /\ NotIn(log[h], f) /\ Len(log[h]) = RSB_SIZE
      /\ \A j \in Ifaces \ {h} : captured[j] \in {<<>>, <<f>>} /\ Newest(log[j], f)
  BY DEF SentOn, LearntInv, LogInv
<1>2. i # h /\ captured[i] = <<f>> /\ f \in Sent
  BY <1>1 DEF Receive, Sent
<1>3. /\ f = Head(captured[i]) /\ Tail(captured[i]) = <<>> /\ Capture(<<>>, f) = <<f>>
      /\ \A s \in {<<>>, <<f>>} : Capture(s, f) \in Seq({f})
  BY <1>2, OnlyOne
<1>4. Flooded(f)'
  BY <1>1, <1>2, <1>3, FloodStep
<1>5. CASE RsbCheck(rings[i], f)
  <2>1. /\ arptab' = arptab /\ captured'[i] = <<>> /\ taken' = taken
        /\ \A j \in Ifaces : log'[j] = log[j]
        /\ \A j \in Ifaces \ {i} : captured'[j] = captured[j]
    BY <1>1, <1>2, <1>3, <1>5, FloodStep
  <2>2. ASSUME NEW j \in Ifaces \ {h}
        PROVE  captured'[j] \in {<<>>, <<f>>} /\ Newest(log'[j], f)
    BY <1>1, <2>1
  <2>3. captured'[h] = <<>> /\ NotIn(log'[h], f) /\ Len(log'[h]) = RSB_SIZE
    BY <1>1, <1>2, <2>1
  <2>4. AtHome' /\ Taken(f, 1)'
    BY <1>1, <2>1 DEF AtHome, Taken
  <2> QED BY <1>4, <2>2, <2>3, <2>4 DEF SentOn
<1>6. CASE ~RsbCheck(rings[i], f)
  <2>1. /\ arptab' = IF Stacked(f) THEN Insert(arptab, i, f.src, f.src) ELSE arptab
        /\ taken' = [g \in Frames |-> IF g = f THEN OnceMore(taken[g]) ELSE taken[g]]
        /\ captured'[i] = <<>> /\ log'[i] = log[i]
        /\ \A j \in Ifaces \ {i} :
                    /\ captured'[j] = Capture(captured[j], f)
                    /\ Newest(log[j], f) => Twice(log'[j], f)
                    /\ NotIn(log[j], f) /\ Len(log[j]) = RSB_SIZE => OnlyNewest(log'[j], f)
    BY <1>1, <1>2, <1>3, <1>6, FloodStep
  <2>2. HomeBut(arptab', Strays(f))
    BY <1>1, <2>1, Taught DEF LearntInv, AtHome
  <2>3. captured'[h] = <<f>> /\ OnlyNewest(log'[h], f)
    BY <1>1, <1>2, <1>3, <2>1
  <2>4. ASSUME NEW k \in Ifaces \ {h, i}
        PROVE  captured'[k] \in Seq({f}) /\ Twice(log'[k], f)
    BY <1>1, <1>3, <2>1
  <2>5. captured'[i] = <<>> /\ Newest(log'[i], f)
    BY <1>1, <1>2, <2>1
  <2>6. Taken(f, 2)'
    BY <1>1, <2>1, TakenMore
  <2> QED BY <1>2, <1>4, <2>2, <2>3, <2>4, <2>5, <2>6 DEF Astray, Strays, Stacked
<1> QED BY <1>5, <1>6

LEMMA AstrayStep ==
    ASSUME LinkInv, LearntInv, NEW i \in Ifaces, Receive(i), NEW f \in Frames,
           NEW j \in Ifaces \ {Home[f.src]}, Astray(f, Home[f.src], j)
    PROVE  Astray(f, Home[f.src], j)' \/ DyingOut(f, Home[f.src])'
<1> DEFINE h == Home[f.src]
<1>0. f.src \in Macs /\ h \in Ifaces /\ h = Home[f.src] /\ f \in Sent
  BY SentIs DEF Sent
<1>1. /\ Flooded(f) /\ Taken(f, 2) /\ HomeBut(arptab, Strays(f)) /\ taken \in [Frames -> Nat]
      /\ captured[h] = <<f>> /\ OnlyNewest(log[h], f)
      /\ captured[j] = <<>> /\ Newest(log[j], f) /\ j # h
      /\ \A k \in Ifaces \ {h, j} : captured[k] \in Seq({f}) /\ Twice(log[k], f)
  BY DEF Astray, LearntInv, LogInv
<1> HIDE DEF h
<1>2. captured[i] \in Seq({f}) /\ captured[i] # <<>> /\ i # j
  BY <1>1, OnlyOne DEF Receive
<1>3. f = Head(captured[i]) /\ Tail(captured[i]) \in Seq({f})
  BY <1>2, OnlyOne
<1>4. RingInv(rings[i], log[i]) /\ Flooded(f)'
  BY <1>0, <1>1, <1>3, FloodStep DEF LinkInv
<1>5. CASE i # h
  <2>1. RsbCheck(rings[i], f)
    BY <1>0, <1>1, <1>2, <1>4, <1>5, Recognised
  <2>2. /\ arptab' = arptab /\ captured'[i] = Tail(captured[i]) /\ taken' = taken
        /\ \A k \in Ifaces : log'[k] = log[k]
        /\ \A k \in Ifaces \ {i} : captured'[k] = captured[k]
    BY <1>0, <1>1, <1>3, <2>1, FloodStep
  <2>3. ASSUME NEW k \in Ifaces \ {h, j} PROVE captured'[k] \in Seq({f}) /\ Twice(log'[k], f)
    BY <1>1, <1>3, <2>2
  <2>4. Taken(f, 2)' /\ HomeBut(arptab, Strays(f))'
    BY <1>1, <2>2 DEF Taken, Strays, Stacked
  <2>5. Astray(f, h, j)'
    BY <1>0, <1>1, <1>2, <1>4, <1>5, <2>2, <2>3, <2>4 DEF Astray
  <2> QED BY <2>5 DEF h
<1>6. CASE i = h
  <2>1. ~RsbCheck(rings[i], f)
    BY <1>0, <1>1, <1>4, <1>6, Recognised
  <2>2. /\ arptab' = IF Stacked(f) THEN Insert(arptab, i, f.src, f.src) ELSE arptab
        /\ taken' = [g \in Frames |-> IF g = f THEN OnceMore(taken[g]) ELSE taken[g]]
        /\ captured'[i] = Tail(captured[i])
        /\ \A k \in Ifaces \ {i} :
              captured'[k] = Capture(captured[k], f) /\ (Newest(log[k], f) => Twice(log'[k], f))
    BY <1>0, <1>1, <1>3, <2>1, FloodStep
  <2>3. captured'[h] = <<>>
    BY <1>1, <1>6, <2>2, OnlyOne
  <2>4. ASSUME NEW k \in Ifaces \ {h} PROVE captured'[k] \in Seq({f}) /\ Twice(log'[k], f)
    <3>1. captured[k] \in Seq({f})
      BY <1>1, OnlyOne
    <3>2. Newest(log[k], f)
      BY <1>1 DEF Twice, Newest
    <3> QED BY <1>6, <2>2, <3>1, <3>2, OnlyOne
  <2>5. HomeBut(arptab', {})
    BY <1>0, <1>1, <1>6, <2>2, Taught DEF LearntInv
  <2>6. Taken(f, MaxTaken)'
    BY <1>1, <2>2, TakenMore
  <2>7. DyingOut(f, h)'
    BY <1>4, <2>3, <2>4, <2>5, <2>6 DEF DyingOut, AtHome
  <2> QED BY <2>7 DEF h
<1> QED BY <1>5, <1>6

LEMMA DyingOutStep ==
    ASSUME LinkInv, LearntInv, NEW i \in Ifaces, Receive(i), NEW f \in Frames,
           NEW h \in Ifaces, DyingOut(f, h)
    PROVE  DyingOut(f, h)'
<1>1. /\ Flooded(f) /\ Taken(f, MaxTaken) /\ AtHome /\ captured[h] = <<>> /\ f \in Sent
      /\ \A j \in Ifaces \ {h} : captured[j] \in Seq({f}) /\ Twice(log[j], f)
  BY DEF DyingOut, Sent
<1>2. i # h /\ captured[i] \in Seq({f}) /\ captured[i] # <<>> /\ Twice(log[i], f)
  BY <1>1 DEF Receive
<1>3. f = Head(captured[i]) /\ Tail(captured[i]) \in Seq({f})
  BY <1>2, OnlyOne
<1>4. RsbCheck(rings[i], f)
  <2>1. RingInv(rings[i], log[i])
    BY DEF LinkInv
  <2> QED BY <1>1, <1>2, <2>1, Recognised
<1>5. /\ Flooded(f)' /\ arptab' = arptab /\ taken' = taken /\ captured'[i] = Tail(captured[i])
      /\ \A j \in Ifaces : log'[j] = log[j]
      /\ \A j \in Ifaces \ {i} : captured'[j] = captured[j]
  BY <1>1, <1>3, <1>4, FloodStep
<1>6. ASSUME NEW j \in Ifaces \ {h} PROVE captured'[j] \in Seq({f}) /\ Twice(log'[j], f)
  BY <1>1, <1>3, <1>5
<1>7. AtHome' /\ Taken(f, MaxTaken)'
  BY <1>1, <1>5 DEF AtHome, Taken
<1> QED BY <1>1, <1>2, <1>5, <1>6, <1>7 DEF DyingOut

\* Together: while one frame is under way, alone.
LEMMA AloneStep ==
    ASSUME LinkInv, LearntInv, NEW i \in Ifaces, Receive(i), NEW f \in Sent, Alone(f)
    PROVE  Alone(f)' \/ AtRest'
<1>1. CASE Mute(f)
  BY <1>1, MuteStep DEF Alone
<1>2. CASE f \in Frames /\ Journey(f, Home[f.src])
  <2> DEFINE h == Home[f.src]
  <2>1. h \in Ifaces
    BY <1>2, SentIs
  <2>2. CASE Fresh(f, h)
    <3>1. SentOn(f, h)' \/ Passed(f)' \/ AtRest'
      BY <1>2, <2>1, <2>2, FreshStep
    <3> QED BY <1>2, <3>1 DEF Alone, Journey
  <2>3. CASE Passed(f)
    BY <1>2, <2>3, PassedStep
  <2>4. CASE SentOn(f, h)
    <3>1. SentOn(f, h)' \/ (i # h /\ Astray(f, h, i)')
      BY <1>2, <2>1, <2>4, SentOnStep
    <3> QED BY <1>2, <3>1 DEF Alone, Journey
  <2>5. ASSUME NEW j \in Ifaces \ {h}, Astray(f, h, j) PROVE Alone(f)'
    <3>1. Astray(f, h, j)' \/ DyingOut(f, h)'
      BY <1>2, <2>1, <2>5, AstrayStep
    <3> QED BY <1>2, <3>1 DEF Alone, Journey
  <2>6. CASE DyingOut(f, h)
    <3>1. DyingOut(f, h)'
      BY <1>2, <2>1, <2>6, DyingOutStep
    <3> QED BY <1>2, <3>1 DEF Alone, Journey
  <2> QED BY <1>2, <2>2, <2>3, <2>4, <2>5, <2>6 DEF Journey
<1> QED BY <1>1, <1>2 DEF Alone

----------------------------------------------------------------------------
\* The other parts of the invariant, and the other steps.

LEMMA NotInAppend ==
    ASSUME NEW s \in Seq(Sent), NEW f \in Sent, NEW g, g # f, NotIn(s, g)
    PROVE  NotIn(Append(s, f), g)
<1>1. /\ Len(s) \in Nat /\ Len(Append(s, f)) = Len(s) + 1 /\ Append(s, f)[Len(s) + 1] = f
      /\ \A x \in 1..Len(s) : Append(s, f)[x] = s[x]
  BY AppendProperties, LenProperties
<1> QED BY <1>1 DEF NotIn

LEMMA NotInCapture ==
    ASSUME NEW s \in Seq(Sent), NEW f \in Sent, NEW g, g # f, NotIn(s, g)
    PROVE  NotIn(Capture(s, f), g)
<1>1. NotIn(Append(s, f), g)
  BY NotInAppend
<1> QED BY <1>1 DEF Capture

LEMMA NotInTail ==
    ASSUME NEW s \in Seq(Sent), s # <<>>, NEW g, NotIn(s, g)
    PROVE  g # Head(s) /\ NotIn(Tail(s), g)
<1>1. /\ Len(s) \in Nat /\ Len(Tail(s)) = Len(s) - 1 /\ Len(s) > 0 /\ Head(s) = s[1]
      /\ \A x \in 1..Len(Tail(s)) : Tail(s)[x] = s[x + 1]
  BY HeadTailProperties, LenProperties, EmptySeq
<1>2. ASSUME NEW x \in 1..Len(Tail(s)) PROVE x + 1 \in 1..Len(s) /\ Tail(s)[x] = s[x + 1]
  BY <1>1
<1> QED BY <1>1, <1>2 DEF NotIn

LEMMA NotInLogged ==
    ASSUME NEW l \in Seq(Sent), Len(l) <= RSB_SIZE, NEW f \in Sent, NEW g, g # f, NotIn(l, g)
    PROVE  NotIn(Append(Recent(l), f), g) /\ Len(Append(Recent(l), f)) > 0
<1> DEFINE m == Append(Recent(l), f)
<1>1. /\ m \in Seq(Sent) /\ m[Len(m)] = f /\ Len(m) > 0
      /\ \A x \in 1..(Len(m) - 1) : \E y \in 1..Len(l) : m[x] = l[y]
  BY Logged, NewestAgain DEF Newest
<1> HIDE DEF m
<1>2. Len(m) \in Nat
  BY <1>1, LenProperties
<1>3. ASSUME NEW x \in 1..Len(m) PROVE m[x] # g
  <2>1. CASE x = Len(m)
    BY <1>1, <2>1
  <2>2. CASE x # Len(m)
    <3>1. PICK y \in 1..Len(l) : m[x] = l[y]
      BY <1>1, <1>2, <2>2
    <3> QED BY <3>1 DEF NotIn
  <2> QED BY <2>1, <2>2
<1> QED BY <1>1, <1>3 DEF NotIn, m

LEMMA LogStep == ASSUME LinkInv, LogInv, [LinkNext]_linkVars PROVE LogInv'
<1>1. /\ unsent \subseteq Frames
      /\ \A j \in Ifaces :
            /\ log[j] \in Seq(Sent) /\ captured[j] \in Seq(Sent) /\ Len(log[j]) <= RSB_SIZE
            /\ Len(log[j]) \in Nat
  <2>1. ASSUME NEW j \in Ifaces
        PROVE  /\ log[j] \in Seq(Sent) /\ captured[j] \in Seq(Sent)
               /\ Len(log[j]) <= RSB_SIZE /\ Len(log[j]) \in Nat
    BY LinkAssumption, LenProperties DEF LinkInv, RingInv, Filling, Full
  <2> QED BY <2>1 DEF LinkInv
<1>2. CASE StationSends
  <2>1. PICK f \in unsent :
            /\ captured' = [captured EXCEPT ![Home[f.src]] = Capture(@, f)]
            /\ unsent' = unsent \ {f} /\ log' = log /\ own' = own /\ taken' = taken
    BY <1>2 DEF StationSends
  <2>2. f \in Sent
    BY <1>1 DEF Sent
  <2>3. ASSUME NEW g \in unsent', NEW j \in Ifaces PROVE NotIn(log'[j], g) /\ NotIn(captured'[j], g)
    <3>1. g \in unsent /\ g # f /\ NotIn(log[j], g) /\ NotIn(captured[j], g)
      BY <2>1 DEF LogInv
    <3>2. NotIn(Capture(captured[j], f), g)
      BY <1>1, <2>2, <3>1, NotInCapture
    <3>3. captured'[j] = captured[j] \/ captured'[j] = Capture(captured[j], f)
      BY <2>1 DEF LinkInv
    <3> QED BY <2>1, <3>1, <3>2, <3>3
  <2> QED BY <2>1, <2>3 DEF LogInv
<1>3. CASE SendOwn
  <2>1. PICK f \in Own : Inject(f, Ifaces, captured)
    BY <1>3 DEF SendOwn
  <2>2. /\ f \in Sent /\ f \notin Frames /\ unsent' = unsent /\ own' = own + 1
        /\ taken' = taken
        /\ \A j \in Ifaces :
            captured'[j] = Capture(captured[j], f) /\ log'[j] = Append(Recent(log[j]), f)
    BY <1>3, <2>1, SentIs DEF SendOwn, Sent, Inject
  <2>3. ASSUME NEW j \in Ifaces PROVE Len(log'[j]) > 0
    BY <1>1, <2>2, NewestAgain DEF Newest
  <2>4. ASSUME NEW g \in unsent', NEW j \in Ifaces PROVE NotIn(log'[j], g) /\ NotIn(captured'[j], g)
    <3>1. g # f /\ NotIn(log[j], g) /\ NotIn(captured[j], g)
      BY <1>1, <2>2 DEF LogInv
    <3>2. NotIn(Capture(captured[j], f), g)
      BY <1>1, <2>2, <3>1, NotInCapture
    <3>3. NotIn(Append(Recent(log[j]), f), g)
      BY <1>1, <2>2, <3>1, NotInLogged
    <3> QED BY <2>2, <3>2, <3>3
  <2>5. own' \in Nat /\ taken' \in [Frames -> Nat] /\ \A g \in unsent' : taken'[g] = 0
    BY <2>2 DEF LogInv
  <2> QED BY <2>3, <2>4, <2>5 DEF LogInv
<1>4. ASSUME NEW i \in Ifaces, Receive(i) PROVE LogInv'
  <2> DEFINE f == Head(captured[i])
  <2>1. /\ own' = own /\ unsent' = unsent /\ own > 0 /\ captured[i] # <<>>
        /\ \A j \in Ifaces :
            LET held == IF j = i THEN Tail(captured[j]) ELSE captured[j]
            IN  /\ captured'[j] \in {held, Capture(held, f)}
                /\ log'[j] \in {log[j], Append(Recent(log[j]), f)}
    <3> DEFINE g == Head(captured[i])
    <3>1. g = Head(captured[i])
      OBVIOUS
    <3> HIDE DEF g
    <3>2. own' = own /\ unsent' = unsent /\ own > 0 /\ captured[i] # <<>>
      BY <1>4 DEF Receive
    <3>3. ASSUME NEW j \in Ifaces
          PROVE  LET held == IF j = i THEN Tail(captured[j]) ELSE captured[j]
                 IN  /\ captured'[j] \in {held, Capture(held, g)}
                     /\ log'[j] \in {log[j], Append(Recent(log[j]), g)}
      <4>1. CASE RsbCheck(rings[i], g)
        <5>1. /\ log'[j] = log[j]
              /\ captured'[j] = IF j = i THEN Tail(captured[j]) ELSE captured[j]
          BY <1>4, <3>1, <4>1, Received
        <5> QED BY <5>1
      <4>2. CASE ~RsbCheck(rings[i], g)
        <5>1. LET held == IF j = i THEN Tail(captured[j]) ELSE captured[j]
              IN  IF j \in Outgoing(i, DestIface(g))
                  THEN log'[j] = Append(Recent(log[j]), g) /\ captured'[j] = Capture(held, g)
                  ELSE log'[j] = log[j] /\ captured'[j] = held
          BY <1>4, <3>1, <4>2, Received
        <5> QED BY <5>1
      <4> QED BY <4>1, <4>2
    <3> QED BY <3>1, <3>2, <3>3
  <2>2. f \in Sent /\ Tail(captured[i]) \in Seq(Sent)
    BY <1>1, <2>1, HeadTailProperties
  <2> HIDE DEF f
  <2>3. ASSUME NEW j \in Ifaces PROVE Len(log'[j]) > 0
    <3>1. Len(log[j]) > 0
      BY <2>1 DEF LogInv
    <3>2. Len(Append(Recent(log[j]), f)) > 0
      BY <1>1, <2>2, NewestAgain DEF Newest
    <3> QED BY <2>1, <3>1, <3>2
  <2>4. ASSUME NEW g \in unsent', NEW j \in Ifaces PROVE NotIn(log'[j], g) /\ NotIn(captured'[j], g)
    <3>1. NotIn(captured[i], g) /\ NotIn(log[j], g) /\ NotIn(captured[j], g)
      BY <2>1 DEF LogInv
    <3>2. g # f /\ NotIn(Tail(captured[i]), g)
      BY <1>1, <2>1, <3>1, NotInTail DEF f
    <3>3. NotIn(Append(Recent(log[j]), f), g)
      BY <1>1, <2>2, <3>1, <3>2, NotInLogged
    <3> DEFINE held == IF j = i THEN Tail(captured[j]) ELSE captured[j]
    <3>4. held \in Seq(Sent) /\ NotIn(held, g)
      BY <1>1, <2>2, <3>1, <3>2
    <3>5. captured'[j] \in {held, Capture(held, f)} /\ log'[j] \in {log[j], Append(Recent(log[j]), f)}
      BY <2>1
    <3> HIDE DEF held
    <3>6. NotIn(Capture(held, f), g)
      BY <2>2, <3>2, <3>4, NotInCapture
    <3> QED BY <3>1, <3>3, <3>4, <3>5, <3>6
  <2>5. /\ taken' = taken
           \/ taken' = [g \in Frames |-> IF g = f THEN OnceMore(taken[g]) ELSE taken[g]]
        /\ \A g \in unsent : NotIn(captured[i], g) /\ g \in Frames /\ taken[g] = 0
    BY <1>1, <1>4 DEF Receive, LogInv, f
  <2>6. taken' \in [Frames -> Nat]
    BY <2>5 DEF LogInv, OnceMore
  <2>7. ASSUME NEW g \in unsent' PROVE taken'[g] = 0
    <3>1. g \in unsent /\ g # f
      BY <1>1, <2>1, <2>5, <2>7, NotInTail DEF f
    <3> QED BY <2>5, <3>1
  <2> QED BY <2>1, <2>3, <2>4, <2>6, <2>7 DEF LogInv
<1>5. CASE UNCHANGED linkVars
  BY <1>5 DEF linkVars, LogInv
<1> QED BY <1>2, <1>3, <1>4, <1>5 DEF LinkNext

LEMMA InitLearnt == LinkInit => LearntInv
<1> SUFFICES ASSUME LinkInit PROVE LearntInv
  OBVIOUS
<1>1. LogInv
  BY EmptySeq DEF LinkInit, LogInv, NotIn
<1>2. /\ arptab = [k \in Entries |-> arptab[k]]
      /\ \A k \in Entries : arptab[k] = NoEntry
  BY DEF LinkInit
<1>3. ArpInv(arptab)
  BY <1>2 DEF ArpInv, Live
<1>4. AtRest
  <2>1. NoEntry.phys_addr \notin Macs
    BY ArpAssumption DEF NoEntry
  <2> QED BY <1>2, <2>1 DEF LinkInit, AtRest, Quiet, AtHome, HomeBut, MaxTaken
<1> QED BY <1>1, <1>3, <1>4 DEF LearntInv

\* Whatever is under way, no frame was taken too often.
LEMMA AloneFew ==
    ASSUME LearntInv, ~mixed
    PROVE  \A g \in Frames : taken[g] <= MaxTaken
<1>1. ASSUME NEW f \in Sent, Alone(f) PROVE \A g \in Frames : taken[g] <= MaxTaken
  <2>1. taken \in [Frames -> Nat]
    BY DEF LearntInv, LogInv
  <2>2. \E n \in 0..MaxTaken : Taken(f, n)
    <3>1. {0, 1, 2, MaxTaken} \subseteq 0..MaxTaken
      BY DEF MaxTaken
    <3> QED BY <1>1, <3>1 DEF Alone, Journey, Mute, Fresh, Passed, SentOn, DyingOut, Astray
  <2> QED BY <2>1, <2>2, TakenFew
<1> QED BY <1>1 DEF LearntInv, AtRest

\* A station learnt on another interface has a frame under way that goes home.
LEMMA QuietHome ==
    ASSUME LearntInv, Quiet, ~mixed
    PROVE  AtHome
<1>1. ASSUME NEW f \in Sent, Alone(f) PROVE AtHome
  <2>1. ASSUME NEW j, f \in Frames, Astray(f, Home[f.src], j) PROVE FALSE
    <3>1. captured[Home[f.src]] = <<f>> /\ Home[f.src] \in Ifaces
      BY <2>1, SentIs DEF Astray
    <3> QED BY <3>1, OnlyOne DEF Quiet
  <2> QED BY <1>1, <2>1 DEF Alone, Journey, Mute, Fresh, Passed, SentOn, DyingOut
<1> QED BY <1>1 DEF LearntInv, AtRest

LEMMA StationAlone ==
    ASSUME LinkInv, LearntInv, StationSends, ~mixed'
    PROVE  \E f \in Sent : Alone(f)'
<1>1. PICK f \in unsent :
            /\ captured' = [captured EXCEPT ![Home[f.src]] = Capture(@, f)]
            /\ mixed' = (mixed \/ ~Quiet) /\ arptab' = arptab /\ log' = log /\ taken' = taken
  BY DEF StationSends
<1> DEFINE h == Home[f.src]
<1>2. f \in Frames /\ f \in Sent /\ h \in Ifaces
  BY SentIs DEF LinkInv, Sent
<1>3. Quiet /\ AtHome /\ NotIn(log[h], f)
  BY <1>1, <1>2, QuietHome DEF LearntInv, LogInv
<1>4. captured \in [Ifaces -> Seq(Sent)] /\ \A j \in Ifaces : captured[j] = <<>>
  BY <1>3 DEF LinkInv, Quiet
<1>5. captured'[h] = <<f>> /\ \A j \in Ifaces \ {h} : captured'[j] = <<>>
  BY <1>1, <1>2, <1>4, OnlyOne
<1>6. AtHome' /\ NotIn(log'[h], f)
  BY <1>1, <1>3 DEF AtHome
<1>7. Taken(f, 0)'
  <2>1. taken[f] = 0 /\ \A g \in Frames : taken[g] <= MaxTaken
    BY <1>1, AloneFew DEF LearntInv, LogInv
  <2> QED BY <1>1, <2>1 DEF Taken
<1>8. Fresh(f, h)'
  BY <1>5, <1>6, <1>7 DEF Fresh
<1> QED BY <1>2, <1>8 DEF Alone, Journey

LEMMA OwnAlone ==
    ASSUME LinkInv, LearntInv, SendOwn, ~mixed'
    PROVE  \E f \in Sent : Alone(f)'
<1>1. PICK f \in Own : Inject(f, Ifaces, captured)
  BY DEF SendOwn
<1>2. Quiet /\ AtHome /\ arptab' = arptab /\ taken' = taken
  BY QuietHome DEF SendOwn
<1>3. ASSUME NEW j \in Ifaces PROVE captured'[j] \in Seq({f})
  <2>1. captured'[j] = <<f>>
    BY <1>1, <1>2, OnlyOne DEF Inject, Quiet
  <2> QED BY <2>1, OnlyOne
<1>4. Taken(f, MaxTaken)'
  <2>1. \A g \in Frames : taken[g] <= MaxTaken
    BY AloneFew DEF SendOwn
  <2> QED BY <1>2, <2>1 DEF Taken
<1>5. Mute(f)'
  BY <1>2, <1>3, <1>4 DEF Mute, Only, AtHome
<1> QED BY <1>5 DEF Alone, Sent

LEMMA LearntStep ==
    ASSUME LinkInv, LearntInv, [LinkNext]_linkVars
    PROVE  LearntInv'
<1>1. LogInv'
  BY LogStep DEF LearntInv
<1>2. ASSUME NEW i \in Ifaces, Receive(i)
      PROVE  ArpInv(arptab)' /\ (~mixed' => AtRest' \/ \E f \in Sent : Alone(f)')
  <2>1. ArpInv(arptab')
    <3> DEFINE f == Head(captured[i])
    <3>1. arptab' = arptab \/ arptab' = Insert(arptab, i, f.src, f.src)
      BY <1>2 DEF Receive
    <3> HIDE DEF f
    <3> QED BY <3>1, Learns DEF LearntInv
  <2>2. captured[i] # <<>> /\ mixed' = mixed
    BY <1>2 DEF Receive
  <2>3. ASSUME ~mixed PROVE AtRest' \/ \E f \in Sent : Alone(f)'
    <3>1. PICK f \in Sent : Alone(f)
      BY <2>2, <2>3 DEF LearntInv, AtRest, Quiet
    <3> QED BY <1>2, <3>1, AloneStep
  <2> QED BY <2>1, <2>2, <2>3
<1>3. CASE StationSends
  <2>1. arptab' = arptab
    BY <1>3 DEF StationSends
  <2> QED BY <1>1, <1>3, <2>1, StationAlone DEF LearntInv
<1>4. CASE SendOwn
  <2>1. arptab' = arptab
    BY <1>4 DEF SendOwn
  <2> QED BY <1>1, <1>4, <2>1, OwnAlone DEF LearntInv
<1>5. CASE \E i \in Ifaces : Receive(i)
  BY <1>1, <1>2, <1>5 DEF LearntInv
<1>6. CASE UNCHANGED linkVars
  <2>1. /\ captured' = captured /\ arptab' = arptab /\ log' = log /\ mixed' = mixed
        /\ taken' = taken
    BY <1>6 DEF linkVars
  <2>2. AtRest' = AtRest
    BY <2>1 DEF AtRest, Quiet, AtHome
  <2>3. ASSUME NEW f \in Sent, Alone(f) PROVE Alone(f)'
    BY <2>1, <2>3 DEF Alone, Journey, Mute, Stacked, Only, AtHome, Fresh, Passed, SentOn,
                      Astray, DyingOut, Flooded, DestIface, Strays, Taken
  <2> QED BY <1>1, <2>1, <2>2, <2>3 DEF LearntInv
<1> QED BY <1>3, <1>4, <1>5, <1>6 DEF LinkNext

LEMMA LearntInvariant == LinkSpec => []LearntInv
<1> QED BY InitLearnt, LearntStep, LinkInvariant, PTL DEF LinkSpec

\* A frame that is sent while nothing else is under way is taken, and charged to
\* its sender, three times at most (hal_ethernet.c:48, 209), with any number of
\* interfaces, rings of any size and whatever pcap drops.
THEOREM EchoesStayBounded == LinkSpec => []EchoesBounded
<1>1. LearntInv => EchoesBounded
  BY AloneFew DEF EchoesBounded
<1> QED BY <1>1, LearntInvariant, PTL

\* A station that sends while nothing else is under way is learnt on its own
\* interface once its frame has died out (main.c:57-61, hal_ethernet.c:45-56), with
\* any number of interfaces and stations and rings of any size.
THEOREM StationsLearntHome == LinkSpec => []LearntHome
<1>1. LearntInv => LearntHome
  <2> SUFFICES ASSUME LearntInv, Quiet, ~mixed PROVE LearntHome
    BY DEF LearntHome
  <2>1. HomeBut(arptab, {})
    BY QuietHome DEF AtHome
  <2> QED BY <2>1 DEF LearntHome, HomeBut, Live
<1> QED BY <1>1, LearntInvariant, PTL
=============================================================================
