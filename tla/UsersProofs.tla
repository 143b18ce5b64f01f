---------------------------- MODULE UsersProofs ----------------------------
(***************************************************************************)
(* Theorems about the tables of users and mappings, for every set of MAC    *)
(* addresses, names and lengths, every width of the reference counts and    *)
(* tables of any size: however users are renamed, merged and moved, the     *)
(* mappings and the counts stay right, usage is conserved, and the tables   *)
(* implement Ledger.                                                        *)
(***************************************************************************)
EXTENDS Pages, TLAPS, SequenceTheorems, FiniteSetTheorems

----------------------------------------------------------------------------
\* Sums over finite sets.  SumFunctionOnSet is a recursive function of the
\* subsets of a set; what it computes is shown by least subsets.

\* A set of subsets of a finite set has a member without a member below it.
LEMMA LeastSet ==
    ASSUME NEW S, IsFiniteSet(S), NEW T \in SUBSET SUBSET S, T # {}
    PROVE  \E m \in T : \A s \in T : s \subseteq m => s = m
<1> DEFINE R == StrictSubsetOrdering(S)
<1>1. IsWellFoundedOn(R, SUBSET S)
  BY FS_StrictSubsetOrderingWellFounded, FS_FiniteSubsetsOfFinite
<1>2. R = {p \in (SUBSET S) \X (SUBSET S) : p[1] \subseteq p[2] /\ p[1] # p[2]}
  BY DEF StrictSubsetOrdering
<1> HIDE DEF R
<1>3. PICK m \in T : \A s \in T : <<s, m>> \notin R
  BY <1>1, WFMin
<1>4. ASSUME NEW s \in T, s \subseteq m, s # m PROVE FALSE
  <2>1. <<s, m>> \in (SUBSET S) \X (SUBSET S)
    OBVIOUS
  <2> QED BY <1>2, <1>3, <1>4, <2>1
<1> QED BY <1>4

AnyOf(s) == CHOOSE x \in s : TRUE

LEMMA AnyOfIn == ASSUME NEW s, s # {} PROVE AnyOf(s) \in s
BY DEF AnyOf

\* F has the sums of g over the subsets of S.
Sums(F, g, S) ==
    F = [s \in SUBSET S |-> IF s = {} THEN 0 ELSE g[AnyOf(s)] + F[s \ {AnyOf(s)}]]

Sum(g, S) == SumFunctionOnSet(g, S)

LEMMA SumDef ==
    ASSUME NEW g, NEW S
    PROVE  Sum(g, S) = (CHOOSE F : Sums(F, g, S))[S]
BY DEF Sum, Sums, AnyOf, SumFunctionOnSet, FoldFunctionOnSet, MapThenFoldSet

LEMMA SumsAt ==
    ASSUME NEW S, NEW g, NEW F, Sums(F, g, S), NEW s \in SUBSET S
    PROVE  F[s] = IF s = {} THEN 0 ELSE g[AnyOf(s)] + F[s \ {AnyOf(s)}]
BY DEF Sums

LEMMA SumsAgree ==
    ASSUME NEW S, IsFiniteSet(S), NEW T \in SUBSET S, NEW g, NEW h,
           \A k \in T : g[k] = h[k], NEW F, NEW G, Sums(F, g, S), Sums(G, h, T)
    PROVE  \A s \in SUBSET T : F[s] = G[s]
<1> DEFINE Bad == {s \in SUBSET T : F[s] # G[s]}
<1> SUFFICES ASSUME Bad # {} PROVE FALSE
  OBVIOUS
<1>1. PICK m \in Bad : \A s \in Bad : s \subseteq m => s = m
  <2>1. IsFiniteSet(T) /\ Bad \in SUBSET SUBSET T
    BY FS_Subset
  <2> HIDE DEF Bad
  <2> QED BY <2>1, LeastSet
<1>2. m \in SUBSET T /\ m \in SUBSET S /\ F[m] # G[m]
  OBVIOUS
<1>3. F[m] = IF m = {} THEN 0 ELSE g[AnyOf(m)] + F[m \ {AnyOf(m)}]
  BY <1>2, SumsAt
<1>4. G[m] = IF m = {} THEN 0 ELSE h[AnyOf(m)] + G[m \ {AnyOf(m)}]
  BY <1>2, SumsAt
<1>5. m # {} /\ AnyOf(m) \in m
  BY <1>2, <1>3, <1>4, AnyOfIn
<1>6. m \ {AnyOf(m)} \notin Bad
  <2> HIDE DEF Bad
  <2> QED BY <1>1, <1>5
<1> QED BY <1>2, <1>3, <1>4, <1>5, <1>6

LEMMA SumsExist ==
    ASSUME NEW S, IsFiniteSet(S), NEW g
    PROVE  \E F : Sums(F, g, S)
<1> DEFINE Missing == {T \in SUBSET S : ~\E F : Sums(F, g, T)}
<1> SUFFICES ASSUME Missing # {} PROVE FALSE
  OBVIOUS
<1>1. PICK m \in Missing : \A s \in Missing : s \subseteq m => s = m
  <2>1. Missing \in SUBSET SUBSET S
    OBVIOUS
  <2> HIDE DEF Missing
  <2> QED BY <2>1, LeastSet
<1> DEFINE Of(s) == CHOOSE F : Sums(F, g, s)
<1>2. ASSUME NEW s \in SUBSET m, s # m
      PROVE  Sums(Of(s), g, s) /\ IsFiniteSet(s) /\ s \in SUBSET S
  <2>1. s \in SUBSET S /\ s \notin Missing
    <3>1. m \in SUBSET S
      OBVIOUS
    <3> HIDE DEF Missing
    <3> QED BY <1>1, <1>2, <3>1
  <2>2. \E F : Sums(F, g, s)
    BY <2>1
  <2> HIDE DEF Missing
  <2> QED BY <2>1, <2>2, FS_Subset
<1> DEFINE Val(s) == Of(s)[s]
           G == [s \in SUBSET m |-> IF s = {} THEN 0 ELSE g[AnyOf(s)] + Val(s \ {AnyOf(s)})]
<1> HIDE DEF Of
<1>3. ASSUME NEW s \in SUBSET m, s # m
      PROVE  Val(s) = G[s]
  <2>1. Val(s) = IF s = {} THEN 0 ELSE g[AnyOf(s)] + Of(s)[s \ {AnyOf(s)}]
    BY <1>2, <1>3, SumsAt
  <2>2. CASE s = {}
    BY <2>1, <2>2
  <2>3. CASE s # {}
    <3> DEFINE r == s \ {AnyOf(s)}
    <3>1. AnyOf(s) \in s /\ r \in SUBSET s /\ r \in SUBSET m /\ r # m
      BY <2>3, AnyOfIn
    <3>2. /\ Sums(Of(s), g, s) /\ IsFiniteSet(s)
          /\ Sums(Of(r), g, r)
      BY <1>2, <1>3, <3>1
    <3>3. Of(s)[r] = Of(r)[r]
      <4> HIDE DEF r
      <4> QED BY <3>1, <3>2, SumsAgree
    <3> QED BY <2>1, <2>3, <3>3
  <2> QED BY <2>2, <2>3
<1>4. ASSUME NEW s \in SUBSET m
      PROVE  G[s] = IF s = {} THEN 0 ELSE g[AnyOf(s)] + G[s \ {AnyOf(s)}]
  <2>1. CASE s = {}
    BY <2>1
  <2>2. CASE s # {}
    <3>1. s \ {AnyOf(s)} \in SUBSET m /\ s \ {AnyOf(s)} # m
      BY <2>2, AnyOfIn
    <3>2. Val(s \ {AnyOf(s)}) = G[s \ {AnyOf(s)}]
      BY <1>3, <3>1
    <3>3. G[s] = g[AnyOf(s)] + Val(s \ {AnyOf(s)})
      BY <2>2
    <3> QED BY <2>2, <3>2, <3>3
  <2> QED BY <2>1, <2>2
<1>5. G = [s \in SUBSET m |-> G[s]]
  OBVIOUS
<1> HIDE DEF G
<1>6. Sums(G, g, m)
  BY <1>4, <1>5 DEF Sums
<1> QED BY <1>6

LEMMA SumOfSums ==
    ASSUME NEW S, IsFiniteSet(S), NEW g
    PROVE  /\ Sums(CHOOSE F : Sums(F, g, S), g, S)
           /\ \A T \in SUBSET S : Sum(g, T) = (CHOOSE F : Sums(F, g, S))[T]
<1> DEFINE H(T) == CHOOSE F : Sums(F, g, T)
<1>1. \A T \in SUBSET S : Sums(H(T), g, T)
  <2> SUFFICES ASSUME NEW T \in SUBSET S PROVE Sums(H(T), g, T)
    OBVIOUS
  <2>1. \E F : Sums(F, g, T)
    BY FS_Subset, SumsExist
  <2> QED BY <2>1
<1>2. \A T \in SUBSET S : Sum(g, T) = H(T)[T]
  BY SumDef
<1> HIDE DEF H
<1>3. ASSUME NEW T \in SUBSET S PROVE H(S)[T] = H(T)[T]
  <2>1. Sums(H(S), g, S) /\ Sums(H(T), g, T) /\ T \in SUBSET T
    BY <1>1
  <2>2. \A s \in SUBSET T : H(S)[s] = H(T)[s]
    BY <2>1, SumsAgree
  <2> QED BY <2>1, <2>2
<1> QED BY <1>1, <1>2, <1>3 DEF H

\* Sums of equal functions are equal.
LEMMA SumEqual ==
    ASSUME NEW S, IsFiniteSet(S), NEW g, NEW h, \A k \in S : g[k] = h[k]
    PROVE  Sum(g, S) = Sum(h, S)
<1> DEFINE F == CHOOSE F : Sums(F, g, S)
           G == CHOOSE G : Sums(G, h, S)
<1>1. Sums(F, g, S) /\ Sums(G, h, S) /\ Sum(g, S) = F[S] /\ Sum(h, S) = G[S]
  BY SumOfSums
<1> HIDE DEF F, G
<1>2. S \in SUBSET S
  OBVIOUS
<1>3. \A s \in SUBSET S : F[s] = G[s]
  BY <1>1, <1>2, SumsAgree
<1> QED BY <1>1, <1>2, <1>3

LEMMA SumEmpty == ASSUME NEW g PROVE Sum(g, {}) = 0
<1> DEFINE F == CHOOSE F : Sums(F, g, {})
<1>1. Sums(F, g, {}) /\ Sum(g, {}) = F[{}]
  BY SumOfSums, FS_EmptySet
<1> HIDE DEF F
<1> QED BY <1>1, SumsAt

\* Any member may be summed first.
LEMMA SumSplit ==
    ASSUME NEW S, IsFiniteSet(S), NEW g, \A k \in S : g[k] \in Nat
    PROVE  \A T \in SUBSET S :
                /\ Sum(g, T) \in Nat
                /\ \A x \in T : Sum(g, T) = g[x] + Sum(g, T \ {x})
<1> DEFINE OK(T) == /\ Sum(g, T) \in Nat
                    /\ \A x \in T : Sum(g, T) = g[x] + Sum(g, T \ {x})
           Bad == {T \in SUBSET S : ~OK(T)}
<1> SUFFICES ASSUME Bad # {} PROVE FALSE
  OBVIOUS
<1>1. PICK m \in Bad : \A s \in Bad : s \subseteq m => s = m
  <2>1. Bad \in SUBSET SUBSET S
    OBVIOUS
  <2> HIDE DEF Bad
  <2> QED BY <2>1, LeastSet
<1>2. m \in SUBSET S /\ ~OK(m)
  OBVIOUS
<1>3. ASSUME NEW s \in SUBSET m, s # m PROVE OK(s)
  <2>1. s \in SUBSET S /\ s \notin Bad
    <3> HIDE DEF Bad, OK
    <3> QED BY <1>1, <1>2, <1>3
  <2> HIDE DEF OK
  <2> QED BY <2>1
<1>4. m # {}
  BY <1>2, SumEmpty
<1> DEFINE c == AnyOf(m)
<1>5. c \in m /\ m \ {c} \in SUBSET m /\ m \ {c} # m
  BY <1>4, AnyOfIn
<1>6. Sum(g, m) = g[c] + Sum(g, m \ {c})
  <2> DEFINE F == CHOOSE F : Sums(F, g, S)
  <2>1. Sums(F, g, S) /\ Sum(g, m) = F[m] /\ Sum(g, m \ {c}) = F[m \ {c}]
    BY <1>2, <1>5, SumOfSums
  <2> HIDE DEF F, OK, Bad
  <2> QED BY <1>2, <1>4, <2>1, SumsAt
<1>7. OK(m \ {c}) /\ g[c] \in Nat
  BY <1>2, <1>3, <1>5
<1>8. ASSUME NEW x \in m, x # c PROVE Sum(g, m) = g[x] + Sum(g, m \ {x})
  <2> DEFINE r == Sum(g, m \ {c, x})
  <2>1. m \ {x} \in SUBSET m /\ m \ {x} # m /\ c \in m \ {x} /\ x \in m \ {c}
        /\ (m \ {x}) \ {c} = m \ {c, x} /\ (m \ {c}) \ {x} = m \ {c, x}
    BY <1>5, <1>8
  <2>2. Sum(g, m \ {c}) = g[x] + r
    BY <1>7, <2>1
  <2>3. Sum(g, m \ {x}) = g[c] + r
    BY <1>3, <2>1
  <2>4. g[x] \in Nat /\ r \in Nat
    <3>1. m \ {c, x} \in SUBSET m /\ m \ {c, x} # m
      BY <1>5
    <3> QED BY <1>2, <1>3, <3>1
  <2> HIDE DEF r, c, OK, Bad
  <2> QED BY <1>6, <1>7, <2>2, <2>3, <2>4
<1>9. Sum(g, m) \in Nat
  BY <1>6, <1>7
<1>10. \A x \in m : Sum(g, m) = g[x] + Sum(g, m \ {x})
  <2> HIDE DEF c, OK, Bad
  <2> QED BY <1>6, <1>8
<1> QED BY <1>2, <1>9, <1>10

LEMMA SumNat ==
    ASSUME NEW S, IsFiniteSet(S), NEW g, \A k \in S : g[k] \in Nat
    PROVE  Sum(g, S) \in Nat
<1>1. S \in SUBSET S
  OBVIOUS
<1> QED BY <1>1, SumSplit

LEMMA SumFirst ==
    ASSUME NEW S, IsFiniteSet(S), NEW g, \A k \in S : g[k] \in Nat, NEW x \in S
    PROVE  Sum(g, S) = g[x] + Sum(g, S \ {x})
<1>1. S \in SUBSET S
  OBVIOUS
<1> QED BY <1>1, SumSplit

LEMMA SumSingle ==
    ASSUME NEW x, NEW g, g[x] \in Nat
    PROVE  Sum(g, {x}) = g[x]
<1>1. IsFiniteSet({x}) /\ {x} \ {x} = {}
  BY FS_Singleton
<1>2. Sum(g, {x}) = g[x] + Sum(g, {x} \ {x})
  BY <1>1, SumFirst
<1> QED BY <1>1, <1>2, SumEmpty

LEMMA SumZero ==
    ASSUME NEW S, IsFiniteSet(S), NEW g, \A k \in S : g[k] = 0
    PROVE  Sum(g, S) = 0
<1> DEFINE Bad == {T \in SUBSET S : Sum(g, T) # 0}
<1>1. SUFFICES ASSUME Bad # {} PROVE FALSE
  <2>1. S \in SUBSET S
    OBVIOUS
  <2> QED BY <2>1
<1>2. PICK m \in Bad : \A s \in Bad : s \subseteq m => s = m
  <2>1. Bad \in SUBSET SUBSET S
    OBVIOUS
  <2> HIDE DEF Bad
  <2> QED BY <1>1, <2>1, LeastSet
<1>3. m \in SUBSET S /\ Sum(g, m) # 0 /\ m # {}
  BY SumEmpty
<1>4. PICK x \in m : TRUE
  BY <1>3
<1>5. Sum(g, m) = g[x] + Sum(g, m \ {x})
  <2>1. \A k \in S : g[k] \in Nat
    OBVIOUS
  <2> QED BY <1>3, <2>1, SumSplit
<1>6. m \ {x} \notin Bad
  <2> HIDE DEF Bad
  <2> QED BY <1>2, <1>4
<1>7. Sum(g, m \ {x}) = 0 /\ g[x] = 0
  BY <1>3, <1>6
<1> QED BY <1>3, <1>5, <1>7

LEMMA SumUnion ==
    ASSUME NEW S, IsFiniteSet(S), NEW T, IsFiniteSet(T), S \cap T = {},
           NEW g, \A k \in S \cup T : g[k] \in Nat
    PROVE  Sum(g, S \cup T) = Sum(g, S) + Sum(g, T)
<1> DEFINE Bad == {s \in SUBSET T : Sum(g, S \cup s) # Sum(g, S) + Sum(g, s)}
<1>1. SUFFICES ASSUME Bad # {} PROVE FALSE
  <2>1. T \in SUBSET T
    OBVIOUS
  <2> QED BY <2>1
<1>2. PICK m \in Bad : \A s \in Bad : s \subseteq m => s = m
  <2>1. Bad \in SUBSET SUBSET T
    OBVIOUS
  <2> HIDE DEF Bad
  <2> QED BY <1>1, <2>1, LeastSet
<1>3. m \in SUBSET T /\ Sum(g, S \cup m) # Sum(g, S) + Sum(g, m)
  OBVIOUS
<1>4. IsFiniteSet(S \cup T) /\ Sum(g, S) \in Nat
  BY FS_Union, SumNat
<1>5. m # {}
  BY <1>3, <1>4, SumEmpty
<1>6. PICK x \in m : TRUE
  BY <1>5
<1> DEFINE r == m \ {x}
<1>7. r \in SUBSET T /\ r \notin Bad
  <2> HIDE DEF Bad
  <2> QED BY <1>2, <1>3, <1>6
<1>8. Sum(g, S \cup r) = Sum(g, S) + Sum(g, r)
  BY <1>7
<1>9. Sum(g, m) = g[x] + Sum(g, r) /\ Sum(g, r) \in Nat /\ g[x] \in Nat
  BY <1>3, <1>7, SumSplit
<1>10. Sum(g, S \cup m) = g[x] + Sum(g, S \cup r)
  <2>1. S \cup m \in SUBSET (S \cup T) /\ x \in S \cup m /\ (S \cup m) \ {x} = S \cup r
    BY <1>3
  <2> HIDE DEF r, Bad
  <2> QED BY <1>4, <2>1, SumSplit
<1> HIDE DEF r, Bad
<1> QED BY <1>3, <1>4, <1>8, <1>9, <1>10

\* One member more changes the sum by as much.
LEMMA SumRaised ==
    ASSUME NEW S, IsFiniteSet(S), NEW g, NEW h, NEW x \in S, NEW d \in Nat,
           \A k \in S : g[k] \in Nat, h[x] = g[x] + d, \A k \in S \ {x} : h[k] = g[k]
    PROVE  Sum(h, S) = Sum(g, S) + d
<1>1. IsFiniteSet(S \ {x}) /\ \A k \in S : h[k] \in Nat
  BY FS_RemoveElement
<1>2. Sum(h, S \ {x}) = Sum(g, S \ {x}) /\ Sum(g, S \ {x}) \in Nat
  BY <1>1, SumEqual, SumNat
<1>3. Sum(g, S) = g[x] + Sum(g, S \ {x}) /\ Sum(h, S) = h[x] + Sum(h, S \ {x})
  BY <1>1, SumFirst
<1> QED BY <1>2, <1>3

----------------------------------------------------------------------------
\* Remainders and least elements.

LEMMA ModUnique ==
    ASSUME NEW M \in Nat \ {0}, NEW q \in Int, NEW r \in 0..(M - 1), NEW a \in Int,
           a = M * q + r
    PROVE  a % M = r
OBVIOUS

LEMMA ModDef ==
    ASSUME NEW M \in Nat \ {0}, NEW a \in Nat
    PROVE  /\ a = M * (a \div M) + (a % M)
           /\ a \div M \in Int /\ a % M \in 0..(M - 1)
<1>1. a = M * (a \div M) + (a % M)
  OBVIOUS
<1>2. a % M \in 0..(M - 1)
  OBVIOUS
<1>3. a \div M \in Int
  OBVIOUS
<1> QED BY <1>1, <1>2, <1>3

LEMMA ModAdd ==
    ASSUME NEW M \in Nat \ {0}, NEW a \in Nat, NEW b \in Nat
    PROVE  ((a % M) + (b % M)) % M = (a + b) % M
<1> DEFINE ra == a % M
           rb == b % M
           r == (ra + rb) % M
           qa == a \div M
           qb == b \div M
           q == (ra + rb) \div M
<1>1. a = M * qa + ra /\ qa \in Int /\ ra \in 0..(M - 1)
  BY ModDef
<1>2. b = M * qb + rb /\ qb \in Int /\ rb \in 0..(M - 1)
  BY ModDef
<1>3. ra + rb \in Nat
  BY <1>1, <1>2
<1>4. ra + rb = M * q + r /\ q \in Int /\ r \in 0..(M - 1)
  <2> HIDE DEF ra, rb
  <2> QED BY <1>3, ModDef
<1> HIDE DEF ra, rb, r, qa, qb, q
<1>5. a + b = M * (qa + qb + q) + r
  <2>1. M * (qa + qb + q) = M * qa + M * qb + M * q
    BY <1>1, <1>2, <1>4
  <2>2. M * qa \in Int /\ M * qb \in Int /\ M * q \in Int
    BY <1>1, <1>2, <1>4
  <2> QED BY <1>1, <1>2, <1>4, <2>1, <2>2
<1>6. (a + b) % M = r
  <2>1. qa + qb + q \in Int /\ a + b \in Int
    BY <1>1, <1>2, <1>4
  <2> QED BY <1>4, <1>5, <2>1, ModUnique
<1> QED BY <1>6 DEF r, ra, rb

LEMMA LeastNat ==
    ASSUME NEW T \in SUBSET Nat, T # {}
    PROVE  \E m \in T : \A k \in T : m <= k
<1> DEFINE R == OpToRel(<, Nat)
<1>1. R = {p \in Nat \X Nat : p[1] < p[2]}
  BY DEF OpToRel
<1>2. IsWellFoundedOn(R, Nat)
  BY NatLessThanWellFounded
<1> HIDE DEF R
<1>3. PICK m \in T : \A k \in T : <<k, m>> \notin R
  BY <1>2, WFMin
<1>4. ASSUME NEW k \in T, k < m PROVE FALSE
  <2>1. <<k, m>> \in Nat \X Nat /\ <<k, m>>[1] < <<k, m>>[2]
    BY <1>4
  <2> QED BY <1>1, <1>3, <2>1
<1> QED BY <1>4

LEMMA FirstInType ==
    ASSUME NEW T \in SUBSET Nat, T # {}
    PROVE  FirstIn(T) \in T
<1>1. \E m \in T : \A k \in T : m <= k
  BY LeastNat
<1> QED BY <1>1 DEF FirstIn

----------------------------------------------------------------------------
\* The inductive invariant, of the rows in D of the users table us and the
\* mappings ms, when a MAC address transferred f in this period and g in the
\* one before.

CardsIn(ms, u) == {k \in 1..Len(ms) : ms[k].user = u}

Bytes(ms, f) == [k \in DOMAIN ms |-> f[ms[k].eth_addr]]

RowSound(r, ms, C, f, g) ==
    /\ C # {}
    /\ r.references = Cardinality(C) % RefMod
    /\ r.credit = Sum(Bytes(ms, f), C)
    /\ r.last_credit = Sum(Bytes(ms, g), C)

Tabled(us, ms, D) ==
    /\ us \in Seq(User) /\ ms \in Seq(Mapping)
    /\ D \subseteq 1..Len(us)
    /\ \A k \in 1..Len(ms) : ms[k].user \in D
    /\ \A j, k \in 1..Len(ms) : ms[j].eth_addr = ms[k].eth_addr => j = k

Sound(us, ms, D, f, g) ==
    /\ Tabled(us, ms, D)
    /\ \A u \in D : RowSound(us[u], ms, CardsIn(ms, u), f, g)

\* A MAC address without a mapping transferred nothing.
Unknown(ms, f) ==
    /\ f \in [Macs -> Nat]
    /\ \A m \in Macs : f[m] = 0 \/ \E k \in 1..Len(ms) : ms[k].eth_addr = m

Rows(us) == 1..Len(us)

UsersInv ==
    /\ Sound(users, mappings, Rows(users), used, last_used)
    /\ Unknown(mappings, used) /\ Unknown(mappings, last_used)

LEMMA MappingRow ==
    ASSUME NEW ms \in Seq(Mapping), NEW k \in 1..Len(ms)
    PROVE  ms[k].eth_addr \in Macs /\ ms[k].user \in Nat
<1>1. ms[k] \in Mapping
  BY ElementOfSeq
<1> QED BY <1>1 DEF Mapping

LEMMA UserRow ==
    ASSUME NEW us \in Seq(User), NEW u \in 1..Len(us)
    PROVE  /\ us[u] \in User /\ us[u].credit \in Nat /\ us[u].last_credit \in Nat
           /\ us[u].references \in 0..(RefMod - 1) /\ us[u].name \in Names
           /\ us[u].custom \in BOOLEAN
<1>1. us[u] \in User
  BY ElementOfSeq
<1> QED BY <1>1 DEF User

LEMMA CardsType ==
    ASSUME NEW ms \in Seq(Mapping), NEW u
    PROVE  /\ Len(ms) \in Nat /\ IsFiniteSet(1..Len(ms))
           /\ CardsIn(ms, u) \subseteq 1..Len(ms)
           /\ IsFiniteSet(CardsIn(ms, u)) /\ Cardinality(CardsIn(ms, u)) \in Nat
<1>1. Len(ms) \in Nat /\ IsFiniteSet(1..Len(ms))
  <2>1. Len(ms) \in Nat
    BY LenProperties
  <2> QED BY <2>1, FS_Interval
<1>2. CardsIn(ms, u) \in SUBSET (1..Len(ms))
  BY DEF CardsIn
<1>3. IsFiniteSet(CardsIn(ms, u))
  BY <1>1, <1>2, FS_Subset
<1> QED BY <1>1, <1>2, <1>3, FS_CardinalityType

LEMMA BytesType ==
    ASSUME NEW ms \in Seq(Mapping), NEW f \in [Macs -> Nat]
    PROVE  \A k \in 1..Len(ms) : Bytes(ms, f)[k] = f[ms[k].eth_addr] /\ Bytes(ms, f)[k] \in Nat
<1>1. DOMAIN ms = 1..Len(ms)
  BY LenProperties
<1> QED BY <1>1, MappingRow DEF Bytes

\* The properties of Users that UsersInv stands for.
LEMMA InvariantMeans == UsersInv => UsersTypeOK /\ MappingsValid /\ ReferencesCounted /\ UsageConserved
<1> SUFFICES ASSUME UsersInv
             PROVE  UsersTypeOK /\ MappingsValid /\ ReferencesCounted /\ UsageConserved
  OBVIOUS
<1>1. /\ users \in Seq(User) /\ mappings \in Seq(Mapping)
      /\ DOMAIN users = 1..Len(users) /\ DOMAIN mappings = 1..Len(mappings)
  BY LenProperties DEF UsersInv, Sound, Tabled
<1>2. \A u : Cards(u) = CardsIn(mappings, u)
  BY <1>1 DEF Cards, CardsIn
<1>3. ASSUME NEW u \in DOMAIN users
      PROVE  RowSound(users[u], mappings, Cards(u), used, last_used)
  BY <1>1, <1>2 DEF UsersInv, Sound, Rows
<1>4. MappingsValid
  BY <1>1 DEF MappingsValid, UsersInv, Sound, Tabled, Rows
<1>5. ReferencesCounted
  BY <1>3 DEF ReferencesCounted, RowSound
<1>6. UsageConserved
  BY <1>3 DEF UsageConserved, RowSound, Usage, Sum, Bytes
<1>7. UsersTypeOK
  BY <1>1 DEF UsersTypeOK
<1> QED BY <1>4, <1>5, <1>6, <1>7

LEMMA SoundType ==
    ASSUME NEW us, NEW ms, NEW D, Tabled(us, ms, D)
    PROVE  /\ us \in Seq(User) /\ ms \in Seq(Mapping) /\ D \subseteq 1..Len(us)
           /\ Len(us) \in Nat /\ Len(ms) \in Nat
           /\ DOMAIN us = 1..Len(us) /\ DOMAIN ms = 1..Len(ms)
BY LenProperties DEF Tabled

----------------------------------------------------------------------------
\* What each helper of user.c and table.c does to the tables.

LEMMA GetKnownUser ==
    ASSUME UsersInv, NEW mac \in Macs, NEW j \in 1..Len(mappings), mappings[j].eth_addr = mac
    PROVE  /\ GetUser(mac).users = users /\ GetUser(mac).mappings = mappings
           /\ GetUser(mac).user = mappings[j].user
<1>1. Tabled(users, mappings, Rows(users))
  BY DEF UsersInv, Sound
<1>2. Matching(mappings, mac) = {j}
  BY <1>1, SoundType DEF Matching, Tabled
<1>3. FirstIn({j}) = j
  BY <1>1, SoundType DEF FirstIn
<1> QED BY <1>2, <1>3 DEF GetUser

\* get_user of a MAC address never seen appends a row to each table.
Appended(mac) ==
    [users |-> Append(users, NewUser(mac)),
     mappings |-> Append(mappings, [eth_addr |-> mac, user |-> Len(users) + 1]),
     user |-> Len(users) + 1]

LEMMA GetNewUser ==
    ASSUME UsersInv, NEW mac \in Macs, \A j \in 1..Len(mappings) : mappings[j].eth_addr # mac
    PROVE  GetUser(mac) = Appended(mac)
<1>1. Tabled(users, mappings, Rows(users))
  BY DEF UsersInv, Sound
<1>2. Matching(mappings, mac) = {}
  BY <1>1, SoundType DEF Matching
<1> QED BY <1>2 DEF GetUser, Appended

LEMMA NewUserType == ASSUME NEW mac \in Macs PROVE NewUser(mac) \in User
BY NamesAssumption, RefAssumption DEF NewUser, User

LEMMA AppendedCards ==
    ASSUME Tabled(users, mappings, Rows(users)), NEW mac \in Macs
    PROVE  LET us == Appended(mac).users
               ms == Appended(mac).mappings
               n  == Len(users) + 1
               c  == Len(mappings) + 1
           IN  /\ us \in Seq(User) /\ ms \in Seq(Mapping)
               /\ Len(us) = n /\ Len(ms) = c
               /\ us[n] = NewUser(mac) /\ \A u \in 1..Len(users) : us[u] = users[u]
               /\ ms[c].eth_addr = mac /\ ms[c].user = n
               /\ \A k \in 1..Len(mappings) : ms[k] = mappings[k]
               /\ CardsIn(ms, n) = {c}
               /\ \A u \in 1..Len(users) : CardsIn(ms, u) = CardsIn(mappings, u)
<1> DEFINE us == Appended(mac).users
           ms == Appended(mac).mappings
           n  == Len(users) + 1
           c  == Len(mappings) + 1
           new == [eth_addr |-> mac, user |-> n]
<1>1. /\ users \in Seq(User) /\ mappings \in Seq(Mapping)
      /\ Len(users) \in Nat /\ Len(mappings) \in Nat
      /\ \A k \in 1..Len(mappings) : mappings[k].user \in 1..Len(users)
  BY SoundType DEF Tabled, Rows
<1>2. NewUser(mac) \in User /\ new \in Mapping
  BY <1>1, NewUserType DEF Mapping
<1>3. us = Append(users, NewUser(mac)) /\ ms = Append(mappings, new)
  BY DEF Appended
<1> HIDE DEF us, ms, new
<1>4. /\ us \in Seq(User) /\ Len(us) = n /\ us[n] = NewUser(mac)
      /\ \A u \in 1..Len(users) : us[u] = users[u]
  BY <1>1, <1>2, <1>3, AppendProperties
<1>5. /\ ms \in Seq(Mapping) /\ Len(ms) = c /\ ms[c] = new
      /\ \A k \in 1..Len(mappings) : ms[k] = mappings[k]
  BY <1>1, <1>2, <1>3, AppendProperties
<1>6. new.eth_addr = mac /\ new.user = n
  BY DEF new
<1>7. CardsIn(ms, n) = {c}
  BY <1>1, <1>5, <1>6 DEF CardsIn
<1>8. ASSUME NEW u \in 1..Len(users) PROVE CardsIn(ms, u) = CardsIn(mappings, u)
  <2>1. \A k \in 1..Len(ms) : k \in CardsIn(ms, u) <=> k \in CardsIn(mappings, u)
    BY <1>1, <1>5, <1>6 DEF CardsIn
  <2>2. CardsIn(mappings, u) \subseteq 1..Len(ms)
    BY <1>1, <1>5 DEF CardsIn
  <2> QED BY <2>1, <2>2 DEF CardsIn
<1> QED BY <1>4, <1>5, <1>6, <1>7, <1>8 DEF us, ms

\* remap_user.
LEMMA RemapCards ==
    ASSUME NEW ms \in Seq(Mapping), NEW from \in Nat, NEW to \in Nat, from # to
    PROVE  LET r == Remap(ms, from, to)
           IN  /\ r \in Seq(Mapping) /\ Len(r) = Len(ms)
               /\ \A k \in 1..Len(ms) :
                    /\ r[k].eth_addr = ms[k].eth_addr
                    /\ r[k].user = IF ms[k].user = from THEN to ELSE ms[k].user
               /\ CardsIn(r, to) = CardsIn(ms, to) \cup CardsIn(ms, from)
               /\ CardsIn(r, from) = {}
               /\ \A u : u \notin {from, to} => CardsIn(r, u) = CardsIn(ms, u)
<1> DEFINE r == Remap(ms, from, to)
           New(k) == IF ms[k].user = from THEN [ms[k] EXCEPT !.user = to] ELSE ms[k]
<1>1. Len(ms) \in Nat /\ DOMAIN ms = 1..Len(ms)
  BY LenProperties
<1>2. r = [k \in 1..Len(ms) |-> New(k)]
  BY <1>1 DEF Remap
<1>3. ASSUME NEW k \in 1..Len(ms)
      PROVE  /\ New(k) \in Mapping /\ New(k).eth_addr = ms[k].eth_addr
             /\ New(k).user = IF ms[k].user = from THEN to ELSE ms[k].user
  <2>1. ms[k] \in Mapping
    BY ElementOfSeq
  <2> QED BY <2>1 DEF Mapping
<1> HIDE DEF New, r
<1>4. r \in [1..Len(ms) -> Mapping]
  BY <1>2, <1>3
<1>5. r \in Seq(Mapping) /\ Len(r) = Len(ms)
  BY <1>1, <1>4
<1>6. \A k \in 1..Len(ms) :
            /\ r[k].eth_addr = ms[k].eth_addr
            /\ r[k].user = IF ms[k].user = from THEN to ELSE ms[k].user
  BY <1>2, <1>3
<1>7. CardsIn(r, to) = CardsIn(ms, to) \cup CardsIn(ms, from)
  BY <1>5, <1>6 DEF CardsIn
<1>8. CardsIn(r, from) = {}
  BY <1>5, <1>6 DEF CardsIn
<1>9. ASSUME NEW u, u \notin {from, to} PROVE CardsIn(r, u) = CardsIn(ms, u)
  BY <1>5, <1>6, <1>9 DEF CardsIn
<1> QED BY <1>5, <1>6, <1>7, <1>8, <1>9 DEF r

\* The sums and counts of a row depend on the addresses of the mappings only.
LEMMA RowSoundElsewhere ==
    ASSUME NEW ms \in Seq(Mapping), NEW ns \in Seq(Mapping), NEW C \in SUBSET (1..Len(ms)),
           Len(ms) <= Len(ns), \A k \in C : ns[k].eth_addr = ms[k].eth_addr,
           NEW f \in [Macs -> Nat], NEW g \in [Macs -> Nat], NEW r,
           RowSound(r, ms, C, f, g)
    PROVE  RowSound(r, ns, C, f, g)
<1>1. IsFiniteSet(C) /\ Len(ms) \in Nat /\ Len(ns) \in Nat
  BY CardsType, LenProperties, FS_Subset
<1>2. ASSUME NEW h \in [Macs -> Nat] PROVE Sum(Bytes(ns, h), C) = Sum(Bytes(ms, h), C)
  <2>1. ASSUME NEW k \in C PROVE Bytes(ns, h)[k] = Bytes(ms, h)[k]
    <3>1. k \in 1..Len(ms) /\ k \in 1..Len(ns)
      BY <1>1
    <3>2. Bytes(ns, h)[k] = h[ns[k].eth_addr] /\ Bytes(ms, h)[k] = h[ms[k].eth_addr]
      BY <3>1, BytesType
    <3> QED BY <3>2
  <2> QED BY <1>1, <2>1, SumEqual
<1> QED BY <1>2 DEF RowSound

\* get_user keeps the invariant, and mac is mapped to the user it returns.
LEMMA GotUser ==
    ASSUME UsersInv, NEW mac \in Macs
    PROVE  LET t == GetUser(mac)
           IN  /\ Sound(t.users, t.mappings, Rows(t.users), used, last_used)
               /\ Unknown(t.mappings, used) /\ Unknown(t.mappings, last_used)
               /\ t.user \in Rows(t.users)
               /\ \E k \in 1..Len(t.mappings) : /\ t.mappings[k].eth_addr = mac
                                               /\ t.mappings[k].user = t.user
<1> DEFINE t == GetUser(mac)
<1>1. /\ Tabled(users, mappings, Rows(users))
      /\ users \in Seq(User) /\ mappings \in Seq(Mapping)
      /\ Len(users) \in Nat /\ Len(mappings) \in Nat
      /\ used \in [Macs -> Nat] /\ last_used \in [Macs -> Nat]
  BY SoundType DEF UsersInv, Sound, Unknown
<1>2. CASE \E j \in 1..Len(mappings) : mappings[j].eth_addr = mac
  <2>1. PICK j \in 1..Len(mappings) : mappings[j].eth_addr = mac
    BY <1>2
  <2>2. t.users = users /\ t.mappings = mappings /\ t.user = mappings[j].user
    BY <2>1, GetKnownUser
  <2>3. mappings[j].user \in Rows(users)
    BY <1>1 DEF Tabled
  <2> QED BY <2>1, <2>2, <2>3 DEF UsersInv
<1>3. CASE \A j \in 1..Len(mappings) : mappings[j].eth_addr # mac
  <2> DEFINE us == Appended(mac).users
             ms == Appended(mac).mappings
             n == Len(users) + 1
             c == Len(mappings) + 1
  <2>1. t.users = us /\ t.mappings = ms /\ t.user = n
    BY <1>3, GetNewUser DEF Appended
  <2>2. /\ us \in Seq(User) /\ ms \in Seq(Mapping)
        /\ Len(us) = Len(users) + 1 /\ Len(ms) = Len(mappings) + 1
    BY <1>1, AppendedCards
  <2>3. us[n] = NewUser(mac) /\ \A u \in 1..Len(users) : us[u] = users[u]
    BY <1>1, AppendedCards
  <2>4. /\ ms[c].eth_addr = mac /\ ms[c].user = n
        /\ \A k \in 1..Len(mappings) : ms[k] = mappings[k]
    BY <1>1, AppendedCards
  <2>5. CardsIn(ms, n) = {c} /\ \A u \in 1..Len(users) : CardsIn(ms, u) = CardsIn(mappings, u)
    BY <1>1, AppendedCards
  <2>6. /\ n \in Rows(us) /\ c \in 1..Len(ms)
        /\ \A u \in Rows(us) : u = n \/ u \in 1..Len(users)
        /\ \A k \in 1..Len(ms) : k = c \/ k \in 1..Len(mappings)
        /\ \A u \in 1..Len(users) : u \in Rows(us)
        /\ \A k \in 1..Len(mappings) : k \in 1..Len(ms)
    BY <1>1, <2>2 DEF Rows
  <2> HIDE DEF t, us, ms, n, c
  <2>7. Tabled(us, ms, Rows(us))
    <3>1. \A k \in 1..Len(mappings) : mappings[k].user \in 1..Len(users)
      BY <1>1 DEF Tabled, Rows
    <3>2. \A k \in 1..Len(ms) : ms[k].user \in Rows(us)
      BY <2>4, <2>6, <3>1
    <3>3. ASSUME NEW j \in 1..Len(ms), NEW k \in 1..Len(ms), ms[j].eth_addr = ms[k].eth_addr
          PROVE  j = k
      BY <1>1, <1>3, <2>4, <2>6, <3>3 DEF Tabled
    <3> QED BY <2>2, <3>2, <3>3 DEF Tabled, Rows
  <2>8. RowSound(us[n], ms, {c}, used, last_used)
    <3>1. used[mac] = 0 /\ last_used[mac] = 0
      BY <1>3 DEF UsersInv, Unknown
    <3>2. ASSUME NEW f \in [Macs -> Nat], f[mac] = 0 PROVE Sum(Bytes(ms, f), {c}) = 0
      <4>1. Bytes(ms, f)[c] = 0
        BY <2>2, <2>4, <2>6, <3>2, BytesType
      <4>2. Bytes(ms, f)[c] \in Nat
        BY <4>1
      <4>3. Sum(Bytes(ms, f), {c}) = Bytes(ms, f)[c]
        BY <4>2, SumSingle
      <4> QED BY <4>1, <4>3
    <3>3. Cardinality({c}) % RefMod = 1
      <4>1. Cardinality({c}) = 1
        BY FS_Singleton
      <4>2. 1 % RefMod = 1
        BY RefAssumption
      <4> QED BY <4>1, <4>2
    <3>4. /\ us[n].references = 1 /\ us[n].credit = 0 /\ us[n].last_credit = 0
      BY <2>3 DEF NewUser
    <3> QED BY <1>1, <3>1, <3>2, <3>3, <3>4 DEF RowSound
  <2>9. ASSUME NEW u \in 1..Len(users)
        PROVE  RowSound(us[u], ms, CardsIn(ms, u), used, last_used)
    <3>1. RowSound(users[u], mappings, CardsIn(mappings, u), used, last_used)
      BY DEF UsersInv, Sound, Rows
    <3>2. CardsIn(mappings, u) \in SUBSET (1..Len(mappings))
      BY DEF CardsIn
    <3>3. \A k \in CardsIn(mappings, u) : ms[k].eth_addr = mappings[k].eth_addr
      BY <2>4, <3>2
    <3>4. Len(mappings) <= Len(ms)
      BY <1>1, <2>2
    <3>5. RowSound(users[u], ms, CardsIn(mappings, u), used, last_used)
      BY <1>1, <2>2, <3>1, <3>2, <3>3, <3>4, RowSoundElsewhere
    <3> QED BY <2>3, <2>5, <3>5
  <2>10. Sound(us, ms, Rows(us), used, last_used)
    BY <2>5, <2>6, <2>7, <2>8, <2>9 DEF Sound
  <2>11. ASSUME NEW f, Unknown(mappings, f) PROVE Unknown(ms, f)
    BY <2>4, <2>6, <2>11 DEF Unknown
  <2>12. Unknown(ms, used) /\ Unknown(ms, last_used)
    BY <2>11 DEF UsersInv
  <2> QED BY <2>1, <2>4, <2>6, <2>10, <2>12 DEF t
<1> QED BY <1>2, <1>3

\* A user row that keeps its count and usage may be overwritten.
LEMMA RowOverwritten ==
    ASSUME NEW us, NEW ms, NEW f, NEW g, Sound(us, ms, Rows(us), f, g), NEW u \in Rows(us),
           NEW r \in User, r.references = us[u].references,
           r.credit = us[u].credit, r.last_credit = us[u].last_credit
    PROVE  /\ Sound([us EXCEPT ![u] = r], ms, Rows(us), f, g)
           /\ Len([us EXCEPT ![u] = r]) = Len(us)
<1> DEFINE vs == [us EXCEPT ![u] = r]
<1>1. us \in Seq(User) /\ u \in 1..Len(us) /\ Tabled(us, ms, Rows(us))
  BY DEF Sound, Tabled, Rows
<1>2. /\ vs \in Seq(User) /\ Len(vs) = Len(us)
      /\ \A v \in 1..Len(us) : vs[v] = IF v = u THEN r ELSE us[v]
  BY <1>1, ExceptSeq
<1> HIDE DEF vs
<1>3. Tabled(vs, ms, Rows(us))
  BY <1>1, <1>2 DEF Tabled, Rows
<1>4. \A v \in Rows(us) : RowSound(vs[v], ms, CardsIn(ms, v), f, g)
  BY <1>2 DEF Sound, RowSound, Rows
<1> QED BY <1>2, <1>3, <1>4 DEF Sound, vs

\* A packet of mac, whose user is u, is charged.
RowRaised(us, u, len) == [us EXCEPT ![u].credit = @ + len]
UsageRaised(f, mac, len) == [f EXCEPT ![mac] = @ + len]

LEMMA RowCharged ==
    ASSUME NEW us, NEW ms, NEW f \in [Macs -> Nat], NEW g \in [Macs -> Nat],
           Sound(us, ms, Rows(us), f, g), NEW u \in Rows(us), NEW mac \in Macs, NEW len \in Nat,
           NEW j \in 1..Len(ms), ms[j].eth_addr = mac, ms[j].user = u
    PROVE  /\ Sound(RowRaised(us, u, len), ms, Rows(us), UsageRaised(f, mac, len), g)
           /\ Len(RowRaised(us, u, len)) = Len(us)
<1> DEFINE vs == RowRaised(us, u, len)
           r == [us[u] EXCEPT !.credit = @ + len]
           h == UsageRaised(f, mac, len)
<1>1. us \in Seq(User) /\ ms \in Seq(Mapping) /\ u \in 1..Len(us) /\ Tabled(us, ms, Rows(us))
  BY DEF Sound, Tabled, Rows
<1>2. /\ r \in User /\ r.credit = us[u].credit + len
      /\ r.last_credit = us[u].last_credit /\ r.references = us[u].references
  <2>1. us[u] \in User /\ us[u].credit + len \in Nat
    BY <1>1, UserRow
  <2> QED BY <2>1 DEF User
<1>3. /\ vs \in Seq(User) /\ Len(vs) = Len(us)
      /\ \A v \in 1..Len(us) : vs[v] = IF v = u THEN r ELSE us[v]
  <2>1. vs = [us EXCEPT ![u] = r]
    BY DEF RowRaised
  <2> HIDE DEF vs, r
  <2> QED BY <1>1, <1>2, <2>1, ExceptSeq
<1>4. h \in [Macs -> Nat] /\ h[mac] = f[mac] + len /\ \A m \in Macs \ {mac} : h[m] = f[m]
  BY DEF UsageRaised
<1> HIDE DEF vs, r, h
<1>5. ASSUME NEW k \in 1..Len(ms)
      PROVE  /\ Bytes(ms, f)[k] \in Nat /\ Bytes(ms, h)[k] \in Nat
             /\ k # j => Bytes(ms, h)[k] = Bytes(ms, f)[k]
             /\ Bytes(ms, h)[j] = Bytes(ms, f)[j] + len
  <2>1. ms[k].eth_addr \in Macs /\ (k # j => ms[k].eth_addr # mac)
    BY <1>1, MappingRow DEF Tabled
  <2>2. /\ Bytes(ms, f)[k] = f[ms[k].eth_addr] /\ Bytes(ms, f)[k] \in Nat
        /\ Bytes(ms, f)[j] = f[mac]
    BY <1>1, BytesType
  <2>3. /\ Bytes(ms, h)[k] = h[ms[k].eth_addr] /\ Bytes(ms, h)[k] \in Nat
        /\ Bytes(ms, h)[j] = h[mac]
    BY <1>1, <1>4, BytesType
  <2> QED BY <1>4, <2>1, <2>2, <2>3
<1>6. ASSUME NEW v \in 1..Len(us) PROVE RowSound(vs[v], ms, CardsIn(ms, v), h, g)
  <2> DEFINE C == CardsIn(ms, v)
  <2>1. RowSound(us[v], ms, C, f, g) /\ IsFiniteSet(C) /\ C \subseteq 1..Len(ms)
    BY <1>1, CardsType DEF Sound, Rows
  <2>2. CASE v = u
    <3>1. j \in C
      BY <2>2 DEF CardsIn
    <3>2. Sum(Bytes(ms, h), C) = Sum(Bytes(ms, f), C) + len
      <4>1. \A k \in C : Bytes(ms, f)[k] \in Nat
        BY <1>5, <2>1
      <4>2. \A k \in C \ {j} : Bytes(ms, h)[k] = Bytes(ms, f)[k]
        BY <1>5, <2>1
      <4> HIDE DEF C
      <4> QED BY <1>5, <2>1, <3>1, <4>1, <4>2, SumRaised
    <3>3. vs[v] = r
      BY <1>3, <2>2
    <3> QED BY <1>2, <2>1, <2>2, <3>2, <3>3 DEF RowSound
  <2>3. CASE v # u
    <3>1. \A k \in C : Bytes(ms, h)[k] = Bytes(ms, f)[k]
      BY <1>5, <2>1, <2>3 DEF CardsIn
    <3>2. Sum(Bytes(ms, h), C) = Sum(Bytes(ms, f), C)
      BY <2>1, <3>1, SumEqual
    <3>3. vs[v] = us[v]
      BY <1>3, <2>3
    <3> QED BY <2>1, <3>2, <3>3 DEF RowSound
  <2> QED BY <2>2, <2>3
<1>7. Tabled(vs, ms, Rows(us))
  BY <1>1, <1>3 DEF Tabled, Rows
<1>8. Sound(vs, ms, Rows(us), h, g)
  BY <1>6, <1>7 DEF Sound, Rows
<1> QED BY <1>3, <1>8 DEF vs, h

\* A new billing period.
LEMMA RowsRolledOver ==
    ASSUME NEW us, NEW ms, NEW f \in [Macs -> Nat], NEW g \in [Macs -> Nat],
           Sound(us, ms, Rows(us), f, g)
    PROVE  LET vs == [k \in DOMAIN us |-> RolledOver(us[k])]
           IN  Sound(vs, ms, Rows(vs), [m \in Macs |-> 0], f) /\ Len(vs) = Len(us)
<1> DEFINE vs == [k \in DOMAIN us |-> RolledOver(us[k])]
           z == [m \in Macs |-> 0]
<1>1. /\ us \in Seq(User) /\ ms \in Seq(Mapping) /\ Tabled(us, ms, Rows(us))
      /\ Len(us) \in Nat /\ DOMAIN us = 1..Len(us)
  BY SoundType DEF Sound
<1>2. ASSUME NEW u \in 1..Len(us)
      PROVE  /\ RolledOver(us[u]) \in User /\ RolledOver(us[u]).credit = 0
             /\ RolledOver(us[u]).last_credit = us[u].credit
             /\ RolledOver(us[u]).references = us[u].references
  BY <1>1, UserRow DEF RolledOver, User
<1>3. /\ vs \in Seq(User) /\ Len(vs) = Len(us)
      /\ \A u \in 1..Len(us) : vs[u] = RolledOver(us[u])
  <2>1. vs \in [1..Len(us) -> User]
    BY <1>1, <1>2
  <2> QED BY <1>1, <2>1
<1>4. z \in [Macs -> Nat]
  OBVIOUS
<1> HIDE DEF vs
<1>5. ASSUME NEW u \in 1..Len(us) PROVE RowSound(vs[u], ms, CardsIn(ms, u), z, f)
  <2> DEFINE C == CardsIn(ms, u)
  <2>1. RowSound(us[u], ms, C, f, g) /\ IsFiniteSet(C) /\ C \subseteq 1..Len(ms)
    BY <1>1, CardsType DEF Sound, Rows
  <2>2. \A k \in C : Bytes(ms, z)[k] = 0
    <3> SUFFICES ASSUME NEW k \in C PROVE Bytes(ms, z)[k] = 0
      OBVIOUS
    <3>1. Bytes(ms, z)[k] = z[ms[k].eth_addr] /\ ms[k].eth_addr \in Macs
      <4>1. k \in 1..Len(ms)
        BY <2>1
      <4> HIDE DEF z
      <4> QED BY <1>1, <1>4, <4>1, BytesType, MappingRow
    <3> QED BY <3>1
  <2>3. Sum(Bytes(ms, z), C) = 0
    <3> HIDE DEF z, C
    <3> QED BY <2>1, <2>2, SumZero
  <2> QED BY <1>2, <1>3, <2>1, <2>3 DEF RowSound
<1>6. Tabled(vs, ms, Rows(vs))
  BY <1>1, <1>3 DEF Tabled, Rows
<1>7. Sound(vs, ms, Rows(vs), z, f)
  BY <1>3, <1>5, <1>6 DEF Sound, Rows
<1> QED BY <1>3, <1>7 DEF vs

\* The first half of merge_users: the row to takes over the cards, the usage
\* and the references of the row from.
LEMMA RowAbsorbed ==
    ASSUME NEW us, NEW ms, NEW f \in [Macs -> Nat], NEW g \in [Macs -> Nat],
           Sound(us, ms, Rows(us), f, g), NEW from \in Rows(us), NEW to \in Rows(us), from # to
    PROVE  LET vs == [us EXCEPT ![to] = Absorbed(@, us[from])]
           IN  /\ Sound(vs, Remap(ms, from, to), Rows(vs) \ {from}, f, g)
               /\ Len(vs) = Len(us)
               /\ \A u \in Rows(us) \ {to} : vs[u] = us[u]
               /\ vs[to] = Absorbed(us[to], us[from])
<1> DEFINE r == Absorbed(us[to], us[from])
           vs == [us EXCEPT ![to] = Absorbed(@, us[from])]
           ns == Remap(ms, from, to)
<1>1. /\ us \in Seq(User) /\ ms \in Seq(Mapping) /\ Tabled(us, ms, Rows(us))
      /\ Len(us) \in Nat /\ Len(ms) \in Nat /\ from \in 1..Len(us) /\ to \in 1..Len(us)
  BY SoundType DEF Sound, Rows
<1>2. /\ r \in User /\ r.credit = us[to].credit + us[from].credit
      /\ r.last_credit = us[to].last_credit + us[from].last_credit
      /\ r.references = (us[to].references + us[from].references) % RefMod
  <2>1. us[to] \in User /\ us[from] \in User
    BY <1>1, UserRow
  <2>2. (us[to].references + us[from].references) % RefMod \in 0..(RefMod - 1)
    <3>1. us[to].references + us[from].references \in Nat
      BY <2>1, RefAssumption DEF User
    <3> QED BY <3>1, RefAssumption, ModDef
  <2>3. us[to].credit + us[from].credit \in Nat /\ us[to].last_credit + us[from].last_credit \in Nat
    BY <2>1 DEF User
  <2> QED BY <2>1, <2>2, <2>3 DEF Absorbed, User
<1>3. /\ vs \in Seq(User) /\ Len(vs) = Len(us)
      /\ \A u \in 1..Len(us) : vs[u] = IF u = to THEN r ELSE us[u]
  <2>1. vs = [us EXCEPT ![to] = r]
    OBVIOUS
  <2> HIDE DEF vs, r
  <2> QED BY <1>1, <1>2, <2>1, ExceptSeq
<1>4. /\ ns \in Seq(Mapping) /\ Len(ns) = Len(ms)
      /\ \A k \in 1..Len(ms) : /\ ns[k].eth_addr = ms[k].eth_addr
                               /\ ns[k].user = IF ms[k].user = from THEN to ELSE ms[k].user
      /\ CardsIn(ns, to) = CardsIn(ms, to) \cup CardsIn(ms, from)
      /\ \A u : u \notin {from, to} => CardsIn(ns, u) = CardsIn(ms, u)
  BY <1>1, RemapCards
<1> HIDE DEF vs, ns, r
<1>5. Tabled(vs, ns, Rows(vs) \ {from})
  BY <1>1, <1>3, <1>4 DEF Tabled, Rows
<1>6. ASSUME NEW u \in Rows(us)
      PROVE  /\ RowSound(us[u], ns, CardsIn(ms, u), f, g)
             /\ IsFiniteSet(CardsIn(ms, u)) /\ CardsIn(ms, u) \in SUBSET (1..Len(ms))
             /\ Cardinality(CardsIn(ms, u)) \in Nat
  <2>1. /\ RowSound(us[u], ms, CardsIn(ms, u), f, g) /\ CardsIn(ms, u) \in SUBSET (1..Len(ms))
        /\ IsFiniteSet(CardsIn(ms, u)) /\ Cardinality(CardsIn(ms, u)) \in Nat
    BY <1>1, CardsType DEF Sound
  <2>2. Len(ms) <= Len(ns) /\ \A k \in CardsIn(ms, u) : ns[k].eth_addr = ms[k].eth_addr
    BY <1>1, <1>4, <2>1
  <2>3. RowSound(us[u], ns, CardsIn(ms, u), f, g)
    BY <1>1, <1>4, <2>1, <2>2, RowSoundElsewhere
  <2> QED BY <2>1, <2>3
<1>7. RowSound(r, ns, CardsIn(ns, to), f, g)
  <2> DEFINE A == CardsIn(ms, to)
             B == CardsIn(ms, from)
  <2>1. /\ RowSound(us[to], ns, A, f, g) /\ RowSound(us[from], ns, B, f, g)
        /\ IsFiniteSet(A) /\ IsFiniteSet(B) /\ A \in SUBSET (1..Len(ms)) /\ B \in SUBSET (1..Len(ms))
        /\ Cardinality(A) \in Nat /\ Cardinality(B) \in Nat
    BY <1>6
  <2>2. A \cap B = {} /\ CardsIn(ns, to) = A \cup B
    BY <1>4 DEF CardsIn
  <2> HIDE DEF A, B
  <2>3. Cardinality(A \cup B) = Cardinality(A) + Cardinality(B)
    <3>1. Cardinality(A \cup B) = Cardinality(A) + Cardinality(B) - Cardinality(A \cap B)
      BY <2>1, FS_Union
    <3>2. Cardinality(A \cap B) = 0
      BY <2>2, FS_EmptySet
    <3> QED BY <2>1, <3>1, <3>2
  <2>4. ASSUME NEW h \in [Macs -> Nat]
        PROVE  Sum(Bytes(ns, h), A \cup B) = Sum(Bytes(ns, h), A) + Sum(Bytes(ns, h), B)
    <3>1. \A k \in A \cup B : Bytes(ns, h)[k] \in Nat
      BY <1>4, <2>1, BytesType
    <3> QED BY <2>1, <2>2, <3>1, SumUnion
  <2>5. r.references = (Cardinality(A) + Cardinality(B)) % RefMod
    <3>1. r.references = ((Cardinality(A) % RefMod) + (Cardinality(B) % RefMod)) % RefMod
      BY <1>2, <2>1 DEF RowSound
    <3> QED BY <2>1, <3>1, ModAdd, RefAssumption
  <2>6. A \cup B # {}
    BY <2>1 DEF RowSound
  <2> QED BY <1>2, <2>1, <2>2, <2>3, <2>4, <2>5, <2>6 DEF RowSound
<1>8. ASSUME NEW u \in Rows(vs) \ {from}
      PROVE  RowSound(vs[u], ns, CardsIn(ns, u), f, g)
  BY <1>3, <1>4, <1>6, <1>7 DEF Rows
<1>9. Sound(vs, ns, Rows(vs) \ {from}, f, g)
  BY <1>5, <1>8 DEF Sound
<1> QED BY <1>3, <1>9 DEF vs, ns, r, Rows

\* __free_table_entry: what was row u, or the last row if u is the one freed,
\* is row u now.
Origin(us, entry, u) == IF u = entry THEN Len(us) ELSE u

LEMMA FreedRows ==
    ASSUME NEW us, NEW ms, NEW entry \in Rows(us), Tabled(us, ms, Rows(us) \ {entry})
    PROVE  LET t == Free(us, ms, entry)
           IN  /\ t.users \in Seq(User) /\ t.mappings \in Seq(Mapping)
               /\ Len(t.users) = Len(us) - 1 /\ Len(t.mappings) = Len(ms)
               /\ \A k \in 1..Len(ms) : /\ t.mappings[k].eth_addr = ms[k].eth_addr
                                        /\ t.mappings[k].user \in Rows(t.users)
               /\ \A u \in Rows(t.users) :
                    /\ Origin(us, entry, u) \in Rows(us) \ {entry}
                    /\ t.users[u] = us[Origin(us, entry, u)]
                    /\ CardsIn(t.mappings, u) = CardsIn(ms, Origin(us, entry, u))
               /\ \A v \in Rows(us) \ {entry} :
                    \E u \in Rows(t.users) : v = Origin(us, entry, u)
<1> DEFINE t == Free(us, ms, entry)
           last == Len(us)
           ws == [us EXCEPT ![entry] = us[last]]
<1>1. /\ us \in Seq(User) /\ ms \in Seq(Mapping) /\ last \in Nat /\ entry \in 1..last
      /\ Len(ms) \in Nat /\ last \in 1..last
  BY SoundType DEF Rows
<1>2. /\ ws \in Seq(User) /\ Len(ws) = last
      /\ \A u \in 1..last : ws[u] = IF u = entry THEN us[last] ELSE us[u]
  <2>1. us[last] \in User
    BY <1>1, ElementOfSeq
  <2> QED BY <1>1, <2>1, ExceptSeq
<1>3. t.users = SubSeq(ws, 1, last - 1)
  BY DEF Free
<1>4. t.mappings = IF last # entry THEN Remap(ms, last, entry) ELSE ms
  BY DEF Free
<1> HIDE DEF t, ws
<1>5. /\ t.users \in Seq(User) /\ Len(t.users) = last - 1
      /\ \A u \in 1..(last - 1) : t.users[u] = us[Origin(us, entry, u)]
  <2>1. \A u \in 1..(last - 1) : ws[u] \in User
    BY <1>1, <1>2, ElementOfSeq
  <2>2. /\ t.users \in Seq(User)
        /\ Len(t.users) = IF 1 <= last - 1 THEN (last - 1) - 1 + 1 ELSE 0
        /\ \A u \in 1..((last - 1) - 1 + 1) : t.users[u] = ws[1 + u - 1]
    BY <1>1, <1>3, <2>1, SubSeqProperties
  <2> QED BY <1>1, <1>2, <2>2 DEF Origin
<1>6. \A k \in 1..Len(ms) : ms[k].user \in Rows(us) \ {entry}
  BY DEF Tabled
<1>7. \A u \in 1..(last - 1) : Origin(us, entry, u) \in Rows(us) \ {entry}
  BY <1>1 DEF Origin, Rows
<1>8. \A v \in Rows(us) \ {entry} : \E u \in 1..(last - 1) : v = Origin(us, entry, u)
  <2> SUFFICES ASSUME NEW v \in Rows(us) \ {entry}
               PROVE  \E u \in 1..(last - 1) : v = Origin(us, entry, u)
    OBVIOUS
  <2>1. CASE v = last
    BY <1>1, <2>1 DEF Origin, Rows
  <2>2. CASE v # last
    BY <1>1, <2>2 DEF Origin, Rows
  <2> QED BY <2>1, <2>2
<1>9. /\ t.mappings \in Seq(Mapping) /\ Len(t.mappings) = Len(ms)
      /\ \A k \in 1..Len(ms) : /\ t.mappings[k].eth_addr = ms[k].eth_addr
                               /\ t.mappings[k].user \in 1..(last - 1)
      /\ \A u \in 1..(last - 1) : CardsIn(t.mappings, u) = CardsIn(ms, Origin(us, entry, u))
  <2>1. CASE entry = last
    <3>1. t.mappings = ms
      BY <1>4, <2>1
    <3>2. \A u \in 1..(last - 1) : Origin(us, entry, u) = u
      BY <1>1, <2>1 DEF Origin
    <3> QED BY <1>1, <1>6, <2>1, <3>1, <3>2 DEF Rows
  <2>2. CASE entry # last
    <3>1. t.mappings = Remap(ms, last, entry)
      BY <1>4, <2>2
    <3>2. /\ t.mappings \in Seq(Mapping) /\ Len(t.mappings) = Len(ms)
          /\ \A k \in 1..Len(ms) :
                /\ t.mappings[k].eth_addr = ms[k].eth_addr
                /\ t.mappings[k].user = IF ms[k].user = last THEN entry ELSE ms[k].user
          /\ CardsIn(t.mappings, entry) = CardsIn(ms, entry) \cup CardsIn(ms, last)
          /\ \A u : u \notin {last, entry} => CardsIn(t.mappings, u) = CardsIn(ms, u)
      BY <1>1, <2>2, <3>1, RemapCards
    <3>3. CardsIn(ms, entry) = {}
      BY <1>6 DEF CardsIn
    <3>4. \A k \in 1..Len(ms) : t.mappings[k].user \in 1..(last - 1)
      BY <1>1, <1>6, <2>2, <3>2 DEF Rows
    <3>5. ASSUME NEW u \in 1..(last - 1)
          PROVE  CardsIn(t.mappings, u) = CardsIn(ms, Origin(us, entry, u))
      BY <1>1, <3>2, <3>3 DEF Origin
    <3> QED BY <3>2, <3>4, <3>5
  <2> QED BY <2>1, <2>2
<1> QED BY <1>5, <1>7, <1>8, <1>9 DEF t, Rows

LEMMA FreedSound ==
    ASSUME NEW us, NEW ms, NEW entry \in Rows(us), NEW f \in [Macs -> Nat], NEW g \in [Macs -> Nat],
           Sound(us, ms, Rows(us) \ {entry}, f, g)
    PROVE  LET t == Free(us, ms, entry)
           IN  Sound(t.users, t.mappings, Rows(t.users), f, g)
<1> DEFINE vs == Free(us, ms, entry).users
           ns == Free(us, ms, entry).mappings
<1>1. Tabled(us, ms, Rows(us) \ {entry}) /\ ms \in Seq(Mapping) /\ Len(ms) \in Nat
  BY SoundType DEF Sound
<1>2. /\ vs \in Seq(User) /\ ns \in Seq(Mapping) /\ Len(ns) = Len(ms)
      /\ \A k \in 1..Len(ms) : /\ ns[k].eth_addr = ms[k].eth_addr
                               /\ ns[k].user \in Rows(vs)
      /\ \A u \in Rows(vs) :
            /\ Origin(us, entry, u) \in Rows(us) \ {entry}
            /\ vs[u] = us[Origin(us, entry, u)]
            /\ CardsIn(ns, u) = CardsIn(ms, Origin(us, entry, u))
  BY <1>1, FreedRows
<1> HIDE DEF vs, ns
<1>3. Tabled(vs, ns, Rows(vs))
  BY <1>1, <1>2 DEF Tabled, Rows
<1>4. ASSUME NEW u \in Rows(vs) PROVE RowSound(vs[u], ns, CardsIn(ns, u), f, g)
  <2> DEFINE o == Origin(us, entry, u)
  <2>1. RowSound(us[o], ms, CardsIn(ms, o), f, g) /\ CardsIn(ms, o) \in SUBSET (1..Len(ms))
    BY <1>2 DEF Sound, CardsIn
  <2>2. Len(ms) <= Len(ns) /\ \A k \in CardsIn(ms, o) : ns[k].eth_addr = ms[k].eth_addr
    BY <1>1, <1>2, <2>1
  <2>3. RowSound(us[o], ns, CardsIn(ms, o), f, g)
    <3> HIDE DEF o
    <3> QED BY <1>1, <1>2, <2>1, <2>2, RowSoundElsewhere
  <2> QED BY <1>2, <2>3
<1>5. Sound(vs, ns, Rows(vs), f, g)
  BY <1>3, <1>4 DEF Sound
<1> QED BY <1>5 DEF vs, ns

\* merge_users.
LEMMA MergedSound ==
    ASSUME NEW us, NEW ms, NEW f \in [Macs -> Nat], NEW g \in [Macs -> Nat],
           Sound(us, ms, Rows(us), f, g), NEW from \in Rows(us), NEW to \in Rows(us), from # to
    PROVE  LET t == MergeUsers(us, ms, from, to)
           IN  /\ Sound(t.users, t.mappings, Rows(t.users), f, g)
               /\ Len(t.mappings) = Len(ms)
               /\ \A k \in 1..Len(ms) : t.mappings[k].eth_addr = ms[k].eth_addr
<1> DEFINE vs == [us EXCEPT ![to] = Absorbed(@, us[from])]
           ns == Remap(ms, from, to)
           t == MergeUsers(us, ms, from, to)
<1>1. t = Free(vs, ns, from)
  BY DEF MergeUsers
<1>2. Sound(vs, ns, Rows(vs) \ {from}, f, g) /\ Len(vs) = Len(us)
  BY RowAbsorbed
<1>3. Len(ns) = Len(ms) /\ \A k \in 1..Len(ms) : ns[k].eth_addr = ms[k].eth_addr
  <2>1. ms \in Seq(Mapping) /\ from \in Nat /\ to \in Nat
    BY SoundType DEF Sound, Rows
  <2> QED BY <2>1, RemapCards
<1> HIDE DEF vs, ns, t
<1>4. from \in Rows(vs)
  BY <1>2 DEF Rows
<1>5. Sound(t.users, t.mappings, Rows(t.users), f, g)
  BY <1>1, <1>2, <1>4, FreedSound
<1>6. /\ Len(t.mappings) = Len(ns)
      /\ \A k \in 1..Len(ns) : t.mappings[k].eth_addr = ns[k].eth_addr
  <2>1. Tabled(vs, ns, Rows(vs) \ {from})
    BY <1>2 DEF Sound
  <2> QED BY <1>1, <1>4, <2>1, FreedRows
<1> QED BY <1>3, <1>5, <1>6 DEF t

----------------------------------------------------------------------------
\* The invariant.

LEMMA InitSound == UsersInit => UsersInv
<1> SUFFICES ASSUME UsersInit PROVE UsersInv
  OBVIOUS
<1>1. /\ users \in Seq(User) /\ mappings \in Seq(Mapping) /\ Rows(users) = {}
      /\ Len(mappings) = 0
  BY EmptySeq DEF UsersInit, Rows
<1>2. Sound(users, mappings, Rows(users), used, last_used)
  BY <1>1 DEF Sound, Tabled
<1>3. Unknown(mappings, used) /\ Unknown(mappings, last_used)
  BY DEF UsersInit, Unknown
<1> QED BY <1>2, <1>3 DEF UsersInv

LEMMA ChargeSound ==
    ASSUME UsersInv, NEW mac \in Macs, NEW len \in Lengths, ChargeForPacket(mac, len)
    PROVE  UsersInv'
<1> DEFINE t == GetUser(mac)
<1>1. /\ users' = [t.users EXCEPT ![t.user].credit = @ + len]
      /\ mappings' = t.mappings /\ last_used' = last_used
      /\ used' = [used EXCEPT ![mac] = @ + len]
  BY DEF ChargeForPacket
<1>2. /\ Sound(t.users, t.mappings, Rows(t.users), used, last_used)
      /\ Unknown(t.mappings, used) /\ Unknown(t.mappings, last_used)
      /\ t.user \in Rows(t.users)
  BY GotUser
<1>3. PICK j \in 1..Len(t.mappings) : t.mappings[j].eth_addr = mac /\ t.mappings[j].user = t.user
  BY GotUser
<1>4. used \in [Macs -> Nat] /\ last_used \in [Macs -> Nat] /\ len \in Nat
  BY LengthsAssumption DEF UsersInv, Unknown
<1> HIDE DEF t
<1>5. Sound(users', mappings', Rows(t.users), used', last_used') /\ Len(users') = Len(t.users)
  <2>1. users' = RowRaised(t.users, t.user, len) /\ used' = UsageRaised(used, mac, len)
    BY <1>1 DEF RowRaised, UsageRaised
  <2>2. mappings' = t.mappings /\ last_used' = last_used
    BY <1>1
  <2>3. /\ Sound(RowRaised(t.users, t.user, len), t.mappings, Rows(t.users),
                 UsageRaised(used, mac, len), last_used)
        /\ Len(RowRaised(t.users, t.user, len)) = Len(t.users)
    BY <1>2, <1>3, <1>4, RowCharged
  <2> QED BY <2>1, <2>2, <2>3
<1>6. Unknown(mappings', used')
  <2>1. used' \in [Macs -> Nat] /\ \A m \in Macs \ {mac} : used'[m] = used[m]
    BY <1>1, <1>4
  <2>2. ASSUME NEW m \in Macs
        PROVE  used'[m] = 0 \/ \E k \in 1..Len(t.mappings) : t.mappings[k].eth_addr = m
    BY <1>2, <1>3, <2>1 DEF Unknown
  <2> QED BY <1>1, <2>1, <2>2 DEF Unknown
<1>7. Unknown(mappings', last_used')
  BY <1>1, <1>2
<1> QED BY <1>5, <1>6, <1>7 DEF UsersInv, Rows

LEMMA LookupSound ==
    ASSUME UsersInv, NEW mac \in Macs, LookupUser(mac)
    PROVE  UsersInv'
<1>1. /\ users' = GetUser(mac).users /\ mappings' = GetUser(mac).mappings
      /\ used' = used /\ last_used' = last_used
  BY DEF LookupUser
<1> QED BY <1>1, GotUser DEF UsersInv

LEMMA SetNameSound ==
    ASSUME UsersInv, NEW mac \in Macs, NEW name \in Names, SetName(mac, name)
    PROVE  UsersInv'
<1> DEFINE t == GetUser(mac)
           r == [t.users[t.user] EXCEPT !.name = name, !.custom = TRUE]
<1>1. /\ users' = [t.users EXCEPT ![t.user].name = name, ![t.user].custom = TRUE]
      /\ mappings' = t.mappings /\ used' = used /\ last_used' = last_used
  BY DEF SetName
<1>2. /\ Sound(t.users, t.mappings, Rows(t.users), used, last_used)
      /\ Unknown(t.mappings, used) /\ Unknown(t.mappings, last_used)
      /\ t.user \in Rows(t.users)
  BY GotUser
<1>3. /\ r \in User /\ r.references = t.users[t.user].references
      /\ r.credit = t.users[t.user].credit /\ r.last_credit = t.users[t.user].last_credit
  <2>1. t.users[t.user] \in User
    BY <1>2, UserRow DEF Sound, Tabled, Rows
  <2> HIDE DEF t
  <2> QED BY <2>1 DEF User
<1>4. users' = [t.users EXCEPT ![t.user] = r]
  <2>1. t.user \in DOMAIN t.users
    BY <1>2, SoundType DEF Sound, Rows
  <2> HIDE DEF t
  <2> QED BY <1>1, <2>1
<1> HIDE DEF t, r
<1>5. Sound(users', mappings', Rows(t.users), used', last_used') /\ Len(users') = Len(t.users)
  BY <1>1, <1>2, <1>3, <1>4, RowOverwritten
<1> QED BY <1>1, <1>2, <1>5 DEF UsersInv, Rows

LEMMA MergeSound ==
    ASSUME UsersInv, NEW mac \in Macs, NEW name \in Names, MergeMac(mac, name)
    PROVE  UsersInv'
<1> DEFINE t == GetUser(mac)
           named == Named(t.users, name)
           to == FirstIn(named)
           merged == MergeUsers(t.users, t.mappings, t.user, to)
<1>1. /\ Sound(t.users, t.mappings, Rows(t.users), used, last_used)
      /\ Unknown(t.mappings, used) /\ Unknown(t.mappings, last_used)
      /\ t.user \in Rows(t.users)
  BY GotUser
<1>2. used' = used /\ last_used' = last_used
  BY DEF MergeMac
<1>3. CASE named = {} \/ to = t.user
  <2>1. users' = t.users /\ mappings' = t.mappings
    BY <1>3 DEF MergeMac
  <2> HIDE DEF t
  <2> QED BY <1>1, <1>2, <2>1 DEF UsersInv
<1>4. CASE named # {} /\ to # t.user
  <2>1. users' = merged.users /\ mappings' = merged.mappings
    BY <1>4 DEF MergeMac
  <2>2. to \in Rows(t.users)
    <3>1. DOMAIN t.users = Rows(t.users) /\ Rows(t.users) \in SUBSET Nat
      BY <1>1, SoundType DEF Sound, Rows
    <3>2. named \in SUBSET Nat /\ named \in SUBSET Rows(t.users)
      <4> HIDE DEF t
      <4> QED BY <3>1 DEF Named
    <3> HIDE DEF named
    <3>3. to \in named
      BY <1>4, <3>2, FirstInType
    <3> QED BY <3>2, <3>3
  <2>3. used \in [Macs -> Nat] /\ last_used \in [Macs -> Nat]
    BY DEF UsersInv, Unknown
  <2> HIDE DEF t, named, to
  <2>4. /\ Sound(merged.users, merged.mappings, Rows(merged.users), used, last_used)
        /\ Len(merged.mappings) = Len(t.mappings)
        /\ \A k \in 1..Len(t.mappings) : merged.mappings[k].eth_addr = t.mappings[k].eth_addr
    BY <1>1, <1>4, <2>2, <2>3, MergedSound
  <2> HIDE DEF merged
  <2>5. Unknown(merged.mappings, used) /\ Unknown(merged.mappings, last_used)
    BY <1>1, <2>4 DEF Unknown
  <2> QED BY <1>2, <2>1, <2>4, <2>5 DEF UsersInv
<1> QED BY <1>3, <1>4

LEMMA PeriodSound == ASSUME UsersInv, StartPeriod PROVE UsersInv'
<1>1. /\ users' = [k \in DOMAIN users |-> RolledOver(users[k])] /\ mappings' = mappings
      /\ used' = [m \in Macs |-> 0] /\ last_used' = used
  BY DEF StartPeriod
<1>2. used \in [Macs -> Nat] /\ last_used \in [Macs -> Nat]
  BY DEF UsersInv, Unknown
<1>3. Sound(users, mappings, Rows(users), used, last_used)
  BY DEF UsersInv
<1>4. Sound(users', mappings', Rows(users'), used', last_used')
  BY <1>1, <1>2, <1>3, RowsRolledOver
<1>5. Unknown(mappings', used') /\ Unknown(mappings', last_used')
  BY <1>1 DEF UsersInv, Unknown
<1> QED BY <1>4, <1>5 DEF UsersInv

LEMMA UsersStepSound == ASSUME UsersInv, [UsersNext]_userVars PROVE UsersInv'
<1>1. CASE Packet
  BY <1>1, ChargeSound DEF Packet
<1>2. CASE Request
  BY <1>2, LookupSound, SetNameSound, MergeSound, NamesAssumption DEF Request
<1>3. CASE StartPeriod
  BY <1>3, PeriodSound
<1>4. CASE UNCHANGED userVars
  BY <1>4 DEF userVars, UsersInv
<1> QED BY <1>1, <1>2, <1>3, <1>4 DEF UsersNext

LEMMA UsersInvariant == UsersSpec => []UsersInv
<1>1. UsersInv /\ [UsersNext]_userVars => UsersInv'
  BY UsersStepSound
<1> QED BY <1>1, InitSound, PTL DEF UsersSpec

\* The tables are well typed (user.c, table.c).
THEOREM TablesTyped == UsersSpec => []UsersTypeOK
<1>1. UsersInv => UsersTypeOK
  BY InvariantMeans
<1> QED BY <1>1, UsersInvariant, PTL

\* No mapping dangles and no card has two, whichever users are merged and
\* whichever row moves into the freed one (table.c:35-37, user.c:86-91).
THEOREM MappingsStayValid == UsersSpec => []MappingsValid
<1>1. UsersInv => MappingsValid
  BY InvariantMeans
<1> QED BY <1>1, UsersInvariant, PTL

\* references counts the cards of a user, modulo the width of the field, and no
\* user is without a card, which the bindings page relies on.
THEOREM ReferencesStayCounted == UsersSpec => []ReferencesCounted
<1>1. UsersInv => ReferencesCounted
  BY InvariantMeans
<1> QED BY <1>1, UsersInvariant, PTL

\* Nothing that a card transferred is lost or charged twice in a merge, a move
\* of rows or at the end of a period (user.c:64-91, 204-212, win32/main.c:28-38).
THEOREM UsageStaysConserved == UsersSpec => []UsageConserved
<1>1. UsersInv => UsageConserved
  BY InvariantMeans
<1> QED BY <1>1, UsersInvariant, PTL

----------------------------------------------------------------------------
\* The tables implement Ledger.

AccountIn(us, ms, u) ==
    [macs |-> {ms[k].eth_addr : k \in CardsIn(ms, u)}, name |-> us[u].name,
     credit |-> us[u].credit, last_credit |-> us[u].last_credit, custom |-> us[u].custom]

AccountsIn(us, ms, D) == {AccountIn(us, ms, u) : u \in D}

AccountType ==
    [macs : SUBSET Macs, name : Names, credit : Nat, last_credit : Nat, custom : BOOLEAN]

LEMMA AccountFields ==
    ASSUME NEW a \in AccountType
    PROVE  a = [macs |-> a.macs, name |-> a.name, credit |-> a.credit,
                last_credit |-> a.last_credit, custom |-> a.custom]
BY DEF AccountType

LEMMA AccountInType ==
    ASSUME NEW us \in Seq(User), NEW ms \in Seq(Mapping), NEW u \in 1..Len(us)
    PROVE  AccountIn(us, ms, u) \in AccountType
<1>1. us[u] \in User
  BY UserRow
<1>2. {ms[k].eth_addr : k \in CardsIn(ms, u)} \subseteq Macs
  BY MappingRow DEF CardsIn
<1> QED BY <1>1, <1>2 DEF User, AccountType, AccountIn

Populated(us, ms, D) == Tabled(us, ms, D) /\ \A u \in D : CardsIn(ms, u) # {}

LEMMA SoundIsPopulated ==
    ASSUME NEW us, NEW ms, NEW D, NEW f, NEW g, Sound(us, ms, D, f, g)
    PROVE  Populated(us, ms, D)
BY DEF Sound, RowSound, Populated

\* A card belongs to the account of the row it is mapped to and to no other:
\* different rows have different accounts.
LEMMA AccountsDistinct ==
    ASSUME NEW us, NEW ms, NEW D, Populated(us, ms, D)
    PROVE  /\ \A k \in 1..Len(ms), u \in D :
                ms[k].eth_addr \in AccountIn(us, ms, u).macs <=> ms[k].user = u
           /\ \A u, v \in D : AccountIn(us, ms, u) = AccountIn(us, ms, v) => u = v
<1>1. ASSUME NEW k \in 1..Len(ms), NEW u \in D
      PROVE  ms[k].eth_addr \in AccountIn(us, ms, u).macs <=> ms[k].user = u
  <2>1. AccountIn(us, ms, u).macs = {ms[j].eth_addr : j \in CardsIn(ms, u)}
    BY DEF AccountIn
  <2>2. \A j \in CardsIn(ms, u) : j \in 1..Len(ms) /\ ms[j].user = u
    BY DEF CardsIn
  <2>3. ms[k].user = u => k \in CardsIn(ms, u)
    BY DEF CardsIn
  <2>4. \A j \in 1..Len(ms) : ms[j].eth_addr = ms[k].eth_addr => j = k
    BY DEF Populated, Tabled
  <2> QED BY <2>1, <2>2, <2>3, <2>4
<1>2. ASSUME NEW u \in D, NEW v \in D, AccountIn(us, ms, u) = AccountIn(us, ms, v)
      PROVE  u = v
  <2>1. PICK k \in 1..Len(ms) : ms[k].user = u
    BY DEF Populated, CardsIn
  <2> QED BY <1>1, <1>2, <2>1
<1> QED BY <1>1, <1>2

AccountSet == AccountsIn(users, mappings, Rows(users))

LEMMA AccountsAre == UsersInv => {Account(u) : u \in DOMAIN users} = AccountSet
<1> SUFFICES ASSUME UsersInv PROVE {Account(u) : u \in DOMAIN users} = AccountSet
  OBVIOUS
<1>1. DOMAIN users = Rows(users) /\ DOMAIN mappings = 1..Len(mappings)
  BY SoundType DEF UsersInv, Sound, Rows
<1>2. \A u : Account(u) = AccountIn(users, mappings, u)
  BY <1>1 DEF Account, AccountIn, Cards, CardsIn
<1> QED BY <1>1, <1>2 DEF AccountSet, AccountsIn

\* Only the account of the row that is overwritten changes.
LEMMA AccountReplaced ==
    ASSUME NEW us, NEW ms, NEW vs, NEW D, NEW u \in D, Populated(us, ms, D),
           \A v \in D \ {u} : vs[v] = us[v]
    PROVE  AccountsIn(vs, ms, D) =
                (AccountsIn(us, ms, D) \ {AccountIn(us, ms, u)}) \cup {AccountIn(vs, ms, u)}
<1>1. \A v \in D \ {u} : AccountIn(vs, ms, v) = AccountIn(us, ms, v)
  BY DEF AccountIn
<1>2. \A v \in D \ {u} : AccountIn(us, ms, v) # AccountIn(us, ms, u)
  BY AccountsDistinct
<1> QED BY <1>1, <1>2 DEF AccountsIn

\* get_user is With and AccountOf.
LEMMA GotAccount ==
    ASSUME UsersInv, NEW mac \in Macs
    PROVE  LET t == GetUser(mac)
           IN  /\ AsLedger!With(mac) = AccountsIn(t.users, t.mappings, Rows(t.users))
               /\ AsLedger!AccountOf(mac) = AccountIn(t.users, t.mappings, t.user)
<1> DEFINE t == GetUser(mac)
           A == AccountsIn(t.users, t.mappings, Rows(t.users))
<1>1. /\ Sound(t.users, t.mappings, Rows(t.users), used, last_used)
      /\ t.user \in Rows(t.users)
  BY GotUser
<1>2. PICK j \in 1..Len(t.mappings) : t.mappings[j].eth_addr = mac /\ t.mappings[j].user = t.user
  BY GotUser
<1>3. Populated(t.users, t.mappings, Rows(t.users))
  <2> HIDE DEF t
  <2> QED BY <1>1, SoundIsPopulated
<1>4. Populated(users, mappings, Rows(users))
  BY SoundIsPopulated DEF UsersInv
<1>5. {Account(u) : u \in DOMAIN users} = AccountSet
  BY AccountsAre
<1>6. AsLedger!With(mac) = A
  <2>1. CASE \E k \in 1..Len(mappings) : mappings[k].eth_addr = mac
    <3>1. PICK k \in 1..Len(mappings) : mappings[k].eth_addr = mac
      BY <2>1
    <3>2. t.users = users /\ t.mappings = mappings
      BY <3>1, GetKnownUser
    <3>3. A = AccountSet
      BY <3>2 DEF AccountSet
    <3>4. mappings[k].user \in Rows(users)
      BY <1>4 DEF Populated, Tabled
    <3>5. mac \in AccountIn(users, mappings, mappings[k].user).macs
      BY <1>4, <3>1, <3>4, AccountsDistinct
    <3>6. \E a \in AccountSet : mac \in a.macs
      BY <3>4, <3>5 DEF AccountSet, AccountsIn
    <3> QED BY <1>5, <3>3, <3>6 DEF AsLedger!With, AsLedger!Knows
  <2>2. CASE \A k \in 1..Len(mappings) : mappings[k].eth_addr # mac
    <3> DEFINE us == Appended(mac).users
               ms == Appended(mac).mappings
               n == Len(users) + 1
    <3>1. t.users = us /\ t.mappings = ms
      BY <2>2, GetNewUser
    <3>2. /\ Len(us) = n /\ us[n] = NewUser(mac)
          /\ \A u \in 1..Len(users) : us[u] = users[u]
      BY <1>4, AppendedCards DEF Populated
    <3>3. /\ ms[Len(mappings) + 1].eth_addr = mac
          /\ \A k \in 1..Len(mappings) : ms[k] = mappings[k]
      BY <1>4, AppendedCards DEF Populated
    <3>4. /\ CardsIn(ms, n) = {Len(mappings) + 1}
          /\ \A u \in 1..Len(users) : CardsIn(ms, u) = CardsIn(mappings, u)
      BY <1>4, AppendedCards DEF Populated
    <3> HIDE DEF us, ms, t
    <3>5. AccountIn(us, ms, n) = AsLedger!NewAccount(mac)
      <4>1. {ms[k].eth_addr : k \in CardsIn(ms, n)} = {mac}
        BY <3>3, <3>4
      <4>2. /\ us[n].name = mac /\ us[n].credit = 0 /\ us[n].last_credit = 0
            /\ us[n].custom = FALSE
        BY <3>2 DEF NewUser
      <4> QED BY <4>1, <4>2 DEF AccountIn, AsLedger!NewAccount
    <3>6. ASSUME NEW u \in 1..Len(users)
          PROVE  /\ AccountIn(us, ms, u) = AccountIn(users, mappings, u)
                 /\ mac \notin AccountIn(users, mappings, u).macs
      <4>1. \A k \in CardsIn(mappings, u) : ms[k] = mappings[k] /\ mappings[k].eth_addr # mac
        BY <2>2, <3>3 DEF CardsIn
      <4>2. us[u] = users[u] /\ CardsIn(ms, u) = CardsIn(mappings, u)
        BY <3>2, <3>4
      <4> QED BY <4>1, <4>2 DEF AccountIn
    <3>7. Rows(us) = Rows(users) \cup {n}
      <4>1. Len(users) \in Nat
        BY <1>4, SoundType DEF Populated
      <4> QED BY <3>2, <4>1 DEF Rows
    <3>8. AccountsIn(us, ms, Rows(us)) = AccountSet \cup {AsLedger!NewAccount(mac)}
      BY <3>5, <3>6, <3>7 DEF AccountsIn, AccountSet, Rows
    <3>9. ~\E a \in AccountSet : mac \in a.macs
      BY <3>6 DEF AccountSet, AccountsIn, Rows
    <3> QED BY <1>5, <3>1, <3>8, <3>9 DEF AsLedger!With, AsLedger!Knows
  <2> QED BY <2>1, <2>2
<1>7. AsLedger!AccountOf(mac) = AccountIn(t.users, t.mappings, t.user)
  <2> HIDE DEF t
  <2>1. AsLedger!AccountOf(mac) = CHOOSE a \in A : mac \in a.macs
    BY <1>6 DEF AsLedger!AccountOf
  <2>2. \A u \in Rows(t.users) : mac \in AccountIn(t.users, t.mappings, u).macs <=> u = t.user
    BY <1>2, <1>3, AccountsDistinct
  <2>3. /\ AccountIn(t.users, t.mappings, t.user) \in A
        /\ \A a \in A : mac \in a.macs <=> a = AccountIn(t.users, t.mappings, t.user)
    BY <1>1, <2>2 DEF AccountsIn
  <2> QED BY <2>1, <2>3
<1> QED BY <1>6, <1>7 DEF t

\* Freeing a row moves accounts between rows and changes none.
LEMMA FreedAccounts ==
    ASSUME NEW us, NEW ms, NEW entry \in Rows(us), Tabled(us, ms, Rows(us) \ {entry})
    PROVE  LET t == Free(us, ms, entry)
           IN  AccountsIn(t.users, t.mappings, Rows(t.users)) = AccountsIn(us, ms, Rows(us) \ {entry})
<1> DEFINE vs == Free(us, ms, entry).users
           ns == Free(us, ms, entry).mappings
<1>1. /\ \A k \in 1..Len(ms) : ns[k].eth_addr = ms[k].eth_addr
      /\ \A u \in Rows(vs) :
            /\ Origin(us, entry, u) \in Rows(us) \ {entry}
            /\ vs[u] = us[Origin(us, entry, u)]
            /\ CardsIn(ns, u) = CardsIn(ms, Origin(us, entry, u))
      /\ \A v \in Rows(us) \ {entry} : \E u \in Rows(vs) : v = Origin(us, entry, u)
  BY FreedRows
<1> HIDE DEF vs, ns
<1>2. ASSUME NEW u \in Rows(vs)
      PROVE  AccountIn(vs, ns, u) = AccountIn(us, ms, Origin(us, entry, u))
  <2> DEFINE o == Origin(us, entry, u)
  <2>1. vs[u] = us[o] /\ CardsIn(ns, u) = CardsIn(ms, o)
    BY <1>1
  <2>2. \A k \in CardsIn(ms, o) : ns[k].eth_addr = ms[k].eth_addr
    BY <1>1 DEF CardsIn
  <2> HIDE DEF o
  <2>3. AccountIn(vs, ns, u) = AccountIn(us, ms, o)
    BY <2>1, <2>2 DEF AccountIn
  <2> QED BY <2>3 DEF o
<1>3. AccountsIn(vs, ns, Rows(vs)) = AccountsIn(us, ms, Rows(us) \ {entry})
  BY <1>1, <1>2 DEF AccountsIn
<1> QED BY <1>3 DEF vs, ns

Joined(into, a) ==
    [into EXCEPT !.macs = @ \cup a.macs, !.credit = @ + a.credit,
                 !.last_credit = @ + a.last_credit]

JoinedFields(into, a) ==
    /\ Joined(into, a).macs = into.macs \cup a.macs
    /\ Joined(into, a).credit = into.credit + a.credit
    /\ Joined(into, a).last_credit = into.last_credit + a.last_credit
    /\ Joined(into, a).name = into.name
    /\ Joined(into, a).custom = into.custom

LEMMA JoinedType ==
    ASSUME NEW into \in AccountType, NEW a \in AccountType
    PROVE  Joined(into, a) \in AccountType /\ JoinedFields(into, a)
<1> DEFINE m == into.macs \cup a.macs
           c == into.credit + a.credit
           l == into.last_credit + a.last_credit
<1>1. m \in SUBSET Macs /\ c \in Nat /\ l \in Nat
  BY DEF AccountType
<1>2. Joined(into, a) = [into EXCEPT !.macs = m, !.credit = c, !.last_credit = l]
  BY Zenon DEF Joined
<1> HIDE DEF m, c, l
<1>3. Joined(into, a) \in AccountType
  BY <1>1, <1>2 DEF AccountType
<1>4. /\ Joined(into, a).macs = m /\ Joined(into, a).credit = c
      /\ Joined(into, a).last_credit = l
      /\ Joined(into, a).name = into.name /\ Joined(into, a).custom = into.custom
  BY <1>2 DEF AccountType
<1> QED BY <1>3, <1>4 DEF JoinedFields, m, c, l

\* The first half of merge_users replaces two accounts by one.
LEMMA AbsorbedAccounts ==
    ASSUME NEW us, NEW ms, NEW f \in [Macs -> Nat], NEW g \in [Macs -> Nat],
           Sound(us, ms, Rows(us), f, g), NEW from \in Rows(us), NEW to \in Rows(us), from # to
    PROVE  LET vs == [us EXCEPT ![to] = Absorbed(@, us[from])]
               a == AccountIn(us, ms, from)
               into == AccountIn(us, ms, to)
           IN  AccountsIn(vs, Remap(ms, from, to), Rows(vs) \ {from}) =
                    (AccountsIn(us, ms, Rows(us)) \ {a, into}) \cup {Joined(into, a)}
<1> DEFINE vs == [us EXCEPT ![to] = Absorbed(@, us[from])]
           ns == Remap(ms, from, to)
           a == AccountIn(us, ms, from)
           into == AccountIn(us, ms, to)
           w == AccountIn(vs, ns, to)
<1>1. Len(vs) = Len(us) /\ \A u \in Rows(us) \ {to} : vs[u] = us[u]
  BY RowAbsorbed
<1>2. vs[to] = Absorbed(us[to], us[from])
  <2>1. to \in DOMAIN us
    BY SoundType DEF Sound, Rows
  <2> QED BY <2>1
<1>3. /\ ms \in Seq(Mapping) /\ from \in Nat /\ to \in Nat
      /\ us \in Seq(User) /\ us[to] \in User /\ us[from] \in User
  BY SoundType, UserRow DEF Sound, Rows
<1>4. /\ \A k \in 1..Len(ms) : ns[k].eth_addr = ms[k].eth_addr
      /\ CardsIn(ns, to) = CardsIn(ms, to) \cup CardsIn(ms, from)
      /\ \A u : u \notin {from, to} => CardsIn(ns, u) = CardsIn(ms, u)
  BY <1>3, RemapCards
<1>5. Populated(us, ms, Rows(us))
  BY SoundIsPopulated
<1> HIDE DEF vs, ns
<1>6. ASSUME NEW u \in Rows(us) \ {from, to}
      PROVE  AccountIn(vs, ns, u) = AccountIn(us, ms, u)
  <2>1. \A k \in CardsIn(ms, u) : ns[k].eth_addr = ms[k].eth_addr
    BY <1>4 DEF CardsIn
  <2>2. CardsIn(ns, u) = CardsIn(ms, u) /\ vs[u] = us[u]
    BY <1>1, <1>4
  <2> QED BY <2>1, <2>2 DEF AccountIn
<1>7. w = Joined(into, a)
  <2>1. w.macs = into.macs \cup a.macs
    <3>1. \A k \in CardsIn(ns, to) : ns[k].eth_addr = ms[k].eth_addr
      BY <1>4 DEF CardsIn
    <3>2. w.macs = {ms[k].eth_addr : k \in CardsIn(ms, to) \cup CardsIn(ms, from)}
      BY <1>4, <3>1 DEF AccountIn
    <3> QED BY <3>2 DEF AccountIn
  <2>2. /\ vs[to].name = us[to].name /\ vs[to].custom = us[to].custom
        /\ vs[to].credit = us[to].credit + us[from].credit
        /\ vs[to].last_credit = us[to].last_credit + us[from].last_credit
    BY <1>2, <1>3 DEF Absorbed, User
  <2>3. w = [macs |-> w.macs, name |-> vs[to].name, credit |-> vs[to].credit,
             last_credit |-> vs[to].last_credit, custom |-> vs[to].custom]
    BY DEF AccountIn
  <2>4. Joined(into, a) =
            [macs |-> into.macs \cup a.macs, name |-> us[to].name,
             credit |-> us[to].credit + us[from].credit,
             last_credit |-> us[to].last_credit + us[from].last_credit,
             custom |-> us[to].custom]
    <3>1. into \in AccountType /\ a \in AccountType
      BY <1>3, AccountInType DEF Rows
    <3>2. /\ into.name = us[to].name /\ into.custom = us[to].custom
          /\ into.credit = us[to].credit /\ into.last_credit = us[to].last_credit
          /\ a.credit = us[from].credit /\ a.last_credit = us[from].last_credit
      BY DEF AccountIn
    <3> HIDE DEF into, a
    <3>3. Joined(into, a) \in AccountType /\ JoinedFields(into, a)
      BY <3>1, JoinedType
    <3>4. Joined(into, a) =
            [macs |-> Joined(into, a).macs, name |-> Joined(into, a).name,
             credit |-> Joined(into, a).credit, last_credit |-> Joined(into, a).last_credit,
             custom |-> Joined(into, a).custom]
      BY <3>3, AccountFields
    <3> QED BY <3>2, <3>3, <3>4 DEF JoinedFields
  <2> HIDE DEF w, into, a
  <2> QED BY <2>1, <2>2, <2>3, <2>4
<1>8. \A u \in Rows(us) \ {from, to} : AccountIn(us, ms, u) # a /\ AccountIn(us, ms, u) # into
  BY <1>5, AccountsDistinct
<1>9. Rows(vs) \ {from} = (Rows(us) \ {from, to}) \cup {to}
  BY <1>1 DEF Rows
<1> HIDE DEF a, into, w
<1>10. AccountsIn(vs, ns, Rows(vs) \ {from}) =
            {AccountIn(us, ms, u) : u \in Rows(us) \ {from, to}} \cup {w}
  BY <1>6, <1>9 DEF AccountsIn, w
<1>11. {AccountIn(us, ms, u) : u \in Rows(us) \ {from, to}} =
            AccountsIn(us, ms, Rows(us)) \ {a, into}
  BY <1>8 DEF AccountsIn, a, into
<1> QED BY <1>7, <1>10, <1>11 DEF vs, ns, a, into

LEMMA MergedAccounts ==
    ASSUME NEW us, NEW ms, NEW f \in [Macs -> Nat], NEW g \in [Macs -> Nat],
           Sound(us, ms, Rows(us), f, g), NEW from \in Rows(us), NEW to \in Rows(us), from # to
    PROVE  LET t == MergeUsers(us, ms, from, to)
               a == AccountIn(us, ms, from)
               into == AccountIn(us, ms, to)
           IN  AccountsIn(t.users, t.mappings, Rows(t.users)) =
                    (AccountsIn(us, ms, Rows(us)) \ {a, into}) \cup {Joined(into, a)}
<1> DEFINE vs == [us EXCEPT ![to] = Absorbed(@, us[from])]
           ns == Remap(ms, from, to)
           t == MergeUsers(us, ms, from, to)
<1>1. t = Free(vs, ns, from)
  BY DEF MergeUsers
<1>2. Sound(vs, ns, Rows(vs) \ {from}, f, g) /\ Len(vs) = Len(us)
  BY RowAbsorbed
<1>3. AccountsIn(vs, ns, Rows(vs) \ {from}) =
        (AccountsIn(us, ms, Rows(us)) \ {AccountIn(us, ms, from), AccountIn(us, ms, to)})
            \cup {Joined(AccountIn(us, ms, to), AccountIn(us, ms, from))}
  BY AbsorbedAccounts
<1> HIDE DEF vs, ns, t
<1>4. AccountsIn(t.users, t.mappings, Rows(t.users)) = AccountsIn(vs, ns, Rows(vs) \ {from})
  <2>1. Tabled(vs, ns, Rows(vs) \ {from}) /\ from \in Rows(vs)
    BY <1>2 DEF Sound, Rows
  <2> QED BY <1>1, <2>1, FreedAccounts
<1> QED BY <1>3, <1>4 DEF t

LEMMA SameAccount ==
    ASSUME NEW a \in AccountType, NEW b \in AccountType, a.macs = b.macs, a.name = b.name,
           a.credit = b.credit, a.last_credit = b.last_credit, a.custom = b.custom
    PROVE  a = b
BY AccountFields

LEMMA ChargedAccount ==
    ASSUME NEW us \in Seq(User), NEW ms \in Seq(Mapping), NEW u \in 1..Len(us), NEW len \in Nat
    PROVE  /\ \A v \in 1..Len(us) \ {u} : RowRaised(us, u, len)[v] = us[v]
           /\ AccountIn(RowRaised(us, u, len), ms, u) =
                [AccountIn(us, ms, u) EXCEPT !.credit = @ + len]
<1> DEFINE r == [us[u] EXCEPT !.credit = @ + len]
           vs == RowRaised(us, u, len)
           a == AccountIn(us, ms, u)
           b == [a EXCEPT !.credit = @ + len]
           w == AccountIn(vs, ms, u)
<1>1. us[u] \in User /\ us[u].credit + len \in Nat
  BY UserRow
<1>2. /\ r \in User /\ r.credit = us[u].credit + len /\ r.name = us[u].name
      /\ r.last_credit = us[u].last_credit /\ r.custom = us[u].custom
  BY <1>1 DEF User
<1>3. vs = [us EXCEPT ![u] = r]
  BY DEF RowRaised
<1> HIDE DEF r, vs
<1>4. /\ vs \in Seq(User) /\ Len(vs) = Len(us) /\ vs[u] = r
      /\ \A v \in 1..Len(us) \ {u} : vs[v] = us[v]
  BY <1>2, <1>3, ExceptSeq
<1>5. w \in AccountType /\ a \in AccountType
  BY <1>4, AccountInType
<1>6. a.credit = us[u].credit
  BY DEF AccountIn
<1>7. /\ w.macs = a.macs /\ w.name = a.name /\ w.custom = a.custom
      /\ w.last_credit = a.last_credit /\ w.credit = a.credit + len
  BY <1>2, <1>4 DEF AccountIn
<1> HIDE DEF a, w
<1>8. b \in AccountType
  BY <1>1, <1>5, <1>6 DEF AccountType
<1>9. /\ b.macs = a.macs /\ b.name = a.name /\ b.custom = a.custom
      /\ b.last_credit = a.last_credit /\ b.credit = a.credit + len
  BY <1>5 DEF AccountType
<1> HIDE DEF b
<1>10. w = b
  BY <1>5, <1>7, <1>8, <1>9, SameAccount
<1> QED BY <1>4, <1>10 DEF a, b, w, vs

AccountNamed(a, name) == [a EXCEPT !.name = name, !.custom = TRUE]

AccountOver(a) == [a EXCEPT !.last_credit = a.credit, !.credit = 0]

RowNamed(us, u, name) == [us EXCEPT ![u].name = name, ![u].custom = TRUE]

LEMMA RenamedAccount ==
    ASSUME NEW us \in Seq(User), NEW ms \in Seq(Mapping), NEW u \in 1..Len(us), NEW name \in Names
    PROVE  /\ \A v \in 1..Len(us) \ {u} : RowNamed(us, u, name)[v] = us[v]
           /\ Len(RowNamed(us, u, name)) = Len(us)
           /\ AccountIn(RowNamed(us, u, name), ms, u) =
                AccountNamed(AccountIn(us, ms, u), name)
<1> DEFINE r == [us[u] EXCEPT !.name = name, !.custom = TRUE]
           vs == RowNamed(us, u, name)
           a == AccountIn(us, ms, u)
           b == AccountNamed(a, name)
           w == AccountIn(vs, ms, u)
<1>1. us[u] \in User /\ u \in DOMAIN us
  BY UserRow, LenProperties
<1>2. /\ r \in User /\ r.credit = us[u].credit /\ r.name = name
      /\ r.last_credit = us[u].last_credit /\ r.custom = TRUE
  BY <1>1 DEF User
<1>3. vs = [us EXCEPT ![u] = r]
  BY <1>1 DEF RowNamed
<1> HIDE DEF r, vs
<1>4. /\ vs \in Seq(User) /\ Len(vs) = Len(us) /\ vs[u] = r
      /\ \A v \in 1..Len(us) \ {u} : vs[v] = us[v]
  BY <1>2, <1>3, ExceptSeq
<1>5. w \in AccountType /\ a \in AccountType
  BY <1>4, AccountInType
<1>6. /\ w.macs = a.macs /\ w.name = name /\ w.custom = TRUE
      /\ w.last_credit = a.last_credit /\ w.credit = a.credit
  BY <1>2, <1>4 DEF AccountIn
<1> HIDE DEF a, w
<1>7. b \in AccountType
  BY <1>5 DEF AccountType, AccountNamed
<1>8. /\ b.macs = a.macs /\ b.name = name /\ b.custom = TRUE
      /\ b.last_credit = a.last_credit /\ b.credit = a.credit
  BY <1>5 DEF AccountType, AccountNamed
<1> HIDE DEF b
<1>9. w = b
  BY <1>5, <1>6, <1>7, <1>8, SameAccount
<1> QED BY <1>4, <1>9 DEF a, b, w, vs

LEMMA RolledOverAccount ==
    ASSUME NEW us \in Seq(User), NEW ms \in Seq(Mapping), NEW vs \in Seq(User),
           NEW u \in 1..Len(us), Len(vs) = Len(us), vs[u] = RolledOver(us[u])
    PROVE  AccountIn(vs, ms, u) = AccountOver(AccountIn(us, ms, u))
<1> DEFINE a == AccountIn(us, ms, u)
           b == AccountOver(a)
           w == AccountIn(vs, ms, u)
<1>1. us[u] \in User
  BY UserRow
<1>2. /\ vs[u].credit = 0 /\ vs[u].name = us[u].name
      /\ vs[u].last_credit = us[u].credit /\ vs[u].custom = us[u].custom
  BY <1>1 DEF User, RolledOver
<1>3. w \in AccountType /\ a \in AccountType
  BY AccountInType
<1>4. /\ w.macs = a.macs /\ w.name = a.name /\ w.custom = a.custom
      /\ w.last_credit = a.credit /\ w.credit = 0
  BY <1>2 DEF AccountIn
<1> HIDE DEF a, w
<1>5. b \in AccountType
  BY <1>3 DEF AccountType, AccountOver
<1>6. /\ b.macs = a.macs /\ b.name = a.name /\ b.custom = a.custom
      /\ b.last_credit = a.credit /\ b.credit = 0
  BY <1>3 DEF AccountType, AccountOver
<1> HIDE DEF b
<1>7. w = b
  BY <1>3, <1>4, <1>5, <1>6, SameAccount
<1> QED BY <1>7 DEF a, b, w

\* One step of the tables is one step of the ledger.
LEMMA AccountsWere ==
    ASSUME UsersInv, UsersInv'
    PROVE  /\ {Account(u) : u \in DOMAIN users} = AccountSet
           /\ {Account(u) : u \in DOMAIN users}' = AccountsIn(users', mappings', Rows(users'))
<1>1. (UsersInv => {Account(u) : u \in DOMAIN users} = AccountSet)'
  BY AccountsAre, PTL
<1>2. AccountSet' = AccountsIn(users', mappings', Rows(users'))
  BY DEF AccountSet, AccountsIn, AccountIn, CardsIn, Rows
<1> QED BY <1>1, <1>2, AccountsAre

\* What get_user returns, for the steps below.
LEMMA GotRows ==
    ASSUME UsersInv, NEW mac \in Macs
    PROVE  LET t == GetUser(mac)
           IN  /\ t.users \in Seq(User) /\ t.mappings \in Seq(Mapping)
               /\ Rows(t.users) = 1..Len(t.users) /\ t.user \in Rows(t.users)
               /\ Populated(t.users, t.mappings, Rows(t.users))
<1> DEFINE t == GetUser(mac)
<1>1. /\ Sound(t.users, t.mappings, Rows(t.users), used, last_used)
      /\ t.user \in Rows(t.users)
  BY GotUser
<1> HIDE DEF t
<1>2. Populated(t.users, t.mappings, Rows(t.users))
  BY <1>1, SoundIsPopulated
<1>3. t.users \in Seq(User) /\ t.mappings \in Seq(Mapping)
  BY <1>2, SoundType DEF Populated
<1>4. Rows(t.users) = 1..Len(t.users)
  BY DEF Rows
<1> QED BY <1>1, <1>2, <1>3, <1>4 DEF t

LEMMA ChargeStep ==
    ASSUME UsersInv, UsersInv', NEW mac \in Macs, NEW len \in Lengths, ChargeForPacket(mac, len)
    PROVE  AsLedger!Charge(mac, len)
<1> DEFINE t == GetUser(mac)
           vs == RowRaised(t.users, t.user, len)
           a == AccountIn(t.users, t.mappings, t.user)
           b == AccountIn(vs, t.mappings, t.user)
           A == AccountsIn(t.users, t.mappings, Rows(t.users))
<1>1. users' = vs /\ mappings' = t.mappings
  BY DEF ChargeForPacket, RowRaised
<1>2. /\ t.users \in Seq(User) /\ t.mappings \in Seq(Mapping)
      /\ Rows(t.users) = 1..Len(t.users) /\ t.user \in Rows(t.users)
      /\ Populated(t.users, t.mappings, Rows(t.users))
  BY GotRows
<1>3. AsLedger!With(mac) = A /\ AsLedger!AccountOf(mac) = a
  BY GotAccount
<1>4. len \in Nat
  BY LengthsAssumption
<1> HIDE DEF t
<1>5. /\ \A v \in Rows(t.users) \ {t.user} : vs[v] = t.users[v]
      /\ b = [a EXCEPT !.credit = @ + len]
  BY <1>2, <1>4, ChargedAccount
<1>6. Rows(vs) = Rows(t.users)
  <2>1. Len(vs) = Len(t.users)
    BY <1>2, ExceptSeq DEF RowRaised
  <2> QED BY <2>1 DEF Rows
<1> HIDE DEF vs, a, b, A
<1>7. AccountsIn(vs, t.mappings, Rows(vs)) = (A \ {a}) \cup {b}
  BY <1>2, <1>5, <1>6, AccountReplaced DEF A, a, b
<1>8. {Account(u) : u \in DOMAIN users}' = (A \ {a}) \cup {b}
  BY <1>1, <1>7, AccountsWere
<1> QED BY <1>3, <1>5, <1>8 DEF AsLedger!Charge, AsLedger!Replace

LEMMA LookupStep ==
    ASSUME UsersInv, UsersInv', NEW mac \in Macs,
           users' = GetUser(mac).users, mappings' = GetUser(mac).mappings
    PROVE  AsLedger!Lookup(mac)
BY AccountsWere, GotAccount DEF AsLedger!Lookup

LEMMA RenameStep ==
    ASSUME UsersInv, UsersInv', NEW mac \in Macs, NEW name \in Names, SetName(mac, name)
    PROVE  AsLedger!Rename(mac, name)
<1> DEFINE t == GetUser(mac)
           vs == RowNamed(t.users, t.user, name)
           a == AccountIn(t.users, t.mappings, t.user)
           b == AccountIn(vs, t.mappings, t.user)
           A == AccountsIn(t.users, t.mappings, Rows(t.users))
<1>1. users' = vs /\ mappings' = t.mappings
  BY DEF SetName, RowNamed
<1>2. /\ t.users \in Seq(User) /\ t.mappings \in Seq(Mapping)
      /\ Rows(t.users) = 1..Len(t.users) /\ t.user \in Rows(t.users)
      /\ Populated(t.users, t.mappings, Rows(t.users))
  BY GotRows
<1>3. AsLedger!With(mac) = A /\ AsLedger!AccountOf(mac) = a
  BY GotAccount
<1> HIDE DEF t
<1>4. /\ \A v \in Rows(t.users) \ {t.user} : vs[v] = t.users[v]
      /\ b = AccountNamed(a, name)
      /\ Len(vs) = Len(t.users)
  BY <1>2, RenamedAccount
<1>5. Rows(vs) = Rows(t.users)
  BY <1>4 DEF Rows
<1> HIDE DEF vs, a, b, A
<1>6. AccountsIn(vs, t.mappings, Rows(vs)) = (A \ {a}) \cup {b}
  BY <1>2, <1>4, <1>5, AccountReplaced DEF A, a, b
<1>7. {Account(u) : u \in DOMAIN users}' = (A \ {a}) \cup {b}
  BY <1>1, <1>6, AccountsWere
<1> QED BY <1>3, <1>4, <1>7 DEF AsLedger!Rename, AsLedger!Replace, AccountNamed

LEMMA MergeStep ==
    ASSUME UsersInv, UsersInv', NEW mac \in Macs, NEW name \in Names, MergeMac(mac, name)
    PROVE  AsLedger!Lookup(mac) \/ \E into \in AsLedger!With(mac) : AsLedger!Merge(mac, into)
<1> DEFINE t == GetUser(mac)
           named == Named(t.users, name)
           to == FirstIn(named)
           merged == MergeUsers(t.users, t.mappings, t.user, to)
           A == AccountsIn(t.users, t.mappings, Rows(t.users))
           a == AccountIn(t.users, t.mappings, t.user)
           into == AccountIn(t.users, t.mappings, to)
<1>1. CASE named = {} \/ to = t.user
  <2>1. users' = t.users /\ mappings' = t.mappings
    BY <1>1 DEF MergeMac
  <2> QED BY <2>1, LookupStep
<1>2. CASE named # {} /\ to # t.user
  <2>1. users' = merged.users /\ mappings' = merged.mappings
    BY <1>2 DEF MergeMac
  <2>2. /\ Sound(t.users, t.mappings, Rows(t.users), used, last_used)
        /\ t.user \in Rows(t.users)
    BY GotUser
  <2>3. /\ t.users \in Seq(User) /\ Rows(t.users) = 1..Len(t.users)
        /\ Populated(t.users, t.mappings, Rows(t.users))
    BY GotRows
  <2>4. AsLedger!With(mac) = A /\ AsLedger!AccountOf(mac) = a
    BY GotAccount
  <2>5. used \in [Macs -> Nat] /\ last_used \in [Macs -> Nat]
    BY DEF UsersInv, Unknown
  <2>6. to \in Rows(t.users)
    <3>1. DOMAIN t.users = Rows(t.users) /\ Rows(t.users) \in SUBSET Nat
      <4> HIDE DEF t
      <4> QED BY <2>3, LenProperties
    <3>2. named \in SUBSET Nat /\ named \in SUBSET Rows(t.users)
      <4> HIDE DEF t
      <4> QED BY <3>1 DEF Named
    <3> HIDE DEF named
    <3>3. to \in named
      BY <1>2, <3>2, FirstInType
    <3> QED BY <3>2, <3>3
  <2> HIDE DEF t, named, to
  <2>7. AccountsIn(merged.users, merged.mappings, Rows(merged.users)) =
            (A \ {a, into}) \cup {Joined(into, a)}
    BY <1>2, <2>2, <2>5, <2>6, MergedAccounts
  <2>8. into \in A /\ into # a
    <3>1. to # t.user
      BY <1>2
    <3> QED BY <2>2, <2>3, <2>6, <3>1, AccountsDistinct DEF AccountsIn
  <2> HIDE DEF merged, A, a, into
  <2>9. {Account(u) : u \in DOMAIN users}' = (A \ {a, into}) \cup {Joined(into, a)}
    BY <2>1, <2>7, AccountsWere
  <2>10. AsLedger!Merge(mac, into)
    BY <2>4, <2>8, <2>9 DEF AsLedger!Merge, Joined
  <2> QED BY <2>4, <2>8, <2>10
<1> QED BY <1>1, <1>2

LEMMA RolloverStep ==
    ASSUME UsersInv, UsersInv', StartPeriod
    PROVE  AsLedger!Rollover
<1>1. /\ users' = [k \in DOMAIN users |-> RolledOver(users[k])] /\ mappings' = mappings
  BY DEF StartPeriod
<1>2. /\ users \in Seq(User) /\ mappings \in Seq(Mapping) /\ users' \in Seq(User)
      /\ DOMAIN users = 1..Len(users) /\ Rows(users) = 1..Len(users)
  BY SoundType DEF UsersInv, Sound, Tabled, Rows
<1>3. Len(users') = Len(users) /\ \A u \in 1..Len(users) : users'[u] = RolledOver(users[u])
  BY <1>1, <1>2
<1>4. ASSUME NEW u \in Rows(users)
      PROVE  AccountIn(users', mappings', u) = AccountOver(AccountIn(users, mappings, u))
  <2>1. users'[u] = RolledOver(users[u]) /\ u \in 1..Len(users) /\ mappings' = mappings
    BY <1>1, <1>2, <1>3
  <2>2. AccountIn(users', mappings, u) = AccountOver(AccountIn(users, mappings, u))
    BY <1>2, <1>3, <2>1, RolledOverAccount
  <2> QED BY <2>1, <2>2
<1>5. Rows(users') = Rows(users)
  BY <1>3 DEF Rows
<1>6. AccountsIn(users', mappings', Rows(users')) =
        {AccountOver(b) : b \in AccountSet}
  BY <1>4, <1>5 DEF AccountsIn, AccountSet
<1> QED BY <1>6, AccountsWere DEF AsLedger!Rollover, AccountOver

\* The tables keep the promise of Ledger: one account for every card that was
\* seen, nothing lost in a merge, whatever rows move (user.c, table.c).
THEOREM UsersImplementLedger == UsersSpec => ImplementsLedger
<1>1. UsersInit => AsLedger!Init
  BY DEF UsersInit, AsLedger!Init
<1>2. ASSUME UsersInv, UsersInv', [UsersNext]_userVars
      PROVE  [AsLedger!Next]_{Account(u) : u \in DOMAIN users}
  <2>1. CASE Packet
    <3>1. PICK mac \in Macs, len \in Lengths : ChargeForPacket(mac, len)
      BY <2>1 DEF Packet
    <3> QED BY <1>2, <3>1, ChargeStep DEF AsLedger!Next
  <2>2. CASE Request
    <3>1. PICK mac \in Macs : \/ LookupUser(mac)
                              \/ \E name \in ChosenNames : SetName(mac, name)
                              \/ \E name \in Names : MergeMac(mac, name)
      BY <2>2 DEF Request
    <3>2. CASE LookupUser(mac)
      <4>1. AsLedger!Lookup(mac)
        BY <1>2, <3>2, LookupStep DEF LookupUser
      <4> QED BY <4>1 DEF AsLedger!Next
    <3>3. CASE \E name \in ChosenNames : SetName(mac, name)
      <4>1. PICK name \in Names : SetName(mac, name)
        BY <3>3, NamesAssumption
      <4> QED BY <1>2, <4>1, RenameStep DEF AsLedger!Next
    <3>4. CASE \E name \in Names : MergeMac(mac, name)
      <4>1. AsLedger!Lookup(mac) \/ \E into \in AsLedger!With(mac) : AsLedger!Merge(mac, into)
        BY <1>2, <3>4, MergeStep
      <4> QED BY <4>1 DEF AsLedger!Next
    <3> QED BY <3>1, <3>2, <3>3, <3>4
  <2>3. CASE StartPeriod
    BY <1>2, <2>3, RolloverStep DEF AsLedger!Next
  <2>4. CASE UNCHANGED userVars
    <3>1. users' = users /\ mappings' = mappings
      BY <2>4 DEF userVars
    <3>2. {Account(u) : u \in DOMAIN users}' = {Account(u) : u \in DOMAIN users}
      BY <3>1 DEF Account, Cards
    <3> QED BY <3>2
  <2> QED BY <1>2, <2>1, <2>2, <2>3, <2>4 DEF UsersNext
<1> QED BY <1>1, <1>2, UsersInvariant, PTL DEF UsersSpec, ImplementsLedger, AsLedger!Spec

----------------------------------------------------------------------------
\* The pages.  W has the rows of a table of n rows that a page lists from each
\* row on: those in kept.

Walks(W, n, kept) ==
    W = [i \in 0..n |->
            LET next == FindFrom(1..n, n, i)
            IN  IF next = 0 THEN <<>>
                ELSE IF next \in kept THEN <<next>> \o W[next] ELSE W[next]]

LEMMA NextFound ==
    ASSUME NEW n \in Nat, NEW i \in 0..n
    PROVE  FindFrom(1..n, n, i) = IF i < n THEN i + 1 ELSE 0
<1> DEFINE T == {j \in 1..n : i < j /\ j <= n}
<1>1. FindFrom(1..n, n, i) = IF T = {} THEN 0 ELSE FirstIn(T)
  BY DEF FindFrom
<1>2. CASE i < n
  <2>1. i + 1 \in T /\ \A j \in T : i + 1 <= j
    BY <1>2
  <2>2. T \in SUBSET Nat /\ T # {}
    BY <2>1
  <2>3. FirstIn(T) = i + 1
    <3>1. FirstIn(T) \in T
      BY <2>2, FirstInType
    <3>2. \A j \in T : FirstIn(T) <= j
      <4>1. \E m \in T : \A j \in T : m <= j
        BY <2>1
      <4> QED BY <4>1 DEF FirstIn
    <3> QED BY <2>1, <2>2, <3>1, <3>2
  <2> QED BY <1>1, <1>2, <2>2, <2>3
<1>3. CASE ~(i < n)
  <2>1. T = {}
    BY <1>3
  <2> QED BY <1>1, <1>3, <2>1
<1> QED BY <1>2, <1>3

LEMMA WalkAt ==
    ASSUME NEW n \in Nat, NEW kept, NEW W, Walks(W, n, kept), NEW i \in 0..n
    PROVE  W[i] = IF i = n THEN <<>>
                  ELSE IF i + 1 \in kept THEN <<i + 1>> \o W[i + 1] ELSE W[i + 1]
<1>1. W[i] = LET next == FindFrom(1..n, n, i)
             IN  IF next = 0 THEN <<>>
                 ELSE IF next \in kept THEN <<next>> \o W[next] ELSE W[next]
  BY DEF Walks
<1>2. FindFrom(1..n, n, i) = IF i < n THEN i + 1 ELSE 0
  BY NextFound
<1> QED BY <1>1, <1>2

\* The rows listed from i on are the later ones that are kept, in their order
\* when that is all of them.
Listed(s, i, n, kept) ==
    /\ s \in Seq(1..n)
    /\ \A x \in 1..Len(s) : s[x] \in kept /\ i < s[x]
    /\ \A k \in kept : i < k => \E x \in 1..Len(s) : s[x] = k
    /\ kept = 1..n => Len(s) = n - i /\ \A x \in 1..Len(s) : s[x] = i + x

LEMMA ListedFromHere ==
    ASSUME NEW n \in Nat, NEW kept \in SUBSET (1..n), NEW i \in 0..n, i < n, i + 1 \in kept,
           NEW s, Listed(s, i + 1, n, kept)
    PROVE  Listed(<<i + 1>> \o s, i, n, kept)
<1> DEFINE r == <<i + 1>> \o s
<1>1. s \in Seq(1..n) /\ Len(s) \in Nat
  BY DEF Listed
<1>2. /\ r \in Seq(1..n) /\ Len(r) = Len(s) + 1 /\ r[1] = i + 1
      /\ \A x \in 1..Len(s) : r[x + 1] = s[x]
      /\ \A x \in 1..Len(r) : x = 1 \/ (x - 1 \in 1..Len(s) /\ r[x] = s[x - 1])
  <2>1. <<i + 1>> \in Seq(1..n) /\ Len(<<i + 1>>) = 1
    OBVIOUS
  <2>2. /\ r \in Seq(1..n) /\ Len(r) = 1 + Len(s)
        /\ \A x \in 1..(1 + Len(s)) : r[x] = IF x <= 1 THEN <<i + 1>>[x] ELSE s[x - 1]
    BY <1>1, <2>1, ConcatProperties
  <2>3. <<i + 1>>[1] = i + 1
    OBVIOUS
  <2> HIDE DEF r
  <2>4. ASSUME NEW x \in 1..Len(s) PROVE r[x + 1] = s[x]
    <3>1. x + 1 \in 1..(1 + Len(s)) /\ ~(x + 1 <= 1) /\ (x + 1) - 1 = x
      BY <1>1
    <3>2. r[x + 1] = s[(x + 1) - 1]
      BY <2>2, <3>1
    <3> QED BY <3>1, <3>2
  <2>5. r[1] = i + 1
    <3>1. 1 \in 1..(1 + Len(s)) /\ 1 <= 1
      BY <1>1
    <3> QED BY <2>2, <2>3, <3>1
  <2>6. ASSUME NEW x \in 1..Len(r), x # 1 PROVE x - 1 \in 1..Len(s) /\ r[x] = s[x - 1]
    <3>1. x \in 1..(1 + Len(s)) /\ ~(x <= 1) /\ x - 1 \in 1..Len(s)
      BY <1>1, <2>2, <2>6
    <3> QED BY <2>2, <3>1
  <2> QED BY <1>1, <2>2, <2>4, <2>5, <2>6
<1> HIDE DEF r
<1>3. ASSUME NEW x \in 1..Len(r) PROVE r[x] \in kept /\ i < r[x]
  <2>1. CASE x = 1
    BY <1>2, <2>1
  <2>2. CASE x # 1
    <3>1. x - 1 \in 1..Len(s) /\ r[x] = s[x - 1]
      BY <1>2, <2>2
    <3>2. s[x - 1] \in kept /\ i + 1 < s[x - 1] /\ s[x - 1] \in Int
      BY <3>1 DEF Listed
    <3> QED BY <3>1, <3>2
  <2> QED BY <2>1, <2>2
<1>4. ASSUME NEW k \in kept, i < k PROVE \E x \in 1..Len(r) : r[x] = k
  <2>1. CASE k = i + 1
    BY <1>1, <1>2, <2>1
  <2>2. CASE k # i + 1
    <3>1. PICK x \in 1..Len(s) : s[x] = k
      BY <1>4, <2>2 DEF Listed
    <3>2. x + 1 \in 1..Len(r) /\ r[x + 1] = k
      BY <1>1, <1>2, <3>1
    <3> QED BY <3>2
  <2> QED BY <2>1, <2>2
<1>5. ASSUME kept = 1..n PROVE Len(r) = n - i /\ \A x \in 1..Len(r) : r[x] = i + x
  <2>1. Len(s) = n - (i + 1) /\ \A x \in 1..Len(s) : s[x] = i + 1 + x
    BY <1>5 DEF Listed
  <2>2. ASSUME NEW x \in 1..Len(r) PROVE r[x] = i + x
    <3>1. CASE x = 1
      BY <1>2, <3>1
    <3>2. CASE x # 1
      <4>1. x - 1 \in 1..Len(s) /\ r[x] = s[x - 1]
        BY <1>2, <3>2
      <4>2. s[x - 1] = i + 1 + (x - 1)
        BY <2>1, <4>1
      <4> QED BY <4>1, <4>2
    <3> QED BY <3>1, <3>2
  <2> QED BY <1>2, <2>1, <2>2
<1>6. Listed(r, i, n, kept)
  BY <1>2, <1>3, <1>4, <1>5 DEF Listed
<1> QED BY <1>6 DEF r

LEMMA ListedFromNext ==
    ASSUME NEW n \in Nat, NEW kept \in SUBSET (1..n), NEW i \in 0..n, i < n, i + 1 \notin kept,
           NEW s, Listed(s, i + 1, n, kept)
    PROVE  Listed(s, i, n, kept)
<1>1. i + 1 \in 1..n /\ kept # 1..n
  OBVIOUS
<1>2. \A x \in 1..Len(s) : i < s[x]
  BY DEF Listed
<1>3. \A k \in kept : i < k => i + 1 < k
  OBVIOUS
<1> QED BY <1>1, <1>2, <1>3 DEF Listed

LEMMA WalkLists ==
    ASSUME NEW n \in Nat, NEW kept \in SUBSET (1..n), NEW W, Walks(W, n, kept), NEW i \in 0..n
    PROVE  Listed(W[i], i, n, kept)
<1> DEFINE Bad == {d \in 0..n : ~Listed(W[n - d], n - d, n, kept)}
<1>1. SUFFICES ASSUME Bad # {} PROVE FALSE
  <2>1. n - i \in 0..n /\ n - (n - i) = i
    OBVIOUS
  <2> QED BY <2>1
<1>2. PICK d \in Bad : \A k \in Bad : d <= k
  <2>1. Bad \in SUBSET Nat
    OBVIOUS
  <2> HIDE DEF Bad
  <2> QED BY <1>1, <2>1, LeastNat
<1>3. d \in 0..n /\ ~Listed(W[n - d], n - d, n, kept)
  OBVIOUS
<1>4. d # 0
  <2>1. W[n] = <<>>
    <3>1. n \in 0..n
      OBVIOUS
    <3> QED BY <3>1, WalkAt
  <2>2. <<>> \in Seq(1..n) /\ Len(<<>>) = 0 /\ 1..0 = {}
    OBVIOUS
  <2>3. \A k \in kept : ~(n < k)
    OBVIOUS
  <2>4. Listed(<<>>, n, n, kept)
    BY <2>2, <2>3 DEF Listed
  <2> QED BY <1>3, <2>1, <2>4
<1> DEFINE j == n - d
<1>5. j \in 0..n /\ j < n /\ j + 1 \in 0..n
  BY <1>3, <1>4
<1>6. Listed(W[j + 1], j + 1, n, kept)
  <2>1. d - 1 \in 0..n /\ ~(d <= d - 1) /\ n - (d - 1) = j + 1
    BY <1>3, <1>4
  <2>2. d - 1 \notin Bad
    <3> HIDE DEF Bad
    <3> QED BY <1>2, <2>1
  <2> QED BY <2>1, <2>2
<1>7. W[j] = IF j = n THEN <<>>
             ELSE IF j + 1 \in kept THEN <<j + 1>> \o W[j + 1] ELSE W[j + 1]
  BY <1>5, WalkAt
<1>8. ~Listed(W[j], j, n, kept)
  BY <1>3
<1> HIDE DEF j, Bad
<1> QED BY <1>5, <1>6, <1>7, <1>8, ListedFromHere, ListedFromNext

LEMMA WalksExist ==
    ASSUME NEW n \in Nat, NEW kept
    PROVE  \E W : Walks(W, n, kept)
<1> DEFINE Here(W, i) == IF i = n THEN <<>>
                         ELSE IF i + 1 \in kept THEN <<i + 1>> \o W[i + 1] ELSE W[i + 1]
           Bad == {d \in 0..n : ~\E W : W = [i \in (n - d)..n |-> Here(W, i)]}
<1>1. Bad = {}
  <2>1. SUFFICES ASSUME Bad # {} PROVE FALSE
    OBVIOUS
  <2>2. PICK d \in Bad : \A k \in Bad : d <= k
    <3>1. Bad \in SUBSET Nat
      OBVIOUS
    <3> HIDE DEF Bad
    <3> QED BY <2>1, <3>1, LeastNat
  <2>3. d \in 0..n /\ ~\E W : W = [i \in (n - d)..n |-> Here(W, i)]
    OBVIOUS
  <2>4. d # 0
    <3> DEFINE W == [i \in n..n |-> <<>>]
    <3>1. W = [i \in n..n |-> Here(W, i)]
      OBVIOUS
    <3>2. n - 0 = n
      OBVIOUS
    <3> HIDE DEF W, Here
    <3> QED BY <2>3, <3>1, <3>2
  <2>5. PICK V : V = [i \in (n - (d - 1))..n |-> Here(V, i)]
    <3>1. d - 1 \in 0..n /\ ~(d <= d - 1)
      BY <2>3, <2>4
    <3>2. d - 1 \notin Bad
      <4> HIDE DEF Bad
      <4> QED BY <2>2, <3>1
    <3> QED BY <3>1, <3>2
  <2> DEFINE j == n - d
             W == [i \in j..n |-> IF i = j THEN Here(V, j) ELSE V[i]]
  <2>6. j \in Nat /\ j < n /\ n - (d - 1) = j + 1
    BY <2>3, <2>4
  <2>7. ASSUME NEW i \in j..n PROVE W[i] = Here(W, i)
    <3>1. CASE i = n
      <4>1. i # j /\ W[i] = V[i] /\ i \in (j + 1)..n
        BY <2>6, <3>1
      <4>2. V[i] = Here(V, i)
        BY <2>5, <2>6, <4>1
      <4> QED BY <3>1, <4>1, <4>2
    <3>2. CASE i # n
      <4>1. i + 1 \in (j + 1)..n /\ i + 1 \in j..n /\ i + 1 # j /\ W[i + 1] = V[i + 1]
        BY <2>6, <3>2
      <4>2. Here(W, i) = Here(V, i)
        BY <4>1
      <4>3. W[i] = Here(V, i)
        <5>1. CASE i = j
          BY <5>1
        <5>2. CASE i # j
          <6>1. W[i] = V[i] /\ i \in (j + 1)..n
            BY <2>6, <5>2
          <6> QED BY <2>5, <2>6, <6>1
        <5> QED BY <5>1, <5>2
      <4> QED BY <4>2, <4>3
    <3> QED BY <3>1, <3>2
  <2>8. W = [i \in j..n |-> Here(W, i)]
    <3>1. W = [i \in j..n |-> W[i]]
      OBVIOUS
    <3> HIDE DEF W, Here, j
    <3> QED BY <2>7, <3>1
  <2> HIDE DEF W, Here
  <2> QED BY <2>3, <2>8
<1>2. PICK W : W = [i \in (n - n)..n |-> Here(W, i)]
  <2>1. n \in 0..n
    OBVIOUS
  <2> QED BY <1>1, <2>1
<1> DEFINE There(i) == LET next == FindFrom(1..n, n, i)
                       IN  IF next = 0 THEN <<>>
                           ELSE IF next \in kept THEN <<next>> \o W[next] ELSE W[next]
<1>3. ASSUME NEW i \in 0..n PROVE Here(W, i) = There(i)
  <2>1. FindFrom(1..n, n, i) = IF i < n THEN i + 1 ELSE 0
    BY NextFound
  <2> QED BY <2>1
<1>4. n - n = 0
  OBVIOUS
<1>5. W = [i \in 0..n |-> There(i)]
  <2> HIDE DEF Here, There
  <2> QED BY <1>2, <1>3, <1>4
<1>6. Walks(W, n, kept)
  BY <1>5 DEF Walks
<1> QED BY <1>6

\* What the walk over a table lists.
LEMMA WalkSound ==
    ASSUME NEW R, NEW table \in Seq(R), NEW kept \in SUBSET (1..Len(table))
    PROVE  Listed(Walk(table, kept), 0, Len(table), kept)
<1> DEFINE n == Len(table)
           V == CHOOSE W : Walks(W, n, kept)
<1>1. n \in Nat /\ DOMAIN table = 1..n
  OBVIOUS
<1>2. Walk(table, kept) = V[0]
  BY <1>1 DEF Walk, NextRow, Walks
<1>3. Walks(V, n, kept)
  BY <1>1, WalksExist
<1>4. 0 \in 0..n
  BY <1>1
<1> HIDE DEF n, V
<1>5. kept \in SUBSET (1..n)
  BY DEF n
<1>6. Listed(V[0], 0, n, kept)
  BY <1>1, <1>3, <1>4, <1>5, WalkLists
<1> QED BY <1>2, <1>6 DEF n

----------------------------------------------------------------------------
\* What the rows add up to.

\* The sum over the users of what is summed over their cards.
LEMMA SumByUser ==
    ASSUME NEW ms \in Seq(Mapping), NEW g, \A k \in 1..Len(ms) : g[k] \in Nat,
           NEW D, IsFiniteSet(D), NEW c, \A u \in D : c[u] = Sum(g, CardsIn(ms, u))
    PROVE  Sum(c, D) = Sum(g, {k \in 1..Len(ms) : ms[k].user \in D})
<1> DEFINE Of(E) == {k \in 1..Len(ms) : ms[k].user \in E}
           Bad == {E \in SUBSET D : Sum(c, E) # Sum(g, Of(E))}
<1>1. SUFFICES ASSUME Bad # {} PROVE FALSE
  <2>1. D \in SUBSET D
    OBVIOUS
  <2> QED BY <2>1
<1>2. PICK E \in Bad : \A F \in Bad : F \subseteq E => F = E
  <2>1. Bad \in SUBSET SUBSET D
    OBVIOUS
  <2> HIDE DEF Bad
  <2> QED BY <1>1, <2>1, LeastSet
<1>3. E \in SUBSET D /\ Sum(c, E) # Sum(g, Of(E))
  OBVIOUS
<1>4. E # {}
  <2>1. Of({}) = {}
    OBVIOUS
  <2> HIDE DEF Of
  <2> QED BY <1>3, <2>1, SumEmpty
<1>5. PICK u \in E : TRUE
  BY <1>4
<1> DEFINE F == E \ {u}
<1>6. Sum(c, F) = Sum(g, Of(F)) /\ F \in SUBSET D
  <2>1. F \notin Bad
    <3> HIDE DEF Bad
    <3> QED BY <1>2, <1>3, <1>5
  <2> QED BY <1>3, <2>1
<1>7. \A v \in D : c[v] \in Nat
  <2> TAKE v \in D
  <2>1. IsFiniteSet(CardsIn(ms, v)) /\ CardsIn(ms, v) \subseteq 1..Len(ms)
    BY CardsType
  <2>2. Sum(g, CardsIn(ms, v)) \in Nat
    BY <2>1, SumNat
  <2> QED BY <2>2
<1>8. Sum(c, E) = c[u] + Sum(c, F)
  <2> HIDE DEF Bad, F
  <2> QED BY <1>3, <1>5, <1>7, SumSplit DEF F
<1>9. Sum(g, Of(E)) = Sum(g, CardsIn(ms, u)) + Sum(g, Of(F))
  <2>1. /\ Of(E) = CardsIn(ms, u) \cup Of(F) /\ CardsIn(ms, u) \cap Of(F) = {}
        /\ Of(F) \in SUBSET (1..Len(ms))
    BY <1>5 DEF CardsIn
  <2>2. /\ IsFiniteSet(CardsIn(ms, u)) /\ CardsIn(ms, u) \subseteq 1..Len(ms)
        /\ IsFiniteSet(1..Len(ms))
    BY CardsType
  <2>3. IsFiniteSet(Of(F))
    <3> HIDE DEF Of
    <3> QED BY <2>1, <2>2, FS_Subset
  <2>4. \A k \in CardsIn(ms, u) \cup Of(F) : g[k] \in Nat
    BY <2>1, <2>2
  <2> HIDE DEF Of, F, Bad
  <2> QED BY <2>1, <2>2, <2>3, <2>4, SumUnion
<1> HIDE DEF Bad, Of, F
<1> QED BY <1>3, <1>5, <1>6, <1>8, <1>9

\* A sum over the distinct values that h has on S.
OneToOne(h, S) == \A j, k \in S : h[j] = h[k] => j = k

LEMMA SumOfImage ==
    ASSUME NEW S, IsFiniteSet(S), NEW V, IsFiniteSet(V), NEW h, NEW f, NEW g,
           \A k \in S : h[k] \in V /\ g[k] = f[h[k]], \A v \in V : f[v] \in Nat,
           OneToOne(h, S)
    PROVE  Sum(g, S) = Sum(f, {h[k] : k \in S})
<1> DEFINE Values(t) == {h[k] : k \in t}
           Bad == {t \in SUBSET S : Sum(g, t) # Sum(f, Values(t))}
<1>1. SUFFICES ASSUME Bad # {} PROVE FALSE
  <2>1. S \in SUBSET S
    OBVIOUS
  <2> QED BY <2>1
<1>2. PICK t \in Bad : \A r \in Bad : r \subseteq t => r = t
  <2>1. Bad \in SUBSET SUBSET S
    OBVIOUS
  <2> HIDE DEF Bad
  <2> QED BY <1>1, <2>1, LeastSet
<1>3. t \in SUBSET S /\ Sum(g, t) # Sum(f, Values(t))
  OBVIOUS
<1>4. t # {}
  <2>1. Values({}) = {}
    OBVIOUS
  <2> HIDE DEF Values
  <2> QED BY <1>3, <2>1, SumEmpty
<1>5. PICK k \in t : TRUE
  BY <1>4
<1> DEFINE r == t \ {k}
<1>6. Sum(g, r) = Sum(f, Values(r))
  <2>1. r \notin Bad
    <3> HIDE DEF Bad
    <3> QED BY <1>2, <1>3, <1>5
  <2> QED BY <1>3, <2>1
<1>7. Sum(g, t) = g[k] + Sum(g, r) /\ g[k] = f[h[k]]
  <2>1. \A j \in S : g[j] \in Nat
    OBVIOUS
  <2>2. \A x \in t : Sum(g, t) = g[x] + Sum(g, t \ {x})
    <3> HIDE DEF Bad
    <3> QED BY <1>3, <2>1, SumSplit
  <2> QED BY <1>3, <2>2
<1>8. Sum(f, Values(t)) = f[h[k]] + Sum(f, Values(r))
  <2>1. Values(t) \in SUBSET V /\ h[k] \in Values(t)
    BY <1>3, <1>5
  <2>2. Values(t) \ {h[k]} = Values(r)
    <3>1. \A j \in r : h[j] # h[k]
      BY <1>3, <1>5 DEF OneToOne
    <3> QED BY <1>5, <3>1
  <2> HIDE DEF Values, r, Bad
  <2>3. \A x \in Values(t) : Sum(f, Values(t)) = f[x] + Sum(f, Values(t) \ {x})
    BY <2>1, SumSplit
  <2> QED BY <2>1, <2>2, <2>3
<1> HIDE DEF Bad, Values, r
<1> QED BY <1>3, <1>6, <1>7, <1>8

\* No MAC address has two mappings: bytes may be counted by address.
Distinct(ms) == \A j, k \in 1..Len(ms) : ms[j].eth_addr = ms[k].eth_addr => j = k

LEMMA SumByAddress ==
    ASSUME NEW ms \in Seq(Mapping), NEW f \in [Macs -> Nat], Distinct(ms)
    PROVE  Sum(Bytes(ms, f), 1..Len(ms)) = Sum(f, {ms[k].eth_addr : k \in 1..Len(ms)})
<1> DEFINE S == 1..Len(ms)
           h == [k \in S |-> ms[k].eth_addr]
           g == Bytes(ms, f)
<1>1. IsFiniteSet(S)
  BY CardsType
<1>2. \A k \in S : h[k] \in Macs /\ g[k] = f[h[k]]
  BY BytesType, MappingRow
<1>3. OneToOne(h, S)
  BY DEF Distinct, OneToOne
<1>4. {h[k] : k \in S} = {ms[k].eth_addr : k \in S}
  OBVIOUS
<1>5. \A m \in Macs : f[m] \in Nat
  OBVIOUS
<1> HIDE DEF S, h, g
<1>6. Sum(g, S) = Sum(f, {h[k] : k \in S})
  BY <1>1, <1>2, <1>3, <1>5, MacsAssumption, SumOfImage
<1> QED BY <1>4, <1>6 DEF g, S

\* Addresses without a mapping transferred nothing.
LEMMA TotalIs ==
    ASSUME NEW ms \in Seq(Mapping), NEW f, Unknown(ms, f),
           Distinct(ms)
    PROVE  Sum(Bytes(ms, f), 1..Len(ms)) = Total(f)
<1> DEFINE mapped == {ms[k].eth_addr : k \in 1..Len(ms)}
           rest == Macs \ mapped
<1>1. f \in [Macs -> Nat] /\ \A m \in Macs : f[m] \in Nat
  BY DEF Unknown
<1>2. Sum(Bytes(ms, f), 1..Len(ms)) = Sum(f, mapped)
  BY <1>1, SumByAddress
<1>3. mapped \in SUBSET Macs /\ rest \in SUBSET Macs /\ mapped \cap rest = {}
      /\ mapped \cup rest = Macs
  BY MappingRow
<1>4. \A m \in rest : f[m] = 0
  BY DEF Unknown
<1> HIDE DEF mapped, rest
<1>5. IsFiniteSet(mapped) /\ IsFiniteSet(rest)
  BY <1>3, MacsAssumption, FS_Subset
<1>6. Sum(f, rest) = 0 /\ Sum(f, mapped) \in Nat
  <2>1. \A m \in mapped : f[m] \in Nat
    BY <1>1, <1>3
  <2> QED BY <1>4, <1>5, <2>1, SumZero, SumNat
<1>7. Sum(f, Macs) = Sum(f, mapped) + Sum(f, rest)
  <2>1. \A m \in mapped \cup rest : f[m] \in Nat
    BY <1>1, <1>3
  <2>2. Sum(f, mapped \cup rest) = Sum(f, mapped) + Sum(f, rest)
    BY <1>3, <1>5, <2>1, SumUnion
  <2> QED BY <1>3, <2>2
<1> QED BY <1>2, <1>6, <1>7 DEF Sum, Total

\* c has what the rows of the table us are charged for f.
LEMMA ChargesAddUp ==
    ASSUME NEW us, NEW ms, Tabled(us, ms, Rows(us)), NEW f, Unknown(ms, f), NEW c,
           \A u \in Rows(us) : c[u] = Sum(Bytes(ms, f), CardsIn(ms, u))
    PROVE  Sum(c, Rows(us)) = Total(f)
<1>1. /\ ms \in Seq(Mapping) /\ Len(us) \in Nat /\ f \in [Macs -> Nat]
      /\ \A k \in 1..Len(ms) : ms[k].user \in Rows(us)
      /\ Distinct(ms)
  BY SoundType DEF Tabled, Unknown, Distinct
<1>2. IsFiniteSet(Rows(us))
  <2>1. 1 \in Int /\ Len(us) \in Int
    BY <1>1
  <2> QED BY <2>1, FS_Interval DEF Rows
<1>3. \A k \in 1..Len(ms) : Bytes(ms, f)[k] \in Nat
  BY <1>1, BytesType
<1>4. Sum(c, Rows(us)) = Sum(Bytes(ms, f), {k \in 1..Len(ms) : ms[k].user \in Rows(us)})
  BY <1>1, <1>2, <1>3, SumByUser
<1>5. {k \in 1..Len(ms) : ms[k].user \in Rows(us)} = 1..Len(ms)
  BY <1>1
<1> QED BY <1>1, <1>4, <1>5, TotalIs

\* The pages visit every user in the order of the rows.
LEMMA UsersVisited ==
    ASSUME UsersInv
    PROVE  /\ Rows(users) = 1..Len(users) /\ Len(users) \in Nat
           /\ DOMAIN WalkUsers = Rows(users) /\ \A u \in Rows(users) : WalkUsers[u] = u
<1>1. users \in Seq(User) /\ Len(users) \in Nat /\ DOMAIN users = 1..Len(users)
  BY SoundType DEF UsersInv, Sound
<1> DEFINE n == Len(users)
           w == Walk(users, 1..n)
<1>2. WalkUsers = w
  BY <1>1 DEF WalkUsers
<1>3. Listed(w, 0, n, 1..n)
  BY <1>1, WalkSound
<1> HIDE DEF w, n
<1>4. w \in Seq(1..n) /\ Len(w) = n - 0 /\ \A x \in 1..Len(w) : w[x] = 0 + x
  BY <1>3 DEF Listed
<1>5. n \in Nat
  BY <1>1 DEF n
<1>6. Len(w) = n /\ DOMAIN w = 1..n /\ \A x \in 1..n : w[x] = x
  BY <1>4, <1>5
<1> QED BY <1>1, <1>2, <1>6 DEF Rows, n

LEMMA CardsListedAre ==
    ASSUME UsersInv, NEW u \in Rows(users)
    PROVE  /\ CardsListed(u) # <<>>
           /\ \A k \in 1..Len(mappings) :
                (\E i \in DOMAIN CardsListed(u) : CardsListed(u)[i] = k) <=> mappings[k].user = u
<1>1. mappings \in Seq(Mapping) /\ Len(mappings) \in Nat /\ DOMAIN mappings = 1..Len(mappings)
  BY SoundType DEF UsersInv, Sound
<1> DEFINE m == Len(mappings)
           s == Walk(mappings, CardsIn(mappings, u))
<1>2. CardsListed(u) = s
  BY <1>1 DEF CardsListed, CardsIn
<1>3. CardsIn(mappings, u) \in SUBSET (1..m)
  BY DEF CardsIn
<1>4. Listed(s, 0, m, CardsIn(mappings, u))
  BY <1>1, <1>3, WalkSound
<1> HIDE DEF s
<1>5. s \in Seq(1..m) /\ DOMAIN s = 1..Len(s)
  BY <1>4 DEF Listed
<1>6. ASSUME NEW k \in 1..m PROVE (\E i \in DOMAIN s : s[i] = k) <=> mappings[k].user = u
  <2>1. ASSUME NEW i \in DOMAIN s, s[i] = k PROVE mappings[k].user = u
    <3>1. k \in CardsIn(mappings, u)
      BY <1>4, <1>5, <2>1 DEF Listed
    <3> QED BY <3>1 DEF CardsIn
  <2>2. ASSUME mappings[k].user = u PROVE \E i \in DOMAIN s : s[i] = k
    <3>1. k \in CardsIn(mappings, u) /\ 0 < k
      BY <2>2 DEF CardsIn
    <3> QED BY <1>4, <1>5, <3>1 DEF Listed
  <2> QED BY <2>1, <2>2
<1>7. s # <<>>
  <2>1. CardsIn(mappings, u) # {}
    BY DEF UsersInv, Sound, RowSound
  <2>2. PICK k \in CardsIn(mappings, u) : TRUE
    BY <2>1
  <2>3. k \in 1..m /\ mappings[k].user = u
    BY <2>2 DEF CardsIn
  <2>4. PICK i \in DOMAIN s : s[i] = k
    BY <1>6, <2>3
  <2>5. DOMAIN <<>> = {}
    OBVIOUS
  <2> QED BY <2>4, <2>5
<1> QED BY <1>2, <1>6, <1>7

\* The cards as the pages list them, each with its user.
CardsByUser == {<<mappings[k].user, k>> : k \in 1..Len(mappings)}

LEMMA CardsByUserCounted ==
    ASSUME UsersInv
    PROVE  /\ Cardinality(CardsByUser) = Len(mappings)
           /\ {x[2] : x \in CardsByUser} = 1..Len(mappings)
           /\ CardsByUser \subseteq Rows(users) \X (1..Len(mappings))
<1>1. Len(mappings) \in Nat /\ \A k \in 1..Len(mappings) : mappings[k].user \in Rows(users)
  BY SoundType DEF UsersInv, Sound, Tabled
<1> DEFINE S == 1..Len(mappings)
           F == [k \in S |-> <<mappings[k].user, k>>]
<1>2. IsFiniteSet(S) /\ Cardinality(S) = Len(mappings)
  <2>1. 1 \in Int /\ Len(mappings) \in Int
    BY <1>1
  <2>2. /\ IsFiniteSet(1..Len(mappings))
        /\ Cardinality(1..Len(mappings)) =
             IF 1 > Len(mappings) THEN 0 ELSE Len(mappings) - 1 + 1
    BY <2>1, FS_Interval
  <2> QED BY <1>1, <2>2
<1>3. F \in Bijection(S, CardsByUser)
  <2>1. F \in [S -> CardsByUser]
    BY DEF CardsByUser
  <2>2. \A j, k \in S : F[j] = F[k] => j = k
    OBVIOUS
  <2>3. \A x \in CardsByUser : \E k \in S : F[k] = x
    BY DEF CardsByUser
  <2> HIDE DEF F, S
  <2> QED BY <2>1, <2>2, <2>3 DEF Bijection, Injection, Surjection, IsInjective
<1>4. Cardinality(CardsByUser) = Cardinality(S)
  <2> HIDE DEF F, S
  <2> QED BY <1>2, <1>3, FS_Bijection DEF ExistsBijection
<1>5. {x[2] : x \in CardsByUser} = S
  <2>1. ASSUME NEW x \in CardsByUser PROVE x[2] \in S
    BY DEF CardsByUser
  <2>2. ASSUME NEW k \in S PROVE \E x \in CardsByUser : x[2] = k
    <3>1. <<mappings[k].user, k>> \in CardsByUser /\ <<mappings[k].user, k>>[2] = k
      BY DEF CardsByUser
    <3> QED BY <3>1
  <2> QED BY <2>1, <2>2
<1> QED BY <1>1, <1>2, <1>4, <1>5 DEF CardsByUser

LEMMA PagesRight == UsersInv => PagesAddUp
<1> SUFFICES ASSUME UsersInv PROVE PagesAddUp
  OBVIOUS
<1> DEFINE n == Len(users)
           m == Len(mappings)
           list == SendAllUsage
           csv == GetCsv
           bindings == SendUserBindings
           listed == CardsOn(bindings)
           credits == [k \in DOMAIN list |-> list[k].credit]
           last_credits == [k \in DOMAIN csv |-> csv[k].last_credit]
<1>1. /\ Rows(users) = 1..n /\ n \in Nat
      /\ DOMAIN WalkUsers = Rows(users) /\ \A u \in Rows(users) : WalkUsers[u] = u
  BY UsersVisited
<1>2. /\ DOMAIN list = Rows(users) /\ \A u \in Rows(users) : list[u] = UserUsage(u)
      /\ DOMAIN csv = Rows(users) /\ \A u \in Rows(users) : csv[u] = CsvLine(u)
      /\ DOMAIN bindings = Rows(users) /\ Len(bindings) = n
      /\ \A u \in Rows(users) : bindings[u] = UserBinding(u)
  BY <1>1 DEF SendAllUsage, GetCsv, SendUserBindings
<1> HIDE DEF list, csv, bindings
<1>3. m \in Nat /\ DOMAIN mappings = 1..m /\ Tabled(users, mappings, Rows(users))
      /\ DOMAIN users = 1..n
  BY SoundType DEF UsersInv, Sound
<1>4. SumFunction(credits) = Total(used) /\ SumFunction(last_credits) = Total(last_used)
  <2>1. \A u \in Rows(users) : /\ users[u].credit = Sum(Bytes(mappings, used), CardsIn(mappings, u))
                               /\ users[u].last_credit =
                                    Sum(Bytes(mappings, last_used), CardsIn(mappings, u))
    BY DEF UsersInv, Sound, RowSound
  <2>2. \A u \in Rows(users) : credits[u] = users[u].credit /\ last_credits[u] = users[u].last_credit
    BY <1>2 DEF UserUsage, CsvLine
  <2>3. DOMAIN credits = Rows(users) /\ DOMAIN last_credits = Rows(users)
    BY <1>2
  <2>4. Unknown(mappings, used) /\ Unknown(mappings, last_used)
    BY DEF UsersInv
  <2> HIDE DEF credits, last_credits
  <2>5. Sum(credits, Rows(users)) = Total(used)
    BY <1>3, <2>1, <2>2, <2>4, ChargesAddUp
  <2>6. Sum(last_credits, Rows(users)) = Total(last_used)
    BY <1>3, <2>1, <2>2, <2>4, ChargesAddUp
  <2> QED BY <2>3, <2>5, <2>6 DEF SumFunction, Sum
<1>5. listed = CardsByUser
  <2>1. ASSUME NEW u \in Rows(users), NEW k \in 1..m
        PROVE  (\E i \in DOMAIN bindings[u].cards : bindings[u].cards[i] = k) <=> mappings[k].user = u
    <3>1. bindings[u].cards = CardsListed(u)
      BY <1>2 DEF UserBinding
    <3> QED BY <3>1, CardsListedAre
  <2> DEFINE pairs == (DOMAIN bindings) \X (DOMAIN mappings)
             Shown(x) == \E i \in DOMAIN bindings[x[1]].cards : bindings[x[1]].cards[i] = x[2]
  <2>2. \A x : x \in listed <=> x \in pairs /\ Shown(x)
    BY DEF CardsOn
  <2>3. pairs = Rows(users) \X (1..m)
    <3>1. DOMAIN bindings = Rows(users)
      BY <1>2
    <3>2. DOMAIN mappings = 1..m
      BY <1>3
    <3> QED BY <3>1, <3>2
  <2>4. CardsByUser \subseteq Rows(users) \X (1..m)
    BY CardsByUserCounted
  <2> HIDE DEF listed, pairs
  <2>5. ASSUME NEW x \in listed PROVE x \in CardsByUser
    <3>1. x[1] \in Rows(users) /\ x[2] \in 1..m /\ x = <<x[1], x[2]>>
      BY <2>2, <2>5, <2>3
    <3>2. mappings[x[2]].user = x[1]
      BY <2>1, <2>2, <2>5, <3>1
    <3> QED BY <3>1, <3>2 DEF CardsByUser
  <2>6. ASSUME NEW x \in CardsByUser PROVE x \in listed
    <3>1. PICK k \in 1..m : x = <<mappings[k].user, k>>
      BY <2>6 DEF CardsByUser
    <3>2. x \in Rows(users) \X (1..m)
      BY <2>4, <2>6
    <3>3. x[1] = mappings[k].user /\ x[2] = k /\ x[1] \in Rows(users)
      BY <3>1, <3>2
    <3>4. Shown(x)
      BY <2>1, <3>3
    <3> QED BY <2>2, <2>3, <3>2, <3>4
  <2> QED BY <2>5, <2>6
<1>6. Cardinality(listed) = m /\ {x[2] : x \in listed} = DOMAIN mappings
  <2> HIDE DEF listed
  <2> QED BY <1>3, <1>5, CardsByUserCounted
<1>7. ASSUME NEW u \in Rows(users)
      PROVE  /\ bindings[u].cards # <<>>
             /\ bindings[u].comma = (u < Len(bindings))
             /\ list[u].name = bindings[u].name
  <2>1. NextRow(users, u) = IF u < n THEN u + 1 ELSE 0
    <3>1. u \in 0..n
      BY <1>1
    <3> QED BY <1>1, <1>3, <3>1, NextFound DEF NextRow
  <2>2. Comma(u) = (u < n)
    BY <1>1, <2>1 DEF Comma
  <2>3. CardsListed(u) # <<>>
    BY CardsListedAre
  <2> QED BY <1>2, <2>2, <2>3 DEF UserBinding, UserUsage
<1> HIDE DEF listed, credits, last_credits
<1>8. /\ SumFunction([k \in DOMAIN list |-> list[k].credit]) = Total(used)
      /\ SumFunction([k \in DOMAIN csv |-> csv[k].last_credit]) = Total(last_used)
  BY <1>4 DEF credits, last_credits
<1>9. /\ Cardinality(CardsOn(bindings)) = m
      /\ {x[2] : x \in CardsOn(bindings)} = DOMAIN mappings
  BY <1>6 DEF listed
<1>10. \A k \in DOMAIN bindings : /\ bindings[k].cards # <<>>
                                 /\ bindings[k].comma = (k < Len(bindings))
                                 /\ list[k].name = bindings[k].name
  BY <1>2, <1>7
<1> QED BY <1>8, <1>9, <1>10 DEF PagesAddUp, list, csv, bindings

\* The pages add up, for tables of every size: the usage listed is what all MAC
\* addresses transferred, every card is listed for one user, and no user goes
\* without one (http_endpoints.c:43, 88, 113, 190; table.c:6).
THEOREM PagesStayRight == UsersSpec => []PagesAddUp
<1> QED BY UsersInvariant, PagesRight, PTL
=============================================================================
