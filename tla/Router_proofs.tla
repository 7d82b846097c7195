---------------------------- MODULE Router_proofs ----------------------------
(***************************************************************************)
(* Proofs about Router and the PriorityRoundRobin it is built on, for any  *)
(* number of concurrent requests, every chain that config.go accepts with  *)
(* any number of groups and upstreams, and words of any size.              *)
(***************************************************************************)
EXTENDS Router, SequenceTheorems, FiniteSetTheorems, WellFoundedInduction, TLAPS

-----------------------------------------------------------------------------
(* Arithmetic.                                                             *)

LEMMA Division ==
    ASSUME NEW m \in Nat \ {0}, NEW a \in Nat
    PROVE  /\ a % m \in 0..(m - 1)
           /\ a \div m \in Nat
           /\ a = (m * (a \div m)) + (a % m)
  OBVIOUS

LEMMA Multiples ==
    ASSUME NEW m \in Nat \ {0}, NEW x \in Int, NEW y \in Int, x < y
    PROVE  m * y >= m * x + m
  OBVIOUS

\* Numbers that are less than m apart have different remainders.
LEMMA DifferentRemainders ==
    ASSUME NEW m \in Nat \ {0}, NEW a \in Nat, NEW b \in Nat, a < b, b < a + m
    PROVE  a % m # b % m
  <1> DEFINE qa == a \div m
             qb == b \div m
             ra == a % m
             rb == b % m
  <1>1. /\ qa \in Nat /\ ra \in Nat /\ a = m * qa + ra
        /\ qb \in Nat /\ rb \in Nat /\ b = m * qb + rb
    BY Division
  <1> HIDE DEF qa, qb, ra, rb
  <1> SUFFICES ASSUME ra = rb PROVE FALSE
    BY DEF ra, rb
  <1>2. CASE qa < qb
    <2>1. m * qb >= m * qa + m
      BY <1>1, <1>2, Multiples
    <2> QED
      BY <1>1, <2>1
  <1>3. CASE qb < qa
    <2>1. m * qa >= m * qb + m
      BY <1>1, <1>3, Multiples
    <2> QED
      BY <1>1, <2>1
  <1>4. CASE qa = qb
    BY <1>1, <1>4
  <1> QED
    BY <1>1, <1>2, <1>3, <1>4

\* A nonempty set of natural numbers has a least element.
LEMMA LeastOfSet ==
    ASSUME NEW S, S \subseteq Nat, S # {}
    PROVE  \E n \in S : \A o \in S : n <= o
  <1> DEFINE R == {p \in Nat \X Nat : p[1] < p[2]}
  <1>1. R = OpToRel(<, Nat)
    BY DEF OpToRel
  <1>2. IsWellFoundedOn(R, Nat)
    BY <1>1, NatLessThanWellFounded
  <1>3. PICK n \in S : \A o \in S : ~ (<<o, n>> \in R)
    BY <1>2, WFMin
  <1>4. ASSUME NEW o \in S PROVE n <= o
    <2>1. n \in Nat /\ o \in Nat
      OBVIOUS
    <2>2. ~ (o < n)
      BY <1>3, <2>1
    <2> QED
      BY <2>1, <2>2
  <1> QED
    BY <1>4

-----------------------------------------------------------------------------
(* Positions.  What holds of all sets of positions up to n is shown by the *)
(* least n for which it would fail.                                        *)

LEMMA SeqOfFunction ==
    ASSUME NEW S, NEW n \in Nat, NEW s \in [1..n -> S]
    PROVE  s \in Seq(S) /\ Len(s) = n /\ DOMAIN s = 1..n
  <1>1. s \in Seq(S)
    BY SeqDef
  <1>2. Len(s) \in Nat /\ DOMAIN s = 1..Len(s) /\ DOMAIN s = 1..n
    BY <1>1, LenProperties
  <1>3. \A i \in Nat : i \in 1..Len(s) <=> i \in 1..n
    BY <1>2
  <1>4. CASE n < Len(s)
    BY <1>2, <1>3, <1>4
  <1>5. CASE Len(s) < n
    BY <1>2, <1>3, <1>5
  <1> QED
    BY <1>1, <1>2, <1>4, <1>5

LEMMA FinitePositions ==
    ASSUME NEW n \in Nat, NEW S \in SUBSET (1..n)
    PROVE  IsFiniteSet(S) /\ Cardinality(S) \in Nat
  <1>1. 1 \in Int /\ n \in Int
    OBVIOUS
  <1>2. IsFiniteSet(1..n)
    BY <1>1, FS_Interval
  <1>3. IsFiniteSet(S)
    BY <1>2, FS_Subset
  <1> QED
    BY <1>3, FS_CardinalityType

Enumerates(s, S) ==
    /\ s \in [1..Cardinality(S) -> S]
    /\ \A j, k \in DOMAIN s : j < k => s[j] < s[k]

CanBeOrdered(n) == \A S \in SUBSET (1..n) : \E s : Enumerates(s, S)

LEMMA AllCanBeOrdered == \A n \in Nat : CanBeOrdered(n)
  <1> DEFINE Bad == {n \in Nat : ~CanBeOrdered(n)}
  <1> SUFFICES ASSUME Bad # {} PROVE FALSE
    OBVIOUS
  <1>1. PICK n \in Bad : \A o \in Bad : n <= o
    BY LeastOfSet
  <1>2. PICK S \in SUBSET (1..n) : ~ \E s : Enumerates(s, S)
    BY DEF CanBeOrdered
  <1>3. IsFiniteSet(S) /\ Cardinality(S) \in Nat
    BY FinitePositions
  <1>4. S # {}
    <2> SUFFICES ASSUME S = {} PROVE FALSE
      OBVIOUS
    <2>1. Cardinality(S) = 0
      BY FS_EmptySet
    <2>2. Enumerates([i \in 1..0 |-> i], S)
      BY <2>1 DEF Enumerates
    <2> QED
      BY <1>2, <2>2
  <1>5. n - 1 \in Nat /\ CanBeOrdered(n - 1)
    <2>1. n - 1 \in Nat
      <3>1. PICK i \in S : TRUE
        BY <1>4
      <3>2. i \in 1..n /\ n \in Nat
        OBVIOUS
      <3> QED
        BY <3>2
    <2>2. n - 1 \notin Bad
      BY <1>1, <2>1
    <2> QED
      BY <2>1, <2>2
  <1>6. n \in S
    <2> SUFFICES ASSUME n \notin S PROVE FALSE
      OBVIOUS
    <2>1. S \in SUBSET (1..(n - 1))
      OBVIOUS
    <2> QED
      BY <1>2, <1>5, <2>1 DEF CanBeOrdered
  <1> DEFINE T == S \ {n}
             c == Cardinality(T)
  <1>7. T \in SUBSET (1..(n - 1)) /\ c \in Nat /\ Cardinality(S) = c + 1
    <2>1. T \in SUBSET (1..(n - 1))
      OBVIOUS
    <2>2. IsFiniteSet(T) /\ c = Cardinality(S) - 1
      BY <1>3, <1>6, FS_RemoveElement
    <2>3. c \in Nat
      BY <2>2, FS_CardinalityType
    <2> QED
      BY <1>3, <2>1, <2>2, <2>3
  <1>8. PICK t : Enumerates(t, T)
    BY <1>5, <1>7 DEF CanBeOrdered
  <1> DEFINE s == [i \in 1..(c + 1) |-> IF i = c + 1 THEN n ELSE t[i]]
  <1>9. t \in [1..c -> T] /\ \A j, k \in 1..c : j < k => t[j] < t[k]
    BY <1>8 DEF Enumerates
  <1> HIDE DEF c
  <1>10. s \in [1..(c + 1) -> S]
    BY <1>6, <1>7, <1>9
  <1>11. ASSUME NEW j \in 1..(c + 1), NEW k \in 1..(c + 1), j < k
         PROVE  s[j] < s[k]
    <2>1. j \in 1..c
      BY <1>7, <1>11
    <2>4. t[j] \in T /\ t[j] \in 1..(n - 1)
      BY <1>7, <1>9, <2>1
    <2>5. s[j] = t[j]
      BY <1>7, <2>1
    <2>6. n \in Nat
      OBVIOUS
    <2>2. CASE k = c + 1
      BY <2>2, <2>4, <2>5, <2>6
    <2>3. CASE k # c + 1
      <3>1. k \in 1..c
        BY <1>7, <2>3
      <3>2. s[k] = t[k]
        BY <2>3
      <3> QED
        BY <1>9, <1>11, <2>1, <2>5, <3>1, <3>2
    <2> QED
      BY <2>2, <2>3
  <1>12. Enumerates(s, S)
    BY <1>7, <1>10, <1>11 DEF Enumerates
  <1> QED
    BY <1>2, <1>12

\* InOrder gives the members of a set of positions in order.
LEMMA Ordered ==
    ASSUME NEW n \in Nat, NEW S \in SUBSET (1..n)
    PROVE  /\ Cardinality(S) \in Nat
           /\ Cardinality(S) = 0 <=> S = {}
           /\ InOrder(S) \in [1..Cardinality(S) -> S]
           /\ \A j, k \in 1..Cardinality(S) :
                 j < k => InOrder(S)[j] < InOrder(S)[k]
  <1>1. IsFiniteSet(S)
    BY FinitePositions
  <1>2. \E s : Enumerates(s, S)
    BY AllCanBeOrdered DEF CanBeOrdered
  <1>3. \E s \in [1..Cardinality(S) -> S] :
           \A j, k \in DOMAIN s : j < k => s[j] < s[k]
    BY <1>2 DEF Enumerates
  <1>4. /\ InOrder(S) \in [1..Cardinality(S) -> S]
        /\ \A j, k \in DOMAIN InOrder(S) : j < k => InOrder(S)[j] < InOrder(S)[k]
    BY <1>3 DEF InOrder
  <1> QED
    BY <1>1, <1>4, FS_CardinalityType, FS_EmptySet

\* Of the positions in a set there is one with the least value.
HasLeastValue(n) ==
    \A f \in [1..n -> Int] : \A S \in SUBSET (1..n) :
        S # {} => \E i \in S : \A j \in S : f[i] <= f[j]

LEMMA AllHaveLeastValue == \A n \in Nat : HasLeastValue(n)
  <1> DEFINE Bad == {n \in Nat : ~HasLeastValue(n)}
  <1> SUFFICES ASSUME Bad # {} PROVE FALSE
    OBVIOUS
  <1>1. PICK n \in Bad : \A o \in Bad : n <= o
    BY LeastOfSet
  <1>2. PICK f \in [1..n -> Int], S \in SUBSET (1..n) :
           S # {} /\ ~ \E i \in S : \A j \in S : f[i] <= f[j]
    BY DEF HasLeastValue
  <1>3. n - 1 \in Nat /\ HasLeastValue(n - 1)
    <2>1. n - 1 \in Nat
      <3>1. PICK i \in S : TRUE
        BY <1>2
      <3>2. i \in 1..n /\ n \in Nat
        BY <1>2
      <3> QED
        BY <3>2
    <2>2. n - 1 \notin Bad
      BY <1>1, <2>1
    <2> QED
      BY <2>1, <2>2
  <1> DEFINE g == [i \in 1..(n - 1) |-> f[i]]
             T == S \ {n}
  <1>4. g \in [1..(n - 1) -> Int] /\ T \in SUBSET (1..(n - 1))
    BY <1>3
  <1>5. CASE T = {}
    <2>1. S = {n}
      BY <1>2, <1>5
    <2>2. f[n] \in Int
      BY <1>2, <2>1
    <2>3. f[n] <= f[n]
      BY <2>2
    <2> QED
      BY <1>2, <2>1, <2>3
  <1>6. CASE T # {}
    <2>1. PICK i \in T : \A j \in T : g[i] <= g[j]
      BY <1>3, <1>4, <1>6 DEF HasLeastValue
    <2>2. \A j \in T : f[i] <= f[j]
      BY <1>4, <2>1
    <2>3. CASE n \in S /\ f[n] < f[i]
      <3>1. \A j \in S : f[n] <= f[j]
        BY <2>2, <2>3
      <3> QED
        BY <1>2, <2>3, <3>1
    <2>4. CASE ~(n \in S /\ f[n] < f[i])
      <3>1. \A j \in S : f[i] <= f[j]
        BY <2>2, <2>4
      <3> QED
        BY <1>2, <3>1
    <2> QED
      BY <2>3, <2>4
  <1> QED
    BY <1>5, <1>6

-----------------------------------------------------------------------------
(* The chain, and the lists that a request is given.                       *)

UniqueIDs ==
    \A i, j \in DOMAIN chain.upstreams :
        chain.upstreams[i].id = chain.upstreams[j].id => i = j

PriorityAt(i) == GroupPriority(chain.upstreams[i])

\* Position i has the best priority of those that are ok.
Best(ok, i) == i \in ok /\ \A j \in ok : PriorityAt(i) <= PriorityAt(j)

LEMMA ChainTyped ==
    ASSUME chain \in ChainConfigs
    PROVE  /\ DOMAIN chain.upstreams = 1..Len(chain.upstreams)
           /\ Len(chain.upstreams) \in Nat
           /\ \A i \in DOMAIN chain.upstreams : chain.upstreams[i].id \in Upstreams
           /\ DOMAIN chain.groups = 1..Len(chain.groups)
           /\ Len(chain.groups) \in Nat
           /\ \A i \in DOMAIN chain.groups : chain.groups[i].priority \in Int
  <1>1. chain \in [groups    : Seq([id : GroupIDs, priority : Int]),
                   upstreams : Seq([id : Upstreams, group : GroupIDs])]
    BY RouterConstants
  <1>2. /\ chain.groups \in Seq([id : GroupIDs, priority : Int])
        /\ chain.upstreams \in Seq([id : Upstreams, group : GroupIDs])
    BY <1>1
  <1>3. /\ Len(chain.upstreams) \in Nat
        /\ DOMAIN chain.upstreams = 1..Len(chain.upstreams)
        /\ \A i \in DOMAIN chain.upstreams :
              chain.upstreams[i] \in [id : Upstreams, group : GroupIDs]
    BY <1>2, LenProperties, ElementOfSeq
  <1>4. /\ Len(chain.groups) \in Nat
        /\ DOMAIN chain.groups = 1..Len(chain.groups)
        /\ \A i \in DOMAIN chain.groups :
              chain.groups[i] \in [id : GroupIDs, priority : Int]
    BY <1>2, LenProperties, ElementOfSeq
  <1> QED
    BY <1>3, <1>4

LEMMA GroupPriorityTyped ==
    ASSUME chain \in ChainConfigs, NEW u
    PROVE  GroupPriority(u) \in Int
  <1> DEFINE I == {i \in 1..Len(chain.groups) : chain.groups[i].id = u.group}
             g == IF I # {} THEN Min(I) ELSE 0
  <1>1. GroupPriority(u) = IF g = 0 THEN 0 ELSE chain.groups[g].priority
    BY DEF GroupPriority, SelectInSeq
  <1>2. CASE I = {}
    BY <1>1, <1>2
  <1>3. CASE I # {}
    <2>1. I \subseteq Nat
      OBVIOUS
    <2>2. \E i \in I : \A o \in I : i <= o
      BY <1>3, <2>1, LeastOfSet
    <2>3. Min(I) \in I
      BY <2>2 DEF Min
    <2>4. Min(I) \in DOMAIN chain.groups
      BY <2>3, ChainTyped
    <2>5. Min(I) # 0
      BY <2>3
    <2>6. GroupPriority(u) = chain.groups[Min(I)].priority
      BY <1>1, <1>3, <2>5
    <2> QED
      BY <2>4, <2>6, ChainTyped
  <1> QED
    BY <1>2, <1>3

\* The configuration with an upstream's ID is that upstream's.
LEMMA ConfigOfID ==
    ASSUME chain \in ChainConfigs, UniqueIDs, NEW i \in DOMAIN chain.upstreams
    PROVE  ConfigToRoute(chain.upstreams[i].id) = i
  <1> DEFINE I == {j \in 1..Len(chain.upstreams) :
                      chain.upstreams[j].id = chain.upstreams[i].id}
  <1>1. I = {i}
    BY ChainTyped DEF UniqueIDs
  <1>2. ConfigToRoute(chain.upstreams[i].id) = IF I # {} THEN Max(I) ELSE 0
    BY DEF ConfigToRoute, SelectLastInSeq
  <1>3. Max({i}) = i
    BY ChainTyped DEF Max
  <1> QED
    BY <1>1, <1>2, <1>3

\* What filterUpstreams leaves of a priority.
LEMMA Filtered ==
    ASSUME chain \in ChainConfigs, NEW ok \in SUBSET DOMAIN chain.upstreams
    PROVE  /\ DOMAIN FilterUpstreams(ok) = {PriorityAt(i) : i \in ok}
           /\ \A p \in DOMAIN FilterUpstreams(ok) :
                 LET left == {i \in ok : PriorityAt(i) = p}
                 IN  FilterUpstreams(ok)[p] =
                        [k \in 1..Cardinality(left) |->
                            chain.upstreams[InOrder(left)[k]].id]
  <1> DEFINE left(p) == {i \in ok : PriorityAt(i) = p}
             G == GroupUpstreamsByPriority
  <1>1. DOMAIN G = {PriorityAt(i) : i \in DOMAIN chain.upstreams}
    BY DEF GroupUpstreamsByPriority, PriorityAt, Range
  <1>2. \A p \in DOMAIN G : G[p] \cap ok = left(p)
    BY DEF GroupUpstreamsByPriority, PriorityAt
  <1> HIDE DEF G
  <1> DEFINE D == {q \in DOMAIN G : G[q] \cap ok # {}}
  <1>3. FilterUpstreams(ok) =
            [p \in D |-> [k \in 1..Cardinality(G[p] \cap ok) |->
                             chain.upstreams[InOrder(G[p] \cap ok)[k]].id]]
    BY DEF FilterUpstreams, G
  <1>4. D = {PriorityAt(i) : i \in ok}
    BY <1>1, <1>2
  <1>5. \A p \in D : G[p] \cap ok = left(p)
    BY <1>2
  <1> HIDE DEF D
  <1>6. DOMAIN FilterUpstreams(ok) = D
    BY <1>3
  <1>7. ASSUME NEW p \in D
        PROVE  FilterUpstreams(ok)[p] =
                   [k \in 1..Cardinality(left(p)) |->
                       chain.upstreams[InOrder(left(p))[k]].id]
    <2>1. FilterUpstreams(ok)[p] =
              [k \in 1..Cardinality(G[p] \cap ok) |->
                  chain.upstreams[InOrder(G[p] \cap ok)[k]].id]
      BY <1>3
    <2> QED
      BY <1>5, <2>1
  <1> QED
    BY <1>4, <1>6, <1>7

\* The list of a priority: the upstreams that are ok, each once.
LEMMA FilteredList ==
    ASSUME chain \in ChainConfigs, UniqueIDs,
           NEW ok \in SUBSET DOMAIN chain.upstreams,
           NEW p \in DOMAIN FilterUpstreams(ok)
    PROVE  LET list == FilterUpstreams(ok)[p]
           IN  /\ list \in Seq(Upstreams)
               /\ Len(list) > 0
               /\ IsInjective(list)
               /\ \A k \in DOMAIN list :
                     \E i \in ok : PriorityAt(i) = p /\ list[k] = chain.upstreams[i].id
  <1> DEFINE left == {i \in ok : PriorityAt(i) = p}
             c == Cardinality(left)
             list == FilterUpstreams(ok)[p]
  <1>0. p \in {PriorityAt(i) : i \in ok}
    BY Filtered
  <1>1. list = [k \in 1..c |-> chain.upstreams[InOrder(left)[k]].id] /\ left # {}
    <2>1. left # {}
      BY <1>0
    <2>2. list = [k \in 1..c |-> chain.upstreams[InOrder(left)[k]].id]
      BY Filtered
    <2> QED
      BY <2>1, <2>2
  <1>2. left \in SUBSET (1..Len(chain.upstreams)) /\ Len(chain.upstreams) \in Nat
    BY ChainTyped
  <1>3. /\ c \in Nat \ {0}
        /\ InOrder(left) \in [1..c -> left]
        /\ \A j, k \in 1..c : j < k => InOrder(left)[j] < InOrder(left)[k]
    BY <1>1, <1>2, Ordered
  <1> HIDE DEF c
  <1>4. ASSUME NEW k \in 1..c
        PROVE  /\ InOrder(left)[k] \in left
               /\ InOrder(left)[k] \in DOMAIN chain.upstreams
               /\ InOrder(left)[k] \in Int
               /\ list[k] = chain.upstreams[InOrder(left)[k]].id
               /\ list[k] \in Upstreams
    <2>1. InOrder(left)[k] \in left
      BY <1>3
    <2> QED
      BY <1>1, <2>1, ChainTyped
  <1>5. list \in Seq(Upstreams) /\ Len(list) = c /\ DOMAIN list = 1..c
    <2>1. list \in [1..c -> Upstreams]
      BY <1>1, <1>4
    <2> HIDE DEF list
    <2>2. c \in Nat
      BY <1>3
    <2> QED
      BY <2>1, <2>2, SeqOfFunction
  <1> HIDE DEF list
  <1>6. ASSUME NEW j \in 1..c, NEW k \in 1..c, list[j] = list[k] PROVE j = k
    <2>1. InOrder(left)[j] = InOrder(left)[k]
      BY <1>4, <1>6 DEF UniqueIDs
    <2>2. CASE j < k
      BY <1>3, <1>4, <2>1, <2>2
    <2>3. CASE k < j
      BY <1>3, <1>4, <2>1, <2>3
    <2> QED
      BY <1>3, <2>2, <2>3
  <1>7. IsInjective(list)
    BY <1>5, <1>6 DEF IsInjective
  <1>8. \A k \in DOMAIN list :
           \E i \in ok : PriorityAt(i) = p /\ list[k] = chain.upstreams[i].id
    BY <1>4, <1>5
  <1> QED
    BY <1>3, <1>5, <1>7, <1>8 DEF list

\* The list of the best priority is one of the best upstreams.
LEMMA BestList ==
    ASSUME chain \in ChainConfigs, UniqueIDs,
           NEW ok \in SUBSET DOMAIN chain.upstreams,
           NEW p \in BestPriority(FilterUpstreams(ok))
    PROVE  LET list == FilterUpstreams(ok)[p]
           IN  /\ list \in Seq(Upstreams)
               /\ Len(list) > 0
               /\ IsInjective(list)
               /\ \A k \in DOMAIN list :
                     \E i \in ok : Best(ok, i) /\ list[k] = chain.upstreams[i].id
  <1>1. p \in DOMAIN FilterUpstreams(ok)
    BY DEF BestPriority
  <1>2. ASSUME NEW j \in ok PROVE p <= PriorityAt(j)
    <2>1. PriorityAt(j) \in DOMAIN FilterUpstreams(ok)
      BY Filtered
    <2>2. Len(FilterUpstreams(ok)[PriorityAt(j)]) > 0
      BY <2>1, FilteredList
    <2>3. FilterUpstreams(ok)[PriorityAt(j)] # <<>>
      BY <2>2
    <2> QED
      BY <2>1, <2>3 DEF BestPriority
  <1>3. \A i \in ok : PriorityAt(i) = p => Best(ok, i)
    BY <1>2 DEF Best
  <1> QED
    BY <1>1, <1>3, FilteredList

\* A request is refused only if no upstream is ok.
LEMMA RefusedForNone ==
    ASSUME chain \in ChainConfigs, UniqueIDs,
           NEW ok \in SUBSET DOMAIN chain.upstreams,
           BestPriority(FilterUpstreams(ok)) = {}
    PROVE  ok = {}
  <1> SUFFICES ASSUME ok # {} PROVE FALSE
    OBVIOUS
  <1> DEFINE n == Len(chain.upstreams)
             f == [i \in 1..n |-> PriorityAt(i)]
  <1>1. n \in Nat /\ ok \in SUBSET (1..n)
    BY ChainTyped
  <1>2. f \in [1..n -> Int]
    BY GroupPriorityTyped DEF PriorityAt
  <1>3. HasLeastValue(n)
    BY <1>1, AllHaveLeastValue
  <1>4. PICK i \in ok : \A j \in ok : f[i] <= f[j]
    BY <1>1, <1>2, <1>3 DEF HasLeastValue
  <1>5. \A j \in ok : PriorityAt(i) <= PriorityAt(j)
    BY <1>1, <1>4
  <1>6. PriorityAt(i) \in DOMAIN FilterUpstreams(ok)
    BY Filtered
  <1>7. Len(FilterUpstreams(ok)[PriorityAt(i)]) > 0
    BY <1>6, FilteredList
  <1>8. FilterUpstreams(ok)[PriorityAt(i)] # <<>>
    BY <1>7
  <1>9. ASSUME NEW q \in DOMAIN FilterUpstreams(ok) PROVE PriorityAt(i) <= q
    <2>1. q \in {PriorityAt(j) : j \in ok}
      BY Filtered
    <2> QED
      BY <1>5, <2>1
  <1>10. PriorityAt(i) \in BestPriority(FilterUpstreams(ok))
    BY <1>6, <1>8, <1>9 DEF BestPriority
  <1> QED
    BY <1>10

-----------------------------------------------------------------------------
(* What a word of the counter picks from a list.                           *)

Words == 0..(WordValues - 1)

LEMMA Halves ==
    /\ WordValues \in Nat /\ Half \in Nat
    /\ WordValues = Half + Half
    /\ Half >= 2
  <1>1. /\ WordValues = (2 * (WordValues \div 2)) + (WordValues % 2)
        /\ WordValues \div 2 \in Nat
    BY RoundRobinConstants, Division
  <1> QED
    BY <1>1, RoundRobinConstants DEF Half

LEMMA LowWord ==
    ASSUME NEW list \in Seq(Upstreams), Len(list) > 0,
           NEW w \in Nat, w < Half
    PROVE  AtIndex(list, w) = list[(w % Len(list)) + 1]
  <1> DEFINE m == Len(list)
  <1>1. m \in Nat \ {0}
    OBVIOUS
  <1>2. w % m \in 0..(m - 1)
    BY <1>1, Division
  <1>3. Signed(w) = w
    BY DEF Signed
  <1>4. Rem(w, m) = w % m
    BY DEF Rem
  <1> HIDE DEF m
  <1>5. AtIndex(list, w) = LET i == w % m IN IF i < 0 \/ i >= m THEN Panic ELSE list[i + 1]
    BY <1>3, <1>4 DEF AtIndex, m
  <1> DEFINE x == w % m
  <1>6. x \in 0..(m - 1)
    BY <1>2
  <1>7. AtIndex(list, w) = IF x < 0 \/ x >= m THEN Panic ELSE list[x + 1]
    BY <1>5
  <1> HIDE DEF x
  <1>8. AtIndex(list, w) = list[x + 1]
    BY <1>1, <1>6, <1>7
  <1> QED
    BY <1>8 DEF x, m

LEMMA HighWord ==
    ASSUME NEW list \in Seq(Upstreams), Len(list) > 0,
           NEW w \in Words, ~(w < Half)
    PROVE  AtIndex(list, w) =
               IF (WordValues - w) % Len(list) = 0 THEN list[1] ELSE Panic
  <1> DEFINE m == Len(list)
             d == WordValues - w
             x == d % m
  <1>1. m \in Nat \ {0} /\ d \in Nat \ {0}
    BY Halves DEF Words
  <1>2. x \in 0..(m - 1)
    BY <1>1, Division
  <1>3. Signed(w) = -d /\ -(-d) = d /\ ~(-d >= 0)
    BY <1>1, Halves DEF Signed, Words
  <1> HIDE DEF d
  <1>4. Rem(-d, m) = -x
    BY <1>3 DEF Rem
  <1> HIDE DEF m, x
  <1>5. AtIndex(list, w) = IF -x < 0 \/ -x >= m THEN Panic ELSE list[(-x) + 1]
    BY <1>3, <1>4 DEF AtIndex, m
  <1>6. AtIndex(list, w) = IF x = 0 THEN list[1] ELSE Panic
    BY <1>1, <1>2, <1>5
  <1> QED
    BY <1>6 DEF x, m, d

\* A pick is a panic or an entry of the list.
LEMMA PickTyped ==
    ASSUME NEW list \in Seq(Upstreams), Len(list) > 0, NEW w \in Words
    PROVE  /\ AtIndex(list, w) = Panic \/ \E k \in DOMAIN list : AtIndex(list, w) = list[k]
           /\ AtIndex(list, w) \in Upstreams \cup {Panic}
           /\ AtIndex(list, w) \in Upstreams <=> AtIndex(list, w) # Panic
           /\ AtIndex(list, w) = Panic => w >= Half
  <1>1. Panic \notin Upstreams
    BY RoundRobinConstants
  <1>2. \A k \in DOMAIN list : list[k] \in Upstreams
    OBVIOUS
  <1>3. CASE w < Half
    <2>1. w \in Nat /\ Len(list) \in Nat \ {0}
      BY DEF Words
    <2>2. w % Len(list) \in 0..(Len(list) - 1)
      BY <2>1, Division
    <2> DEFINE k == (w % Len(list)) + 1
    <2>3. k \in DOMAIN list
      BY <2>1, <2>2
    <2>4. AtIndex(list, w) = list[k]
      BY <1>3, <2>1, LowWord
    <2> HIDE DEF k
    <2> QED
      BY <1>1, <1>2, <2>3, <2>4
  <1>4. CASE ~(w < Half)
    <2>1. AtIndex(list, w) = list[1] \/ AtIndex(list, w) = Panic
      BY <1>4, HighWord
    <2>2. 1 \in DOMAIN list
      OBVIOUS
    <2>3. w >= Half
      BY <1>4, Halves DEF Words
    <2> QED
      BY <1>1, <1>2, <2>1, <2>2, <2>3
  <1> QED
    BY <1>3, <1>4

\* Of two words in a row from half of them on, one panics.
LEMMA NextPanics ==
    ASSUME NEW list \in Seq(Upstreams), Len(list) > 1,
           NEW w \in Words, w > Half,
           AtIndex(list, w - 1) # Panic
    PROVE  AtIndex(list, w) = Panic
  <1> DEFINE m == Len(list)
             d == WordValues - w
  <1>1. /\ m \in Nat \ {0} /\ d \in Nat /\ d < d + 1 /\ d + 1 < d + m
        /\ w - 1 \in Words /\ ~(w < Half) /\ ~(w - 1 < Half)
        /\ WordValues - (w - 1) = d + 1
    BY Halves DEF Words
  <1>2. (d + 1) % m = 0
    BY <1>1, HighWord
  <1>3. d % m # (d + 1) % m
    BY <1>1, DifferentRemainders
  <1> QED
    BY <1>1, <1>2, <1>3, HighWord

\* The last word panics, unless there is one upstream only.
LEMMA LastPanics ==
    ASSUME NEW list \in Seq(Upstreams), Len(list) > 1
    PROVE  AtIndex(list, WordValues - 1) = Panic
  <1> DEFINE m == Len(list)
             w == WordValues - 1
  <1>1. /\ m \in Nat \ {0} /\ w \in Words /\ ~(w < Half)
        /\ WordValues - w = 1 /\ 0 < 1 /\ 1 < 0 + m
    BY Halves DEF Words
  <1>2. 0 % m # 1 % m
    BY <1>1, DifferentRemainders
  <1>3. 0 % m = 0
    BY <1>1
  <1>4. (WordValues - w) % m # 0
    BY <1>1, <1>2, <1>3
  <1> QED
    BY <1>1, <1>4, HighWord

\* The word that is half of them is negative, but picks what its remainder
\* says, or panics.
LEMMA HalfWord ==
    ASSUME NEW list \in Seq(Upstreams), Len(list) > 0,
           AtIndex(list, Half) # Panic
    PROVE  AtIndex(list, Half) = list[(Half % Len(list)) + 1]
  <1>1. Half \in Words /\ WordValues - Half = Half /\ ~(Half < Half)
    BY Halves DEF Words
  <1>2. Half % Len(list) = 0 /\ AtIndex(list, Half) = list[1]
    BY <1>1, HighWord
  <1> QED
    BY <1>2

\* Words in a row that do not panic pick different upstreams, as long as
\* there are no more of them than upstreams.
LEMMA DifferentPicks ==
    ASSUME NEW list \in Seq(Upstreams), Len(list) > 0, IsInjective(list),
           NEW a \in Words, NEW b \in Words, a < b, b < a + Len(list),
           \A w \in a..b : AtIndex(list, w) # Panic
    PROVE  AtIndex(list, a) # AtIndex(list, b)
  <1> DEFINE m == Len(list)
  <1>1. m \in Nat \ {0} /\ m > 1 /\ a \in Nat /\ b \in Nat /\ DOMAIN list = 1..m
    BY DEF Words
  <1>2. b <= Half
    <2> SUFFICES ASSUME b > Half PROVE FALSE
      BY <1>1, Halves
    <2>1. AtIndex(list, b - 1) # Panic /\ AtIndex(list, b) # Panic
      BY <1>1
    <2> QED
      BY <1>1, <2>1, NextPanics
  <1>3. AtIndex(list, a) = list[(a % m) + 1]
    BY <1>1, <1>2, Halves, LowWord
  <1>4. AtIndex(list, b) = list[(b % m) + 1]
    <2>1. CASE b < Half
      BY <1>1, <2>1, LowWord
    <2>2. CASE b = Half
      <3>1. AtIndex(list, Half) # Panic
        BY <1>1, <2>2
      <3> QED
        BY <2>2, <3>1, HalfWord
    <2> QED
      BY <1>1, <1>2, <2>1, <2>2, Halves
  <1> DEFINE ra == a % m
             rb == b % m
  <1>5. ra \in 0..(m - 1) /\ rb \in 0..(m - 1)
    BY <1>1, Division
  <1>6. ra # rb
    BY <1>1, DifferentRemainders
  <1>7. AtIndex(list, a) = list[ra + 1] /\ AtIndex(list, b) = list[rb + 1]
    BY <1>3, <1>4
  <1> HIDE DEF m, ra, rb
  <1>8. ra + 1 \in DOMAIN list /\ rb + 1 \in DOMAIN list /\ ra + 1 # rb + 1
    BY <1>1, <1>5, <1>6
  <1> QED
    BY <1>7, <1>8 DEF IsInjective

-----------------------------------------------------------------------------
(***************************************************************************)
(* The invariant.                                                          *)
(***************************************************************************)

\* A request has chosen a list: the upstreams of the best priority of those
\* it may use, each once.
ListOK(r) ==
    pc[r] # "idle" =>
        /\ Len(upstreams[r]) > 0
        /\ IsInjective(upstreams[r])
        /\ \A k \in DOMAIN upstreams[r] :
              \E i \in healthy[r] :
                  Best(healthy[r], i) /\ upstreams[r][k] = chain.upstreams[i].id

\* What an idle request was told.
RoutedOK(r) ==
    pc[r] = "idle" =>
        /\ result[r] \in Upstreams =>
              \E i \in healthy[r] :
                  Best(healthy[r], i) /\ result[r] = chain.upstreams[i].id
        /\ result[r] = NoUpstream => healthy[r] = {}

\* The counter lags behind the requests served by those that are yet to add.
Adders == {r \in Requests : pc[r] = "add"}

Counted ==
    /\ IsFiniteSet(Adders)
    /\ counter + Cardinality(Adders) <= served

NoneIndexes == \A r \in Requests : pc[r] # "index"
OnlyIndexes(r) == pc[r] = "index" /\ \A q \in Requests \ {r} : pc[q] # "index"

\* The recent picks are those of as many words in a row, the last of them c.
PicksOf(list, picks, c) ==
    LET n == Len(picks) IN
    /\ c \in Words
    /\ n <= c + 1
    /\ \A k \in 1..n : picks[k] = AtIndex(list, c - (n - k))

\* The word c was the counter's when it was last read, and a request that
\* reads it next, with no other that has added, finds the word after it.
TurnsOK ==
    recent.picks # <<>> =>
        /\ IsInjective(recent.list)
        /\ Len(recent.picks) <= Len(recent.list)
        /\ \E c \in Words :
              /\ PicksOf(recent.list, recent.picks, c)
              /\ NoneIndexes => counter = c
              /\ \A r \in Requests :
                    OnlyIndexes(r) => counter = (c + 1) % WordValues

IInv ==
    /\ TypeOK
    /\ UniqueIDs
    /\ \A r \in Requests : ListOK(r) /\ RoutedOK(r)
    /\ Counted
    /\ NoPanicBeforeOverflow
    /\ TurnsOK

-----------------------------------------------------------------------------
(* What the invariant says of the recent picks is that they differ.        *)

LEMMA RecentTyped ==
    ASSUME TypeOK
    PROVE  /\ recent.list \in Seq(Upstreams) /\ recent.picks \in Seq(Upstreams)
           /\ Len(recent.list) \in Nat /\ Len(recent.picks) \in Nat
           /\ DOMAIN recent.list = 1..Len(recent.list)
           /\ DOMAIN recent.picks = 1..Len(recent.picks)
           /\ \A k \in DOMAIN recent.picks :
                 recent.picks[k] \in Upstreams /\ recent.picks[k] # Panic
  <1>1. recent.list \in Seq(Upstreams) /\ recent.picks \in Seq(Upstreams)
    BY DEF TypeOK, RoundRobinTypeOK
  <1>2. \A k \in DOMAIN recent.picks : recent.picks[k] \in Upstreams
    BY <1>1
  <1> QED
    BY <1>1, <1>2, LenProperties, RoundRobinConstants

LEMMA PicksDiffer ==
    ASSUME TypeOK, TurnsOK
    PROVE  SerialRequestsTakeTurns
  <1> DEFINE list == recent.list
             picks == recent.picks
             m == Len(list)
             n == Len(picks)
  <1>1. CASE picks = <<>>
    BY <1>1 DEF SerialRequestsTakeTurns, IsInjective
  <1>2. CASE picks # <<>>
    <2>1. PICK c \in Words : PicksOf(list, picks, c)
      BY <1>2 DEF TurnsOK
    <2>2. /\ list \in Seq(Upstreams) /\ m \in Nat /\ n \in Nat /\ n <= m
          /\ IsInjective(list)
          /\ DOMAIN picks = 1..n
          /\ \A k \in 1..n : picks[k] # Panic
      BY <1>2, RecentTyped DEF TurnsOK
    <2>3. /\ c \in Nat /\ c < WordValues /\ n <= c + 1
          /\ \A k \in 1..n : picks[k] = AtIndex(list, c - (n - k))
      <3>1. c \in Nat /\ c < WordValues
        BY Halves DEF Words
      <3>2. n <= c + 1 /\ \A k \in 1..n : picks[k] = AtIndex(list, c - (n - k))
        BY <2>1 DEF PicksOf
      <3> QED
        BY <3>1, <3>2
    <2> HIDE DEF list, picks, m, n
    <2>4. ASSUME NEW j \in 1..n, NEW k \in 1..n, j < k
          PROVE  picks[j] # picks[k]
      <3> DEFINE a == c - (n - j)
                 b == c - (n - k)
      <3>1. a \in Words /\ b \in Words /\ a < b /\ b < a + m /\ m > 0
        BY <2>2, <2>3, <2>4, Halves DEF Words
      <3>2. ASSUME NEW w \in a..b PROVE AtIndex(list, w) # Panic
        <4> DEFINE i == w - c + n
        <4>1. i \in 1..n /\ c - (n - i) = w
          BY <2>2, <2>3, <2>4
        <4> HIDE DEF i
        <4> QED
          BY <2>2, <2>3, <4>1
      <3>3. AtIndex(list, a) # AtIndex(list, b)
        BY <2>2, <3>1, <3>2, DifferentPicks DEF m
      <3> QED
        BY <2>3, <3>3
    <2>5. ASSUME NEW j \in 1..n, NEW k \in 1..n, picks[j] = picks[k] PROVE j = k
      <3>1. j \in Nat /\ k \in Nat
        BY <2>2
      <3> QED
        BY <2>4, <2>5, <3>1
    <2> QED
      BY <2>2, <2>5 DEF SerialRequestsTakeTurns, IsInjective, picks
  <1> QED
    BY <1>1, <1>2

-----------------------------------------------------------------------------
(* The invariant holds at first, and implies the properties.               *)

LEMMA InitOK == Init => IInv
  <1> SUFFICES ASSUME Init PROVE IInv
    OBVIOUS
  <1> USE DEF Init, RoundRobinInit
  <1>1. TypeOK
    <2>1. NothingRecent \in [list : Seq(Upstreams), picks : Seq(Upstreams)]
      BY DEF NothingRecent
    <2>2. 0 \in Words /\ 0 \in 0..MaxRequests
      BY Halves, RoundRobinConstants DEF Words
    <2>3. upstreams \in [Requests -> Seq(Upstreams)]
      OBVIOUS
    <2> QED
      BY <2>1, <2>2, <2>3 DEF TypeOK, RoundRobinTypeOK, Words
  <1>2. UniqueIDs
    BY DEF UniqueIDs, IsValid, IsUpstreamsValid, Unique, ID
  <1>3. \A r \in Requests : ListOK(r) /\ RoutedOK(r)
    BY RoundRobinConstants DEF ListOK, RoutedOK
  <1>4. Counted
    <2>1. Adders = {}
      BY DEF Adders
    <2> QED
      BY <2>1, FS_EmptySet DEF Counted
  <1>5. NoPanicBeforeOverflow
    BY RoundRobinConstants DEF NoPanicBeforeOverflow
  <1>6. TurnsOK
    BY DEF TurnsOK, NothingRecent
  <1> QED
    BY <1>1, <1>2, <1>3, <1>4, <1>5, <1>6 DEF IInv

LEMMA RoutedToBest ==
    ASSUME IInv PROVE FallbackOnlyWhenNeeded
  <1> SUFFICES ASSUME NEW r \in Requests, pc[r] = "idle"
               PROVE  /\ result[r] \in Upstreams =>
                            Best(healthy[r], ConfigToRoute(result[r]))
                      /\ result[r] = NoUpstream => healthy[r] = {}
    BY DEF FallbackOnlyWhenNeeded, Best, PriorityAt
  <1>1. RoutedOK(r) /\ UniqueIDs /\ chain \in ChainConfigs
        /\ healthy[r] \subseteq DOMAIN chain.upstreams
    BY DEF IInv, TypeOK
  <1>2. ASSUME result[r] \in Upstreams
        PROVE  Best(healthy[r], ConfigToRoute(result[r]))
    <2>1. PICK i \in healthy[r] :
              Best(healthy[r], i) /\ result[r] = chain.upstreams[i].id
      BY <1>1, <1>2 DEF RoutedOK
    <2>2. ConfigToRoute(result[r]) = i
      BY <1>1, <2>1, ConfigOfID
    <2> QED
      BY <2>1, <2>2
  <1> QED
    BY <1>1, <1>2 DEF RoutedOK

-----------------------------------------------------------------------------
(* The steps.  A request that a step leaves alone stays as it is.          *)

LEMMA RequestKept ==
    ASSUME chain' = chain, NEW r \in Requests,
           pc'[r] = pc[r], upstreams'[r] = upstreams[r],
           healthy'[r] = healthy[r], result'[r] = result[r],
           ListOK(r), RoutedOK(r)
    PROVE  ListOK(r)' /\ RoutedOK(r)'
  <1>1. \A i : PriorityAt(i)' = PriorityAt(i)
    BY DEF PriorityAt, GroupPriority, SelectInSeq
  <1>2. ListOK(r)'
    BY <1>1 DEF ListOK, Best
  <1>3. RoutedOK(r)'
    BY <1>1 DEF RoutedOK, Best
  <1> QED
    BY <1>2, <1>3

\* Filter leaves the counter and the recent picks alone.
LEMMA FilterOK ==
    ASSUME IInv, NEW r \in Requests, Filter(r)
    PROVE  IInv'
  <1>1. PICK ok \in SUBSET DOMAIN chain.upstreams :
            /\ RouteNextRequest(r, FilterUpstreams(ok))
            /\ healthy' = [healthy EXCEPT ![r] = ok]
            /\ chain' = chain
    BY DEF Filter
  <1>2. /\ pc[r] = "idle"
        /\ served < MaxRequests /\ served' = served + 1
        /\ counter' = counter /\ recent' = recent
    BY <1>1 DEF RouteNextRequest
  <1>3. /\ TypeOK /\ RoundRobinTypeOK /\ UniqueIDs /\ chain \in ChainConfigs
        /\ Counted /\ NoPanicBeforeOverflow /\ TurnsOK
        /\ \A s \in Requests : ListOK(s) /\ RoutedOK(s)
    BY DEF IInv, TypeOK
  <1>4. healthy'[r] = ok /\ \A s \in Requests \ {r} : healthy'[s] = healthy[s]
    BY <1>1, <1>3 DEF TypeOK
  <1>5. \A i : PriorityAt(i)' = PriorityAt(i)
    BY <1>1 DEF PriorityAt, GroupPriority, SelectInSeq
  <1>6. \/ /\ BestPriority(FilterUpstreams(ok)) = {}
           /\ result' = [result EXCEPT ![r] = NoUpstream]
           /\ pc' = pc /\ upstreams' = upstreams
        \/ \E p \in BestPriority(FilterUpstreams(ok)) :
              /\ upstreams' = [upstreams EXCEPT ![r] = FilterUpstreams(ok)[p]]
              /\ pc' = [pc EXCEPT ![r] = "add"]
              /\ result' = result
    BY <1>1 DEF RouteNextRequest
  <1>7. /\ pc' \in [Requests -> {"idle", "add", "index"}]
        /\ upstreams' \in [Requests -> Seq(Upstreams)]
        /\ result' \in [Requests -> Upstreams \cup {NoUpstream, Panic}]
        /\ \A s \in Requests \ {r} :
              /\ pc'[s] = pc[s] /\ upstreams'[s] = upstreams[s]
              /\ result'[s] = result[s]
        /\ \/ pc' = pc /\ result'[r] = NoUpstream /\ ok = {}
           \/ /\ pc' = [pc EXCEPT ![r] = "add"] /\ result'[r] = result[r]
              /\ Len(upstreams'[r]) > 0 /\ IsInjective(upstreams'[r])
              /\ \A k \in DOMAIN upstreams'[r] :
                    \E i \in ok : Best(ok, i) /\ upstreams'[r][k] = chain.upstreams[i].id
    <2>1. /\ pc \in [Requests -> {"idle", "add", "index"}]
          /\ upstreams \in [Requests -> Seq(Upstreams)]
          /\ result \in [Requests -> Upstreams \cup {NoUpstream, Panic}]
      BY <1>3 DEF RoundRobinTypeOK
    <2>2. CASE /\ BestPriority(FilterUpstreams(ok)) = {}
               /\ result' = [result EXCEPT ![r] = NoUpstream]
               /\ pc' = pc /\ upstreams' = upstreams
      <3>1. ok = {}
        BY <1>3, <2>2, RefusedForNone
      <3> QED
        BY <2>1, <2>2, <3>1
    <2>3. CASE \E p \in BestPriority(FilterUpstreams(ok)) :
                  /\ upstreams' = [upstreams EXCEPT ![r] = FilterUpstreams(ok)[p]]
                  /\ pc' = [pc EXCEPT ![r] = "add"]
                  /\ result' = result
      <3>0. PICK p \in BestPriority(FilterUpstreams(ok)) :
                /\ upstreams' = [upstreams EXCEPT ![r] = FilterUpstreams(ok)[p]]
                /\ pc' = [pc EXCEPT ![r] = "add"]
                /\ result' = result
        BY <2>3
      <3> DEFINE list == FilterUpstreams(ok)[p]
      <3>1. /\ list \in Seq(Upstreams) /\ Len(list) > 0 /\ IsInjective(list)
            /\ \A k \in DOMAIN list :
                  \E i \in ok : Best(ok, i) /\ list[k] = chain.upstreams[i].id
        BY <1>3, BestList
      <3> HIDE DEF list
      <3>2. upstreams' = [upstreams EXCEPT ![r] = list]
        BY <3>0 DEF list
      <3>3. upstreams'[r] = list
        BY <2>1, <3>2
      <3>4. /\ upstreams' \in [Requests -> Seq(Upstreams)]
            /\ \A s \in Requests \ {r} : upstreams'[s] = upstreams[s]
        BY <2>1, <3>1, <3>2
      <3>5. /\ pc' \in [Requests -> {"idle", "add", "index"}]
            /\ \A s \in Requests \ {r} : pc'[s] = pc[s]
        BY <2>1, <3>0
      <3>6. /\ Len(upstreams'[r]) > 0 /\ IsInjective(upstreams'[r])
            /\ \A k \in DOMAIN upstreams'[r] :
                  \E i \in ok : Best(ok, i) /\ upstreams'[r][k] = chain.upstreams[i].id
        BY <3>1, <3>3
      <3> QED
        BY <2>1, <3>0, <3>4, <3>5, <3>6
    <2> QED
      BY <1>6, <2>2, <2>3
  <1>8. TypeOK'
    <2>1. healthy' \in [Requests -> SUBSET DOMAIN chain.upstreams]
      BY <1>1, <1>3 DEF TypeOK
    <2>2. served' \in 0..MaxRequests
      BY <1>2, <1>3, RoundRobinConstants DEF RoundRobinTypeOK
    <2> QED
      BY <1>1, <1>2, <1>3, <1>7, <2>1, <2>2 DEF TypeOK, RoundRobinTypeOK
  <1>9. UniqueIDs'
    BY <1>1, <1>3 DEF UniqueIDs
  <1>10. ASSUME NEW s \in Requests PROVE ListOK(s)' /\ RoutedOK(s)'
    <2>1. CASE s # r
      BY <1>1, <1>3, <1>4, <1>7, <2>1, RequestKept
    <2>2. CASE s = r
      <3>1. CASE pc' = pc /\ result'[r] = NoUpstream /\ ok = {}
        <4>1. NoUpstream \notin Upstreams
          BY RoundRobinConstants
        <4> QED
          BY <1>2, <1>4, <2>2, <3>1, <4>1 DEF ListOK, RoutedOK
      <3>2. CASE /\ pc' = [pc EXCEPT ![r] = "add"]
                 /\ Len(upstreams'[r]) > 0 /\ IsInjective(upstreams'[r])
                 /\ \A k \in DOMAIN upstreams'[r] :
                       \E i \in ok : Best(ok, i) /\ upstreams'[r][k] = chain.upstreams[i].id
        <4>1. pc'[r] = "add"
          BY <1>3, <3>2 DEF RoundRobinTypeOK
        <4>2. RoutedOK(r)'
          BY <4>1 DEF RoutedOK
        <4>3. ListOK(r)'
          BY <1>1, <1>4, <1>5, <3>2 DEF ListOK, Best
        <4> QED
          BY <2>2, <4>2, <4>3
      <3> QED
        BY <1>7, <3>1, <3>2
    <2> QED
      BY <2>1, <2>2
  <1>11. Counted'
    <2>1. IsFiniteSet(Adders) /\ Cardinality(Adders) \in Nat /\ counter \in Nat /\ served \in Nat
          /\ counter + Cardinality(Adders) <= served
      BY <1>3, FS_CardinalityType, Halves, RoundRobinConstants DEF Counted, RoundRobinTypeOK
    <2>2. CASE pc' = pc
      <3>1. Adders' = Adders
        BY <2>2 DEF Adders
      <3> QED
        BY <1>2, <2>1, <3>1 DEF Counted
    <2>3. CASE pc' = [pc EXCEPT ![r] = "add"]
      <3>1. Adders' = Adders \cup {r} /\ r \notin Adders
        BY <1>2, <1>3, <2>3 DEF Adders, RoundRobinTypeOK
      <3>2. IsFiniteSet(Adders') /\ Cardinality(Adders') = Cardinality(Adders) + 1
        BY <2>1, <3>1, FS_AddElement
      <3> QED
        BY <1>2, <2>1, <3>2 DEF Counted
    <2> QED
      BY <1>7, <2>2, <2>3
  <1>12. NoPanicBeforeOverflow'
    <2>1. \A s \in Requests : result'[s] = Panic => result[s] = Panic
      BY <1>7, RoundRobinConstants
    <2>2. served \in Nat
      BY <1>3, RoundRobinConstants DEF RoundRobinTypeOK
    <2> QED
      BY <1>2, <1>3, <2>1, <2>2, Halves DEF NoPanicBeforeOverflow
  <1>13. TurnsOK'
    <2>1. \A s \in Requests : pc'[s] = "index" <=> pc[s] = "index"
      BY <1>2, <1>3, <1>7 DEF RoundRobinTypeOK
    <2>2. NoneIndexes' <=> NoneIndexes
      BY <2>1 DEF NoneIndexes
    <2>3. \A s \in Requests : OnlyIndexes(s)' <=> OnlyIndexes(s)
      BY <2>1 DEF OnlyIndexes
    <2> QED
      BY <1>2, <1>3, <2>2, <2>3 DEF TurnsOK, PicksOf
  <1> QED
    BY <1>8, <1>9, <1>10, <1>11, <1>12, <1>13 DEF IInv

\* The add makes the counter the next word.
LEMMA CountOK ==
    ASSUME IInv, NEW r \in Requests, Count(r)
    PROVE  IInv'
  <1>1. /\ pc[r] = "add" /\ pc' = [pc EXCEPT ![r] = "index"]
        /\ counter' = (counter + 1) % WordValues
        /\ UNCHANGED <<upstreams, result, served, recent, chain, healthy>>
    BY DEF Count, AddUint64
  <1>2. /\ TypeOK /\ RoundRobinTypeOK /\ UniqueIDs /\ chain \in ChainConfigs
        /\ Counted /\ NoPanicBeforeOverflow /\ TurnsOK
        /\ \A s \in Requests : ListOK(s) /\ RoutedOK(s)
    BY DEF IInv, TypeOK
  <1>3. /\ pc' \in [Requests -> {"idle", "add", "index"}]
        /\ pc'[r] = "index" /\ \A s \in Requests \ {r} : pc'[s] = pc[s]
    BY <1>1, <1>2 DEF RoundRobinTypeOK
  <1>4. /\ counter \in Nat /\ WordValues \in Nat \ {0}
        /\ counter' \in Words /\ counter' \in Nat /\ counter' <= counter + 1
    <2>1. counter \in Nat /\ counter < WordValues /\ WordValues \in Nat \ {0}
      BY <1>2, Halves DEF RoundRobinTypeOK
    <2>2. (counter + 1) % WordValues \in 0..(WordValues - 1)
      BY <2>1, Division
    <2> QED
      BY <1>1, <2>1, <2>2 DEF Words
  <1>5. TypeOK'
    BY <1>1, <1>2, <1>3, <1>4 DEF TypeOK, RoundRobinTypeOK, Words
  <1>6. UniqueIDs'
    BY <1>1, <1>2 DEF UniqueIDs
  <1>7. ASSUME NEW s \in Requests PROVE ListOK(s)' /\ RoutedOK(s)'
    <2>1. CASE s # r
      BY <1>1, <1>2, <1>3, <2>1, RequestKept
    <2>2. CASE s = r
      <3>1. \A i : PriorityAt(i)' = PriorityAt(i)
        BY <1>1 DEF PriorityAt, GroupPriority, SelectInSeq
      <3>2. RoutedOK(r)'
        BY <1>3 DEF RoutedOK
      <3>3. ListOK(r)'
        BY <1>1, <1>2, <3>1 DEF ListOK, Best
      <3> QED
        BY <2>2, <3>2, <3>3
    <2> QED
      BY <2>1, <2>2
  <1>8. Counted'
    <2>1. /\ IsFiniteSet(Adders) /\ Cardinality(Adders) \in Nat /\ served \in Nat
          /\ counter + Cardinality(Adders) <= served
      BY <1>2, FS_CardinalityType, RoundRobinConstants DEF Counted, RoundRobinTypeOK
    <2>2. Adders' = Adders \ {r} /\ r \in Adders
      BY <1>1, <1>3 DEF Adders
    <2>3. IsFiniteSet(Adders') /\ Cardinality(Adders') = Cardinality(Adders) - 1
      BY <2>1, <2>2, FS_RemoveElement
    <2> QED
      BY <1>1, <1>4, <2>1, <2>3 DEF Counted
  <1>9. NoPanicBeforeOverflow'
    BY <1>1, <1>2 DEF NoPanicBeforeOverflow, Half
  <1>10. TurnsOK'
    <2> SUFFICES ASSUME recent.picks # <<>>
                 PROVE  /\ IsInjective(recent.list)
                        /\ Len(recent.picks) <= Len(recent.list)
                        /\ \E c \in Words :
                              /\ PicksOf(recent.list, recent.picks, c)
                              /\ NoneIndexes' => counter' = c
                              /\ \A s \in Requests :
                                    OnlyIndexes(s)' => counter' = (c + 1) % WordValues
      BY <1>1 DEF TurnsOK, PicksOf
    <2>1. PICK c \in Words :
              /\ PicksOf(recent.list, recent.picks, c)
              /\ NoneIndexes => counter = c
      BY <1>2 DEF TurnsOK
    <2>2. ~NoneIndexes'
      BY <1>3 DEF NoneIndexes
    <2>3. ASSUME NEW s \in Requests, OnlyIndexes(s)'
          PROVE  counter' = (c + 1) % WordValues
      <3>1. s = r
        BY <1>3, <2>3 DEF OnlyIndexes
      <3>2. NoneIndexes
        BY <1>1, <1>3, <2>3, <3>1 DEF NoneIndexes, OnlyIndexes
      <3> QED
        BY <1>1, <2>1, <3>2
    <2> QED
      BY <1>2, <2>1, <2>2, <2>3 DEF TurnsOK
  <1> QED
    BY <1>5, <1>6, <1>7, <1>8, <1>9, <1>10 DEF IInv

-----------------------------------------------------------------------------
(* A pick continues the series, or starts one.                             *)

\* After words in a row comes another, unless only one is kept.
LEMMA NextWord ==
    ASSUME NEW list \in Seq(Upstreams), Len(list) > 0, NEW c \in Words,
           AtIndex(list, c) # Panic
    PROVE  \/ Len(list) = 1
           \/ c + 1 \in Words /\ (c + 1) % WordValues = c + 1
  <1>0. Len(list) \in Nat
    BY LenProperties
  <1> SUFFICES ASSUME Len(list) # 1
               PROVE  c + 1 \in Words /\ (c + 1) % WordValues = c + 1
    OBVIOUS
  <1>1. c # WordValues - 1
    <2>1. Len(list) > 1
      BY <1>0
    <2>2. AtIndex(list, WordValues - 1) = Panic
      BY <2>1, LastPanics
    <2> QED
      BY <2>2
  <1>2. c + 1 \in 0..(WordValues - 1)
    BY <1>1, Halves DEF Words
  <1>3. (c + 1) % WordValues = c + 1
    BY <1>2, Halves
  <1> QED
    BY <1>2, <1>3 DEF Words

\* A pick of the next word extends the picks, the first of which is dropped
\* when they have gone through the list.
LEMMA Extended ==
    ASSUME NEW list \in Seq(Upstreams), Len(list) > 0,
           NEW picks \in Seq(Upstreams), picks # <<>>, Len(picks) <= Len(list),
           NEW c \in Words, PicksOf(list, picks, c),
           NEW d \in Words, d = (c + 1) % WordValues,
           AtIndex(list, d) # Panic
    PROVE  LET all == Append(picks, AtIndex(list, d))
               n   == Min({Len(all), Len(list)})
               new == SubSeq(all, 1 + Len(all) - n, Len(all))
           IN  new \in Seq(Upstreams) /\ Len(new) <= Len(list) /\ PicksOf(list, new, d)
  <1> DEFINE pick == AtIndex(list, d)
             all == Append(picks, pick)
             k == Len(picks)
             m == Len(list)
             n == Min({Len(all), m})
             new == SubSeq(all, 1 + Len(all) - n, Len(all))
  <1>1. pick \in Upstreams
    BY PickTyped
  <1> HIDE DEF pick
  <1>2. /\ k \in Nat \ {0} /\ m \in Nat \ {0} /\ k <= m
        /\ all \in Seq(Upstreams) /\ Len(all) = k + 1
        /\ all[k + 1] = pick
        /\ \A i \in 1..k : all[i] = picks[i] /\ picks[i] \in Upstreams
    BY <1>1
  <1> HIDE DEF all, m
  <1>3. n = IF k < m THEN k + 1 ELSE m
    <2>1. n = CHOOSE x \in {k + 1, m} : \A y \in {k + 1, m} : x <= y
      BY <1>2 DEF Min
    <2>2. CASE k < m
      <3>1. \A x \in {k + 1, m} : (\A y \in {k + 1, m} : x <= y) <=> x = k + 1
        BY <1>2, <2>2
      <3> QED
        BY <2>1, <2>2, <3>1
    <2>3. CASE ~(k < m)
      <3>1. \A x \in {k + 1, m} : (\A y \in {k + 1, m} : x <= y) <=> x = m
        BY <1>2, <2>3
      <3> QED
        BY <2>1, <2>3, <3>1
    <2> QED
      BY <2>2, <2>3
  <1>4. n \in 1..(k + 1) /\ n <= m
    BY <1>2, <1>3
  <1> HIDE DEF n
  <1>5. /\ new \in Seq(Upstreams) /\ Len(new) = n
        /\ \A i \in 1..n : new[i] = all[k + 1 - n + i]
    BY <1>2, <1>4
  <1> HIDE DEF new
  <1>6. /\ c \in Nat /\ d \in Nat /\ k <= c + 1
        /\ \A i \in 1..k : picks[i] = AtIndex(list, c - (k - i))
    BY Halves DEF PicksOf, Words
  <1>7. m = 1 \/ d = c + 1
    <2>1. c - (k - k) = c /\ k \in 1..k
      BY <1>2, <1>6
    <2>2. AtIndex(list, c) \in Upstreams
      BY <1>2, <1>6, <2>1
    <2>3. AtIndex(list, c) # Panic
      BY <2>2, RoundRobinConstants
    <2> QED
      BY <2>3, NextWord DEF m
  <1>8. n <= d + 1
    BY <1>2, <1>4, <1>6, <1>7
  <1>9. ASSUME NEW i \in 1..n PROVE new[i] = AtIndex(list, d - (n - i))
    <2>1. CASE i = n
      <3>1. new[i] = all[k + 1] /\ d - (n - i) = d
        BY <1>2, <1>4, <1>5, <1>6, <2>1
      <3> QED
        BY <1>2, <3>1 DEF pick
    <2>2. CASE i # n
      <3> DEFINE j == k + 1 - n + i
      <3>0. /\ k \in Nat /\ m \in Nat /\ c \in Nat /\ n \in Nat /\ i \in Nat
            /\ n <= k + 1 /\ n <= m /\ 1 <= i /\ i < n
        BY <1>2, <1>4, <1>6, <2>2
      <3>1. j \in 1..k /\ m # 1 /\ c - (k - j) = d - (n - i)
        <4>1. m # 1 /\ d = c + 1
          BY <1>7, <3>0
        <4>2. j \in 1..k
          BY <3>0
        <4> QED
          BY <3>0, <4>1, <4>2
      <3>2. new[i] = all[j]
        BY <1>5
      <3> HIDE DEF j
      <3>3. new[i] = AtIndex(list, c - (k - j))
        BY <1>2, <1>6, <3>1, <3>2
      <3> QED
        BY <3>1, <3>3
    <2> QED
      BY <2>1, <2>2
  <1>10. PicksOf(list, new, d)
    BY <1>5, <1>8, <1>9 DEF PicksOf
  <1>11. new \in Seq(Upstreams) /\ Len(new) <= m /\ PicksOf(list, new, d)
    BY <1>4, <1>5, <1>10
  <1> QED
    BY <1>11 DEF new, n, m, all, pick

\* A series starts with one pick.
LEMMA Started ==
    ASSUME NEW list \in Seq(Upstreams), Len(list) > 0,
           NEW d \in Words, AtIndex(list, d) # Panic
    PROVE  LET all == Append(<<>>, AtIndex(list, d))
               n   == Min({Len(all), Len(list)})
               new == SubSeq(all, 1 + Len(all) - n, Len(all))
           IN  new \in Seq(Upstreams) /\ Len(new) <= Len(list) /\ PicksOf(list, new, d)
  <1> DEFINE pick == AtIndex(list, d)
             all == Append(<<>>, pick)
             m == Len(list)
             n == Min({Len(all), m})
             new == SubSeq(all, 1 + Len(all) - n, Len(all))
  <1>1. pick \in Upstreams
    BY PickTyped
  <1> HIDE DEF pick
  <1>2. all \in Seq(Upstreams) /\ Len(all) = 1 /\ all[1] = pick /\ m \in Nat \ {0}
    BY <1>1
  <1> HIDE DEF all, m
  <1>3. n = 1
    <2>1. n = CHOOSE x \in {1, m} : \A y \in {1, m} : x <= y
      BY <1>2 DEF Min
    <2>2. \A x \in {1, m} : (\A y \in {1, m} : x <= y) <=> x = 1
      BY <1>2
    <2> QED
      BY <2>1, <2>2
  <1> HIDE DEF n
  <1>4. new \in Seq(Upstreams) /\ Len(new) = 1 /\ new[1] = pick
    BY <1>2, <1>3
  <1> HIDE DEF new
  <1>5. d \in Nat /\ d - (1 - 1) = d /\ 1 <= d + 1
    BY Halves DEF Words
  <1>6. PicksOf(list, new, d)
    <2>1. \A i \in 1..1 : new[i] = AtIndex(list, d - (1 - i))
      BY <1>4, <1>5 DEF pick
    <2> QED
      BY <1>4, <1>5, <2>1 DEF PicksOf
  <1>7. new \in Seq(Upstreams) /\ Len(new) <= m /\ PicksOf(list, new, d)
    BY <1>2, <1>4, <1>6
  <1> QED
    BY <1>7 DEF new, n, m, all, pick

\* Route names an upstream of the list, or panics.
LEMMA RouteOK ==
    ASSUME IInv, NEW r \in Requests, Route(r)
    PROVE  IInv'
  <1>1. PICK pick : pick = AtIndex(upstreams[r], counter)
    OBVIOUS
  <1>2. /\ pc[r] = "index" /\ pc' = [pc EXCEPT ![r] = "idle"]
        /\ result' = [result EXCEPT ![r] = pick]
        /\ recent' = Continued(r, pick)
        /\ UNCHANGED <<counter, upstreams, served, chain, healthy>>
    BY <1>1 DEF Route, Index
  <1>3. /\ TypeOK /\ RoundRobinTypeOK /\ UniqueIDs /\ chain \in ChainConfigs
        /\ Counted /\ NoPanicBeforeOverflow /\ TurnsOK
        /\ \A s \in Requests : ListOK(s) /\ RoutedOK(s)
    BY DEF IInv, TypeOK
  <1>4. PICK list : list = upstreams[r]
    OBVIOUS
  <1>5. /\ list \in Seq(Upstreams) /\ Len(list) > 0 /\ IsInjective(list)
        /\ counter \in Words /\ pick = AtIndex(list, counter)
        /\ \A k \in DOMAIN list :
              \E i \in healthy[r] :
                  Best(healthy[r], i) /\ list[k] = chain.upstreams[i].id
    BY <1>1, <1>2, <1>3, <1>4 DEF RoundRobinTypeOK, ListOK, Words
  <1>6. /\ pick = Panic \/ \E k \in DOMAIN list : pick = list[k]
        /\ pick \in Upstreams \cup {Panic}
        /\ pick \in Upstreams <=> pick # Panic
        /\ pick = Panic => counter >= Half
    BY <1>5, PickTyped
  <1>7. /\ pc' \in [Requests -> {"idle", "add", "index"}]
        /\ result' \in [Requests -> Upstreams \cup {NoUpstream, Panic}]
        /\ pc'[r] = "idle" /\ result'[r] = pick
        /\ \A s \in Requests \ {r} : pc'[s] = pc[s] /\ result'[s] = result[s]
    BY <1>2, <1>3, <1>6 DEF RoundRobinTypeOK
  <1>8. UniqueIDs'
    BY <1>2, <1>3 DEF UniqueIDs
  <1>9. ASSUME NEW s \in Requests PROVE ListOK(s)' /\ RoutedOK(s)'
    <2>1. CASE s # r
      BY <1>2, <1>3, <1>7, <2>1, RequestKept
    <2>2. CASE s = r
      <3>1. \A i : PriorityAt(i)' = PriorityAt(i)
        BY <1>2 DEF PriorityAt, GroupPriority, SelectInSeq
      <3>2. ListOK(r)'
        BY <1>7 DEF ListOK
      <3>3. pick # NoUpstream
        BY <1>6, RoundRobinConstants
      <3>4. pick \in Upstreams =>
               \E i \in healthy[r] :
                   Best(healthy[r], i) /\ pick = chain.upstreams[i].id
        BY <1>5, <1>6
      <3>5. RoutedOK(r)'
        BY <1>2, <1>7, <3>1, <3>3, <3>4 DEF RoutedOK, Best
      <3> QED
        BY <2>2, <3>2, <3>5
    <2> QED
      BY <2>1, <2>2
  <1>10. Counted'
    <2>1. Adders' = Adders
      BY <1>2, <1>7 DEF Adders
    <2> QED
      BY <1>2, <1>3, <2>1 DEF Counted
  <1>11. NoPanicBeforeOverflow'
    <2>1. counter <= served
      <3>1. Cardinality(Adders) \in Nat /\ counter \in Nat /\ served \in Nat
        BY <1>3, FS_CardinalityType, Halves, RoundRobinConstants
           DEF Counted, RoundRobinTypeOK
      <3> QED
        BY <1>3, <3>1 DEF Counted
    <2>2. pick = Panic => served >= Half
      <3>1. counter \in Nat /\ served \in Nat
        BY <1>3, Halves, RoundRobinConstants DEF RoundRobinTypeOK
      <3> QED
        BY <1>6, <2>1, <3>1, Halves
    <2>3. \A s \in Requests : result'[s] = Panic => served >= Half
      BY <1>3, <1>7, <2>2 DEF NoPanicBeforeOverflow
    <2> QED
      BY <1>2, <2>3 DEF NoPanicBeforeOverflow, Half
  <1>12. recent' = NothingRecent
         \/ /\ pick # Panic
            /\ \A q \in Requests \ {r} : pc[q] = "idle"
            /\ recent'.list = list
            /\ recent'.picks \in Seq(Upstreams)
            /\ Len(recent'.picks) <= Len(list)
            /\ PicksOf(list, recent'.picks, counter)
            /\ recent' \in [list : Seq(Upstreams), picks : Seq(Upstreams)]
    <2> SUFFICES ASSUME pick # Panic, \A q \in Requests \ {r} : pc[q] = "idle"
                 PROVE  /\ recent'.list = list
                        /\ recent'.picks \in Seq(Upstreams)
                        /\ Len(recent'.picks) <= Len(list)
                        /\ PicksOf(list, recent'.picks, counter)
                        /\ recent' \in [list : Seq(Upstreams), picks : Seq(Upstreams)]
      BY <1>2 DEF Continued
    <2> DEFINE old == IF recent.list = list THEN recent.picks ELSE <<>>
               all == Append(old, pick)
               n   == Min({Len(all), Len(list)})
               new == SubSeq(all, 1 + Len(all) - n, Len(all))
    <2>1. recent' = [list |-> list,
                     picks |-> SubSeq(all, 1 + Len(all) - Min({Len(all), Len(list)}), Len(all))]
      BY <1>2, <1>4 DEF Continued
    <2>2. CASE old = <<>>
      <3>1. new \in Seq(Upstreams) /\ Len(new) <= Len(list) /\ PicksOf(list, new, counter)
        BY <1>5, <2>2, Started
      <3> HIDE DEF old
      <3>2. recent' = [list |-> list, picks |-> new]
        BY <2>1
      <3> HIDE DEF new
      <3> QED
        BY <1>5, <3>1, <3>2
    <2>3. CASE old # <<>>
      <3>1. /\ recent.list = list /\ old = recent.picks /\ old # <<>>
            /\ old \in Seq(Upstreams) /\ Len(old) <= Len(list)
        BY <1>3, <2>3, RecentTyped DEF TurnsOK
      <3>2. OnlyIndexes(r)
        BY <1>2 DEF OnlyIndexes
      <3>3. PICK c \in Words :
                PicksOf(list, old, c) /\ counter = (c + 1) % WordValues
        BY <1>3, <3>1, <3>2 DEF TurnsOK
      <3> HIDE DEF old
      <3>4. new \in Seq(Upstreams) /\ Len(new) <= Len(list) /\ PicksOf(list, new, counter)
        BY <1>5, <3>1, <3>3, Extended
      <3>5. recent' = [list |-> list, picks |-> new]
        BY <2>1
      <3> HIDE DEF new
      <3> QED
        BY <1>5, <3>4, <3>5
    <2> QED
      BY <2>2, <2>3
  <1>13. TypeOK'
    <2>1. recent' \in [list : Seq(Upstreams), picks : Seq(Upstreams)]
      <3>1. NothingRecent \in [list : Seq(Upstreams), picks : Seq(Upstreams)]
        BY DEF NothingRecent
      <3> QED
        BY <1>12, <3>1
    <2> QED
      BY <1>2, <1>3, <1>7, <2>1 DEF TypeOK, RoundRobinTypeOK
  <1>14. TurnsOK'
    <2>1. CASE recent' = NothingRecent
      BY <2>1 DEF TurnsOK, NothingRecent
    <2>2. CASE /\ pick # Panic
               /\ \A q \in Requests \ {r} : pc[q] = "idle"
               /\ recent'.list = list
               /\ recent'.picks \in Seq(Upstreams)
               /\ Len(recent'.picks) <= Len(list)
               /\ PicksOf(list, recent'.picks, counter)
      <3>1. \A s \in Requests : ~OnlyIndexes(s)'
        BY <1>7, <2>2 DEF OnlyIndexes
      <3>2. counter' = counter
        BY <1>2
      <3>3. /\ IsInjective(recent'.list)
            /\ Len(recent'.picks) <= Len(recent'.list)
            /\ PicksOf(recent'.list, recent'.picks, counter)
        BY <1>5, <2>2
      <3> QED
        BY <1>5, <3>1, <3>2, <3>3 DEF TurnsOK, PicksOf
    <2> QED
      BY <1>12, <2>1, <2>2
  <1> QED
    BY <1>8, <1>9, <1>10, <1>11, <1>13, <1>14 DEF IInv

-----------------------------------------------------------------------------
LEMMA StepOK == IInv /\ [Next]_vars => IInv'
  <1> SUFFICES ASSUME IInv, [Next]_vars PROVE IInv'
    OBVIOUS
  <1>1. CASE UNCHANGED vars
    <2>1. /\ \A i : PriorityAt(i)' = PriorityAt(i)
          /\ UNCHANGED <<chain, healthy, counter, pc, upstreams, result, served, recent>>
      BY <1>1 DEF vars, roundRobinVars, PriorityAt, GroupPriority, SelectInSeq
    <2>2. TypeOK' /\ UniqueIDs' /\ Counted' /\ NoPanicBeforeOverflow'
      BY <2>1 DEF IInv, TypeOK, RoundRobinTypeOK, UniqueIDs, Counted, Adders,
                  NoPanicBeforeOverflow, Half
    <2>3. \A s \in Requests : ListOK(s)' /\ RoutedOK(s)'
      BY <2>1, RequestKept DEF IInv
    <2>4. TurnsOK'
      BY <2>1 DEF IInv, TurnsOK, PicksOf, NoneIndexes, OnlyIndexes
    <2> QED
      BY <2>2, <2>3, <2>4 DEF IInv
  <1>2. ASSUME NEW r \in Requests, Filter(r) \/ Count(r) \/ Route(r)
        PROVE  IInv'
    BY <1>2, FilterOK, CountOK, RouteOK
  <1> QED
    BY <1>1, <1>2 DEF Next

LEMMA Invariance == Spec => []IInv
  BY InitOK, StepOK, PTL DEF Spec

(***************************************************************************)
(* The counter is a word, every list holds upstreams only, and a result is *)
(* an upstream, a refusal or a panic, however many requests share them.    *)
(***************************************************************************)
THEOREM RouterTyped == Spec => []TypeOK
  <1>1. IInv => TypeOK
    BY DEF IInv
  <1> QED
    BY <1>1, Invariance, PTL

(***************************************************************************)
(* FilteringRoutingStrategy sends a request to an upstream that passed the *)
(* filters, of the best priority that had one, and refuses it only when    *)
(* none passed; for every chain that config.go accepts.                    *)
(***************************************************************************)
THEOREM FallbackNeeded == Spec => []FallbackOnlyWhenNeeded
  <1> QED
    BY RoutedToBest, Invariance, PTL

(***************************************************************************)
(* Requests that do not overlap and find one list each get an upstream of  *)
(* their own until all have had one, even as the counter wraps around.     *)
(***************************************************************************)
THEOREM SerialTurns == Spec => []SerialRequestsTakeTurns
  <1>1. IInv => SerialRequestsTakeTurns
    BY PicksDiffer DEF IInv
  <1> QED
    BY <1>1, Invariance, PTL

(***************************************************************************)
(* RouteNextRequest does not index a list with a negative number before    *)
(* half the values of the counter's word have been used up.                *)
(***************************************************************************)
THEOREM NoEarlyPanic == Spec => []NoPanicBeforeOverflow
  <1>1. IInv => NoPanicBeforeOverflow
    BY DEF IInv
  <1> QED
    BY <1>1, Invariance, PTL
=============================================================================
