------------------------ MODULE RuntimeDashboardProofs ------------------------
(* Proofs about RuntimeDashboard: what mergeEvents returns whatever it is given,
   that the timeline therefore stays in order, and that it has no hole but
   those the backlog and the size of the list make; for any events, statuses
   and sizes. *)
EXTENDS RuntimeDashboard, FiniteSetTheorems, TLAPS

USE PageAssumption

-----------------------------------------------------------------------------
(* mergeEvents *)

(* What a stable sort by descending second puts first. *)
Prior(c, i, j) == c[i].at > c[j].at \/ (c[i].at = c[j].at /\ i < j)

LEMMA KeptIsFinite ==
    ASSUME NEW c \in Seq(Event)
    PROVE  /\ Kept(c) \subseteq 1 .. Len(c) /\ IsFiniteSet(Kept(c))
           /\ Cardinality(Kept(c)) \in Nat
           /\ \A i \in Kept(c) : i \in Int /\ c[i] \in Event /\ c[i].at \in Int
<1>1. Kept(c) \subseteq 1 .. Len(c) /\ Len(c) \in Nat
  BY DEF Kept
<1>2. IsFiniteSet(1 .. Len(c))
  BY <1>1, FS_Interval
<1>3. IsFiniteSet(Kept(c)) /\ Cardinality(Kept(c)) \in Nat
  BY <1>1, <1>2, FS_Subset, FS_CardinalityType
<1>4. ASSUME NEW i \in Kept(c) PROVE i \in Int /\ c[i] \in Event /\ c[i].at \in Int
  <2>1. i \in 1 .. Len(c)
    BY <1>1
  <2>2. c[i] \in Event
    BY <2>1
  <2> QED BY <2>1, <2>2 DEF Event
<1> QED BY <1>1, <1>3, <1>4

LEMMA BeforeIs ==
    ASSUME NEW c \in Seq(Event), NEW i \in Kept(c)
    PROVE  /\ Before(c, i) = {j \in Kept(c) : Prior(c, j, i)}
           /\ i \notin Before(c, i) /\ IsFiniteSet(Before(c, i))
           /\ Cardinality(Before(c, i)) \in 0 .. Cardinality(Kept(c)) - 1
<1>1. Before(c, i) = {j \in Kept(c) : Prior(c, j, i)}
  BY DEF Before, Prior
<1>2. i \notin Before(c, i)
  BY <1>1, KeptIsFinite DEF Prior
<1>3. Before(c, i) \in SUBSET (Kept(c) \ {i})
  BY <1>1, <1>2
<1>4. /\ IsFiniteSet(Kept(c) \ {i})
      /\ Cardinality(Kept(c) \ {i}) = Cardinality(Kept(c)) - 1
  BY KeptIsFinite, FS_RemoveElement
<1>5. /\ IsFiniteSet(Before(c, i)) /\ Cardinality(Before(c, i)) \in Nat
      /\ Cardinality(Before(c, i)) <= Cardinality(Kept(c) \ {i})
  BY <1>3, <1>4, FS_Subset, FS_CardinalityType
<1> QED BY <1>1, <1>2, <1>4, <1>5, KeptIsFinite

(* Fewer come before what is prior. *)
LEMMA PriorHasFewer ==
    ASSUME NEW c \in Seq(Event), NEW i \in Kept(c), NEW j \in Kept(c), Prior(c, i, j)
    PROVE  Cardinality(Before(c, i)) < Cardinality(Before(c, j))
<1>1. Before(c, i) \in SUBSET (Before(c, j) \ {i})
  <2>1. \A k \in Kept(c) : Prior(c, k, i) => Prior(c, k, j)
    BY KeptIsFinite DEF Prior
  <2> QED BY <2>1, BeforeIs
<1>2. i \in Before(c, j)
  BY BeforeIs
<1>3. /\ IsFiniteSet(Before(c, j) \ {i})
      /\ Cardinality(Before(c, j) \ {i}) = Cardinality(Before(c, j)) - 1
  BY <1>2, BeforeIs, FS_RemoveElement
<1>4. Cardinality(Before(c, i)) <= Cardinality(Before(c, j)) - 1
  BY <1>1, <1>3, FS_Subset
<1> QED BY <1>4, BeforeIs, KeptIsFinite

LEMMA OneIsPrior ==
    ASSUME NEW c \in Seq(Event), NEW i \in Kept(c), NEW j \in Kept(c), i # j
    PROVE  Prior(c, i, j) \/ Prior(c, j, i)
BY KeptIsFinite DEF Prior

(* Every place has its event. *)
LEMMA EveryPlaceIsTaken ==
    ASSUME NEW c \in Seq(Event), NEW k \in 1 .. Cardinality(Kept(c))
    PROVE  \E i \in Kept(c) : Cardinality(Before(c, i)) = k - 1
<1> DEFINE S == Kept(c)
           n == Cardinality(S)
           T == 0 .. n - 1
           rank == [i \in S |-> Cardinality(Before(c, i))]
<1>1. n \in Nat \ {0} /\ IsFiniteSet(S)
  BY KeptIsFinite
<1>2. IsFiniteSet(T) /\ Cardinality(T) = n
  <2>1. 0 \in Int /\ n - 1 \in Int
    BY <1>1
  <2> QED BY <1>1, <2>1, FS_Interval
<1>3. rank \in [S -> T]
  BY BeforeIs
<1>4. ASSUME NEW i \in S, NEW j \in S, rank[i] = rank[j] PROVE i = j
  <2>1. Prior(c, i, j) => rank[i] < rank[j]
    BY PriorHasFewer
  <2>2. Prior(c, j, i) => rank[j] < rank[i]
    BY PriorHasFewer
  <2>3. rank[i] \in Int /\ rank[j] \in Int
    BY <1>1, <1>3
  <2> HIDE DEF rank
  <2> QED BY <1>4, <2>1, <2>2, <2>3, OneIsPrior
<1>5. rank \in Injection(S, T)
  BY <1>3, <1>4 DEF Injection, IsInjective
<1>6. rank \in Surjection(S, T)
  BY <1>1, <1>2, <1>5, FS_Injection
<1>7. k - 1 \in T
  BY <1>1
<1> QED BY <1>6, <1>7 DEF Surjection

(* A list in which nothing is later than what comes before it, or there twice. *)
Sorted(s) == \A k, l \in DOMAIN s : k < l => s[k].at >= s[l].at /\ s[k] # s[l]

LEMMA MergedIsSorted ==
    ASSUME NEW prev \in Seq(Event), NEW incoming \in Seq(Event)
    PROVE  /\ Merged(prev, incoming) \in Seq(Event)
           /\ Len(Merged(prev, incoming)) <= MaxShown
           /\ Sorted(Merged(prev, incoming))
<1> DEFINE c == Both(prev, incoming)
           n == Cardinality(Kept(c))
           m == IF n < MaxShown THEN n ELSE MaxShown
           Place(k) == CHOOSE i \in Kept(c) : Cardinality(Before(c, i)) = k - 1
           merged == [k \in 1 .. m |-> c[Place(k)]]
<1>1. c \in Seq(Event)
  BY DEF Both
<1>2. Merged(prev, incoming) = merged
  BY DEF Merged
<1> HIDE DEF c
<1>3. n \in Nat /\ m \in Nat /\ m <= n /\ m <= MaxShown
  BY <1>1, KeptIsFinite
<1> HIDE DEF n, m
<1>4. ASSUME NEW k \in 1 .. m
      PROVE  Place(k) \in Kept(c) /\ Cardinality(Before(c, Place(k))) = k - 1
  <2>1. k \in 1 .. Cardinality(Kept(c))
    BY <1>3 DEF n
  <2> QED BY <1>1, <2>1, EveryPlaceIsTaken
<1> HIDE DEF Place
<1>5. \A k \in 1 .. m : merged[k] = c[Place(k)] /\ merged[k] \in Event
  BY <1>1, <1>4, KeptIsFinite
<1>6. merged \in Seq(Event) /\ Len(merged) = m /\ DOMAIN merged = 1 .. m
  BY <1>3, <1>5
<1>7. ASSUME NEW k \in 1 .. m, NEW l \in 1 .. m, k < l
      PROVE  merged[k].at >= merged[l].at /\ merged[k] # merged[l]
  <2> DEFINE i == Place(k)
             j == Place(l)
  <2>1. /\ i \in Kept(c) /\ Cardinality(Before(c, i)) = k - 1
        /\ j \in Kept(c) /\ Cardinality(Before(c, j)) = l - 1
        /\ merged[k] = c[i] /\ merged[l] = c[j]
    BY <1>4, <1>5
  <2> HIDE DEF i, j, merged
  <2>2. i # j /\ ~Prior(c, j, i)
    <3>1. Prior(c, j, i) => l - 1 < k - 1
      BY <1>1, <2>1, PriorHasFewer
    <3> QED BY <1>7, <2>1, <3>1
  <2>3. Prior(c, i, j)
    BY <1>1, <2>1, <2>2, OneIsPrior
  <2>4. c[i].at >= c[j].at
    BY <1>1, <2>1, <2>3, KeptIsFinite DEF Prior
  <2>5. c[i] # c[j]
    <3>1. i \in Int /\ j \in Int /\ i \in 1 .. Len(c) /\ j \in 1 .. Len(c)
      BY <1>1, <2>1, KeptIsFinite
    <3>2. i < j => i \in 1 .. (j - 1)
      BY <3>1
    <3>3. j < i => j \in 1 .. (i - 1)
      BY <3>1
    <3>4. i < j \/ j < i
      BY <2>2, <3>1
    <3> QED BY <2>1, <3>2, <3>3, <3>4 DEF Kept
  <2> QED BY <2>1, <2>4, <2>5
<1> QED BY <1>2, <1>3, <1>6, <1>7 DEF Sorted

(* A set of places has a first. *)
LEMMA FirstOf ==
    ASSUME NEW n \in Nat, NEW T \in SUBSET (1 .. n), T # {}
    PROVE  \E i \in T : \A j \in T : i <= j
<1> DEFINE Down(i) == {j \in T : j < i}
           N == Cardinality(T)
           rank == [i \in T |-> Cardinality(Down(i))]
<1>1. IsFiniteSet(T) /\ N \in Nat \ {0} /\ \A i \in T : i \in Int
  <2>1. IsFiniteSet(1 .. n)
    BY FS_Interval
  <2>2. IsFiniteSet(T)
    BY <2>1, FS_Subset
  <2>3. N \in Nat /\ N # 0
    BY <2>2, FS_CardinalityType, FS_EmptySet
  <2> QED BY <2>2, <2>3
<1>2. ASSUME NEW i \in T
      PROVE  IsFiniteSet(Down(i)) /\ Cardinality(Down(i)) \in 0 .. N - 1
  <2>1. IsFiniteSet(T \ {i}) /\ Cardinality(T \ {i}) = N - 1
    BY <1>1, FS_RemoveElement
  <2>2. Down(i) \in SUBSET (T \ {i})
    BY <1>1
  <2>3. /\ IsFiniteSet(Down(i)) /\ Cardinality(Down(i)) \in Nat
        /\ Cardinality(Down(i)) <= Cardinality(T \ {i})
    BY <2>1, <2>2, FS_Subset, FS_CardinalityType
  <2> QED BY <1>1, <2>1, <2>3
<1>3. ASSUME NEW i \in T, NEW j \in T, i < j PROVE rank[i] < rank[j]
  <2>1. Down(i) \in SUBSET (Down(j) \ {i}) /\ i \in Down(j)
    <3>1. \A l \in T : l < i => l < j /\ l # i
      BY <1>1, <1>3
    <3> QED BY <1>3, <3>1
  <2>2. IsFiniteSet(Down(j) \ {i}) /\ Cardinality(Down(j) \ {i}) = Cardinality(Down(j)) - 1
    BY <1>2, <2>1, FS_RemoveElement
  <2>3. Cardinality(Down(i)) <= Cardinality(Down(j)) - 1
    BY <2>1, <2>2, FS_Subset
  <2>4. Cardinality(Down(i)) \in Int /\ Cardinality(Down(j)) \in Int
    BY <1>2
  <2>5. Cardinality(Down(i)) < Cardinality(Down(j))
    <3> HIDE DEF Down
    <3> QED BY <2>3, <2>4
  <2> QED BY <2>5
<1>4. rank \in [T -> 0 .. N - 1]
  BY <1>2
<1>5. ASSUME NEW i \in T, NEW j \in T, rank[i] = rank[j] PROVE i = j
  <2>1. (i < j => rank[i] < rank[j]) /\ (j < i => rank[j] < rank[i])
    BY <1>3
  <2>2. rank[i] \in Int /\ rank[j] \in Int
    BY <1>1, <1>4
  <2> HIDE DEF rank
  <2> QED BY <1>1, <1>5, <2>1, <2>2
<1>6. rank \in Surjection(T, 0 .. N - 1)
  <2>1. IsFiniteSet(0 .. N - 1) /\ Cardinality(0 .. N - 1) = N
    <3>1. 0 \in Int /\ N - 1 \in Int
      BY <1>1
    <3> QED BY <1>1, <3>1, FS_Interval
  <2>2. rank \in Injection(T, 0 .. N - 1)
    BY <1>4, <1>5 DEF Injection, IsInjective
  <2> HIDE DEF rank
  <2> QED BY <1>1, <2>1, <2>2, FS_Injection
<1>7. PICK i \in T : rank[i] = 0
  <2>1. 0 \in 0 .. N - 1
    BY <1>1
  <2> HIDE DEF rank
  <2> QED BY <1>6, <2>1 DEF Surjection
<1>8. Down(i) = {}
  BY <1>2, <1>7, FS_EmptySet
<1> QED BY <1>1, <1>8

(* Of what is there more than once the first is kept. *)
LEMMA EveryValueIsKept ==
    ASSUME NEW c \in Seq(Event), NEW v \in Range(c)
    PROVE  \E i \in Kept(c) : c[i] = v
<1> DEFINE T == {i \in DOMAIN c : c[i] = v}
<1>1. Len(c) \in Nat /\ T \in SUBSET (1 .. Len(c)) /\ T # {}
  BY DEF Range
<1>2. PICK i \in T : \A j \in T : i <= j
  BY <1>1, FirstOf
<1>3. \A j \in 1 .. (i - 1) : c[j] # c[i]
  BY <1>1, <1>2
<1> QED BY <1>2, <1>3 DEF Kept

(* What mergeEvents keeps and what it cuts. *)
LEMMA MergedKeeps ==
    ASSUME NEW prev \in Seq(Event), NEW incoming \in Seq(Event),
           NEW v \in Range(prev) \cup Range(incoming)
    PROVE  LET merged == Merged(prev, incoming)
           IN  \/ v \in Range(merged)
               \/ Len(merged) = MaxShown /\ v.at <= merged[MaxShown].at
<1> DEFINE c == Both(prev, incoming)
           n == Cardinality(Kept(c))
           m == IF n < MaxShown THEN n ELSE MaxShown
           Place(k) == CHOOSE i \in Kept(c) : Cardinality(Before(c, i)) = k - 1
           merged == [k \in 1 .. m |-> c[Place(k)]]
<1>1. c \in Seq(Event) /\ v \in Range(c)
  <2>1. /\ c \in Seq(Event) /\ Len(c) = Len(incoming) + Len(prev)
        /\ \A i \in 1 .. Len(incoming) : c[i] = incoming[i]
        /\ \A i \in 1 .. Len(prev) : c[i + Len(incoming)] = prev[i]
    BY DEF Both
  <2> HIDE DEF c
  <2>2. CASE v \in Range(incoming)
    <3>1. PICK i \in 1 .. Len(incoming) : v = incoming[i]
      BY <2>2 DEF Range
    <3>2. i \in 1 .. Len(c)
      BY <2>1
    <3> QED BY <2>1, <3>1, <3>2 DEF Range
  <2>3. CASE v \in Range(prev)
    <3>1. PICK i \in 1 .. Len(prev) : v = prev[i]
      BY <2>3 DEF Range
    <3>2. i + Len(incoming) \in DOMAIN c /\ c[i + Len(incoming)] = v
      BY <2>1, <3>1
    <3> QED BY <2>1, <3>2 DEF Range
  <2> QED BY <2>1, <2>2, <2>3
<1>2. Merged(prev, incoming) = merged
  BY DEF Merged
<1> HIDE DEF c
<1>3. n \in Nat /\ m \in Nat /\ m <= n /\ (m = n \/ m = MaxShown)
  <2>1. n \in Nat
    BY <1>1, KeptIsFinite
  <2> HIDE DEF n
  <2> QED BY <2>1
<1>4. PICK i \in Kept(c) : c[i] = v
  BY <1>1, EveryValueIsKept
<1> DEFINE k == Cardinality(Before(c, i)) + 1
<1>5. k \in 1 .. n
  BY <1>1, BeforeIs, KeptIsFinite
<1> HIDE DEF n, m
<1>6. ASSUME NEW l \in 1 .. m
      PROVE  Place(l) \in Kept(c) /\ Cardinality(Before(c, Place(l))) = l - 1
  <2>1. l \in 1 .. Cardinality(Kept(c))
    BY <1>3 DEF n
  <2> QED BY <1>1, <2>1, EveryPlaceIsTaken
<1>7. CASE k <= m
  <2>1. k \in 1 .. m
    BY <1>3, <1>5, <1>7
  <2> DEFINE j == Place(k)
  <2>2. j \in Kept(c) /\ Cardinality(Before(c, j)) = k - 1
    BY <1>6, <2>1
  <2>3. merged[k] = c[j] /\ DOMAIN merged = 1 .. m
    BY <2>1
  <2> HIDE DEF j, merged
  <2>4. (Prior(c, i, j) => k - 1 < k - 1) /\ (Prior(c, j, i) => k - 1 < k - 1)
    <3>1. Cardinality(Before(c, i)) = k - 1
      BY <1>1, BeforeIs
    <3> HIDE DEF k
    <3> QED BY <1>1, <2>2, <3>1, PriorHasFewer
  <2>5. i = j
    <3>1. k - 1 \in Int
      BY <1>5
    <3> HIDE DEF k
    <3> QED BY <1>1, <2>2, <2>4, <3>1, OneIsPrior
  <2> QED BY <1>2, <1>4, <2>1, <2>3, <2>5 DEF Range
<1>8. CASE ~(k <= m)
  <2>1. m = MaxShown /\ m \in 1 .. m /\ m <= k - 1
    BY <1>3, <1>5, <1>8
  <2> DEFINE j == Place(m)
  <2>2. j \in Kept(c) /\ Cardinality(Before(c, j)) = m - 1
    BY <1>6, <2>1
  <2>3. merged[MaxShown] = c[j] /\ Len(merged) = MaxShown
    BY <2>1
  <2> HIDE DEF j, merged
  <2>4. Prior(c, i, j) => k - 1 < m - 1
    <3>1. Cardinality(Before(c, i)) = k - 1
      BY <1>1, BeforeIs
    <3> HIDE DEF k
    <3> QED BY <1>1, <2>2, <3>1, PriorHasFewer
  <2>5. i # j
    <3>1. Cardinality(Before(c, i)) = k - 1
      BY <1>1, BeforeIs
    <3> HIDE DEF k
    <3> QED BY <1>3, <1>5, <2>1, <2>2, <3>1
  <2>6. Prior(c, j, i)
    <3>1. ~(k - 1 < m - 1)
      BY <1>3, <1>5, <2>1
    <3> QED BY <1>1, <2>2, <2>4, <2>5, <3>1, OneIsPrior
  <2>7. c[i].at <= c[j].at
    BY <1>1, <2>2, <2>6, KeptIsFinite DEF Prior
  <2> QED BY <1>2, <1>4, <2>3, <2>7
<1> QED BY <1>7, <1>8

LEMMA MergedFrom ==
    ASSUME NEW prev \in Seq(Event), NEW incoming \in Seq(Event)
    PROVE  Range(Merged(prev, incoming)) \subseteq Range(prev) \cup Range(incoming)
<1> DEFINE c == Both(prev, incoming)
           n == Cardinality(Kept(c))
           m == IF n < MaxShown THEN n ELSE MaxShown
           Place(k) == CHOOSE i \in Kept(c) : Cardinality(Before(c, i)) = k - 1
           merged == [k \in 1 .. m |-> c[Place(k)]]
<1>1. /\ c \in Seq(Event) /\ Len(c) = Len(incoming) + Len(prev)
      /\ \A i \in 1 .. Len(c) :
           c[i] = IF i <= Len(incoming) THEN incoming[i] ELSE prev[i - Len(incoming)]
  BY DEF Both
<1>2. Merged(prev, incoming) = merged
  BY DEF Merged
<1> HIDE DEF c
<1>3. n \in Nat
  BY <1>1, KeptIsFinite
<1>4. m \in Nat /\ m <= n
  <2> HIDE DEF n
  <2> QED BY <1>3
<1> HIDE DEF m
<1>5. ASSUME NEW k \in 1 .. m PROVE c[Place(k)] \in Range(prev) \cup Range(incoming)
  <2>1. k \in 1 .. Cardinality(Kept(c))
    BY <1>3, <1>4
  <2> DEFINE i == Place(k)
  <2>2. i \in Kept(c)
    BY <1>1, <2>1, EveryPlaceIsTaken
  <2>3. i \in 1 .. Len(c)
    BY <1>1, <2>2, KeptIsFinite
  <2> HIDE DEF i, Place
  <2>4. CASE i <= Len(incoming)
    <3>1. i \in DOMAIN incoming /\ c[i] = incoming[i]
      BY <1>1, <2>3, <2>4
    <3> QED BY <3>1 DEF Range, i
  <2>5. CASE ~(i <= Len(incoming))
    <3>1. i - Len(incoming) \in DOMAIN prev /\ c[i] = prev[i - Len(incoming)]
      BY <1>1, <2>3, <2>5
    <3> QED BY <3>1 DEF Range, i
  <2> QED BY <2>4, <2>5
<1> QED BY <1>2, <1>5 DEF Range

(* A full list stays full, and what it ends with does not get older. *)
LEMMA MergedFills ==
    ASSUME NEW prev \in Seq(Event), NEW incoming \in Seq(Event),
           Sorted(prev), Len(prev) = MaxShown
    PROVE  LET merged == Merged(prev, incoming)
           IN  Len(merged) = MaxShown /\ prev[MaxShown].at <= merged[MaxShown].at
<1> DEFINE merged == Merged(prev, incoming)
           Found == Len(merged) = MaxShown /\ prev[MaxShown].at <= merged[MaxShown].at
           Last == MaxShown - 1
<1>1. /\ merged \in Seq(Event) /\ Len(merged) \in Nat /\ Len(merged) <= MaxShown
      /\ DOMAIN merged = 1 .. Len(merged) /\ DOMAIN prev = 1 .. MaxShown
      /\ MaxShown \in Nat \ {0}
  BY MergedIsSorted
<1>2. ASSUME NEW v \in Range(prev)
      PROVE  \/ v \in Range(merged)
             \/ Len(merged) = MaxShown /\ v.at <= merged[MaxShown].at
  BY MergedKeeps
<1> HIDE DEF merged
<1>3. ASSUME ~Found, NEW k \in 1 .. MaxShown
      PROVE  \E q \in 1 .. Last : merged[q] = prev[k]
  <2>1. prev[k] \in Range(prev) /\ prev[k] \in Event /\ prev[MaxShown] \in Event
    BY <1>1 DEF Range
  <2>2. prev[k].at \in Int /\ prev[MaxShown].at \in Int
    BY <2>1 DEF Event
  <2>3. prev[MaxShown].at <= prev[k].at
    <3>1. k = MaxShown \/ k < MaxShown
      BY <1>1
    <3>2. k < MaxShown => prev[k].at >= prev[MaxShown].at
      BY <1>1 DEF Sorted
    <3> QED BY <2>2, <3>1, <3>2
  <2>4. Len(merged) = MaxShown => merged[MaxShown].at \in Int
    <3>1. Len(merged) = MaxShown => merged[MaxShown] \in Event
      BY <1>1
    <3> QED BY <3>1 DEF Event
  <2>5. ~(Len(merged) = MaxShown /\ prev[k].at <= merged[MaxShown].at)
    BY <1>3, <2>2, <2>3, <2>4
  <2>6. PICK q \in 1 .. Len(merged) : merged[q] = prev[k]
    BY <1>1, <1>2, <2>1, <2>5 DEF Range
  <2>7. q # MaxShown
    BY <1>1, <2>2, <2>5, <2>6
  <2> QED BY <1>1, <2>6, <2>7
<1>4. ASSUME ~Found PROVE FALSE
  <2> DEFINE at == [k \in 1 .. MaxShown |-> CHOOSE q \in 1 .. Last : merged[q] = prev[k]]
  <2>1. \A k \in 1 .. MaxShown : at[k] \in 1 .. Last /\ merged[at[k]] = prev[k]
    BY <1>3, <1>4
  <2>2. at \in [1 .. MaxShown -> 1 .. Last]
    BY <2>1
  <2>3. /\ IsFiniteSet(1 .. MaxShown) /\ Cardinality(1 .. MaxShown) = MaxShown
        /\ IsFiniteSet(1 .. Last) /\ Cardinality(1 .. Last) = Last
    <3>1. 1 \in Int /\ MaxShown \in Int /\ MaxShown >= 1 /\ Last \in Int /\ Last >= 0
      BY <1>1
    <3>2. IsFiniteSet(1 .. MaxShown) /\ Cardinality(1 .. MaxShown) = MaxShown
      BY <3>1, FS_Interval
    <3> HIDE DEF Last
    <3>3. IsFiniteSet(1 .. Last) /\ Cardinality(1 .. Last) = Last
      BY <3>1, FS_Interval
    <3> QED BY <3>2, <3>3
  <2>4. Cardinality(1 .. Last) < Cardinality(1 .. MaxShown)
    BY <1>1, <2>3
  <2> HIDE DEF at, Last
  <2> DEFINE S == 1 .. MaxShown
             T == 1 .. Last
  <2>5. PICK k \in S, l \in S : k # l /\ at[k] = at[l]
    <3>1. at \in [S -> T] /\ IsFiniteSet(S) /\ IsFiniteSet(T) /\ Cardinality(T) < Cardinality(S)
      BY <2>2, <2>3, <2>4
    <3> HIDE DEF S, T
    <3> QED BY <3>1, FS_PigeonHole
  <2>6. prev[k] = prev[l]
    BY <2>1, <2>5
  <2>7. k < l \/ l < k
    BY <1>1, <2>5
  <2> QED BY <1>1, <2>6, <2>7 DEF Sorted
<1> QED BY <1>4 DEF merged

-----------------------------------------------------------------------------
(* The page *)

Pages == [state : Statuses \cup {None}, events : Seq(Event), error : BOOLEAN]

Firsts ==
    [pc : {"off", "waiting", "done"}, state : Statuses \cup {None}, list : Seq(Event) \cup {None}]

(* The types in full, and that only an open page has requests under way. *)
Typed ==
    /\ TypeOK
    /\ page \in Pages /\ initial \in Firsts /\ now \in Nat
    /\ ~open => ~refresh /\ initial.pc = "off"

Inv == Typed /\ Sorted(page.events)

LEMMA EmptyPage ==
    /\ <<>> \in Seq(Event) /\ Len(<<>>) = 0 /\ Sorted(<<>>)
    /\ Empty \in Pages /\ Empty.events = <<>> /\ Empty.state = None /\ Empty.error = FALSE
    /\ NotAsked \in Firsts /\ NotAsked.pc = "off" /\ [NotAsked EXCEPT !.pc = "done"] \in Firsts
    /\ [NotAsked EXCEPT !.pc = "done"].pc = "done"
<1>1. <<>> \in Seq(Event) /\ Len(<<>>) = 0 /\ DOMAIN <<>> = {}
  OBVIOUS
<1> QED BY <1>1 DEF Sorted, Empty, NotAsked, Pages, Firsts

LEMMA InitInv == Init => Inv
<1> SUFFICES ASSUME Init PROVE Inv
  OBVIOUS
<1>1. /\ page = Empty /\ page.events = <<>> /\ page.state = None /\ page.error = FALSE
      /\ initial = NotAsked /\ page \in Pages /\ initial \in Firsts /\ initial.pc = "off"
      /\ Len(page.events) <= MaxShown /\ page.events \in Seq(Event) /\ Sorted(page.events)
  BY EmptyPage DEF Init
<1>2. log \in Seq(Event) /\ wire \in Seq(Event)
  BY EmptyPage DEF Init
<1> QED BY <1>1, <1>2 DEF Init, Inv, Typed, TypeOK

(* The backlog is a part of what was published. *)
LEMMA RingIsEvents == ASSUME Typed PROVE Ring \in Seq(Event)
<1>1. log \in Seq(Event) /\ Len(log) \in Nat
  BY DEF Typed, TypeOK
<1> DEFINE from == IF Len(log) > Backlog THEN Len(log) - Backlog + 1 ELSE 1
<1>2. from \in Nat \ {0}
  BY <1>1
<1> HIDE DEF from
<1>3. SubSeq(log, from, Len(log)) \in Seq(Event)
  BY <1>1, <1>2
<1> QED BY <1>3 DEF Ring, from

(* What a page becomes by its events, its state and its error. *)
LEMMA PageOf ==
    ASSUME Typed, NEW e \in BOOLEAN
    PROVE  /\ \A s \in Statuses \cup {None} :
                LET p == [page EXCEPT !.state = s, !.error = e]
                IN  p \in Pages /\ p.events = page.events /\ p.state = s /\ p.error = e
           /\ LET p == [page EXCEPT !.error = e]
              IN  p \in Pages /\ p.events = page.events /\ p.state = page.state /\ p.error = e
           /\ \A l \in Seq(Event) :
                LET p == [page EXCEPT !.events = l, !.error = e]
                IN  p \in Pages /\ p.events = l /\ p.state = page.state /\ p.error = e
BY DEF Typed, Pages

LEMMA PagesAreTyped ==
    ASSUME NEW p \in Pages
    PROVE  p.state \in Statuses \cup {None} /\ p.error \in BOOLEAN /\ p.events \in Seq(Event)
BY DEF Pages

LEMMA AgentKeeps == ASSUME Inv, Agent PROVE Inv'
<1>1. CASE Publish
  <2> DEFINE e == [at |-> now', text |-> Story[Len(log) + 1].text]
  <2>1. Len(log) + 1 \in DOMAIN Story /\ now' \in Nat
    <3>1. Len(log) \in Nat /\ now \in Nat
      BY DEF Inv, Typed, TypeOK
    <3>2. DOMAIN Story = 1 .. Len(Story) /\ Len(Story) \in Nat
      BY StoryAssumption
    <3> QED BY <1>1, <3>1, <3>2 DEF Publish
  <2>2. e \in Event
    BY <2>1 DEF Event
  <2>3. /\ log' = Append(log, e)
        /\ wire' = IF conn = "open" THEN Append(wire, e) ELSE wire
    BY <1>1 DEF Publish
  <2> HIDE DEF e
  <2>4. log' \in Seq(Event) /\ wire' \in Seq(Event)
    BY <2>2, <2>3 DEF Inv, Typed, TypeOK
  <2>5. ~open => conn # "open"
    BY DEF Inv, Typed, TypeOK
  <2> QED BY <1>1, <2>1, <2>3, <2>4, <2>5 DEF Publish, Inv, Typed, TypeOK
<1>2. ASSUME NEW s \in Statuses, SetStatus(s) PROVE Inv'
  BY <1>2 DEF SetStatus, Inv, Typed, TypeOK
<1>3. CASE Start
  <2>1. now' \in Nat /\ log' = <<>> /\ log' \in Seq(Event)
    BY <1>3, EmptyPage DEF Start, Inv, Typed
  <2> QED BY <1>3, <2>1 DEF Start, Inv, Typed, TypeOK
<1>4. CASE Stop
  <2>1. wire' \in Seq(Event) /\ (wire = <<>> => wire' = <<>>)
    BY <1>4, EmptyPage DEF Stop, Inv, Typed, TypeOK
  <2>2. page' \in Pages /\ page'.events = page.events /\ (conn # "open" => page' = page)
    BY <1>4, PageOf DEF Stop, Inv, Typed
  <2>3. ~open => conn # "open"
    BY DEF Inv, Typed, TypeOK
  <2> QED BY <1>4, <2>1, <2>2, <2>3, PagesAreTyped DEF Stop, Inv, Typed, TypeOK
<1> QED BY <1>1, <1>2, <1>3, <1>4 DEF Agent

LEMMA PageKeeps == ASSUME Inv, Open \/ Leave PROVE Inv'
<1>1. [pc |-> "waiting", state |-> None, list |-> None] \in Firsts
  BY DEF Firsts
<1>2. CASE Open
  BY <1>1, <1>2, EmptyPage DEF Open, Inv, Typed, TypeOK, runtime
<1>3. CASE Leave
  <2>1. /\ page' = Empty /\ page'.events = <<>> /\ page'.state = None /\ page'.error = FALSE
        /\ page' \in Pages /\ initial' \in Firsts /\ initial'.pc = "off"
        /\ Len(page'.events) <= MaxShown /\ page'.events \in Seq(Event) /\ Sorted(page'.events)
    BY <1>3, EmptyPage DEF Leave
  <2> QED BY <1>3, <2>1, EmptyPage DEF Leave, Inv, Typed, TypeOK, runtime
<1> QED BY <1>2, <1>3

LEMMA RequestsKeep == ASSUME Inv, Requests PROVE Inv'
<1>0. /\ ~open => initial.pc = "off" /\ ~refresh
      /\ page.events \in Seq(Event)
  BY PagesAreTyped DEF Inv, Typed
<1>1. CASE ProxyState
  <2>1. initial' \in Firsts /\ initial'.pc = "waiting" /\ open
    BY <1>0, <1>1 DEF ProxyState, Inv, Typed, TypeOK, Firsts
  <2> QED BY <1>1, <2>1 DEF ProxyState, Inv, Typed, TypeOK, runtime
<1>2. CASE ProxyList
  <2>1. initial' \in Firsts /\ initial'.pc = "waiting" /\ open
    BY <1>0, <1>2, RingIsEvents DEF ProxyList, Inv, Typed, TypeOK, Firsts
  <2> QED BY <1>2, <2>1 DEF ProxyList, Inv, Typed, TypeOK, runtime
<1>3. CASE InitialDone
  <2>1. open /\ initial.list \in Seq(Event) /\ initial.state \in Statuses
    BY <1>0, <1>3 DEF InitialDone, Inv, Typed, Firsts
  <2> DEFINE events == Merged(page.events, initial.list)
  <2>2. events \in Seq(Event) /\ Len(events) <= MaxShown /\ Sorted(events)
    BY <1>0, <2>1, MergedIsSorted
  <2>3. page' = [state |-> initial.state, events |-> events, error |-> FALSE]
    BY <1>3 DEF InitialDone
  <2> HIDE DEF events
  <2>4. page' \in Pages /\ page'.events = events /\ initial' \in Firsts
    BY <1>3, <2>1, <2>2, <2>3, EmptyPage DEF InitialDone, Pages
  <2>5. initial'.pc = "done"
    BY <1>3, EmptyPage DEF InitialDone
  <2> QED BY <1>3, <2>1, <2>2, <2>4, <2>5, PagesAreTyped DEF InitialDone, Inv, Typed, TypeOK, runtime
<1>4. CASE InitialFailed
  <2>1. open
    BY <1>0, <1>4 DEF InitialFailed
  <2>2. page' \in Pages /\ page'.events = <<>> /\ initial' \in Firsts /\ initial'.pc = "done"
    BY <1>4, EmptyPage DEF InitialFailed, Pages
  <2> QED BY <1>4, <2>1, <2>2, EmptyPage, PagesAreTyped DEF InitialFailed, Inv, Typed, TypeOK, runtime
<1>5. CASE Refreshed
  <2>1. open
    BY <1>0, <1>5 DEF Refreshed
  <2>2. page' \in Pages /\ page'.events = page.events
    BY <1>5, PageOf DEF Refreshed, Inv, Typed, TypeOK
  <2> QED BY <1>5, <2>1, <2>2, PagesAreTyped DEF Refreshed, Inv, Typed, TypeOK, runtime
<1>6. CASE RefreshFailed
  <2>1. open
    BY <1>0, <1>6 DEF RefreshFailed
  <2>2. page' \in Pages /\ page'.events = page.events
    BY <1>6, PageOf DEF RefreshFailed, Inv, Typed, TypeOK
  <2> QED BY <1>6, <2>1, <2>2, PagesAreTyped DEF RefreshFailed, Inv, Typed, TypeOK, runtime
<1> QED BY <1>1, <1>2, <1>3, <1>4, <1>5, <1>6 DEF Requests

LEMMA StreamKeeps == ASSUME Inv, Stream PROVE Inv'
<1>0. /\ wire \in Seq(Event) /\ page.events \in Seq(Event)
      /\ ~open => conn = "closed" /\ wire = <<>>
  BY PagesAreTyped DEF Inv, Typed, TypeOK
<1>1. CASE StreamOpens
  BY <1>0, <1>1, RingIsEvents DEF StreamOpens, Inv, Typed, TypeOK, runtime
<1>2. CASE StreamRefused
  <2>1. page' \in Pages /\ page'.events = page.events
    BY <1>2, PageOf DEF StreamRefused, Inv, Typed
  <2> QED BY <1>0, <1>2, <2>1, PagesAreTyped DEF StreamRefused, Inv, Typed, TypeOK, runtime
<1>3. CASE StreamBreaks
  <2>1. page' \in Pages /\ page'.events = page.events
    BY <1>3, PageOf DEF StreamBreaks, Inv, Typed
  <2>2. PICK n \in 0 .. Len(wire) : wire' = SubSeq(wire, 1, n)
    BY <1>3 DEF StreamBreaks
  <2>3. wire' \in Seq(Event)
    BY <1>0, <2>2
  <2> QED BY <1>0, <1>3, <2>1, <2>3, PagesAreTyped DEF StreamBreaks, Inv, Typed, TypeOK, runtime
<1>4. CASE Message
  <2> DEFINE events == Merged(page.events, <<Head(wire)>>)
  <2>1. open /\ <<Head(wire)>> \in Seq(Event) /\ wire' = Tail(wire) /\ wire' \in Seq(Event)
    BY <1>0, <1>4 DEF Message
  <2>2. events \in Seq(Event) /\ Len(events) <= MaxShown /\ Sorted(events)
    BY <1>0, <2>1, MergedIsSorted
  <2>3. page' = [page EXCEPT !.events = events, !.error = FALSE]
    BY <1>4 DEF Message
  <2> HIDE DEF events
  <2>4. page' \in Pages /\ page'.events = events
    BY <2>2, <2>3, PageOf DEF Inv
  <2> QED BY <1>4, <2>1, <2>2, <2>4, PagesAreTyped DEF Message, Inv, Typed, TypeOK, runtime
<1> QED BY <1>1, <1>2, <1>3, <1>4 DEF Stream

LEMMA StepInv == Inv /\ [Next]_vars => Inv'
<1>1. Inv /\ Tick => Inv'
  BY DEF Tick, Inv, Typed, TypeOK, runtime
<1>2. Inv /\ UNCHANGED vars => Inv'
  BY DEF vars, Inv, Typed, TypeOK
<1> QED BY <1>1, <1>2, AgentKeeps, PageKeeps, RequestsKeep, StreamKeeps DEF Next

LEMMA AlwaysInv == Spec => []Inv
BY InitInv, StepInv, PTL DEF Spec

(* RuntimeDashboard.tsx lines 24 to 46: page, requests and stream keep their
   types, and the list its bound, for any events, statuses and sizes. *)
THEOREM TypeCorrect == Spec => []TypeOK
BY AlwaysInv, PTL DEF Inv, Typed

(* Lines 38 to 46: in whatever order list, backlog and new events arrive, the
   timeline never goes back in time and shows no event twice. *)
THEOREM TimelineOrdered == Spec => []TimelineInOrder
<1>1. Inv => TimelineInOrder
  <2> SUFFICES ASSUME Inv PROVE TimelineInOrder
    OBVIOUS
  <2> DEFINE shown == page.events
             n == IF Len(shown) < Limit THEN Len(shown) ELSE Limit
  <2>1. /\ shown \in Seq(Event) /\ Sorted(shown) /\ Len(shown) \in Nat
        /\ n \in Nat /\ n <= Len(shown)
    BY PagesAreTyped DEF Inv, Typed
  <2>2. /\ Timeline = SubSeq(shown, 1, n)
        /\ LastEvent # None => LastEvent = shown[1] /\ shown # <<>>
    BY DEF Timeline, LastEvent
  <2> HIDE DEF shown, n
  <2>3. DOMAIN Timeline = 1 .. n /\ \A i \in 1 .. n : Timeline[i] = shown[i] /\ i \in DOMAIN shown
    BY <2>1, <2>2
  <2>4. \A i, j \in DOMAIN Timeline : i < j =>
          Timeline[i].at >= Timeline[j].at /\ Timeline[i] # Timeline[j]
    BY <2>1, <2>3 DEF Sorted
  <2>5. ASSUME LastEvent # None, NEW e \in Range(shown) PROVE e.at <= LastEvent.at
    <3>1. PICK i \in DOMAIN shown : e = shown[i]
      BY DEF Range
    <3>2. 1 \in DOMAIN shown /\ DOMAIN shown = 1 .. Len(shown) /\ LastEvent = shown[1]
      BY <2>1, <2>2, <2>5
    <3>3. i = 1 \/ 1 < i
      BY <2>1, <3>2
    <3>4. shown[i] \in Event /\ shown[1] \in Event
      BY <2>1, <3>2
    <3>5. shown[i].at \in Int /\ shown[1].at \in Int
      BY <3>4 DEF Event
    <3>6. 1 < i => shown[1].at >= shown[i].at
      BY <2>1, <3>2 DEF Sorted
    <3> QED BY <3>1, <3>2, <3>3, <3>5, <3>6
  <2> QED BY <2>4, <2>5 DEF TimelineInOrder, shown
<1> QED BY <1>1, AlwaysInv, PTL

-----------------------------------------------------------------------------
(* Holes *)

(* Shown, on the wire, never offered to this page, or cut from a full list. *)
Covered(j) ==
    \/ j \in Seen \cup skipped
    \/ Len(page.events) = MaxShown /\ log[j].at <= page.events[MaxShown].at

(* What is on the wire of an open stream is the end of the log.  Every event is
   covered while the first requests are under way, and later every one that
   follows an event that is seen. *)
Gapless ==
    conn = "open" =>
      /\ up /\ Len(wire) <= Len(log)
      /\ \A m \in 1 .. Len(wire) : wire[m] = log[Len(log) - Len(wire) + m]
      /\ initial.pc = "waiting" => \A j \in DOMAIN log : Covered(j)
      /\ \A i \in Seen, j \in DOMAIN log : Distinct(i) /\ i < j => Covered(j)

(* Steps that leave log, stream and list alone. *)
LEMMA QuietIsGapless ==
    ASSUME Gapless, UNCHANGED <<up, log, conn, wire, skipped>>, page'.events = page.events,
           initial'.pc = "waiting" => initial.pc = "waiting"
    PROVE  Gapless'
BY DEF Gapless, Covered, Seen, Distinct

(* What a merge does not show it cuts, and what is cut stays cut. *)
LEMMA MergeCovers ==
    ASSUME Inv, NEW incoming \in Seq(Event),
           page'.events = Merged(page.events, incoming),
           UNCHANGED <<log, skipped>>,
           Range(wire) \subseteq Range(wire') \cup Range(incoming),
           NEW j \in DOMAIN log, Covered(j)
    PROVE  Covered(j)'
<1> DEFINE prev == page.events
           merged == Merged(prev, incoming)
<1>1. /\ prev \in Seq(Event) /\ Sorted(prev) /\ log[j] \in Event /\ page'.events = merged
      /\ log' = log /\ skipped' = skipped
  BY PagesAreTyped DEF Inv, Typed, TypeOK
<1>2. CASE j \in skipped
  BY <1>1, <1>2 DEF Covered
<1>3. CASE log[j] \in Range(wire')
  BY <1>1, <1>3 DEF Covered, Seen
<1>4. CASE log[j] \in Range(prev) \cup Range(incoming)
  <2>1. \/ log[j] \in Range(merged)
        \/ Len(merged) = MaxShown /\ log[j].at <= merged[MaxShown].at
    BY <1>1, <1>4, MergedKeeps
  <2> HIDE DEF merged, prev
  <2> QED BY <1>1, <2>1 DEF Covered, Seen
<1>5. CASE Len(prev) = MaxShown /\ log[j].at <= prev[MaxShown].at
  <2>1. Len(merged) = MaxShown /\ prev[MaxShown].at <= merged[MaxShown].at
    BY <1>1, <1>5, MergedFills
  <2>2. merged \in Seq(Event) /\ MaxShown \in 1 .. MaxShown
    BY <1>1, MergedIsSorted
  <2> HIDE DEF merged, prev
  <2>3. prev[MaxShown] \in Event /\ merged[MaxShown] \in Event
    BY <1>1, <1>5, <2>1, <2>2
  <2>4. prev[MaxShown].at \in Int /\ merged[MaxShown].at \in Int /\ log[j].at \in Int
    BY <1>1, <2>3 DEF Event
  <2> QED BY <1>1, <1>5, <2>1, <2>4 DEF Covered
<1> QED BY <1>2, <1>3, <1>4, <1>5 DEF Covered, Seen

LEMMA PublishIsGapless == ASSUME Inv, Gapless, Publish, conn' = "open" PROVE Gapless'
<1> DEFINE e == [at |-> now', text |-> Story[Len(log) + 1].text]
<1>n. PICK n \in Nat : n = Len(log)
  BY DEF Inv, Typed, TypeOK
<1>1. /\ log \in Seq(Event) /\ wire \in Seq(Event) /\ n \in Nat /\ Len(wire) \in Nat
      /\ log' = Append(log, e) /\ wire' = Append(wire, e)
      /\ UNCHANGED <<up, conn, page, initial, skipped>> /\ conn = "open" /\ n = Len(log)
  BY <1>n DEF Publish, Inv, Typed, TypeOK
<1> HIDE DEF e
<1>2. /\ Len(log') = n + 1 /\ DOMAIN log' = 1 .. n + 1 /\ DOMAIN log = 1 .. n
      /\ log'[n + 1] = e /\ \A i \in 1 .. n : log'[i] = log[i]
  BY <1>1
<1>3. /\ Len(wire') = Len(wire) + 1 /\ wire'[Len(wire) + 1] = e
      /\ \A m \in 1 .. Len(wire) : wire'[m] = wire[m]
      /\ DOMAIN wire' = 1 .. Len(wire) + 1 /\ DOMAIN wire = 1 .. Len(wire)
  BY <1>1
<1>4. Range(wire') = Range(wire) \cup {e}
  <2>1. Len(wire) + 1 \in DOMAIN wire' /\ DOMAIN wire' = DOMAIN wire \cup {Len(wire) + 1}
    BY <1>1, <1>3
  <2>2. \A m \in DOMAIN wire : wire'[m] = wire[m]
    BY <1>3
  <2> QED BY <1>3, <2>1, <2>2 DEF Range
<1>5. /\ up' /\ Len(wire') <= Len(log')
      /\ \A m \in 1 .. Len(wire') : wire'[m] = log'[Len(log') - Len(wire') + m]
  <2>1. /\ up /\ Len(wire) <= n
        /\ \A m \in 1 .. Len(wire) : wire[m] = log[n - Len(wire) + m]
    BY <1>1 DEF Gapless
  <2>2. ASSUME NEW m \in 1 .. Len(wire) + 1 PROVE wire'[m] = log'[n - Len(wire) + m]
    <3>1. CASE m = Len(wire) + 1
      <4>1. n - Len(wire) + m = n + 1
        BY <1>1, <3>1
      <4> QED BY <1>2, <1>3, <3>1, <4>1
    <3>2. CASE m # Len(wire) + 1
      <4>1. m \in 1 .. Len(wire) /\ n - Len(wire) + m \in 1 .. n
        BY <1>1, <2>1, <3>2
      <4> QED BY <1>2, <1>3, <2>1, <4>1
    <3> QED BY <3>1, <3>2
  <2>3. Len(log') - Len(wire') = n - Len(wire)
    BY <1>1, <1>2, <1>3
  <2>4. Len(wire') <= Len(log')
    BY <1>1, <1>2, <1>3, <2>1
  <2> QED BY <1>1, <1>3, <2>1, <2>2, <2>3, <2>4
<1>6. ASSUME NEW j \in 1 .. n, Covered(j) PROVE Covered(j)'
  <2>1. log'[j] = log[j] /\ j \in DOMAIN log' /\ page' = page /\ skipped' = skipped
    BY <1>1, <1>2
  <2> QED BY <1>4, <1>6, <2>1 DEF Covered, Seen
<1>7. Covered(n + 1)'
  <2>1. n + 1 \in DOMAIN log' /\ log'[n + 1] \in Range(wire')
    BY <1>1, <1>2, <1>4
  <2> QED BY <2>1 DEF Covered, Seen
<1>8. ASSUME NEW i \in Seen', Distinct(i)', i # n + 1 PROVE i \in Seen /\ Distinct(i)
  <2>1. i \in 1 .. n /\ log'[i] = log[i]
    BY <1>2, <1>8 DEF Seen
  <2>2. log[i] # e
    <3>1. \A j \in 1 .. n + 1 : log'[j] = log'[i] => j = i
      BY <1>2, <1>8 DEF Distinct
    <3>2. n + 1 \in 1 .. n + 1 /\ n + 1 # i
      BY <1>1, <1>8
    <3>3. log'[n + 1] # log'[i]
      BY <3>1, <3>2
    <3> QED BY <1>2, <2>1, <3>3
  <2>3. i \in Seen
    BY <1>1, <1>2, <1>4, <1>8, <2>1, <2>2 DEF Seen
  <2>4. Distinct(i)
    BY <1>1, <1>2, <1>8, <2>1 DEF Distinct
  <2> QED BY <2>3, <2>4
<1>9. ASSUME NEW i \in Seen', NEW j \in DOMAIN log', Distinct(i)', i < j PROVE Covered(j)'
  <2>1. i \in 1 .. n + 1 /\ j \in 1 .. n + 1
    BY <1>2 DEF Seen
  <2>2. CASE j = n + 1
    BY <1>7, <2>2
  <2>3. CASE j # n + 1
    <3>1. j \in 1 .. n /\ i # n + 1
      BY <1>1, <1>9, <2>1, <2>3
    <3>2. i \in Seen /\ Distinct(i)
      BY <1>8, <1>9, <3>1
    <3> QED BY <1>1, <1>2, <1>6, <1>9, <3>1, <3>2 DEF Gapless
  <2> QED BY <2>2, <2>3
<1>10. ASSUME initial'.pc = "waiting", NEW j \in DOMAIN log' PROVE Covered(j)'
  <2>1. j \in 1 .. n \/ j = n + 1
    BY <1>1, <1>2
  <2> QED BY <1>1, <1>2, <1>6, <1>7, <1>10, <2>1 DEF Gapless
<1> QED BY <1>5, <1>9, <1>10 DEF Gapless

(* What is read of a sequence is its first, the rest its end. *)
LEMMA RestOf ==
    ASSUME NEW s \in Seq(Event), s # <<>>
    PROVE  /\ Head(s) = s[1] /\ Head(s) \in Event /\ Len(Tail(s)) = Len(s) - 1
           /\ \A m \in 1 .. Len(s) - 1 : Tail(s)[m] = s[m + 1]
           /\ Range(s) = {Head(s)} \cup Range(Tail(s)) /\ Range(<<Head(s)>>) = {Head(s)}
<1>1. /\ Len(s) \in Nat \ {0} /\ DOMAIN s = 1 .. Len(s) /\ Head(s) = s[1]
      /\ Len(Tail(s)) = Len(s) - 1 /\ DOMAIN Tail(s) = 1 .. Len(s) - 1
      /\ \A m \in 1 .. Len(s) - 1 : Tail(s)[m] = s[m + 1]
  OBVIOUS
<1>2. Head(s) \in Event
  BY <1>1
<1>3. ASSUME NEW v \in Range(s) PROVE v \in {Head(s)} \cup Range(Tail(s))
  <2>1. PICK m \in 1 .. Len(s) : v = s[m]
    BY <1>1 DEF Range
  <2>2. CASE m = 1
    BY <1>1, <2>1, <2>2
  <2>3. CASE m # 1
    <3>1. m - 1 \in DOMAIN Tail(s) /\ Tail(s)[m - 1] = v
      BY <1>1, <2>1, <2>3
    <3> QED BY <3>1 DEF Range
  <2> QED BY <2>2, <2>3
<1>4. ASSUME NEW v \in {Head(s)} \cup Range(Tail(s)) PROVE v \in Range(s)
  <2>1. CASE v = Head(s)
    <3>1. 1 \in DOMAIN s /\ s[1] = v
      BY <1>1, <2>1
    <3> QED BY <3>1 DEF Range
  <2>2. CASE v \in Range(Tail(s))
    <3>1. PICK m \in DOMAIN Tail(s) : v = Tail(s)[m]
      BY <2>2 DEF Range
    <3>2. m + 1 \in DOMAIN s /\ s[m + 1] = v
      BY <1>1, <3>1
    <3> QED BY <3>2 DEF Range
  <2> QED BY <2>1, <2>2
<1>5. Range(<<Head(s)>>) = {Head(s)}
  BY DEF Range
<1> QED BY <1>1, <1>2, <1>3, <1>4, <1>5

LEMMA MessageIsGapless == ASSUME Inv, Gapless, Message, conn' = "open" PROVE Gapless'
<1> DEFINE e == Head(wire)
<1>1. /\ wire \in Seq(Event) /\ wire # <<>> /\ wire' = Tail(wire)
      /\ UNCHANGED <<up, log, conn, initial, skipped>> /\ conn = "open"
      /\ <<e>> \in Seq(Event) /\ page.events \in Seq(Event)
  BY RestOf, PagesAreTyped DEF Message, runtime, Inv, Typed, TypeOK
<1>2. page'.events = Merged(page.events, <<e>>)
  <2>1. Merged(page.events, <<e>>) \in Seq(Event)
    BY <1>1, MergedIsSorted
  <2>2. page' = [page EXCEPT !.events = Merged(page.events, <<e>>), !.error = FALSE]
    BY DEF Message
  <2> HIDE DEF e
  <2> QED BY <2>1, <2>2, PageOf DEF Inv
<1>3. /\ Len(wire) \in Nat \ {0} /\ Len(wire') = Len(wire) - 1
      /\ \A m \in 1 .. Len(wire) - 1 : wire'[m] = wire[m + 1]
      /\ Range(wire) = {e} \cup Range(wire') /\ Range(<<e>>) = {e}
  BY <1>1, RestOf
<1> HIDE DEF e
<1>4. ASSUME NEW j \in DOMAIN log, Covered(j) PROVE Covered(j)'
  BY <1>1, <1>2, <1>3, <1>4, MergeCovers
<1>5. Range(page'.events) \subseteq Range(page.events) \cup {e}
  BY <1>1, <1>2, <1>3, MergedFrom
<1>6. Seen' \subseteq Seen
  BY <1>1, <1>3, <1>5 DEF Seen
<1>7. /\ up' /\ Len(wire') <= Len(log')
      /\ \A m \in 1 .. Len(wire') : wire'[m] = log'[Len(log') - Len(wire') + m]
  <2>1. /\ up /\ Len(wire) <= Len(log) /\ Len(log) \in Nat
        /\ \A m \in 1 .. Len(wire) : wire[m] = log[Len(log) - Len(wire) + m]
    BY <1>1 DEF Gapless, Inv, Typed, TypeOK
  <2>2. ASSUME NEW m \in 1 .. Len(wire') PROVE wire'[m] = log[Len(log) - Len(wire') + m]
    <3>1. m \in 1 .. Len(wire) - 1 /\ m + 1 \in 1 .. Len(wire)
      BY <1>3
    <3>2. Len(log) - Len(wire) + (m + 1) = Len(log) - Len(wire') + m
      BY <1>3, <2>1, <3>1
    <3> QED BY <1>3, <2>1, <3>1, <3>2
  <2> QED BY <1>1, <1>3, <2>1, <2>2
<1>8. \A i : Distinct(i)' => Distinct(i)
  BY <1>1 DEF Distinct
<1> QED BY <1>1, <1>4, <1>6, <1>7, <1>8 DEF Gapless

LEMMA OpensGapless == ASSUME Inv, StreamOpens PROVE Gapless'
<1>n. PICK n \in Nat, r \in Nat : n = Len(log) /\ r = Len(Ring)
  BY RingIsEvents DEF Inv, Typed, TypeOK
<1>1. /\ up /\ wire' = Ring /\ wire = <<>> /\ UNCHANGED <<up, log, page, initial>>
      /\ skipped' = skipped \cup ((1 .. n - r) \ Seen)
      /\ log \in Seq(Event) /\ DOMAIN log = 1 .. n
  BY <1>n DEF StreamOpens, runtime, Inv, Typed, TypeOK
<1>2. r <= n /\ \A m \in 1 .. r : Ring[m] = log[n - r + m]
  <2> DEFINE from == IF n > Backlog THEN n - Backlog + 1 ELSE 1
  <2>1. from \in 1 .. n + 1 /\ Ring = SubSeq(log, from, n)
    BY <1>n DEF Ring
  <2> HIDE DEF from
  <2>2. r = n - from + 1 /\ \A m \in 1 .. n - from + 1 : Ring[m] = log[from + m - 1]
    BY <1>n, <1>1, <2>1
  <2> QED BY <2>1, <2>2
<1>3. Range(wire) = {}
  BY <1>1 DEF Range
<1>4. ASSUME NEW j \in 1 .. n PROVE Covered(j)'
  <2>1. CASE j \in 1 .. n - r
    <3>1. j \in Seen => log[j] \in Range(page.events)
      BY <1>3 DEF Seen
    <3> QED BY <1>1, <2>1, <3>1 DEF Covered, Seen
  <2>2. CASE j \notin 1 .. n - r
    <3>1. j - (n - r) \in 1 .. r /\ n - r + (j - (n - r)) = j
      BY <1>2, <2>2
    <3>2. Ring[j - (n - r)] = log[j] /\ j - (n - r) \in DOMAIN Ring
      BY <1>n, <1>2, <3>1, RingIsEvents DEF Inv
    <3>3. log[j] \in Range(wire')
      BY <1>1, <3>2 DEF Range
    <3> QED BY <1>1, <3>3 DEF Covered, Seen
  <2> QED BY <2>1, <2>2
<1> QED BY <1>n, <1>1, <1>2, <1>4 DEF Gapless

LEMMA DoneIsGapless == ASSUME Inv, Gapless, InitialDone PROVE Gapless'
<1> SUFFICES ASSUME conn' = "open" PROVE Gapless'
  BY DEF Gapless
<1>1. /\ initial.list \in Seq(Event) /\ page'.events = Merged(page.events, initial.list)
      /\ UNCHANGED <<up, log, conn, wire, skipped>> /\ conn = "open" /\ initial.pc = "waiting"
  <2>1. initial.list \in Seq(Event)
    BY DEF InitialDone, Inv, Typed, Firsts
  <2> QED BY <2>1 DEF InitialDone, runtime
<1>2. \A j \in DOMAIN log : Covered(j)
  BY <1>1 DEF Gapless
<1>3. ASSUME NEW j \in DOMAIN log PROVE Covered(j)'
  BY <1>1, <1>2, MergeCovers
<1> QED BY <1>1, <1>3 DEF Gapless

(* The page forgets its events; what is on the wire is the end of the log. *)
LEMMA FailedIsGapless == ASSUME Inv, Gapless, InitialFailed PROVE Gapless'
<1> SUFFICES ASSUME conn' = "open" PROVE Gapless'
  BY DEF Gapless
<1>n. PICK n \in Nat, w \in Nat : n = Len(log) /\ w = Len(wire)
  BY DEF Inv, Typed, TypeOK
<1>1. /\ UNCHANGED <<up, log, conn, wire, skipped>> /\ conn = "open" /\ page'.events = <<>>
      /\ initial'.pc = "done" /\ log \in Seq(Event) /\ wire \in Seq(Event)
      /\ DOMAIN log = 1 .. n /\ DOMAIN wire = 1 .. w
  BY <1>n, EmptyPage DEF InitialFailed, runtime, Inv, Typed, TypeOK
<1>2. w <= n /\ \A m \in 1 .. w : wire[m] = log[n - w + m]
  BY <1>n, <1>1 DEF Gapless
<1>3. Range(page'.events) = {} /\ Range(wire') = Range(wire)
  BY <1>1 DEF Range
<1>4. ASSUME NEW i \in Seen', Distinct(i)' PROVE i \in n - w + 1 .. n
  <2>1. i \in 1 .. n /\ log[i] \in Range(wire)
    BY <1>1, <1>3 DEF Seen
  <2>2. PICK m \in 1 .. w : log[i] = wire[m]
    BY <1>1, <2>1 DEF Range
  <2>3. n - w + m \in 1 .. n /\ log[n - w + m] = log[i]
    BY <1>2, <2>2
  <2>4. n - w + m = i
    BY <1>1, <1>4, <2>3 DEF Distinct
  <2> QED BY <1>2, <2>2, <2>4
<1>5. ASSUME NEW j \in n - w + 1 .. n PROVE Covered(j)'
  <2>1. j - (n - w) \in 1 .. w /\ n - w + (j - (n - w)) = j /\ j \in 1 .. n
    BY <1>2
  <2>2. wire[j - (n - w)] = log[j]
    BY <1>2, <2>1
  <2>3. log[j] \in Range(wire)
    BY <1>1, <2>1, <2>2 DEF Range
  <2> QED BY <1>1, <1>3, <2>1, <2>3 DEF Covered, Seen
<1>6. ASSUME NEW i \in Seen', NEW j \in DOMAIN log', Distinct(i)', i < j PROVE Covered(j)'
  <2>1. i \in n - w + 1 .. n /\ j \in 1 .. n
    BY <1>1, <1>4, <1>6
  <2>2. j \in n - w + 1 .. n
    BY <1>2, <1>6, <2>1
  <2> QED BY <1>5, <2>2
<1> QED BY <1>n, <1>1, <1>2, <1>6 DEF Gapless

LEMMA StepGapless == Inv /\ Gapless /\ [Next]_vars => Gapless'
<1> SUFFICES ASSUME Inv, Gapless, [Next]_vars PROVE Gapless'
  OBVIOUS
<1>0. page.events \in Seq(Event) /\ page \in Pages /\ (conn = "open" => open)
  BY PagesAreTyped DEF Inv, Typed, TypeOK
<1>1. CASE Start \/ Open
  BY <1>0, <1>1 DEF Start, Open, Gapless
<1>2. CASE Stop \/ Leave \/ StreamRefused \/ StreamBreaks
  BY <1>2 DEF Stop, Leave, StreamRefused, StreamBreaks, Gapless
<1>3. CASE Publish
  BY <1>3, PublishIsGapless DEF Gapless
<1>4. ASSUME NEW s \in Statuses, SetStatus(s) PROVE Gapless'
  BY <1>4, QuietIsGapless DEF SetStatus
<1>5. CASE ProxyState \/ ProxyList
  BY <1>5, QuietIsGapless DEF ProxyState, ProxyList, runtime
<1>6. CASE InitialDone
  BY <1>6, DoneIsGapless
<1>7. CASE InitialFailed
  BY <1>7, FailedIsGapless
<1>8. CASE Refreshed \/ RefreshFailed
  <2>1. page'.events = page.events
    BY <1>0, <1>8 DEF Refreshed, RefreshFailed, Pages
  <2> QED BY <1>8, <2>1, QuietIsGapless DEF Refreshed, RefreshFailed, runtime
<1>9. CASE Tick
  BY <1>9, QuietIsGapless DEF Tick, runtime
<1>10. CASE StreamOpens
  BY <1>10, OpensGapless
<1>11. CASE Message
  BY <1>11, MessageIsGapless DEF Gapless
<1>12. CASE UNCHANGED vars
  BY <1>12, QuietIsGapless DEF vars
<1> QED BY <1>1, <1>2, <1>3, <1>4, <1>5, <1>6, <1>7, <1>8, <1>9, <1>10, <1>11, <1>12
        DEF Next, Agent, Requests, Stream

(* Lines 69 to 99: whatever was wiped, lost with a connection or published in
   between, a page with a stream has no hole between two events it was given
   but what had left the backlog, or what a full list cuts. *)
THEOREM NoneIsMissing == Spec => []NoHole
<1>1. Init => Gapless
  BY DEF Init, Gapless
<1>2. Gapless => NoHole
  BY DEF Gapless, Covered, NoHole
<1>3. Spec => []Gapless
  BY <1>1, StepGapless, AlwaysInv, PTL DEF Spec
<1> QED BY <1>2, <1>3, PTL
=============================================================================
