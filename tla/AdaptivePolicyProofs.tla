------------------------- MODULE AdaptivePolicyProofs -------------------------
(* Proofs about AdaptivePolicy: the types, that a selection exists while a usable
   profile does, and that a failure keeps its profile from another attempt for
   its cooldown; for any profiles, scores and windows. *)
EXTENDS AdaptivePolicy, FiniteSetTheorems, TLAPS

USE SizesAssumption, ProfilesAssumption, InputsAssumption

-----------------------------------------------------------------------------
(* Rankings *)

LEMMA FiniteSubset ==
    ASSUME NEW S \in SUBSET Profiles
    PROVE  /\ IsFiniteSet(S) /\ Cardinality(S) \in Nat /\ Cardinality(Profiles) \in Nat
           /\ Cardinality(S) <= Cardinality(Profiles)
           /\ Cardinality(S) = 0 <=> S = {}
BY FS_Subset, FS_CardinalityType, FS_EmptySet

(* An ordering lists members of its set, and is empty when the set is. *)
LEMMA OrderingOf ==
    ASSUME NEW S \in SUBSET Profiles, NEW score, NEW r \in Orderings(S, score)
    PROVE  /\ r \in Seq(Profiles) /\ Len(r) = Cardinality(S) /\ Len(r) <= Cardinality(Profiles)
           /\ \A i \in DOMAIN r : r[i] \in S
           /\ r = <<>> <=> S = {}
<1>1. r \in [1 .. Cardinality(S) -> S] /\ Cardinality(S) \in Nat
  BY FiniteSubset DEF Orderings
<1>2. r \in Seq(Profiles) /\ Len(r) = Cardinality(S)
  BY <1>1
<1>3. r = <<>> <=> Len(r) = 0
  BY <1>2
<1> QED BY <1>1, <1>2, <1>3, FiniteSubset

LEMMA OrderingOfNone == \A score : <<>> \in Orderings({}, score)
BY FS_EmptySet DEF Orderings

(* Only the empty set is ordered by nothing but the empty ranking. *)
LEMMA EmptyRanking ==
    ASSUME NEW S \in SUBSET Profiles, NEW score
    PROVE  /\ <<>> \in Orderings(S, score) => S = {}
           /\ S = {} => Orderings(S, score) = {<<>>}
<1>1. <<>> \in Orderings(S, score) => S = {}
  BY OrderingOf
<1>2. \A r \in Orderings(S, score) : S = {} => r = <<>>
  BY OrderingOf
<1> QED BY <1>1, <1>2, OrderingOfNone

(* The rankings there are of a set, by one score or another. *)
Rank(rankings, S) == \E score : rankings = Orderings(S, score)

LEMMA RankingOf ==
    ASSUME NEW S \in SUBSET Profiles, NEW rankings, Rank(rankings, S)
    PROVE  /\ <<>> \in rankings => S = {}
           /\ \A r \in rankings :
                /\ r \in Seq(Profiles) /\ Len(r) <= Cardinality(Profiles)
                /\ \A i \in DOMAIN r : r[i] \in S
<1>1. PICK score : rankings = Orderings(S, score)
  BY DEF Rank
<1> QED BY <1>1, OrderingOf

LEMMA RankingOfNone ==
    ASSUME NEW rankings, Rank(rankings, {}) PROVE rankings = {<<>>}
<1>1. PICK score : rankings = Orderings({}, score)
  BY DEF Rank
<1> QED BY <1>1, EmptyRanking

Awake == {p \in Usable : ~Cooling(p)}

LEMMA AdaptiveOf ==
    /\ Usable \in SUBSET Profiles /\ Awake \in SUBSET Profiles
    /\ \E S \in SUBSET Awake :
         /\ Rank(AdaptiveRankings, S)
         /\ S = {} => Awake = {}
<1>1. Usable \in SUBSET Profiles /\ Awake \in SUBSET Profiles
  BY DEF Usable, Awake
<1> DEFINE strict == Awake \ DnsExcluded
           byScore == [p \in strict |-> Score(p)]
           byEwma == [p \in Awake |-> Ewma[p]]
<1>2. AdaptiveRankings = IF strict # {} THEN Orderings(strict, byScore)
                         ELSE Orderings(Awake, byEwma)
  BY DEF AdaptiveRankings, Awake, ByScore, ByEwma
<1>3. strict \in SUBSET Awake /\ Awake \in SUBSET Awake
  OBVIOUS
<1> HIDE DEF strict, byScore, byEwma
<1>4. CASE strict # {}
  BY <1>1, <1>2, <1>3, <1>4 DEF Rank
<1>5. CASE strict = {}
  BY <1>1, <1>2, <1>3, <1>5 DEF Rank
<1> QED BY <1>4, <1>5

(* A ranking orders profiles that are awake, or in their absence, or with
   learning off, all that are usable. *)
LEMMA RankingsOf ==
    \E S \in SUBSET Usable :
      /\ Rank(Rankings, S)
      /\ S = {} => Usable = {}
      /\ enabled => S \subseteq Awake \/ Awake = {}
<1>1. PICK S \in SUBSET Awake : Rank(AdaptiveRankings, S) /\ (S = {} => Awake = {})
  BY AdaptiveOf
<1>2. Awake \subseteq Usable /\ S \in SUBSET Usable /\ S \in SUBSET Profiles
  BY AdaptiveOf DEF Awake
<1>3. CASE enabled /\ S # {}
  <2>1. AdaptiveRankings # {<<>>}
    BY <1>1, <1>2, <1>3, RankingOf
  <2> QED BY <1>1, <1>2, <1>3, <2>1 DEF Rankings
<1>4. CASE ~enabled \/ S = {}
  <2>0. S = {} => AdaptiveRankings = {<<>>}
    BY <1>1, RankingOfNone
  <2>1. Rankings = ByPolicy(Usable)
    BY <1>4, <2>0 DEF Rankings
  <2> DEFINE byPolicy == [p \in Usable |-> PolicyScore[p]]
  <2>2. Rankings = Orderings(Usable, byPolicy)
    BY <2>1 DEF ByPolicy
  <2> HIDE DEF byPolicy
  <2>3. Rank(Rankings, Usable)
    BY <2>2 DEF Rank
  <2> QED BY <1>1, <1>4, <2>3
<1> QED BY <1>3, <1>4

LEMMA NeverCollapses == SelectionNeverCollapses
<1>1. PICK S \in SUBSET Usable : Rank(Rankings, S) /\ (S = {} => Usable = {})
  BY RankingsOf
<1>2. S \in SUBSET Profiles
  BY AdaptiveOf
<1> QED BY <1>1, <1>2, RankingOf DEF SelectionNeverCollapses

(* adaptive.go line 338: whatever was learnt, filters and cooldowns together leave
   a profile to select while one is usable. *)
THEOREM AlwaysASelection == Spec => []SelectionNeverCollapses
BY NeverCollapses, PTL

-----------------------------------------------------------------------------
(* Types *)

(* What is kept of a list that took one more is some of its end. *)
LEMMA LastOfAppend ==
    ASSUME NEW T, NEW s \in Seq(T), NEW e \in T, NEW n \in Nat \ {0}
    PROVE  /\ LastOf(Append(s, e), n) \in Seq(T) /\ Len(LastOf(Append(s, e), n)) <= n
           /\ \A i \in DOMAIN LastOf(Append(s, e), n) :
                \/ LastOf(Append(s, e), n)[i] = e
                \/ \E j \in DOMAIN s : LastOf(Append(s, e), n)[i] = s[j]
<1> DEFINE t == Append(s, e)
           from == IF Len(t) > n THEN Len(t) - n + 1 ELSE 1
           u == SubSeq(t, from, Len(t))
<1>1. /\ t \in Seq(T) /\ Len(t) = Len(s) + 1 /\ Len(s) \in Nat /\ DOMAIN s = 1 .. Len(s)
      /\ \A i \in 1 .. Len(s) : t[i] = s[i]
      /\ t[Len(s) + 1] = e
  OBVIOUS
<1> HIDE DEF t
<1>2. from \in 1 .. Len(t) /\ Len(t) - from + 1 <= n /\ Len(t) \in Nat \ {0}
  BY <1>1
<1> HIDE DEF from
<1>3. /\ u \in Seq(T) /\ Len(u) = Len(t) - from + 1 /\ DOMAIN u = 1 .. Len(u)
      /\ \A i \in 1 .. Len(u) : u[i] = t[from + i - 1]
  BY <1>1, <1>2
<1>4. LastOf(t, n) = u
  BY DEF LastOf, from
<1> HIDE DEF u
<1>5. ASSUME NEW i \in 1 .. Len(u) PROVE u[i] = e \/ \E j \in DOMAIN s : u[i] = s[j]
  <2>1. from + i - 1 \in 1 .. Len(s) \/ from + i - 1 = Len(s) + 1
    BY <1>1, <1>2, <1>3, <1>5
  <2> QED BY <1>1, <1>3, <2>1
<1> QED BY <1>2, <1>3, <1>4, <1>5 DEF t

LEMMA InitTypeOK == Init => TypeOK
BY FiniteSubset, Profiles \in SUBSET Profiles DEF Init, TypeOK

(* Every failure in the window has put its profile on cooldown. *)
Cooled ==
    \A i \in DOMAIN events :
      /\ events[i].at <= now
      /\ ~events[i].success => cooldown[events[i].profile] >= events[i].at + CooldownSec

Inv == TypeOK /\ Cooled

LEMMA AttemptKeeps ==
    ASSUME Inv, NEW p \in Profiles, NEW success \in BOOLEAN, NEW latency \in Nat,
           NEW failure \in Failures \cup {"none"}, RecordAttempt(p, success, latency, failure),
           now' = now
    PROVE  /\ events' \in Seq(Event) /\ Len(events') <= Window
           /\ cooldown' \in [Profiles -> 0 .. MaxTime + CooldownSec]
           /\ Cooled'
<1> DEFINE e == [at |-> now, profile |-> p, success |-> success, latency |-> latency,
                 failure |-> failure]
<1>1. CASE ~enabled
  BY <1>1 DEF RecordAttempt, Inv, TypeOK, Cooled
<1>2. CASE enabled
  <2>1. e \in Event /\ events \in Seq(Event) /\ now \in 0 .. MaxTime
        /\ cooldown \in [Profiles -> 0 .. MaxTime + CooldownSec]
    BY DEF Inv, TypeOK, Event
  <2>2. /\ events' = LastOf(Append(events, e), Window)
        /\ cooldown' = IF success THEN cooldown ELSE [cooldown EXCEPT ![p] = now + CooldownSec]
    BY <1>2 DEF RecordAttempt
  <2>3. e.at = now /\ e.profile = p /\ e.success = success
    OBVIOUS
  <2> HIDE DEF e
  <2>4. /\ events' \in Seq(Event) /\ Len(events') <= Window
        /\ \A i \in DOMAIN events' : events'[i] = e \/ \E j \in DOMAIN events : events'[i] = events[j]
    <3> DEFINE kept == LastOf(Append(events, e), Window)
    <3>1. /\ kept \in Seq(Event) /\ Len(kept) <= Window
          /\ \A i \in DOMAIN kept : kept[i] = e \/ \E j \in DOMAIN events : kept[i] = events[j]
      BY <2>1, LastOfAppend
    <3>2. events' = kept
      BY <2>2
    <3> HIDE DEF kept
    <3> QED BY <3>1, <3>2
  <2>5. /\ cooldown' \in [Profiles -> 0 .. MaxTime + CooldownSec]
        /\ ~success => cooldown'[p] = now + CooldownSec
        /\ \A q \in Profiles : cooldown'[q] \in {cooldown[q], now + CooldownSec}
    <3>1. now + CooldownSec \in 0 .. MaxTime + CooldownSec
      BY <2>1
    <3>2. CASE success
      <4>1. cooldown' = cooldown
        BY <2>2, <3>2
      <4>2. /\ cooldown' \in [Profiles -> 0 .. MaxTime + CooldownSec]
            /\ \A q \in Profiles : cooldown'[q] = cooldown[q]
        BY <2>1, <4>1
      <4> QED BY <3>2, <4>2
    <3>3. CASE ~success
      <4>1. cooldown' = [cooldown EXCEPT ![p] = now + CooldownSec]
        BY <2>2, <3>3
      <4>2. /\ cooldown' \in [Profiles -> 0 .. MaxTime + CooldownSec]
            /\ cooldown'[p] = now + CooldownSec
            /\ \A q \in Profiles : q # p => cooldown'[q] = cooldown[q]
        BY <2>1, <3>1, <4>1
      <4> QED BY <3>3, <4>2
    <3> QED BY <3>2, <3>3
  <2>6. ASSUME NEW i \in DOMAIN events'
        PROVE  /\ events'[i].at <= now'
               /\ ~events'[i].success => cooldown'[events'[i].profile] >= events'[i].at + CooldownSec
    <3>1. CASE events'[i] = e
      BY <2>1, <2>3, <2>5, <3>1
    <3>2. ASSUME NEW j \in DOMAIN events, events'[i] = events[j]
          PROVE  /\ events'[i].at <= now'
                 /\ ~events'[i].success => cooldown'[events'[i].profile] >= events'[i].at + CooldownSec
      <4>1. events[j] \in Event
        BY <2>1
      <4>2. events[j].profile \in Profiles /\ events[j].at \in Nat
        BY <4>1 DEF Event
      <4>3. /\ events[j].at <= now
            /\ ~events[j].success => cooldown[events[j].profile] >= events[j].at + CooldownSec
        BY DEF Inv, Cooled
      <4> DEFINE q == events[j].profile
      <4>4. cooldown'[q] >= cooldown[q] \/ cooldown'[q] = now + CooldownSec
        BY <2>1, <2>5, <4>2
      <4>5. cooldown'[q] \in Int /\ cooldown[q] \in Int /\ now \in Int
        BY <2>1, <2>5, <4>2
      <4>6. ~events[j].success => cooldown'[q] >= events[j].at + CooldownSec
        BY <4>2, <4>3, <4>4, <4>5
      <4> HIDE DEF q
      <4>7. events'[i].profile = q /\ events'[i].at = events[j].at
            /\ events'[i].success = events[j].success
        BY <3>2 DEF q
      <4> QED BY <4>3, <4>6, <4>7
    <3> QED BY <2>4, <3>1, <3>2
  <2> QED BY <2>4, <2>5, <2>6 DEF Cooled
<1> QED BY <1>1, <1>2

(* What is left of a ranking that is being worked through. *)
LEMMA RestOfRanking ==
    ASSUME TypeOK, pending # <<>>
    PROVE  /\ pending[1] \in Profiles
           /\ \A r \in {Tail(pending), <<>>} :
                r \in Seq(Profiles) /\ Len(r) <= Cardinality(Profiles)
<1>1. /\ pending \in Seq(Profiles) /\ Len(pending) <= Cardinality(Profiles)
      /\ Cardinality(Profiles) \in Nat
  BY FiniteSubset, Profiles \in SUBSET Profiles DEF TypeOK
<1>2. /\ Tail(pending) \in Seq(Profiles) /\ Len(Tail(pending)) = Len(pending) - 1
      /\ pending[1] \in Profiles
  BY <1>1
<1>3. <<>> \in Seq(Profiles) /\ Len(<<>>) = 0
  OBVIOUS
<1> QED BY <1>1, <1>2, <1>3

LEMMA StepInv == Inv /\ [Next]_vars => Inv'
<1> SUFFICES ASSUME Inv, [Next]_vars PROVE Inv'
  OBVIOUS
<1>1. CASE Select
  <2>1. PICK r \in Rankings : r # <<>> /\ pending' = r /\ RecordSelection(r[1])
    BY <1>1 DEF Select, Selected
  <2>2. r \in Seq(Profiles) /\ Len(r) <= Cardinality(Profiles) /\ r[1] \in Profiles
    <3>1. PICK S \in SUBSET Usable : Rank(Rankings, S)
      BY RankingsOf
    <3>2. S \in SUBSET Profiles
      BY AdaptiveOf
    <3>3. r \in Seq(Profiles) /\ Len(r) <= Cardinality(Profiles)
      BY <2>1, <3>1, <3>2, RankingOf
    <3> QED BY <2>1, <3>3
  <2>3. selections' \in Seq(Profiles) /\ Len(selections') <= SelectionCap
    BY <2>1, <2>2, LastOfAppend DEF RecordSelection, Inv, TypeOK
  <2> QED BY <1>1, <2>1, <2>2, <2>3 DEF Select, Inv, TypeOK, Cooled
<1>2. CASE AttemptSucceeds
  <2>1. PICK latency \in Latencies : RecordAttempt(pending[1], TRUE, latency, "none")
    BY <1>2 DEF AttemptSucceeds
  <2>2. pending # <<>> /\ pending' = <<>> /\ UNCHANGED <<now, enabled, selections>>
    BY <1>2 DEF AttemptSucceeds
  <2>3. /\ events' \in Seq(Event) /\ Len(events') <= Window
        /\ cooldown' \in [Profiles -> 0 .. MaxTime + CooldownSec] /\ Cooled'
    BY <2>1, <2>2, RestOfRanking, AttemptKeeps DEF Inv
  <2>4. pending' \in Seq(Profiles) /\ Len(pending') <= Cardinality(Profiles)
    BY <2>2, RestOfRanking DEF Inv
  <2> QED BY <2>2, <2>3, <2>4 DEF Inv, TypeOK
<1>3. CASE AttemptFails
  <2>1. PICK failure \in Failures : RecordAttempt(pending[1], FALSE, 0, failure)
    BY <1>3 DEF AttemptFails
  <2>2. /\ pending # <<>> /\ pending' \in {Tail(pending), <<>>}
        /\ UNCHANGED <<now, enabled, selections>>
    BY <1>3 DEF AttemptFails
  <2>3. /\ events' \in Seq(Event) /\ Len(events') <= Window
        /\ cooldown' \in [Profiles -> 0 .. MaxTime + CooldownSec] /\ Cooled'
    BY <2>1, <2>2, RestOfRanking, AttemptKeeps DEF Inv
  <2>4. pending' \in Seq(Profiles) /\ Len(pending') <= Cardinality(Profiles)
    BY <2>2, RestOfRanking DEF Inv
  <2> QED BY <2>2, <2>3, <2>4 DEF Inv, TypeOK
<1>4. CASE Reset
  BY <1>4 DEF Reset, Inv, TypeOK, Cooled
<1>5. CASE SetEnabled
  BY <1>5 DEF SetEnabled, Inv, TypeOK, Cooled
<1>6. CASE Pass
  <2>1. now' \in 0 .. MaxTime /\ now <= now'
    BY <1>6 DEF Pass, Inv, TypeOK
  <2>2. \A i \in DOMAIN events : events[i].at \in Nat
    <3>1. \A i \in DOMAIN events : events[i] \in Event
      BY DEF Inv, TypeOK
    <3> QED BY <3>1 DEF Event
  <2>3. Cooled'
    BY <1>6, <2>1, <2>2 DEF Pass, Inv, TypeOK, Cooled
  <2> QED BY <1>6, <2>1, <2>3 DEF Pass, Inv, TypeOK
<1>7. CASE UNCHANGED vars
  BY <1>7 DEF vars, Inv, TypeOK, Cooled
<1> QED BY <1>1, <1>2, <1>3, <1>4, <1>5, <1>6, <1>7 DEF Next

LEMMA AlwaysInv == Spec => []Inv
<1>1. Init => Inv
  BY InitTypeOK DEF Init, Inv, Cooled
<1> QED BY <1>1, StepInv, PTL DEF Spec

(* adaptive.go lines 148 and 174: the events learnt from and the selections
   remembered stay within their windows, for any profiles and sizes. *)
THEOREM TypeCorrect == Spec => []TypeOK
BY AlwaysInv, PTL DEF Inv

-----------------------------------------------------------------------------
(* Early retries *)

(* adaptive.go lines 169, 298 and 344: with learning on, a profile that failed less
   than a cooldown ago is not lined up again, unless all usable ones are cooling. *)
THEOREM FailedAreLeftAlone == Spec => NoEarlyRetry
<1> DEFINE Lined ==
      enabled /\ pending = <<>> /\ pending' # <<>>
        => \/ \A i \in DOMAIN pending' : ~FailedLately(pending'[i])
           \/ \A p \in Usable : Cooling(p)
<1>1. ASSUME Inv, NEW p \in Profiles, FailedLately(p) PROVE Cooling(p)
  <2>1. PICK i \in EventsOf(p) : ~events[i].success /\ now < events[i].at + CooldownSec
    BY <1>1 DEF FailedLately
  <2>2. i \in DOMAIN events /\ events[i].profile = p
    BY DEF EventsOf
  <2>3. events[i] \in Event
    BY <1>1, <2>2 DEF Inv, TypeOK
  <2>4. events[i].at \in Nat /\ now \in Nat /\ cooldown[p] \in Nat
    BY <1>1, <2>3 DEF Inv, TypeOK, Event
  <2>5. cooldown[p] >= events[i].at + CooldownSec
    BY <1>1, <2>1, <2>2 DEF Inv, Cooled
  <2> QED BY <2>1, <2>4, <2>5 DEF Cooling
<1>2. ASSUME Inv, [Next]_vars, enabled, pending = <<>>, pending' # <<>> PROVE Lined
  <2>1. pending' \in Rankings
    BY <1>2 DEF Next, Select, AttemptSucceeds, AttemptFails, Reset, SetEnabled, Pass, vars
  <2>2. PICK S \in SUBSET Usable :
          /\ Rank(Rankings, S)
          /\ S \subseteq Awake \/ Awake = {}
    BY <1>2, RankingsOf
  <2>3. S \in SUBSET Profiles /\ Awake \in SUBSET Profiles
    BY AdaptiveOf
  <2>4. \A i \in DOMAIN pending' : pending'[i] \in S
    BY <2>1, <2>2, <2>3, RankingOf
  <2>5. CASE S \subseteq Awake
    <3>1. \A i \in DOMAIN pending' : ~Cooling(pending'[i]) /\ pending'[i] \in Profiles
      BY <2>3, <2>4, <2>5 DEF Awake
    <3> QED BY <1>1, <1>2, <3>1
  <2>6. CASE Awake = {}
    BY <2>6 DEF Awake
  <2> QED BY <2>2, <2>5, <2>6
<1>3. Inv /\ [Next]_vars => [Lined]_vars
  BY <1>2
<1> QED BY <1>3, AlwaysInv, PTL DEF Spec, NoEarlyRetry

-----------------------------------------------------------------------------
(* Recent failures *)

WeightAt(i) == DecayWeight(events[i].at)

(* The equation of a sum, of which MapThenSumSet takes a solution. *)
Sums(S, iter) ==
    [s \in SUBSET S |->
       IF s = {} THEN 0
       ELSE LET x == CHOOSE y \in s : TRUE IN WeightAt(x) + iter[s \ {x}]]

(* Which one does not matter where a solution can be shown. *)
LEMMA WeightIs ==
    ASSUME NEW S
    PROVE  WeightOf(S) = (CHOOSE iter : iter = Sums(S, iter))[S]
BY DEF WeightOf, MapThenSumSet, MapThenFoldSet, Sums, WeightAt

(* The weight of up to two events: the sums over their subsets are a solution, and
   any solution has their values. *)
LEMMA WeightOfTwo ==
    ASSUME NEW i, NEW j, WeightAt(i) \in Int, WeightAt(j) \in Int
    PROVE  /\ WeightOf({}) = 0
           /\ WeightOf({i}) = WeightAt(i)
           /\ i # j => WeightOf({i, j}) = WeightAt(i) + WeightAt(j)
<1> DEFINE S == {i, j}
<1>a. ASSUME NEW T \in SUBSET S,
             \E g : g = Sums(T, g)
      PROVE  \E g : g = Sums(T, g) /\ WeightOf(T) = g[T]
  <2> DEFINE h == CHOOSE g : g = Sums(T, g)
  <2>1. h = Sums(T, h)
    BY <1>a
  <2>2. WeightOf(T) = h[T]
    BY WeightIs
  <2> QED BY <2>1, <2>2
<1>0. ASSUME NEW T \in SUBSET S PROVE \E g : g = Sums(T, g)
  <2> DEFINE g == [s \in SUBSET T |-> IF s = {} THEN 0 ELSE IF s = {i} THEN WeightAt(i) ELSE
                     IF s = {j} THEN WeightAt(j) ELSE WeightAt(i) + WeightAt(j)]
  <2>1. ASSUME NEW s \in SUBSET T
        PROVE  g[s] = IF s = {} THEN 0 ELSE LET x == CHOOSE y \in s : TRUE IN WeightAt(x) + g[s \ {x}]
    <3>1. CASE s = {}
      BY <3>1
    <3>2. CASE s # {}
      <4> DEFINE x == CHOOSE y \in s : TRUE
      <4>1. x \in s
        BY <3>2
      <4> HIDE DEF x
      <4>2. (s \ {x}) \in SUBSET T /\ x \in {i, j}
        BY <4>1
      <4>3. s = {x} \/ (s = {i,j} /\ i # j)
        BY <4>1
      <4>4. CASE s = {x}
        <5>1. s \ {x} = {} /\ g[{}] = 0 /\ g[s] = WeightAt(x) /\ WeightAt(x) \in Int
          BY <4>4, <4>2
        <5> HIDE DEF g
        <5> QED BY <3>2, <5>1 DEF x
      <4>5. CASE s = {i, j} /\ i # j
        <5>1. s \ {x} = (IF x = i THEN {j} ELSE {i})
          BY <4>5, <4>2
        <5>2. g[s] = WeightAt(i) + WeightAt(j) /\ g[s \ {x}] = (IF x = i THEN WeightAt(j) ELSE WeightAt(i))
          BY <4>5, <4>2, <5>1
        <5> HIDE DEF g
        <5>3. g[s] = WeightAt(x) + g[s \ {x}]
          BY <4>2, <5>2
        <5> QED BY <3>2, <5>3 DEF x
      <4> QED BY <4>3, <4>4, <4>5
    <3> QED BY <3>1, <3>2
  <2>2. g = Sums(T, g)
    <3> HIDE DEF g
    <3>1. g = [s \in SUBSET T |-> g[s]]
      BY DEF g
    <3> QED BY <2>1, <3>1 DEF Sums
  <2> QED BY <2>2
<1>1. ASSUME NEW T \in SUBSET S, NEW g, g = Sums(T, g), NEW s \in SUBSET T
      PROVE  g[s] = IF s = {} THEN 0
                    ELSE LET x == CHOOSE y \in s : TRUE IN WeightAt(x) + g[s \ {x}]
  BY <1>1 DEF Sums
<1>2. ASSUME NEW T \in SUBSET S PROVE \E g : g = Sums(T, g) /\ WeightOf(T) = g[T]
  BY <1>0, <1>a
<1>3. ASSUME NEW T \in SUBSET S, NEW g, g = Sums(T, g)
      PROVE  /\ g[{}] = 0
             /\ \A x \in T : g[{x}] = WeightAt(x)
             /\ i # j /\ T = S => g[T] = WeightAt(i) + WeightAt(j)
  <2>1. g[{}] = 0
    BY <1>1, <1>3
  <2>2. ASSUME NEW x \in T PROVE g[{x}] = WeightAt(x)
    <3>1. {x} \in SUBSET T /\ {x} # {} /\ {x} \ {x} = {}
      OBVIOUS
    <3> DEFINE z == CHOOSE y \in {x} : TRUE
    <3>2. g[{x}] = WeightAt(z) + g[{x} \ {z}]
      BY <1>1, <1>3, <3>1
    <3>3. WeightAt(x) \in Int
      OBVIOUS
    <3>4. z = x
      OBVIOUS
    <3> HIDE DEF z
    <3>5. {x} \ {z} = {}
      BY <3>4
    <3>6. g[{x}] = WeightAt(x) + 0
      BY <2>1, <3>2, <3>4, <3>5
    <3> QED BY <3>3, <3>6
  <2>3. ASSUME i # j, T = S PROVE g[T] = WeightAt(i) + WeightAt(j)
    <3> DEFINE x == CHOOSE y \in T : TRUE
    <3>1. x \in T /\ T # {}
      BY <2>3
    <3>2. g[T] = WeightAt(x) + g[T \ {x}]
      BY <1>1, <1>3, <3>1
    <3> HIDE DEF x
    <3>3. CASE x = i
      <4>1. T \ {x} = {j} /\ j \in T
        BY <2>3, <3>3
      <4>2. g[T \ {x}] = WeightAt(j)
        BY <2>2, <4>1
      <4> QED BY <3>2, <3>3, <4>2
    <3>4. CASE x = j
      <4>1. T \ {x} = {i} /\ i \in T
        BY <2>3, <3>4
      <4>2. g[T \ {x}] = WeightAt(i)
        BY <2>2, <4>1
      <4> QED BY <3>2, <3>4, <4>2
    <3> QED BY <2>3, <3>1, <3>3, <3>4
  <2> QED BY <2>1, <2>2, <2>3
<1> QED
  <2>1. {} \in SUBSET S /\ {i} \in SUBSET S /\ S \in SUBSET S /\ i \in {i}
    OBVIOUS
  <2>2. WeightOf({}) = 0
    BY <1>2, <1>3, <2>1
  <2>3. WeightOf({i}) = WeightAt(i)
    BY <1>2, <1>3, <2>1
  <2>4. i # j => WeightOf(S) = WeightAt(i) + WeightAt(j)
    BY <1>2, <1>3, <2>1
  <2> QED BY <2>2, <2>3, <2>4

(* Events are learnt in the order of the clock. *)
InOrder ==
    \A i, j \in DOMAIN events : i < j => events[i].at <= events[j].at

(* A later event weighs as much or more. *)
LEMMA WeightsGrow ==
    ASSUME NEW s \in Int, NEW t \in Int, s <= t, t <= now, now \in Int
    PROVE  /\ DecayWeight(s) \in Nat /\ DecayWeight(t) \in Nat
           /\ DecayWeight(s) <= DecayWeight(t)
BY ScoresAssumption DEF DecayWeight

(* Rounding down keeps the order. *)
LEMMA SharesGrow ==
    ASSUME NEW a \in Nat, NEW b \in Nat, a <= b, NEW c \in Nat, NEW n \in Nat \ {0}
    PROVE  /\ (c * a) \div n \in Int /\ (c * b) \div n \in Int
           /\ (c * a) \div n <= (c * b) \div n
<1>1. c * a \in Int /\ c * b \in Int /\ c * a <= c * b
  OBVIOUS
<1> DEFINE x == c * a
           y == c * b
<1>2. x \in Int /\ y \in Int /\ x <= y
  BY <1>1
<1> HIDE DEF x, y
<1>3. x \div n <= y \div n /\ x \div n \in Int /\ y \div n \in Int
  BY <1>2
<1> QED BY <1>3 DEF x, y

(* What a score takes from latency and adds for trust and transport, without
   events that tell a latency. *)
LatencyPart(p) == (2 * DecaySpan * Handshake[p]) \div 10

Bonus(p) ==
    LET unit == 2 * DecaySpan
        transport == IF "UDP_BLOCKED" \notin RecentFailures THEN 0
                     ELSE IF p \in Tcp THEN 8 * unit
                     ELSE IF p \in Udp THEN -12 * unit ELSE 0
        tls == IF "TLS_BLOCKED" \in RecentFailures /\ p \in Fingerprinted
               THEN 3 * unit ELSE 0
    IN  (unit * Trust[p]) \div 5 + transport + tls

Share(p, all, won) ==
    IF all > 0 THEN (100 * (2 * DecaySpan) * won) \div all ELSE 2 * DecaySpan * Ewma[p]

(* The score of a profile without latencies, by the weights of its events. *)
LEMMA ScoreOf ==
    ASSUME NEW p \in Profiles, NEW all \in Nat, NEW won \in Nat, Timed(p) = {},
           WeightOf({}) = 0, WeightOf(EventsOf(p)) = all, WeightOf(Wins(p)) = won
    PROVE  Score(p) = Share(p, all, won) - LatencyPart(p)
                        - (10 * (all - won) + 5 * (2 * DecaySpan) * Fails[p]) + Bonus(p)
<1> DEFINE unit == 2 * DecaySpan
           transport == IF "UDP_BLOCKED" \notin RecentFailures THEN 0
                     ELSE IF p \in Tcp THEN 8 * unit
                     ELSE IF p \in Udp THEN -12 * unit ELSE 0
           tls == IF "TLS_BLOCKED" \in RecentFailures /\ p \in Fingerprinted
                  THEN 3 * unit ELSE 0
           trust == (unit * Trust[p]) \div 5
           failing == 10 * (all - won) + 5 * unit * Fails[p]
           share == Share(p, all, won)
<1>1. Score(p) = share - LatencyPart(p) - failing + trust + transport + tls
  BY DEF Score, Share, LatencyPart
<1>2. Bonus(p) = trust + transport + tls
  BY DEF Bonus
<1>3. DecaySpan \in Nat /\ Ewma[p] \in Int /\ Handshake[p] \in Int /\ Fails[p] \in Int /\ Trust[p] \in Int
  BY ScoresAssumption
<1>4. unit \in Nat
  BY <1>3
<1>5. transport \in Int /\ tls \in Int
  BY <1>4
<1>6. trust \in Int
  <2>1. unit * Trust[p] \in Int
    BY <1>3, <1>4
  <2> HIDE DEF unit
  <2> QED BY <2>1
<1>7. failing \in Int
  <2>1. unit * Fails[p] \in Int
    BY <1>3, <1>4
  <2> QED BY <1>3
<1>8. share \in Int
  <2>1. 100 * unit * won \in Nat /\ unit * Ewma[p] \in Int
    BY <1>3, <1>4
  <2> DEFINE total == 100 * unit * won
  <2> HIDE DEF unit
  <2> QED BY <2>1 DEF Share, unit
<1>9. LatencyPart(p) \in Int
  <2>1. unit * Handshake[p] \in Int
    BY <1>3, <1>4
  <2> QED BY <2>1 DEF LatencyPart
<1> HIDE DEF transport, tls, trust, failing, share
<1>10. Score(p) = share - LatencyPart(p) - failing + Bonus(p)
  BY <1>1, <1>2, <1>5, <1>6, <1>7, <1>8, <1>9
<1> QED BY <1>10 DEF share, failing

(* What is kept of a list in order that took one more, later than all, is in order. *)
LEMMA KeptInOrder ==
    ASSUME NEW s \in Seq(Event), NEW e \in Event, NEW n \in Nat \ {0}, NEW u,
           u = LastOf(Append(s, e), n),
           \A i, j \in DOMAIN s : i < j => s[i].at <= s[j].at,
           \A i \in DOMAIN s : s[i].at <= e.at
    PROVE  \A i, j \in DOMAIN u : i < j => u[i].at <= u[j].at
<1> DEFINE t == Append(s, e)
           from == IF Len(t) > n THEN Len(t) - n + 1 ELSE 1
<1>1. /\ t \in Seq(Event) /\ Len(t) = Len(s) + 1 /\ Len(s) \in Nat /\ DOMAIN s = 1 .. Len(s)
      /\ \A i \in 1 .. Len(s) : t[i] = s[i]
      /\ t[Len(s) + 1] = e
  OBVIOUS
<1>2. u = SubSeq(t, from, Len(t))
  BY DEF LastOf
<1> HIDE DEF t
<1>3. from \in 1 .. Len(t) /\ Len(t) \in Nat
  BY <1>1
<1> HIDE DEF from
<1>4. /\ Len(u) = Len(t) - from + 1 /\ DOMAIN u = 1 .. Len(u)
      /\ \A i \in 1 .. Len(u) : u[i] = t[from + i - 1]
  BY <1>1, <1>2, <1>3
<1>5. ASSUME NEW i \in DOMAIN u, NEW j \in DOMAIN u, i < j PROVE u[i].at <= u[j].at
  <2> DEFINE a == from + i - 1
             b == from + j - 1
  <2>1. /\ a \in 1 .. Len(s) /\ a < b /\ b \in 1 .. Len(s) + 1
        /\ u[i] = t[a] /\ u[j] = t[b]
    <3>1. i \in 1 .. Len(u) /\ j \in 1 .. Len(u) /\ Len(u) = Len(t) - from + 1 /\ i < j
      BY <1>4, <1>5
    <3>2. u[i] = t[a] /\ u[j] = t[b]
      BY <1>4, <3>1
    <3>3. Len(s) \in Nat /\ Len(t) = Len(s) + 1 /\ from \in 1 .. Len(t)
      BY <1>1, <1>3
    <3> QED BY <3>1, <3>2, <3>3
  <2> HIDE DEF a, b
  <2>2. t[a] = s[a] /\ a \in DOMAIN s
    BY <1>1, <2>1
  <2>3. CASE b = Len(s) + 1
    BY <1>1, <2>1, <2>2, <2>3
  <2>4. CASE b \in 1 .. Len(s)
    BY <1>1, <2>1, <2>2, <2>4
  <2> QED BY <1>1, <2>1, <2>3, <2>4
<1> QED BY <1>5

LEMMA AttemptInOrder ==
    ASSUME Inv, InOrder, NEW p \in Profiles, NEW success \in BOOLEAN, NEW latency \in Nat,
           NEW failure \in Failures \cup {"none"}, RecordAttempt(p, success, latency, failure)
    PROVE  InOrder'
<1> DEFINE e == [at |-> now, profile |-> p, success |-> success, latency |-> latency,
                 failure |-> failure]
<1>1. CASE ~enabled
  BY <1>1 DEF RecordAttempt, InOrder
<1>2. CASE enabled
  <2>1. e \in Event /\ events \in Seq(Event)
    BY DEF Inv, TypeOK, Event
  <2>2. events' = LastOf(Append(events, e), Window)
    BY <1>2 DEF RecordAttempt
  <2>3. e.at = now
    OBVIOUS
  <2> HIDE DEF e
  <2>4. /\ \A i, j \in DOMAIN events : i < j => events[i].at <= events[j].at
        /\ \A i \in DOMAIN events : events[i].at <= e.at
    BY <2>3 DEF Inv, Cooled, InOrder
  <2> HIDE DEF Inv, InOrder
  <2>5. PICK u : u = LastOf(Append(events, e), Window)
    OBVIOUS
  <2>6. \A i, j \in DOMAIN u : i < j => u[i].at <= u[j].at
    BY <2>1, <2>4, <2>5, KeptInOrder
  <2> QED BY <2>2, <2>5, <2>6 DEF InOrder
<1> QED BY <1>1, <1>2

LEMMA StepInOrder == Inv /\ InOrder /\ [Next]_vars => InOrder'
<1> SUFFICES ASSUME Inv, InOrder, [Next]_vars PROVE InOrder'
  OBVIOUS
<1>1. CASE AttemptSucceeds
  <2>1. PICK latency \in Latencies : RecordAttempt(pending[1], TRUE, latency, "none")
    BY <1>1 DEF AttemptSucceeds
  <2>2. pending[1] \in Profiles
    BY <1>1, RestOfRanking DEF AttemptSucceeds, Inv
  <2> QED BY <2>1, <2>2, AttemptInOrder
<1>2. CASE AttemptFails
  <2>1. PICK failure \in Failures : RecordAttempt(pending[1], FALSE, 0, failure)
    BY <1>2 DEF AttemptFails
  <2>2. pending[1] \in Profiles
    BY <1>2, RestOfRanking DEF AttemptFails, Inv
  <2> QED BY <2>1, <2>2, AttemptInOrder
<1>3. CASE Reset
  BY <1>3 DEF Reset, InOrder
<1>4. CASE UNCHANGED events
  BY <1>4 DEF InOrder
<1> QED BY <1>1, <1>2, <1>3, <1>4 DEF Next, Select, SetEnabled, Pass, vars

(* One win and one failure: what the weights and the score are. *)
LEMMA ScoreOfTwo ==
    ASSUME NEW p \in Profiles, NEW won \in DOMAIN events, NEW lost \in DOMAIN events,
           EventsOf(p) = {won, lost}, events[won].success, ~events[lost].success,
           Timed(p) = {}, WeightAt(won) \in Nat, WeightAt(lost) \in Nat
    PROVE  Score(p) = Share(p, WeightAt(won) + WeightAt(lost), WeightAt(won)) - LatencyPart(p)
                        - (10 * WeightAt(lost) + 5 * (2 * DecaySpan) * Fails[p]) + Bonus(p)
<1> DEFINE w == WeightAt(won)
           l == WeightAt(lost)
<1>1. won # lost /\ Wins(p) = {won}
  BY DEF Wins
<1>2. WeightOf({}) = 0 /\ WeightOf(Wins(p)) = w /\ WeightOf(EventsOf(p)) = w + l
  <2>1. WeightAt(won) \in Int /\ WeightAt(lost) \in Int
    OBVIOUS
  <2>2. /\ WeightOf({}) = 0 /\ WeightOf({won}) = WeightAt(won)
        /\ WeightOf({won, lost}) = WeightAt(won) + WeightAt(lost)
    BY <1>1, <2>1, WeightOfTwo
  <2> QED BY <1>1, <2>2
<1>3. w \in Nat /\ l \in Nat /\ w + l \in Nat
  OBVIOUS
<1> HIDE DEF w, l
<1>4. Score(p) = Share(p, w + l, w) - LatencyPart(p)
                   - (10 * ((w + l) - w) + 5 * (2 * DecaySpan) * Fails[p]) + Bonus(p)
  BY <1>2, <1>3, ScoreOf
<1>5. (w + l) - w = l
  BY <1>3
<1> QED BY <1>4, <1>5 DEF w, l

LEMMA Recent == Inv /\ InOrder => RecentCountsMore
<1> SUFFICES ASSUME Inv, InOrder, NEW p \in Profiles, NEW q \in Profiles, Alike(p, q),
                    Timed(p) = {}, Timed(q) = {},
                    NEW i \in EventsOf(p), NEW j \in EventsOf(p),
                    NEW k \in EventsOf(q), NEW l \in EventsOf(q),
                    EventsOf(p) = {i, j}, EventsOf(q) = {k, l},
                    events[i].success, ~events[j].success, i < j,
                    ~events[k].success, events[l].success, k < l,
                    events[i].at = events[k].at, events[j].at = events[l].at
             PROVE  Score(p) <= Score(q)
  BY DEF RecentCountsMore
<1> DEFINE old == WeightAt(i)
           new == WeightAt(j)
<1>1. i \in DOMAIN events /\ j \in DOMAIN events /\ k \in DOMAIN events /\ l \in DOMAIN events
  BY DEF EventsOf
<1>2. WeightAt(k) = old /\ WeightAt(l) = new
  BY DEF WeightAt
<1>3. old \in Nat /\ new \in Nat /\ old <= new
  <2>1. events[i] \in Event /\ events[j] \in Event /\ now \in Int
    BY <1>1 DEF Inv, TypeOK
  <2>2. events[i].at \in Int /\ events[j].at \in Int
    BY <2>1 DEF Event
  <2>3. events[i].at <= events[j].at /\ events[j].at <= now
    BY <1>1 DEF Inv, Cooled, InOrder
  <2> QED BY <2>1, <2>2, <2>3, WeightsGrow DEF WeightAt
<1> DEFINE all == old + new
           fails == 5 * (2 * DecaySpan) * Fails[p]
<1>4. Score(p) = Share(p, all, old) - LatencyPart(p) - (10 * new + fails) + Bonus(p)
  BY <1>1, <1>3, ScoreOfTwo
<1>5. Score(q) = Share(q, new + old, new) - LatencyPart(q)
                   - (10 * old + 5 * (2 * DecaySpan) * Fails[q]) + Bonus(q)
  <2>1. WeightAt(l) \in Nat /\ WeightAt(k) \in Nat
    BY <1>2, <1>3
  <2> HIDE DEF old, new
  <2>2. Score(q) = Share(q, WeightAt(l) + WeightAt(k), WeightAt(l)) - LatencyPart(q)
                     - (10 * WeightAt(k) + 5 * (2 * DecaySpan) * Fails[q]) + Bonus(q)
    BY <1>1, <2>1, {l, k} = {k, l}, ScoreOfTwo
  <2> QED BY <1>2, <2>2
<1>6. /\ Ewma[p] = Ewma[q] /\ Handshake[p] = Handshake[q] /\ Fails[p] = Fails[q]
      /\ Trust[p] = Trust[q] /\ LatencyPart(p) = LatencyPart(q)
  BY DEF Alike, LatencyPart
<1>7. Bonus(p) = Bonus(q)
  BY <1>6 DEF Alike, Bonus
<1>8. /\ Share(p, all, old) \in Int /\ Share(q, all, new) \in Int
      /\ Share(p, all, old) <= Share(q, all, new)
  <2> DEFINE c == 100 * (2 * DecaySpan)
  <2>1. c \in Nat /\ DecaySpan \in Nat /\ Ewma[p] \in Int
    BY ScoresAssumption
  <2>2. (2 * DecaySpan) * Ewma[p] \in Int
    BY <2>1
  <2> HIDE DEF old, new, c
  <2>3. CASE all > 0
    <3>1. all \in Nat \ {0}
      BY <1>3, <2>3
    <3> HIDE DEF all
    <3>2. /\ (c * old) \div all \in Int /\ (c * new) \div all \in Int
          /\ (c * old) \div all <= (c * new) \div all
      BY <1>3, <2>1, <3>1, SharesGrow
    <3> QED BY <2>3, <3>2 DEF Share, c
  <2>4. CASE ~(all > 0)
    BY <1>6, <2>2, <2>4 DEF Share
  <2> QED BY <2>3, <2>4
<1>9. LatencyPart(p) \in Int /\ Bonus(p) \in Int /\ fails \in Int
  <2>1. /\ DecaySpan \in Nat /\ Handshake[p] \in Int /\ Trust[p] \in Int /\ Fails[p] \in Int
    BY ScoresAssumption
  <2> DEFINE unit == 2 * DecaySpan
  <2>2. unit \in Nat
    BY <2>1
  <2> HIDE DEF unit
  <2>3. unit * Handshake[p] \in Int /\ unit * Trust[p] \in Int /\ 5 * unit * Fails[p] \in Int
    BY <2>1, <2>2
  <2>4. (unit * Handshake[p]) \div 10 \in Int /\ (unit * Trust[p]) \div 5 \in Int
    <3> DEFINE a == unit * Handshake[p]
               b == unit * Trust[p]
    <3>1. a \in Int /\ b \in Int
      BY <2>3
    <3> HIDE DEF a, b
    <3>2. a \div 10 \in Int /\ b \div 5 \in Int
      BY <3>1
    <3> QED BY <3>2 DEF a, b
  <2>5. LatencyPart(p) \in Int /\ fails \in Int
    BY <2>3, <2>4 DEF LatencyPart, unit
  <2>6. Bonus(p) \in Int
    <3> DEFINE trust == (unit * Trust[p]) \div 5
    <3>1. trust \in Int
      BY <2>4
    <3>2. Bonus(p) = trust + (IF "UDP_BLOCKED" \notin RecentFailures THEN 0
                     ELSE IF p \in Tcp THEN 8 * unit
                     ELSE IF p \in Udp THEN -12 * unit ELSE 0)
               + (IF "TLS_BLOCKED" \in RecentFailures /\ p \in Fingerprinted
                  THEN 3 * unit ELSE 0)
      BY DEF Bonus, unit
    <3> HIDE DEF trust
    <3> QED BY <2>2, <3>1, <3>2
  <2> QED BY <2>5, <2>6
<1> DEFINE before == Share(p, all, old)
           after == Share(q, all, new)
<1>10. /\ Score(p) = before - LatencyPart(p) - (10 * new + fails) + Bonus(p)
       /\ Score(q) = after - LatencyPart(p) - (10 * old + fails) + Bonus(p)
  <2>1. new + old = all
    BY <1>3
  <2> QED BY <1>4, <1>5, <1>6, <1>7, <2>1
<1>11. before \in Int /\ after \in Int /\ before <= after
  BY <1>8
<1> HIDE DEF before, after, old, new, fails
<1> QED BY <1>3, <1>9, <1>10, <1>11

(* adaptive.go lines 223 to 234: for any profiles, windows and spans, of two
   profiles alike with one success and one failure each, at the same two times,
   the one that failed last never scores better. *)
THEOREM RecentFailuresCount == Spec => []RecentCountsMore
<1>1. Init => InOrder
  BY DEF Init, InOrder
<1> QED BY <1>1, StepInOrder, AlwaysInv, Recent, PTL DEF Spec
=============================================================================
