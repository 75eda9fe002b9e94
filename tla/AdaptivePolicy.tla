--------------------------- MODULE AdaptivePolicy ---------------------------
(***************************************************************************)
(* The learning state of pkg/policy/adaptive.go, the selection it makes    *)
(* with the deterministic engine of engine.go behind it, and the sequence  *)
(* of attempts an agent makes on a ranking.                                *)
(*                                                                         *)
(* Profiles are members of a set; what the importer writes about them once *)
(* and nothing updates (family, transport, fingerprint, health, trust) is  *)
(* given by constants.  Weights count in 1/DecaySpan and scores in         *)
(* 1/(2 * DecaySpan) instead of floating point.  sort.Slice is not stable, *)
(* so equal scores rank in any order.                                      *)
(***************************************************************************)
EXTENDS Integers, Sequences, FiniteSets, FiniteSetsExt

CONSTANTS
    Profiles,
    Disabled,        \* not Enabled, or ManualDisabled
    DnsDependent,    \* DNS family, or tagged dns-dependent
    Tcp, Udp,        \* by transport; the others use neither name
    Fingerprinted,   \* with a uTLS fingerprint
    HealthUntil,     \* Health.CooldownUntil, by profile
    Ewma,            \* Health.SuccessEWMA in percent, by profile
    Handshake,       \* Health.MedianHandshakeMs, by profile
    Fails,           \* Health.ConsecutiveFails, by profile
    Trust,           \* Source.TrustLevel with its default, by profile
    PolicyScore,     \* what RankProfiles computes, by profile
    Failures,        \* the normalised failure classes that occur
    Latencies,       \* latencies of a successful attempt
    Window,          \* MaxEvents (50 to 100)
    SelectionCap,    \* selections remembered (32)
    StreakLimit,     \* diversityStreakLimit (10)
    CloseScore,      \* diversityScoreDelta (5)
    CooldownSec,     \* adaptiveCooldownSeconds (60)
    DecaySpan,       \* age at which an event has decayed (300 seconds)
    Steps,           \* how far the clock may move at once
    MaxTime          \* bound: the clock stops here

ASSUME SizesAssumption ==
    /\ Window \in Nat \ {0}
    /\ SelectionCap \in Nat \ {0}
    /\ MaxTime \in Nat
    /\ CooldownSec \in Nat

ASSUME ProfilesAssumption == IsFiniteSet(Profiles)

(* The clock moves forward; a latency is a number of milliseconds. *)
ASSUME InputsAssumption == Steps \subseteq Nat /\ Latencies \subseteq Nat

(* A span of time, and what the importer writes of a profile, are numbers. *)
ASSUME ScoresAssumption ==
    /\ DecaySpan \in Nat
    /\ \A score \in {Ewma, Handshake, Fails, Trust} : score \in [Profiles -> Int]

VARIABLES
    now,         \* the clock, in seconds
    enabled,     \* adaptive mode
    events,      \* AdaptiveState.Events, oldest first
    cooldown,    \* AdaptiveState.Cooldown; 0 when absent
    selections,  \* AdaptiveState.SelectionHistory, oldest first
    pending      \* the ranking an agent is working through

vars == <<now, enabled, events, cooldown, selections, pending>>

Event ==
    [at : 0 .. MaxTime, profile : Profiles, success : BOOLEAN,
     latency : Nat, failure : Failures \cup {"none"}]

LastOf(s, n) == SubSeq(s, IF Len(s) > n THEN Len(s) - n + 1 ELSE 1, Len(s))

-----------------------------------------------------------------------------
(* Scoring *)

(* Faulty variant: old events weigh more. *)
DecayWeightReversed(at) ==
    LET age == now - at
    IN  IF age * 10 < DecaySpan THEN DecaySpan \div 10 ELSE age

(* Linear decay over five minutes, never below a tenth. *)
DecayWeight(at) ==
    LET age == now - at
        left == DecaySpan - age
    IN  IF age <= 0 THEN DecaySpan
        ELSE IF left * 10 < DecaySpan THEN DecaySpan \div 10 ELSE left

EventsOf(p) == {i \in DOMAIN events : events[i].profile = p}
Wins(p) == {i \in EventsOf(p) : events[i].success}
Timed(p) == {i \in EventsOf(p) : events[i].latency > 0}

WeightOf(S) == MapThenSumSet(LAMBDA i : DecayWeight(events[i].at), S)
LatencyOf(S) == MapThenSumSet(LAMBDA i : events[i].latency * DecayWeight(events[i].at), S)

(* The failure classes in the window; the code keeps the six latest. *)
RecentFailures == {events[i].failure : i \in DOMAIN events} \ {"none"}

Score(p) ==
    LET all == WeightOf(EventsOf(p))
        timed == WeightOf(Timed(p))
        unit == 2 * DecaySpan
        success == IF all > 0
                   THEN (100 * unit * WeightOf(Wins(p))) \div all
                   ELSE unit * Ewma[p]
        latency == IF timed > 0
                   THEN (unit * LatencyOf(Timed(p))) \div (10 * timed)
                   ELSE (unit * Handshake[p]) \div 10
        failing == 10 * (all - WeightOf(Wins(p))) + 5 * unit * Fails[p]
        transport == IF "UDP_BLOCKED" \notin RecentFailures THEN 0
                     ELSE IF p \in Tcp THEN 8 * unit
                     ELSE IF p \in Udp THEN -12 * unit ELSE 0
        tls == IF "TLS_BLOCKED" \in RecentFailures /\ p \in Fingerprinted
               THEN 3 * unit ELSE 0
    IN  success - latency - failing + (unit * Trust[p]) \div 5 + transport + tls

-----------------------------------------------------------------------------
(* Selection *)

Cooling(p) == cooldown[p] > now

(* What every ranking requires of a profile. *)
Usable == {p \in Profiles \ Disabled : HealthUntil[p] <= now}

DnsExcluded == IF "DNS_BLOCKED" \in RecentFailures THEN DnsDependent ELSE {}

Orderings(S, score) ==
    {r \in [1 .. Cardinality(S) -> S] :
       \A i, j \in DOMAIN r : i < j => r[i] # r[j] /\ score[r[i]] >= score[r[j]]}

ByScore(S) == Orderings(S, [p \in S |-> Score(p)])
ByEwma(S) == Orderings(S, [p \in S |-> Ewma[p]])
ByPolicy(S) == Orderings(S, [p \in S |-> PolicyScore[p]])

(* Faulty variant: cooldowns are not looked at. *)
AdaptiveRankingsAwake ==
    IF Usable \ DnsExcluded # {} THEN ByScore(Usable \ DnsExcluded)
    ELSE ByEwma(Usable)

(* AdaptiveState.SelectProfile: strict filtering, then without the exclusion
   of DNS profiles; empty when every usable profile is cooling. *)
AdaptiveRankings ==
    LET awake == {p \in Usable : ~Cooling(p)}
    IN  IF awake \ DnsExcluded # {} THEN ByScore(awake \ DnsExcluded)
        ELSE ByEwma(awake)

(* Faulty variant: no deterministic fallback behind the adaptive ranking. *)
RankingsAdaptiveOnly ==
    IF enabled THEN AdaptiveRankings ELSE ByPolicy(Usable)

(* Engine.SelectProfile: deterministic ranking when adaptive mode is off or
   offers nothing. *)
Rankings ==
    LET adaptive == IF enabled THEN AdaptiveRankings ELSE {<<>>}
    IN  IF adaptive = {<<>>} THEN ByPolicy(Usable) ELSE adaptive

(* The profile Engine.SelectProfile returns with a ranking. *)
Selected(r) == r[1]

(* recentSelectionStreak: how often p was selected in a row just now. *)
Streak(p) ==
    LET n == Len(selections)
    IN  Max({k \in 0 .. n : \A i \in n - k + 1 .. n : selections[i] = p})

(* What the decision names: after a long streak, a close second. *)
DecisionSelected(r) ==
    IF /\ Streak(r[1]) >= StreakLimit
       /\ Len(r) > 1
       /\ Score(r[1]) - Score(r[2]) <= 2 * DecaySpan * CloseScore
    THEN r[2] ELSE r[1]

-----------------------------------------------------------------------------
Init ==
    /\ now = 0
    /\ enabled \in BOOLEAN
    /\ events = <<>>
    /\ cooldown = [p \in Profiles |-> 0]
    /\ selections = <<>>
    /\ pending = <<>>

(* RecordAttempt: nothing is learnt while the mode is off. *)
RecordAttempt(p, success, latency, failure) ==
    IF enabled
    THEN /\ events' = LastOf(Append(events, [at |-> now, profile |-> p,
                         success |-> success, latency |-> latency,
                         failure |-> failure]), Window)
         /\ cooldown' = IF success THEN cooldown
                        ELSE [cooldown EXCEPT ![p] = now + CooldownSec]
    ELSE UNCHANGED <<events, cooldown>>

(* Faulty variant: the history grows without end. *)
RecordSelectionUnbounded(p) == selections' = Append(selections, p)

(* RecordSelection, whatever the mode. *)
RecordSelection(p) ==
    selections' = LastOf(Append(selections, p), SelectionCap)

(* An agent selects and will attempt the ranking in order. *)
Select ==
    /\ pending = <<>>
    /\ \E r \in Rankings :
         /\ r # <<>>
         /\ pending' = r
         /\ RecordSelection(Selected(r))
    /\ UNCHANGED <<now, enabled, events, cooldown>>

AttemptSucceeds ==
    /\ pending # <<>>
    /\ \E latency \in Latencies :
         RecordAttempt(pending[1], TRUE, latency, "none")
    /\ pending' = <<>>
    /\ UNCHANGED <<now, enabled, selections>>

(* The next profile is tried, unless the run has used up its attempts. *)
AttemptFails ==
    /\ pending # <<>>
    /\ \E failure \in Failures :
         RecordAttempt(pending[1], FALSE, 0, failure)
    /\ pending' \in {Tail(pending), <<>>}
    /\ UNCHANGED <<now, enabled, selections>>

(* reset-learning and ResetLearning, between two runs. *)
Reset ==
    /\ pending = <<>>
    /\ events # <<>>
    /\ events' = <<>>
    /\ cooldown' = [p \in Profiles |-> 0]
    /\ selections' = <<>>
    /\ UNCHANGED <<now, enabled, pending>>

(* Every run sets the mode from its configuration. *)
SetEnabled ==
    /\ pending = <<>>
    /\ enabled' = ~enabled
    /\ UNCHANGED <<now, events, cooldown, selections, pending>>

Pass ==
    /\ \E d \in Steps : now + d <= MaxTime /\ now' = now + d
    /\ UNCHANGED <<enabled, events, cooldown, selections, pending>>

Next ==
    \/ Select \/ AttemptSucceeds \/ AttemptFails
    \/ Reset \/ SetEnabled \/ Pass

Spec == Init /\ [][Next]_vars

-----------------------------------------------------------------------------
(* What the learning state can hold: events and selections stay within their
   windows (adaptive.go lines 148 and 174). *)
TypeOK ==
    /\ now \in 0 .. MaxTime
    /\ enabled \in BOOLEAN
    /\ events \in Seq(Event) /\ Len(events) <= Window
    /\ cooldown \in [Profiles -> 0 .. MaxTime + CooldownSec]
    /\ selections \in Seq(Profiles) /\ Len(selections) <= SelectionCap
    /\ pending \in Seq(Profiles) /\ Len(pending) <= Cardinality(Profiles)

(* adaptive.go line 338: filtering and cooldowns together never leave the
   agent without a profile while a usable one exists, whatever was learnt. *)
SelectionNeverCollapses == Usable # {} => <<>> \notin Rankings

Alike(p, q) ==
    /\ Ewma[p] = Ewma[q] /\ Handshake[p] = Handshake[q]
    /\ Fails[p] = Fails[q] /\ Trust[p] = Trust[q]
    /\ (p \in Tcp) = (q \in Tcp) /\ (p \in Udp) = (q \in Udp)
    /\ (p \in Fingerprinted) = (q \in Fingerprinted)

(* adaptive.go lines 223 to 234: of two profiles alike that each worked once
   and failed once, the one that failed more recently does not score better. *)
RecentCountsMore ==
    \A p, q \in Profiles :
      (/\ Alike(p, q) /\ Timed(p) = {} /\ Timed(q) = {}
       /\ \E i, j \in EventsOf(p), k, l \in EventsOf(q) :
            /\ EventsOf(p) = {i, j} /\ EventsOf(q) = {k, l}
            /\ events[i].success /\ ~events[j].success /\ i < j
            /\ ~events[k].success /\ events[l].success /\ k < l
            /\ events[i].at = events[k].at /\ events[j].at = events[l].at)
      => Score(p) <= Score(q)

FailedLately(p) ==
    \E i \in EventsOf(p) : ~events[i].success /\ now < events[i].at + CooldownSec

(* adaptive.go lines 169, 298 and 344: no profile with a failure younger than
   the cooldown is lined up for another attempt, whatever happened since the
   failure, unless every usable profile is cooling. *)
NoEarlyRetry ==
    [][enabled /\ pending = <<>> /\ pending' # <<>>
         => \/ \A i \in DOMAIN pending' : ~FailedLately(pending'[i])
            \/ \A p \in Usable : Cooling(p)]_vars
=============================================================================
