----------------------- MODULE OrchestratorClientProofs -----------------------
(* Proofs about OrchestratorClient: the types, with them that a selection is
   one of its request's candidates, and that an answer credited to the
   orchestrator is one to this request; for any profiles, rate and number of
   consultations, a child process or a TCP peer. *)
EXTENDS OrchestratorClient, TLAPS

Selections == Profiles \cup {NoProfile}

Asks ==
    [pc : {"idle", "waiting"}, id : Nat, candidates : SUBSET Profiles, policy : Selections,
     recent : Nat, selected : Selections, source : {"none", "policy", "orchestrator"},
     answer : Nat]

Answers == [for : Nat, body : Bodies]

(* What is asked and answered; a policy always offers a candidate. *)
Typed ==
    /\ ask \in Asks
    /\ answers \in Seq(Answers)
    /\ ask.pc = "waiting" => ask.policy \in ask.candidates

Inv == TypeOK /\ Typed /\ OwnAnswer

USE RateAssumption

-----------------------------------------------------------------------------
LEMMA InitInv == Init => Inv
BY DEF Init, Inv, TypeOK, Typed, OwnAnswer, Nothing, Asks, Selections

(* The result of a consultation differs from it in four fields. *)
Settling(r, p, s, n) ==
    [r EXCEPT !.pc = "idle", !.selected = p, !.source = s, !.answer = n]

LEMMA Settled ==
    ASSUME NEW r \in Asks, NEW p \in Selections,
           NEW s \in {"none", "policy", "orchestrator"}, NEW n \in Nat
    PROVE  /\ Settling(r, p, s, n) \in Asks
           /\ Settling(r, p, s, n).pc = "idle" /\ Settling(r, p, s, n).selected = p
           /\ Settling(r, p, s, n).source = s /\ Settling(r, p, s, n).answer = n
           /\ Settling(r, p, s, n).candidates = r.candidates
           /\ Settling(r, p, s, n).id = r.id
<1> DEFINE t1 == [r EXCEPT !.pc = "idle"]
           t2 == [t1 EXCEPT !.selected = p]
           t3 == [t2 EXCEPT !.source = s]
           t4 == [t3 EXCEPT !.answer = n]
<1>1. t1 \in Asks /\ t1.pc = "idle" /\ t1.candidates = r.candidates /\ t1.id = r.id
  BY DEF Asks
<1> HIDE DEF t1
<1>2. t2 \in Asks /\ t2.pc = t1.pc /\ t2.selected = p /\ t2.candidates = t1.candidates
      /\ t2.id = t1.id
  BY <1>1 DEF Asks
<1> HIDE DEF t2
<1>3. t3 \in Asks /\ t3.pc = t2.pc /\ t3.selected = t2.selected /\ t3.source = s
      /\ t3.candidates = t2.candidates /\ t3.id = t2.id
  BY <1>2 DEF Asks
<1> HIDE DEF t3
<1>4. t4 \in Asks /\ t4.pc = t3.pc /\ t4.selected = t3.selected /\ t4.source = t3.source
      /\ t4.answer = n
      /\ t4.candidates = t3.candidates /\ t4.id = t3.id
  BY <1>3 DEF Asks
<1>5. Settling(r, p, s, n) = t4
  BY DEF Settling, t1, t2, t3, t4
<1> HIDE DEF t4
<1> QED BY <1>1, <1>2, <1>3, <1>4, <1>5

(* What a consultation may come to. *)
Ends(r) ==
    /\ r \in Asks /\ r.pc = "idle" /\ r.selected \in r.candidates
    /\ r.source \in {"policy", "orchestrator"}
    /\ r.source = "orchestrator" => r.answer = r.id

LEMMA PolicyEnds == ASSUME Inv, ask.pc = "waiting" PROVE Ends(UsePolicy)
<1>1. ask \in Asks /\ ask.policy \in Selections /\ ask.policy \in ask.candidates
  BY DEF Inv, Typed, Asks
<1>2. UsePolicy = Settling(ask, ask.policy, "policy", 0)
  BY DEF UsePolicy, Settling
<1> QED BY <1>1, <1>2, Settled DEF Ends

(* A safe target is a candidate, and an accepted answer has the request's
   number. *)
LEMMA OutcomeEnds ==
    ASSUME Inv, ask.pc = "waiting", NEW a \in Answers, Accept(a) PROVE Ends(Outcome(a))
<1>1. CASE ~Safe(a.body) \/ a.body.action \in {"import_bundle", "activate_mesh"}
  BY <1>1, PolicyEnds DEF Outcome
<1>2. CASE ~(~Safe(a.body) \/ a.body.action \in {"import_bundle", "activate_mesh"})
  <2> DEFINE p == IF a.body.action = "switch_profile" THEN a.body.target ELSE ask.policy
  <2>1. p \in ask.candidates /\ p \in Selections
    BY <1>2 DEF Safe, Inv, Typed, Asks, Selections
  <2>2. a.for \in Nat /\ a.for = ask.id /\ ask \in Asks
    BY DEF Answers, Accept, Inv, Typed
  <2>3. Outcome(a) = UseAnswer(a, p)
    BY <1>2 DEF Outcome
  <2> HIDE DEF p
  <2>4. Outcome(a) = Settling(ask, p, "orchestrator", a.for)
    BY <2>3 DEF UseAnswer, Settling
  <2>5. PICK r \in Asks, n \in Nat : r = ask /\ n = a.for
    BY <2>2
  <2>6. PICK s \in Asks : s = Settling(r, p, "orchestrator", n)
    BY <2>1, Settled
  <2>7. /\ s.pc = "idle" /\ s.selected = p /\ s.source = "orchestrator" /\ s.answer = n
        /\ s.candidates = r.candidates /\ s.id = r.id
    BY <2>1, <2>6, Settled
  <2> QED BY <2>1, <2>2, <2>4, <2>5, <2>6, <2>7 DEF Ends
<1> QED BY <1>1, <1>2

(* A result that is allowed keeps the invariant, whatever becomes of the
   connection and the answers that are left. *)
LEMMA EndKeeps ==
    ASSUME Inv, Ends(ask'), conn' \in {"none", "open", "closed"},
           peer' \in {"absent", "up", "gone"}, answers' \in Seq(Answers),
           UNCHANGED <<next, requests, history>>
    PROVE  Inv'
<1>1. TypeOK'
  BY DEF Inv, TypeOK, Ends, Asks, Selections
<1>2. Typed' /\ OwnAnswer'
  BY DEF Typed, OwnAnswer, Ends
<1> QED BY <1>1, <1>2 DEF Inv

LEMMA ClosedTyped ==
    ASSUME Inv, CloseClient
    PROVE  conn' \in {"none", "open", "closed"} /\ peer' \in {"absent", "up", "gone"}
BY DEF CloseClient, Inv, TypeOK

LEMMA NewAskTyped ==
    ASSUME NEW id \in Nat, NEW candidates \in SUBSET Profiles,
           NEW policy \in Selections, NEW recent \in Nat
    PROVE  [pc |-> "waiting", id |-> id, candidates |-> candidates, policy |-> policy,
            recent |-> recent, selected |-> NoProfile, source |-> "none",
            answer |-> 0] \in Asks
<1>1. NoProfile \in Selections
  BY DEF Selections
<1> QED BY <1>1 DEF Asks

LEMMA ConsultKeeps == ASSUME Inv, Consult PROVE Inv'
<1>1. PICK candidates \in SUBSET Profiles : \E policy \in candidates :
        LET new == [Nothing EXCEPT !.id = next + 1, !.policy = policy,
                      !.candidates = candidates, !.recent = history]
        IN  IF Reachable
            THEN /\ ask' = [new EXCEPT !.pc = "waiting"]
                 /\ requests' = Append(requests, next + 1)
                 /\ conn' = "open" /\ UNCHANGED peer
            ELSE /\ ask' = [new EXCEPT !.selected = policy, !.source = "policy"]
                 /\ CloseClient /\ UNCHANGED requests
  BY DEF Consult
<1>2. PICK policy \in candidates :
        LET new == [Nothing EXCEPT !.id = next + 1, !.policy = policy,
                      !.candidates = candidates, !.recent = history]
        IN  IF Reachable
            THEN /\ ask' = [new EXCEPT !.pc = "waiting"]
                 /\ requests' = Append(requests, next + 1)
                 /\ conn' = "open" /\ UNCHANGED peer
            ELSE /\ ask' = [new EXCEPT !.selected = policy, !.source = "policy"]
                 /\ CloseClient /\ UNCHANGED requests
  BY <1>1
<1>3. policy \in Profiles /\ next' = next + 1 /\ next' \in 1 .. MaxConsults
      /\ history \in Nat /\ UNCHANGED <<answers, history>>
  BY DEF Consult, Inv, TypeOK
<1>4. CASE Reachable
  <2>1. ask' = [pc |-> "waiting", id |-> next + 1, candidates |-> candidates,
                policy |-> policy, recent |-> history, selected |-> NoProfile,
                source |-> "none", answer |-> 0]
    BY <1>2, <1>4 DEF Nothing
  <2>2. ask' \in Asks /\ ask'.policy \in ask'.candidates /\ ask'.source = "none"
    <3>1. next + 1 \in Nat /\ history \in Nat /\ candidates \in SUBSET Profiles
          /\ policy \in Selections /\ NoProfile \in Selections
      BY <1>3 DEF Selections
    <3>2. PICK id \in Nat : id = next + 1
      BY <3>1
    <3>3. [pc |-> "waiting", id |-> id, candidates |-> candidates, policy |-> policy,
           recent |-> history, selected |-> NoProfile, source |-> "none",
           answer |-> 0] \in Asks
      BY <3>1, NewAskTyped
    <3>4. ask' \in Asks
      BY <2>1, <3>2, <3>3
    <3> QED BY <2>1, <3>4
  <2>3. requests' \in Seq(1 .. MaxConsults) /\ conn' = "open" /\ peer' = peer
    <3>1. requests' = Append(requests, next + 1) /\ conn' = "open" /\ peer' = peer
      BY <1>2, <1>4
    <3>2. requests \in Seq(1 .. MaxConsults) /\ next + 1 \in 1 .. MaxConsults
      BY <1>3 DEF Inv, TypeOK
    <3>3. Append(requests, next + 1) \in Seq(1 .. MaxConsults)
      BY <3>2
    <3> QED BY <3>1, <3>3
  <2> QED BY <1>3, <2>2, <2>3 DEF Inv, TypeOK, Typed, OwnAnswer, Asks, Selections
<1>5. CASE ~Reachable
  <2>1. ask' = [pc |-> "idle", id |-> next + 1, candidates |-> candidates,
                policy |-> policy, recent |-> history, selected |-> policy,
                source |-> "policy", answer |-> 0]
    BY <1>2, <1>5 DEF Nothing
  <2>2. Ends(ask')
    BY <1>3, <2>1 DEF Ends, Asks, Selections
  <2>3. /\ conn' \in {"none", "open", "closed"} /\ peer' \in {"absent", "up", "gone"}
        /\ UNCHANGED requests
    BY <1>2, <1>5, ClosedTyped
  <2> QED BY <1>3, <2>2, <2>3 DEF Inv, TypeOK, Typed, OwnAnswer, Ends, Asks, Selections
<1> QED BY <1>4, <1>5

LEMMA ReadLineKeeps == ASSUME Inv, ReadLine PROVE Inv'
<1>1. answers' \in Seq(Answers) /\ Head(answers) \in Answers /\ ask.pc = "waiting"
  <2>1. answers \in Seq(Answers) /\ answers # <<>> /\ ask.pc = "waiting"
    BY DEF ReadLine, Inv, Typed
  <2>2. Tail(answers) \in Seq(Answers) /\ Head(answers) \in Answers /\ <<>> \in Seq(Answers)
    BY <2>1
  <2> QED BY <2>1, <2>2 DEF ReadLine
<1>2. CASE Accept(Head(answers))
  <2>1. Ends(ask') /\ UNCHANGED <<conn, peer, next, requests, history>>
    BY <1>1, <1>2, OutcomeEnds DEF ReadLine
  <2> QED BY <1>1, <2>1, EndKeeps DEF Inv, TypeOK
<1>3. CASE ~Accept(Head(answers))
  <2>1. Ends(ask') /\ CloseClient /\ UNCHANGED <<next, requests, history>>
    BY <1>1, <1>3, PolicyEnds DEF ReadLine
  <2> QED BY <1>1, <2>1, EndKeeps, ClosedTyped
<1> QED BY <1>2, <1>3

LEMMA GiveUpKeeps == ASSUME Inv, GiveUp PROVE Inv'
<1>1. Ends(ask') /\ CloseClient /\ UNCHANGED <<next, requests, answers, history>>
  BY PolicyEnds DEF GiveUp
<1> QED BY <1>1, EndKeeps, ClosedTyped DEF Inv, Typed

LEMMA RememberKeeps == ASSUME Inv, Remember PROVE Inv'
<1> DEFINE one == [ask EXCEPT !.selected = NoProfile]
<1>1. one \in Asks /\ one.pc = ask.pc /\ one.selected = NoProfile
  BY DEF Inv, Typed, Asks, Selections
<1>2. ask' = [one EXCEPT !.source = "none"]
  BY DEF Remember
<1> HIDE DEF one
<1>3. ask' \in Asks /\ ask'.pc = "idle" /\ ask'.selected = NoProfile /\ ask'.source = "none"
  BY <1>1, <1>2 DEF Remember, Asks
<1>4. history' \in 0 .. SwitchRate /\ UNCHANGED <<next, conn, peer, requests, answers>>
  BY DEF Remember, Inv, TypeOK
<1> QED BY <1>3, <1>4 DEF Inv, TypeOK, Typed, OwnAnswer, Asks, Selections

(* The orchestrator does not touch what was asked. *)
LEMMA PeerKeeps == ASSUME Inv, Answer \/ ComeUp \/ Die PROVE Inv'
<1>1. UNCHANGED <<next, ask, conn, history>> /\ peer' \in {"absent", "up", "gone"}
  BY DEF Answer, ComeUp, Die, Inv, TypeOK
<1>2. requests' \in Seq(1 .. MaxConsults) /\ answers' \in Seq(Answers)
  <2>1. CASE Answer
    <3>1. PICK body \in Bodies, twice \in BOOLEAN :
            LET a == [for |-> Head(requests), body |-> body]
            IN  answers' = answers \o (IF twice THEN <<a, a>> ELSE <<a>>)
      BY <2>1 DEF Answer
    <3> DEFINE a == [for |-> Head(requests), body |-> body]
    <3>2. a \in Answers
      BY <2>1 DEF Answer, Answers, Inv, TypeOK
    <3> HIDE DEF a
    <3>3. <<a, a>> \in Seq(Answers) /\ <<a>> \in Seq(Answers)
      BY <3>2
    <3>4. \E new \in Seq(Answers) : answers' = answers \o new
      BY <3>1, <3>3 DEF a
    <3>5. answers \in Seq(Answers) /\ requests \in Seq(1 .. MaxConsults) /\ requests # <<>>
          /\ requests' = Tail(requests)
      BY <2>1 DEF Answer, Inv, TypeOK, Typed
    <3>6. requests' \in Seq(1 .. MaxConsults)
      BY <3>5
    <3> QED BY <3>4, <3>5, <3>6
  <2>2. CASE ComeUp \/ Die
    <3>1. requests' \in {requests, <<>>} /\ answers' = answers
      BY <2>2 DEF ComeUp, Die
    <3>2. requests \in Seq(1 .. MaxConsults) /\ <<>> \in Seq(1 .. MaxConsults)
          /\ answers \in Seq(Answers)
      BY DEF Inv, TypeOK, Typed
    <3> QED BY <3>1, <3>2
  <2> QED BY <2>1, <2>2
<1> QED BY <1>1, <1>2 DEF Inv, TypeOK, Typed, OwnAnswer

LEMMA StepKeeps == ASSUME Inv, [Next]_vars PROVE Inv'
<1>1. CASE Consult BY <1>1, ConsultKeeps
<1>2. CASE ReadLine BY <1>2, ReadLineKeeps
<1>3. CASE GiveUp BY <1>3, GiveUpKeeps
<1>4. CASE Remember BY <1>4, RememberKeeps
<1>5. CASE Answer \/ ComeUp \/ Die BY <1>5, PeerKeeps
<1>6. CASE UNCHANGED vars
  BY <1>6 DEF vars, Inv, TypeOK, Typed, OwnAnswer
<1> QED BY <1>1, <1>2, <1>3, <1>4, <1>5, <1>6 DEF Next

LEMMA InvHolds == Spec => []Inv
BY InitInv, StepKeeps, PTL DEF Spec

-----------------------------------------------------------------------------
(* DecideWithFallback selects one of the candidates it was given, and every
   variable keeps its type. *)
THEOREM TypeCorrect == Spec => []TypeOK
<1>1. Inv => TypeOK BY DEF Inv
<1> QED BY <1>1, InvHolds, PTL

(* An answer to an earlier request is never taken for one to this. *)
THEOREM AnswersAreOwn == Spec => []OwnAnswer
<1>1. Inv => OwnAnswer BY DEF Inv
<1> QED BY <1>1, InvHolds, PTL
=============================================================================
