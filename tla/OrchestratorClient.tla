-------------------------- MODULE OrchestratorClient --------------------------
(***************************************************************************)
(* Consultations of the local orchestrator: DecideWithFallback on one      *)
(* client (client.go, fallback.go, adapter.go of pkg/orchestrator), as the *)
(* agent loop makes them poll after poll.  A request is a line to the      *)
(* orchestrator's process, an answer a line from it.                       *)
(*                                                                         *)
(* The orchestrator is external, a child process or a TCP peer: it answers *)
(* each request once, twice or never, late or in time, and may die.  An    *)
(* answer carries the number of the request it answers and a body: a       *)
(* target to switch to or to cool down, an action without target, a result *)
(* that is not valid, or an error (a line that does not decode counts as   *)
(* one).                                                                   *)
(***************************************************************************)
EXTENDS Integers, Sequences, FiniteSets

CONSTANTS
    Profiles,        \* all profiles
    NoProfile,       \* answers without a target
    OwnProcess,      \* whether the client started the orchestrator
    SwitchRate,      \* GuardConfig.MaxSwitchRate (3)
    MaxConsults      \* bound: consultations begun

ASSUME RateAssumption == SwitchRate \in Nat \ {0} /\ MaxConsults \in Nat

VARIABLES
    next,       \* the client's request counter
    ask,        \* the consultation going on, or the last one
    conn,       \* the client's pipes, or its lazy TCP connection
    peer,       \* the orchestrator
    requests,   \* lines it has not read
    answers,    \* lines the client has not read
    history     \* how many RecentSwitches the caller will pass, SwitchRate
                \* standing for any number that reaches it

vars == <<next, ask, conn, peer, requests, answers, history>>

Bodies ==
    [action : {"switch_profile", "cooldown_profile"}, target : Profiles]
      \cup [action : {"hold_current", "import_bundle", "activate_mesh",
                      "invalid", "rpc_error"}, target : {NoProfile}]

(* A request: its number, the ranking's profiles, the policy's selection and
   the length of the history. *)
Nothing == [pc |-> "idle", id |-> 0, candidates |-> {}, policy |-> NoProfile,
            recent |-> 0, selected |-> NoProfile, source |-> "none", answer |-> 0]

Init ==
    /\ next = 0
    /\ ask = Nothing
    /\ conn = IF OwnProcess THEN "open" ELSE "none"
    /\ peer \in IF OwnProcess THEN {"up"} ELSE {"absent", "up"}
    /\ requests = <<>>
    /\ answers = <<>>
    /\ history = 0

-----------------------------------------------------------------------------
(* What DecideWithFallback returns *)

UsePolicy ==
    [ask EXCEPT !.pc = "idle", !.selected = ask.policy, !.source = "policy",
                !.answer = 0]

UseAnswer(a, p) ==
    [ask EXCEPT !.pc = "idle", !.selected = p, !.source = "orchestrator",
                !.answer = a.for]

(* EnforceSafety with ValidateResponse: known action and target, and no
   switch once the history has SwitchRate entries.  The candidates are enabled
   and the callers never forbid UDP. *)
Safe(body) ==
    /\ body.action \notin {"invalid", "rpc_error"}
    /\ body.action \in {"switch_profile", "cooldown_profile"}
         => body.target \in ask.candidates
    /\ body.action = "switch_profile" => ask.recent < SwitchRate

(* Faulty variant: hold_current returns the target it does not have. *)
OutcomeOfTarget(a) ==
    IF ~Safe(a.body) \/ a.body.action \in {"import_bundle", "activate_mesh"}
    THEN UsePolicy ELSE UseAnswer(a, a.body.target)

(* hold_current and cooldown_profile count as the orchestrator's decision for
   the policy's selection; the actions that are not supported do not. *)
Outcome(a) ==
    IF ~Safe(a.body) \/ a.body.action \in {"import_bundle", "activate_mesh"}
    THEN UsePolicy
    ELSE UseAnswer(a, IF a.body.action = "switch_profile"
                      THEN a.body.target ELSE ask.policy)

-----------------------------------------------------------------------------
(* Decide *)

(* Close: a TCP connection is never dialled again, pipes lead to a process
   that was killed. *)
CloseClient ==
    /\ conn' = IF conn = "none" THEN "none" ELSE "closed"
    /\ peer' = IF OwnProcess THEN "gone" ELSE peer

(* The first request dials; writing to a client that was closed, or to an
   orchestrator that has gone, fails at once. *)
Reachable == conn # "closed" /\ peer = "up"

Consult ==
    /\ ask.pc = "idle"
    /\ next < MaxConsults
    /\ next' = next + 1
    /\ \E candidates \in SUBSET Profiles : \E policy \in candidates :
         /\ Cardinality(candidates) > 1
         /\ LET new == [Nothing EXCEPT !.id = next + 1, !.policy = policy,
                          !.candidates = candidates, !.recent = history]
            IN  IF Reachable
                THEN /\ ask' = [new EXCEPT !.pc = "waiting"]
                     /\ requests' = Append(requests, next + 1)
                     /\ conn' = "open" /\ UNCHANGED peer
                ELSE /\ ask' = [new EXCEPT !.selected = policy, !.source = "policy"]
                     /\ CloseClient /\ UNCHANGED requests
    /\ UNCHANGED <<answers, history>>

(* Faulty variant: any answer is taken for the one awaited. *)
AcceptAny(a) == a.body.action # "rpc_error"

(* The envelope: the number awaited, and no error in it. *)
Accept(a) == a.for = ask.id /\ a.body.action # "rpc_error"

(* A line arrives in time; an error closes the client.  The TCP client has a
   new buffer for each request: what else had arrived may be lost. *)
ReadLine ==
    /\ ask.pc = "waiting"
    /\ answers # <<>>
    /\ \/ answers' = Tail(answers)
       \/ ~OwnProcess /\ answers' = <<>>
    /\ IF Accept(Head(answers))
       THEN ask' = Outcome(Head(answers)) /\ UNCHANGED <<conn, peer>>
       ELSE ask' = UsePolicy /\ CloseClient
    /\ UNCHANGED <<next, requests, history>>

(* Faulty variant: there is no timeout, only the end of the output. *)
GiveUpOnEnd ==
    /\ ask.pc = "waiting"
    /\ peer = "gone"
    /\ ask' = UsePolicy
    /\ CloseClient
    /\ UNCHANGED <<next, requests, answers, history>>

(* The timeout, or the end of the orchestrator's output. *)
GiveUp ==
    /\ ask.pc = "waiting"
    /\ ask' = UsePolicy
    /\ CloseClient
    /\ UNCHANGED <<next, requests, answers, history>>

(* The caller's poll after the decision: a selection that is rendered goes
   into the history, and a new session starts with an empty one. *)
Remember ==
    /\ ask.pc = "idle"
    /\ ask.selected # NoProfile
    /\ history' \in {history, history + 1, 0}
    /\ history' <= SwitchRate
    /\ ask' = [ask EXCEPT !.selected = NoProfile, !.source = "none"]
    /\ UNCHANGED <<next, conn, peer, requests, answers>>

-----------------------------------------------------------------------------
(* The orchestrator *)

Answer ==
    /\ peer = "up" /\ requests # <<>>
    /\ \E body \in Bodies, twice \in BOOLEAN :
         LET a == [for |-> Head(requests), body |-> body]
         IN  answers' = answers \o (IF twice THEN <<a, a>> ELSE <<a>>)
    /\ requests' = Tail(requests)
    /\ UNCHANGED <<next, ask, conn, peer, history>>

ComeUp ==
    /\ peer = "absent"
    /\ peer' = "up"
    /\ UNCHANGED <<next, ask, conn, requests, answers, history>>

Die ==
    /\ peer = "up"
    /\ peer' = "gone"
    /\ requests' = <<>>
    /\ UNCHANGED <<next, ask, conn, answers, history>>

Next ==
    \/ Consult \/ ReadLine \/ GiveUp \/ Remember
    \/ Answer \/ ComeUp \/ Die

(* The timer fires; the orchestrator owes nothing. *)
Spec == Init /\ [][Next]_vars /\ WF_vars(GiveUp)

-----------------------------------------------------------------------------
(* What the consultation, the client and the peer can be: a selection made is
   one of the candidates of its request, however late and whatever the answer
   (fallback.go lines 29 to 110, adapter.go line 94). *)
TypeOK ==
    /\ next \in 0 .. MaxConsults
    /\ ask.pc \in {"idle", "waiting"}
    /\ ask.candidates \subseteq Profiles
    /\ {ask.policy, ask.selected} \subseteq Profiles \cup {NoProfile}
    /\ ask.source \in {"none", "policy", "orchestrator"}
    /\ ask.source # "none" => ask.selected \in ask.candidates
    /\ conn \in {"none", "open", "closed"}
    /\ peer \in {"absent", "up", "gone"}
    /\ requests \in Seq(1 .. MaxConsults)
    /\ history \in 0 .. SwitchRate

(* client.go lines 121 and 208: a decision credited to the orchestrator
   answers this request, although answers to earlier ones may be left over. *)
OwnAnswer == ask.source = "orchestrator" => ask.answer = ask.id

(* pi-integration.md: the orchestrator never blocks the agent. *)
NeverBlocks == ask.pc = "waiting" ~> ask.pc = "idle"
=============================================================================
