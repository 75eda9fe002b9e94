------------------------ MODULE MobileBridgeProofs -------------------------
(***************************************************************************)
(* Proofs about MobileBridge for any threads, bounds and limits.           *)
(***************************************************************************)
EXTENDS MobileBridge, TLAPS

-----------------------------------------------------------------------------
(* Type correctness *)

LEMMA InitTypeOK == Init => TypeOK
BY SessionsAssumption, LimitsAssumption
   DEF Init, TypeOK, SessionOrNil, Session, Status, Call, Loop, Nil,
       IdleCall, NoLoop

(* A record of the type stays in it when a field is given a value of its. *)
LEMMA CallRecord ==
    ASSUME NEW c \in Call
    PROVE  /\ \A pc \in {"idle", "close", "wait", "closePi", "commit"} :
                [c EXCEPT !.pc = pc] \in Call
           /\ c.session \in SessionOrNil
           /\ c.pi \in SessionOrNil
           /\ IdleCall \in Call
           /\ \A op \in {"start", "stop"}, q, r \in SessionOrNil :
                [op |-> op, pc |-> "close", session |-> q, pi |-> r] \in Call
BY SessionsAssumption DEF Call, IdleCall, Nil, SessionOrNil

LEMMA LoopRecord ==
    ASSUME NEW l \in Loop
    PROVE  /\ \A pc \in {"dial", "poll", "consult", "act", "select", "exited"} :
                [l EXCEPT !.pc = pc] \in Loop
           /\ l.pi \in SessionOrNil
           /\ l.recent \in 0 .. HistoryCap
           /\ PollDone \in Loop
           /\ \A pc \in {"consult", "act"}, q \in SessionOrNil,
                n \in 0 .. HistoryCap :
                [pc |-> pc, pi |-> q, recent |-> n] \in Loop
BY SessionsAssumption, LimitsAssumption
   DEF Loop, PollDone, Nil, SessionOrNil

(* What begins and returns of a thread's call make of its history. *)
LEMMA MetTypeOK ==
    ASSUME TypeOK, NEW t \in Callers, NEW op \in {"start", "stop"}
    PROVE  /\ Begins(t, op) \/ Returns(t)
                => met' \in [Callers -> SUBSET {"start", "stop"}]
           /\ Begins(t, op) => origin' = origin
<1>1. \A v \in Callers : call[v].op \in {"none", "start", "stop"}
  BY DEF TypeOK, Call
<1>2. ASSUME Begins(t, op)
      PROVE  met' \in [Callers -> SUBSET {"start", "stop"}]
  <2> DEFINE M(u) ==
        IF u = t THEN {call[v].op : v \in Callers \ {t}} \ {"none"}
        ELSE IF call[u].pc = "idle" THEN {}
        ELSE met[u] \cup {op}
  <2>1. ASSUME NEW u \in Callers PROVE M(u) \subseteq {"start", "stop"}
    BY <1>1 DEF TypeOK
  <2>2. met' = [u \in Callers |-> M(u)]
    BY <1>2 DEF Begins
  <2>3. QED
    BY <2>1, <2>2
<1>3. QED
  BY <1>2 DEF Begins, Returns, TypeOK

LEMMA CallTypeOK ==
    ASSUME TypeOK, NEW t \in Callers, CallStep(t)
    PROVE  TypeOK'
<1> DEFINE C == call[t]
<1>1. /\ C \in Call
      /\ C.session \in SessionOrNil
      /\ C.pi \in SessionOrNil
  BY CallRecord DEF TypeOK
<1> USE <1>1, SessionsAssumption DEF TypeOK, Nil
<1>2. CASE StartRefused(t)
  BY <1>2 DEF StartRefused, Status, history
<1>3. CASE StartTake(t)
  <2>1. call' \in [Callers -> Call]
    BY <1>3, CallRecord DEF StartTake
  <2>2. UNCHANGED origin /\ met' \in [Callers -> SUBSET {"start", "stop"}]
    BY <1>3, MetTypeOK DEF StartTake
  <2>3. QED
    BY <1>3, <2>1, <2>2 DEF StartTake, SessionOrNil
<1>4. CASE StopTake(t)
  <2>1. call' \in [Callers -> Call]
    BY <1>4, CallRecord DEF StopTake
  <2>2. UNCHANGED origin /\ met' \in [Callers -> SUBSET {"start", "stop"}]
    BY <1>4, MetTypeOK DEF StopTake
  <2>3. QED
    BY <1>4, <2>1, <2>2 DEF StopTake, SessionOrNil, Status
<1>5. CASE CloseStop(t)
  <2>1. call' \in [Callers -> Call]
    BY <1>5, CallRecord DEF CloseStop
  <2>2. stopped' \subseteq Session
    BY <1>5 DEF CloseStop, Session, SessionOrNil
  <2>3. QED
    BY <1>5, <2>1, <2>2 DEF CloseStop, history
<1>6. CASE AwaitDone(t)
  <2>1. call' \in [Callers -> Call]
    BY <1>6, CallRecord DEF AwaitDone
  <2>2. QED
    BY <1>6, <2>1 DEF AwaitDone, history
<1>7. CASE ClosePi(t)
  <2>1. call' \in [Callers -> Call]
    BY <1>7, CallRecord DEF ClosePi
  <2>2. closed' \subseteq Session
    BY <1>7 DEF ClosePi, Session, SessionOrNil
  <2>3. met' \in [Callers -> SUBSET {"start", "stop"}]
    BY <1>7, MetTypeOK DEF ClosePi
  <2>4. QED
    BY <1>7, <2>1, <2>2, <2>3 DEF ClosePi
<1>8. CASE StartCommit(t)
  <2>1. call' \in [Callers -> Call]
    BY <1>8, CallRecord DEF StartCommit
  <2>2. sessions + 1 \in Session
    BY <1>8 DEF StartCommit, Session
  <2>3. loop' \in [Session -> Loop]
    BY <1>8, <2>2, LoopRecord DEF StartCommit
  <2>4. /\ met' \in [Callers -> SUBSET {"start", "stop"}]
        /\ origin' \in [Session -> SUBSET {"start", "stop"}]
    BY <1>8, <2>2, MetTypeOK DEF StartCommit
  <2>5. QED
    BY <1>8, <2>1, <2>2, <2>3, <2>4, LimitsAssumption
       DEF StartCommit, Session, SessionOrNil, Status
<1>9. QED
  BY <1>2, <1>3, <1>4, <1>5, <1>6, <1>7, <1>8 DEF CallStep, Proceed

LEMMA LoopTypeOK ==
    ASSUME TypeOK, NEW s \in Session, LoopStep(s)
    PROVE  TypeOK'
<1>1. /\ loop[s] \in Loop
      /\ loop[s].pi \in SessionOrNil
      /\ loop[s].recent \in 0 .. HistoryCap
  BY LoopRecord DEF TypeOK
<1> DEFINE Becomes(l) ==
      /\ loop' = [loop EXCEPT ![s] = l]
      /\ l.pc = "consult" => l.pi # Nil
<1>2. \E l \in Loop : Becomes(l)
  <2> USE <1>1, LoopRecord
  <2>1. CASE Dial(s) \/ Tick(s)
    <3> WITNESS [loop[s] EXCEPT !.pc = "poll"] \in Loop
    <3> QED
      BY <2>1 DEF Dial, Tick, Loop
  <2>2. CASE Consult(s)
    <3> WITNESS [loop[s] EXCEPT !.pc = "act"] \in Loop
    <3> QED
      BY <2>2 DEF Consult, Loop
  <2>3. CASE Exit(s)
    <3> WITNESS [loop[s] EXCEPT !.pc = "exited"] \in Loop
    <3> QED
      BY <2>3 DEF Exit, Loop
  <2>4. CASE PollFails(s) \/ ActFails(s) \/ Switch(s)
    <3> WITNESS PollDone \in Loop
    <3> QED
      BY <2>4 DEF PollFails, ActFails, Switch, PollDone
  <2>5. CASE ReadState(s)
    <3>1. PICK ambiguous \in BOOLEAN :
            loop' = [loop EXCEPT ![s] =
              [pc |-> IF ambiguous /\ pi # Nil THEN "consult" ELSE "act",
               pi |-> pi, recent |-> switches]]
      BY <2>5 DEF ReadState
    <3> DEFINE pc == IF ambiguous /\ pi # Nil THEN "consult" ELSE "act"
               l == [pc |-> pc, pi |-> pi, recent |-> switches]
    <3>2. pc \in {"consult", "act"} /\ (pc = "consult" => pi # Nil)
      OBVIOUS
    <3>3. pi \in SessionOrNil /\ switches \in 0 .. HistoryCap
      BY DEF TypeOK
    <3>4. l \in Loop
      BY <3>2, <3>3, LoopRecord
    <3>5. Becomes(l)
      BY <3>1, <3>2
    <3> QED
      BY <3>4, <3>5
  <2>6. QED
    BY <2>1, <2>2, <2>3, <2>4, <2>5 DEF LoopStep, Run
<1>3. /\ loop' \in [Session -> Loop]
      /\ \A r \in Session : loop'[r].pc = "consult" => loop'[r].pi # Nil
  <2>1. PICK l \in Loop : Becomes(l)
    <3> HIDE DEF Becomes
    <3> QED
      BY <1>2
  <2>2. loop \in [Session -> Loop]
    BY DEF TypeOK
  <2>3. \A r \in Session : loop'[r] = IF r = s THEN l ELSE loop[r]
    BY <2>1, <2>2
  <2>4. loop' \in [Session -> Loop]
    BY <2>1, <2>2
  <2>5. QED
    BY <2>1, <2>3, <2>4 DEF TypeOK
<1>4. ReportError => status' \in Status
  BY DEF ReportError, Status
<1>5. pi' \in SessionOrNil /\ status' \in Status
  <2>1. CASE Dial(s)
    BY <2>1, <1>4, SessionsAssumption DEF Dial, TypeOK, Session, SessionOrNil
  <2>2. CASE PollFails(s) \/ ActFails(s)
    BY <2>2, <1>4 DEF PollFails, ActFails, TypeOK
  <2>3. CASE Switch(s)
    BY <2>3 DEF Switch, TypeOK, Status
  <2>4. CASE ReadState(s) \/ Consult(s) \/ Tick(s) \/ Exit(s)
    BY <2>4 DEF ReadState, Consult, Tick, Exit, TypeOK
  <2>5. QED
    BY <2>1, <2>2, <2>3, <2>4 DEF LoopStep, Run
<1>6. switches' \in 0 .. HistoryCap
  <2>1. CASE Switch(s)
    BY <2>1, LimitsAssumption DEF Switch, Longer, TypeOK
  <2>2. CASE ~Switch(s)
    BY <2>2 DEF LoopStep, Run, Dial, PollFails, ReadState, Consult, ActFails,
                Tick, Exit, TypeOK
  <2>3. QED
    BY <2>1, <2>2
<1>7. closed' \subseteq Session /\ exited' \subseteq Session
  <2>1. CASE Consult(s)
    <3>1. loop[s].pi # Nil
      BY <2>1 DEF TypeOK, Consult
    <3>2. QED
      BY <1>1, <2>1, <3>1, SessionsAssumption
         DEF TypeOK, Consult, Session, SessionOrNil, Nil
  <2>2. CASE ~Consult(s)
    BY <2>2 DEF TypeOK, LoopStep, Run, Dial, PollFails, ReadState, ActFails,
                Switch, Tick, Exit
  <2>3. QED
    BY <2>1, <2>2
<1>8. QED
  BY <1>3, <1>6, <1>7, <1>5
     DEF TypeOK, LoopStep, Run, Dial, PollFails, ReadState, Consult, ActFails,
         Switch, Tick, Exit, history

LEMMA StepTypeOK == TypeOK /\ [Next]_vars => TypeOK'
<1> SUFFICES ASSUME TypeOK, [Next]_vars PROVE TypeOK'
  OBVIOUS
<1>1. CASE UNCHANGED vars
  BY <1>1 DEF vars, TypeOK
<1>2. CASE Next
  BY <1>2, CallTypeOK, LoopTypeOK DEF Next
<1>3. QED
  BY <1>1, <1>2

(* Every variable keeps its type, under any number of threads. *)
THEOREM TypeCorrect == Spec => []TypeOK
BY InitTypeOK, StepTypeOK, PTL DEF Spec, SafeSpec

-----------------------------------------------------------------------------

-----------------------------------------------------------------------------
(* What each step does to the references and to the histories *)

(* The other calls go on as they were. *)
OthersGoOn(t) == \A u \in Callers : u # t => call'[u] = call[u]

LEMMA TakeEffect ==
    ASSUME TypeOK, NEW t \in Callers, StartTake(t) \/ StopTake(t)
    PROVE  /\ call[t].pc = "idle" /\ call'[t].pc = "close"
           /\ call'[t].session = current
           /\ call'[t].op \in {"start", "stop"}
           /\ Begins(t, call'[t].op)
           /\ OthersGoOn(t)
           /\ current' = Nil
           /\ UNCHANGED <<sessions, stopped, exited, loop, switches, origin>>
BY DEF TypeOK, StartTake, StopTake, OthersGoOn, Begins

LEMMA CloseEffect ==
    ASSUME TypeOK, NEW t \in Callers, CloseStop(t)
    PROVE  /\ call[t].pc = "close" /\ call'[t].pc = "wait"
           /\ call'[t].op = call[t].op
           /\ call'[t].session = call[t].session
           /\ OthersGoOn(t)
           /\ stopped' = stopped \cup ({call[t].session} \ {Nil})
           /\ UNCHANGED <<current, sessions, exited, loop, switches, met,
                          origin>>
BY DEF TypeOK, CloseStop, Call, OthersGoOn, history

LEMMA AwaitEffect ==
    ASSUME TypeOK, NEW t \in Callers, AwaitDone(t)
    PROVE  /\ call[t].pc = "wait" /\ call'[t].pc = "closePi"
           /\ call'[t].op = call[t].op
           /\ call[t].session \in exited \cup {Nil}
           /\ OthersGoOn(t)
           /\ UNCHANGED <<current, sessions, stopped, exited, loop, switches,
                          met, origin>>
BY DEF TypeOK, AwaitDone, Call, OthersGoOn, history

LEMMA ClosePiEffect ==
    ASSUME TypeOK, NEW t \in Callers, ClosePi(t)
    PROVE  /\ call[t].pc = "closePi"
           /\ \/ call'[t].pc = "commit" /\ call'[t].op = "start"
                   /\ call[t].op = "start" /\ met' = met
              \/ call'[t].pc = "idle" /\ call'[t].op = "none"
           /\ OthersGoOn(t)
           /\ \A u \in Callers : u # t => met'[u] = met[u]
           /\ UNCHANGED <<current, sessions, stopped, exited, loop, switches,
                          origin>>
BY DEF TypeOK, ClosePi, Call, IdleCall, OthersGoOn, Returns

LEMMA CommitEffect ==
    ASSUME TypeOK, NEW t \in Callers, StartCommit(t)
    PROVE  /\ call[t].pc = "commit"
           /\ call'[t].pc = "idle" /\ call'[t].op = "none"
           /\ OthersGoOn(t)
           /\ sessions < MaxSessions
           /\ sessions' = sessions + 1 /\ current' = sessions + 1
           /\ switches' = 0
           /\ sessions + 1 \in Session
           /\ loop'[sessions + 1].pc = "dial"
           /\ origin'[sessions + 1] = met[t]
           /\ \A s \in Session : s # sessions + 1
                => loop'[s] = loop[s] /\ origin'[s] = origin[s]
           /\ \A u \in Callers : u # t => met'[u] = met[u]
           /\ UNCHANGED <<stopped, exited>>
<1>1. sessions \in Nat /\ sessions + 1 \in Session
  BY SessionsAssumption DEF StartCommit, TypeOK, Session
<1>2. loop[sessions + 1] \in Loop
  BY <1>1 DEF TypeOK
<1>3. loop'[sessions + 1].pc = "dial"
  BY <1>1, <1>2 DEF StartCommit, TypeOK, Loop
<1>4. QED
  BY <1>1, <1>3 DEF StartCommit, TypeOK, IdleCall, OthersGoOn, Returns

(* A loop changes nothing the calls decide on, but for its own end. *)
LEMMA LoopFrame ==
    ASSUME TypeOK, NEW s \in Session, LoopStep(s)
    PROVE  /\ UNCHANGED <<current, sessions, stopped, call, met, origin>>
           /\ loop[s].pc \notin {"none", "exited"}
           /\ \A r \in Session : r # s => loop'[r] = loop[r]
           /\ \/ exited' = exited /\ ~Exit(s) /\ loop'[s].pc # "exited"
              \/ Exit(s) /\ s \in stopped /\ exited' = exited \cup {s}
                   /\ loop'[s].pc = "exited"
<1>1. loop \in [Session -> Loop] /\ loop[s] \in Loop
  BY DEF TypeOK
<1>2. CASE Exit(s)
  BY <1>1, <1>2 DEF Exit, history, Loop
<1>3. CASE Dial(s) \/ Tick(s) \/ Consult(s)
  <2>1. loop'[s].pc \in {"poll", "act"} /\ ~Exit(s)
    BY <1>1, <1>3 DEF Dial, Tick, Consult, Exit, Loop
  <2>2. QED
    BY <1>1, <1>3, <2>1 DEF Dial, Tick, Consult, history
<1>4. CASE PollFails(s) \/ ActFails(s) \/ Switch(s)
  <2>1. loop'[s].pc = "select" /\ ~Exit(s)
    BY <1>1, <1>4 DEF PollFails, ActFails, Switch, Exit, PollDone
  <2>2. QED
    BY <1>1, <1>4, <2>1 DEF PollFails, ActFails, Switch, history
<1>5. CASE ReadState(s)
  <2>1. loop'[s].pc \in {"consult", "act"} /\ ~Exit(s)
    BY <1>1, <1>5 DEF ReadState, Exit
  <2>2. QED
    BY <1>1, <1>5, <2>1 DEF ReadState, history
<1>6. QED
  BY <1>2, <1>3, <1>4, <1>5 DEF LoopStep, Run

-----------------------------------------------------------------------------
(* Stop channels are held once: by runtimeState or by one call that is about
   to close them; and only those of started sessions are closed. *)
Handles ==
    /\ stopped \subseteq Started
    /\ current <= sessions
    /\ current \notin stopped
    /\ \A t \in Callers : call[t].pc = "close" =>
         /\ call[t].session <= sessions
         /\ call[t].session \notin stopped
         /\ call[t].session # Nil => call[t].session # current
    /\ \A t, u \in Callers :
         call[t].pc = "close" /\ call[u].pc = "close" /\ t # u
           => call[t].session = Nil \/ call[t].session # call[u].session

LEMMA InitHandles == Init => Handles
BY DEF Init, Handles, IdleCall, Nil, Started

LEMMA NumberTypes ==
    ASSUME TypeOK
    PROVE  /\ current \in Nat /\ sessions \in Nat
           /\ \A t \in Callers : call[t].session \in Nat
           /\ \A t \in Callers : call[t].op \in {"none", "start", "stop"}
BY SessionsAssumption DEF TypeOK, SessionOrNil, Call

LEMMA CallHandles ==
    ASSUME TypeOK, Handles, NEW t \in Callers, CallStep(t)
    PROVE  Handles'
<1>1. /\ current \in Nat /\ sessions \in Nat
      /\ \A u \in Callers : call[u].session \in Nat
  BY NumberTypes
<1>2. CASE StartRefused(t)
  BY <1>2 DEF StartRefused, Handles, Started
<1>3. CASE StartTake(t) \/ StopTake(t)
  <2>1. /\ call'[t].pc = "close" /\ call'[t].session = current
        /\ OthersGoOn(t)
        /\ current' = Nil /\ UNCHANGED <<sessions, stopped>>
    BY <1>3, TakeEffect
  <2>2. Nil \notin stopped
    BY <1>1 DEF Handles, Started, Nil
  <2>3. QED
    BY <1>1, <2>1, <2>2 DEF Handles, Started, Nil, OthersGoOn
<1>4. CASE CloseStop(t)
  <2>1. /\ call[t].pc = "close" /\ call'[t].pc = "wait"
        /\ OthersGoOn(t)
        /\ stopped' = stopped \cup ({call[t].session} \ {Nil})
        /\ UNCHANGED <<current, sessions>>
    BY <1>4, CloseEffect
  <2>2. stopped' \subseteq Started'
    <3>1. stopped \subseteq 1 .. sessions /\ call[t].session <= sessions
      BY <2>1 DEF Handles, Started
    <3>2. {call[t].session} \ {Nil} \subseteq 1 .. sessions
      BY <1>1, <3>1 DEF Nil
    <3>3. QED
      BY <2>1, <3>1, <3>2 DEF Started
  <2>3. QED
    BY <1>1, <2>1, <2>2 DEF Handles, OthersGoOn
<1>5. CASE AwaitDone(t) \/ ClosePi(t)
  <2>1. /\ call'[t].pc # "close"
        /\ OthersGoOn(t)
        /\ UNCHANGED <<current, sessions, stopped>>
    BY <1>5, AwaitEffect, ClosePiEffect
  <2>2. QED
    BY <1>1, <2>1 DEF Handles, Started, OthersGoOn
<1>6. CASE StartCommit(t)
  <2>1. /\ call'[t].pc # "close"
        /\ OthersGoOn(t)
        /\ current' = sessions + 1 /\ sessions' = sessions + 1
        /\ stopped' = stopped
    BY <1>6, CommitEffect
  <2>2. stopped' \subseteq Started' /\ current' \notin stopped'
    BY <1>1, <2>1 DEF Handles, Started
  <2>3. QED
    BY <1>1, <2>1, <2>2 DEF Handles, OthersGoOn
<1>7. QED
  BY <1>2, <1>3, <1>4, <1>5, <1>6 DEF CallStep, Proceed

LEMMA StepHandles == TypeOK /\ Handles /\ [Next]_vars => Handles'
<1> SUFFICES ASSUME TypeOK, Handles, [Next]_vars PROVE Handles'
  OBVIOUS
<1>1. CASE UNCHANGED vars
  BY <1>1 DEF vars, Handles, Started
<1>2. ASSUME NEW t \in Callers, CallStep(t) PROVE Handles'
  BY <1>2, CallHandles
<1>3. ASSUME NEW s \in Session, LoopStep(s) PROVE Handles'
  <2>1. UNCHANGED <<current, sessions, stopped, call>>
    BY <1>3, LoopFrame
  <2>2. QED
    BY <2>1 DEF Handles, Started
<1>4. QED
  BY <1>1, <1>2, <1>3 DEF Next

(* However many threads call StartAgent and StopAgent, and however their
   critical sections interleave, close is never called on a closed stopCh. *)
THEOREM ChannelsClosedOnce == Spec => []NoDoubleClose
<1>1. Handles => NoDoubleClose
  BY DEF Handles, NoDoubleClose
<1>2. QED
  BY <1>1, InitHandles, StepHandles, TypeCorrect, PTL DEF Spec, SafeSpec

-----------------------------------------------------------------------------
(* A loop runs until it has seen its stop channel closed, and the call that
   closed it waits until then. *)
Tracked ==
    /\ exited \subseteq stopped
    /\ \A s \in LiveLoops \cap stopped :
         \E t \in Callers : call[t].pc = "wait" /\ call[t].session = s
    /\ \A s \in Session : loop[s].pc \notin {"none", "exited"} => s \in LiveLoops

LEMMA InitTracked == Init => Tracked
BY DEF Init, Tracked, LiveLoops, Started, NoLoop

LEMMA CallTracked ==
    ASSUME TypeOK, Handles, Tracked, NEW t \in Callers, CallStep(t)
    PROVE  Tracked'
<1>1. /\ current \in Nat /\ sessions \in Nat
      /\ \A u \in Callers : call[u].session \in Nat
  BY NumberTypes
<1>2. CASE StartRefused(t)
  BY <1>2 DEF StartRefused, Tracked, LiveLoops, Started
<1>3. CASE StartTake(t) \/ StopTake(t) \/ ClosePi(t)
  <2>1. /\ call[t].pc # "wait"
        /\ OthersGoOn(t)
        /\ UNCHANGED <<sessions, stopped, exited, loop>>
    BY <1>3, TakeEffect, ClosePiEffect
  <2>2. QED
    BY <2>1 DEF Tracked, LiveLoops, Started, OthersGoOn
<1>4. CASE CloseStop(t)
  <2>1. /\ call[t].pc = "close" /\ call'[t].pc = "wait"
        /\ call'[t].session = call[t].session
        /\ OthersGoOn(t)
        /\ stopped' = stopped \cup ({call[t].session} \ {Nil})
        /\ UNCHANGED <<sessions, exited, loop>>
    BY <1>4, CloseEffect
  <2>2. QED
    BY <2>1 DEF Tracked, LiveLoops, Started, OthersGoOn
<1>5. CASE AwaitDone(t)
  <2>1. /\ call[t].pc = "wait" /\ call[t].session \in exited \cup {Nil}
        /\ OthersGoOn(t)
        /\ UNCHANGED <<sessions, stopped, exited, loop>>
    BY <1>5, AwaitEffect
  <2>2. call[t].session \notin LiveLoops
    BY <1>1, <2>1 DEF LiveLoops, Started, Nil
  <2>3. QED
    BY <2>1, <2>2 DEF Tracked, LiveLoops, Started, OthersGoOn
<1>6. CASE StartCommit(t)
  <2>1. /\ call[t].pc = "commit"
        /\ OthersGoOn(t)
        /\ sessions' = sessions + 1
        /\ \A s \in Session : s # sessions + 1 => loop'[s] = loop[s]
        /\ UNCHANGED <<stopped, exited>>
    BY <1>6, CommitEffect
  <2>2. LiveLoops' = LiveLoops \cup {sessions + 1} /\ sessions + 1 \notin stopped
    BY <1>1, <2>1 DEF Handles, Tracked, LiveLoops, Started
  <2>3. QED
    BY <2>1, <2>2 DEF Tracked, OthersGoOn
<1>7. QED
  BY <1>2, <1>3, <1>4, <1>5, <1>6 DEF CallStep, Proceed

LEMMA LoopTracked ==
    ASSUME TypeOK, Tracked, NEW s \in Session, LoopStep(s)
    PROVE  Tracked'
<1>1. /\ UNCHANGED <<sessions, stopped, call>>
      /\ loop[s].pc \notin {"none", "exited"}
      /\ \A r \in Session : r # s => loop'[r] = loop[r]
      /\ \/ exited' = exited
         \/ s \in stopped /\ exited' = exited \cup {s} /\ loop'[s].pc = "exited"
  BY LoopFrame
<1>2. s \in LiveLoops
  BY <1>1 DEF Tracked
<1>3. QED
  BY <1>1, <1>2 DEF Tracked, LiveLoops, Started

LEMMA StepTracked == TypeOK /\ Handles /\ Tracked /\ [Next]_vars => Tracked'
<1> SUFFICES ASSUME TypeOK, Handles, Tracked, [Next]_vars PROVE Tracked'
  OBVIOUS
<1>1. CASE UNCHANGED vars
  BY <1>1 DEF vars, Tracked, LiveLoops, Started
<1>2. QED
  BY <1>1, CallTracked, LoopTracked DEF Next

-----------------------------------------------------------------------------
(* The histories know of every overlap: a call has met those under way, and a
   session found in runtimeState during a call was started beside it. *)
Remembered ==
    /\ \A t \in Callers :
         /\ call[t].pc = "idle" <=> call[t].op = "none"
         /\ call[t].pc = "commit" => call[t].op = "start"
         /\ call[t].op # "none" /\ current # Nil => "start" \in met[t]
         /\ call[t].op = "start" /\ current # Nil => "start" \in origin[current]
    /\ \A t, u \in Callers :
         call[t].op # "none" /\ call[u].op # "none" /\ t # u
           => call[u].op \in met[t]

LEMMA InitRemembered == Init => Remembered
BY DEF Init, Remembered, IdleCall

LEMMA CallRemembered ==
    ASSUME TypeOK, Handles, Remembered, NEW t \in Callers, CallStep(t)
    PROVE  Remembered'
<1>1. /\ current \in Nat /\ sessions \in Nat
      /\ met \in [Callers -> SUBSET {"start", "stop"}]
      /\ \A u \in Callers : call[u].op \in {"none", "start", "stop"}
  BY NumberTypes DEF TypeOK
<1>2. CASE StartRefused(t)
  BY <1>2 DEF StartRefused, Remembered, history
<1>3. CASE StartTake(t) \/ StopTake(t)
  <2>1. /\ call[t].pc = "idle" /\ call'[t].pc = "close"
        /\ call'[t].op \in {"start", "stop"}
        /\ OthersGoOn(t)
        /\ current' = Nil
        /\ Begins(t, call'[t].op)
    BY <1>3, TakeEffect
  <2>2. ASSUME NEW u \in Callers, u # t, call[u].op # "none"
        PROVE  call[u].op \in met'[t]
    BY <2>1, <2>2 DEF Begins
  <2>3. ASSUME NEW u \in Callers, u # t, call[u].op # "none"
        PROVE  met'[u] = met[u] \cup {call'[t].op}
    BY <2>1, <2>3 DEF Begins, Remembered
  <2>4. ASSUME NEW u \in Callers, NEW v \in Callers,
               call'[u].op # "none", call'[v].op # "none", u # v
        PROVE  call'[v].op \in met'[u]
    BY <2>1, <2>2, <2>3, <2>4 DEF Remembered, OthersGoOn
  <2>5. QED
    BY <2>1, <2>4 DEF Remembered, OthersGoOn
<1>4. CASE CloseStop(t) \/ AwaitDone(t) \/ ClosePi(t)
  <2>1. /\ \/ /\ call'[t].pc \notin {"idle", "commit"}
              /\ call[t].pc # "idle"
              /\ call'[t].op = call[t].op /\ met' = met
           \/ /\ call'[t].pc = "commit" /\ call'[t].op = "start"
              /\ call[t].op = "start" /\ met' = met
           \/ call'[t].pc = "idle" /\ call'[t].op = "none"
        /\ OthersGoOn(t)
        /\ \A u \in Callers : u # t => met'[u] = met[u]
        /\ UNCHANGED <<current, origin>>
    BY <1>4, CloseEffect, AwaitEffect, ClosePiEffect
  <2>2. QED
    BY <2>1 DEF Remembered, OthersGoOn
<1>5. CASE StartCommit(t)
  <2>1. /\ call[t].pc = "commit"
        /\ call'[t].pc = "idle" /\ call'[t].op = "none"
        /\ OthersGoOn(t)
        /\ current' = sessions + 1
        /\ origin'[sessions + 1] = met[t]
        /\ \A u \in Callers : u # t => met'[u] = met[u]
    BY <1>5, CommitEffect
  <2>2. call[t].op = "start"
    BY <2>1 DEF Remembered
  <2>3. ASSUME NEW u \in Callers, u # t, call[u].op # "none"
        PROVE  /\ "start" \in met'[u]
               /\ call[u].op = "start" => "start" \in origin'[current']
    BY <2>1, <2>2, <2>3 DEF Remembered
  <2>4. QED
    BY <2>1, <2>3 DEF Remembered, OthersGoOn
<1>6. QED
  BY <1>2, <1>3, <1>4, <1>5 DEF CallStep, Proceed

LEMMA StepRemembered ==
    TypeOK /\ Handles /\ Remembered /\ [Next]_vars => Remembered'
<1> SUFFICES ASSUME TypeOK, Handles, Remembered, [Next]_vars PROVE Remembered'
  OBVIOUS
<1>1. CASE UNCHANGED vars
  BY <1>1 DEF vars, Remembered
<1>2. ASSUME NEW t \in Callers, CallStep(t) PROVE Remembered'
  BY <1>2, CallRemembered
<1>3. ASSUME NEW s \in Session, LoopStep(s) PROVE Remembered'
  <2>1. UNCHANGED <<current, call, met, origin>>
    BY <1>3, LoopFrame
  <2>2. QED
    BY <2>1 DEF Remembered
<1>4. QED
  BY <1>1, <1>2, <1>3 DEF Next

-----------------------------------------------------------------------------
(* Orphans.  A StartAgent that commits orphans the session it finds in
   runtimeState; nothing else makes an orphan, and an orphan is never ended. *)
LEMMA CallOrphans ==
    ASSUME TypeOK, Handles, NEW t \in Callers, CallStep(t)
    PROVE  Orphans' = IF StartCommit(t) THEN Orphans \cup (LiveLoops \cap {current})
                      ELSE Orphans
<1>1. /\ current \in Nat /\ sessions \in Nat
      /\ \A u \in Callers : call[u].session \in Nat
  BY NumberTypes
<1>2. CASE StartRefused(t)
  <2>1. call[t].pc = "idle"
    BY <1>2 DEF StartRefused
  <2>2. ~StartCommit(t)
    BY <2>1 DEF StartCommit
  <2>3. QED
    BY <1>2, <2>2 DEF StartRefused, Orphans, LiveLoops, Started
<1>3. CASE StartTake(t) \/ StopTake(t)
  <2>1. /\ call[t].pc = "idle" /\ call'[t].pc = "close"
        /\ call'[t].session = current
        /\ OthersGoOn(t)
        /\ current' = Nil
        /\ UNCHANGED <<sessions, stopped, exited>>
    BY <1>3, TakeEffect
  <2>2. ~StartCommit(t)
    BY <2>1 DEF StartCommit
  <2>3. ASSUME NEW s \in LiveLoops
        PROVE  s \in Orphans <=> s \in Orphans'
    <3>1. s # Nil /\ s \in LiveLoops'
      BY <1>1, <2>1, <2>3 DEF LiveLoops, Started, Nil
    <3>2. QED
      BY <2>1, <2>3, <3>1 DEF Orphans, OthersGoOn
  <2>4. LiveLoops' = LiveLoops
    BY <2>1 DEF LiveLoops, Started
  <2>5. QED
    BY <2>2, <2>3, <2>4 DEF Orphans
<1>4. CASE CloseStop(t)
  <2>1. /\ call[t].pc = "close" /\ call'[t].pc = "wait"
        /\ OthersGoOn(t)
        /\ stopped' = stopped \cup ({call[t].session} \ {Nil})
        /\ UNCHANGED <<current, sessions, exited>>
    BY <1>4, CloseEffect
  <2>2. ~StartCommit(t)
    BY <2>1 DEF StartCommit
  <2>3. ASSUME NEW s \in LiveLoops
        PROVE  s \in Orphans <=> s \in Orphans'
    <3>1. s # Nil /\ s \in LiveLoops'
      BY <1>1, <2>1, <2>3 DEF LiveLoops, Started, Nil
    <3>2. QED
      BY <2>1, <2>3, <3>1 DEF Orphans, OthersGoOn
  <2>4. LiveLoops' = LiveLoops
    BY <2>1 DEF LiveLoops, Started
  <2>5. QED
    BY <2>2, <2>3, <2>4 DEF Orphans
<1>5. CASE AwaitDone(t) \/ ClosePi(t)
  <2>1. /\ call[t].pc \in {"wait", "closePi"} /\ call'[t].pc # "close"
        /\ OthersGoOn(t)
        /\ UNCHANGED <<current, sessions, stopped, exited>>
    BY <1>5, AwaitEffect, ClosePiEffect
  <2>2. ~StartCommit(t)
    BY <2>1 DEF StartCommit
  <2>3. LiveLoops' = LiveLoops
    BY <2>1 DEF LiveLoops, Started
  <2>4. QED
    BY <2>1, <2>2, <2>3 DEF Orphans, OthersGoOn
<1>6. CASE StartCommit(t)
  <2>1. /\ call[t].pc = "commit" /\ call'[t].pc = "idle"
        /\ OthersGoOn(t)
        /\ current' = sessions + 1 /\ sessions' = sessions + 1
        /\ UNCHANGED <<stopped, exited>>
    BY <1>6, CommitEffect
  <2>2. LiveLoops' \subseteq LiveLoops \cup {current'} /\ LiveLoops \subseteq LiveLoops'
    BY <1>1, <2>1 DEF LiveLoops, Started
  <2>3. current' \notin LiveLoops
    BY <1>1, <2>1 DEF LiveLoops, Started
  <2>4. ASSUME NEW s \in LiveLoops
        PROVE  s \in Orphans' <=> s \in Orphans \cup {current}
    <3>1. s # Nil /\ s \in LiveLoops' /\ s # current'
      BY <1>1, <2>2, <2>3, <2>4 DEF LiveLoops, Started, Nil
    <3>2. CASE s = current
      <4>1. s \in Orphans'
        BY <2>1, <3>1, <3>2 DEF Orphans, OthersGoOn, Handles
      <4>2. QED
        BY <3>2, <4>1
    <3>3. CASE s # current
      BY <2>1, <2>4, <3>1, <3>3 DEF Orphans, OthersGoOn
    <3>4. QED
      BY <3>2, <3>3
  <2>5. Orphans \subseteq LiveLoops /\ Orphans' \subseteq LiveLoops
    BY <2>2 DEF Orphans
  <2>6. QED
    BY <1>6, <2>4, <2>5
<1>7. QED
  BY <1>2, <1>3, <1>4, <1>5, <1>6 DEF CallStep, Proceed

LEMMA LoopOrphans ==
    ASSUME TypeOK, NEW s \in Session, LoopStep(s)
    PROVE  Orphans' = Orphans
<1>1. /\ UNCHANGED <<current, sessions, stopped, call>>
      /\ exited' = exited \/ (s \in stopped /\ exited' = exited \cup {s})
  BY LoopFrame
<1>2. LiveLoops' \ stopped = LiveLoops \ stopped
  BY <1>1 DEF LiveLoops, Started
<1>3. QED
  BY <1>1, <1>2 DEF Orphans

(* Beside a call that has waited and has met no other, only orphans run. *)
LEMMA AloneAmongOrphans ==
    ASSUME TypeOK, Tracked, Remembered, NEW t \in Callers,
           call[t].pc \in {"closePi", "commit"}, met[t] = {}
    PROVE  LiveLoops = Orphans /\ current = Nil
<1>1. call[t].op # "none" /\ current = Nil
  BY DEF Remembered
<1>2. ASSUME NEW u \in Callers, u # t PROVE call[u].pc = "idle"
  BY <1>1, <1>2 DEF Remembered
<1>3. \A u \in Callers : call[u].pc \notin {"close", "wait"}
  BY <1>2
<1>4. \A s \in LiveLoops : s \notin stopped
  BY <1>3 DEF Tracked
<1>5. \A s \in LiveLoops : s # Nil
  BY NumberTypes DEF LiveLoops, Started, Nil
<1>6. QED
  BY <1>1, <1>3, <1>4, <1>5 DEF Orphans

-----------------------------------------------------------------------------
(* A session that was started alone found no loop but orphans: the earlier
   loops that still run. *)
FoundOrphans ==
    \A s \in Started, r \in LiveLoops :
      r < s /\ origin[s] = {} => r \in Orphans

LEMMA InitLoops == Init => NoOrphanLoop /\ FoundOrphans
BY DEF Init, NoOrphanLoop, FoundOrphans, Orphans, LiveLoops, Started

LEMMA CallLoops ==
    ASSUME TypeOK, Handles, Tracked, Remembered, NoOrphanLoop, FoundOrphans,
           NEW t \in Callers, CallStep(t)
    PROVE  NoOrphanLoop' /\ FoundOrphans'
<1>1. current \in Nat /\ sessions \in Nat
  BY NumberTypes
<1>2. CASE StartCommit(t)
  <2>1. /\ call[t].pc = "commit"
        /\ sessions' = sessions + 1
        /\ sessions < MaxSessions
        /\ origin'[sessions + 1] = met[t]
        /\ \A s \in Session : s # sessions + 1 => origin'[s] = origin[s]
        /\ exited' = exited
    BY <1>2, CommitEffect
  <2>2. Orphans' = Orphans \cup (LiveLoops \cap {current})
    BY <1>2, CallOrphans
  <2>3. ASSUME NEW s \in Started
        PROVE  s # sessions + 1 /\ origin'[s] = origin[s]
    BY <1>1, <2>1, <2>3, SessionsAssumption DEF Started, Session
  <2>4. ASSUME current # Nil PROVE "start" \in origin[current]
    BY <2>1, <2>4 DEF Remembered
  <2>5. LiveLoops \subseteq Started /\ Orphans \subseteq Started
    BY DEF LiveLoops, Orphans
  <2>6. Nil \notin LiveLoops
    BY <1>1 DEF LiveLoops, Started, Nil
  <2>7. NoOrphanLoop'
    BY <2>2, <2>3, <2>4, <2>5, <2>6 DEF NoOrphanLoop
  <2>8. ASSUME NEW s \in Started', NEW r \in LiveLoops', r < s, origin'[s] = {}
        PROVE  r \in Orphans'
    <3>1. r \in LiveLoops
      BY <1>1, <2>1, <2>8 DEF LiveLoops, Started
    <3>2. CASE s = sessions + 1
      BY <2>1, <2>2, <2>8, <3>1, <3>2, AloneAmongOrphans
    <3>3. CASE s # sessions + 1
      <4>1. s \in Started
        BY <1>1, <2>1, <3>3 DEF Started
      <4>2. QED
        BY <2>2, <2>3, <2>8, <3>1, <4>1 DEF FoundOrphans
    <3>4. QED
      BY <3>2, <3>3
  <2>9. QED
    BY <2>7, <2>8 DEF FoundOrphans
<1>3. CASE ~StartCommit(t)
  <2>1. UNCHANGED <<sessions, exited, origin>>
    BY <1>3, TakeEffect, CloseEffect, AwaitEffect, ClosePiEffect
       DEF CallStep, Proceed, StartRefused, history
  <2>2. Orphans' = Orphans
    BY <1>3, CallOrphans
  <2>3. QED
    BY <2>1, <2>2 DEF NoOrphanLoop, FoundOrphans, LiveLoops, Started
<1>4. QED
  BY <1>2, <1>3

LEMMA LoopLoops ==
    ASSUME TypeOK, NoOrphanLoop, FoundOrphans, NEW s \in Session, LoopStep(s)
    PROVE  NoOrphanLoop' /\ FoundOrphans'
<1>1. /\ UNCHANGED <<sessions, origin>>
      /\ exited' = exited \/ exited' = exited \cup {s}
  BY LoopFrame
<1>2. LiveLoops' \subseteq LiveLoops /\ Started' = Started
  BY <1>1 DEF LiveLoops, Started
<1>3. Orphans' = Orphans
  BY LoopOrphans
<1>4. QED
  BY <1>1, <1>2, <1>3 DEF NoOrphanLoop, FoundOrphans

(* The inductive invariant, but for the counting of switches. *)
IInv == TypeOK /\ Handles /\ Tracked /\ Remembered /\ NoOrphanLoop /\ FoundOrphans

LEMMA InitIInv == Init => IInv
BY InitTypeOK, InitHandles, InitTracked, InitRemembered, InitLoops DEF IInv

LEMMA StepIInv == IInv /\ [Next]_vars => IInv'
<1> SUFFICES ASSUME IInv, [Next]_vars PROVE IInv'
  OBVIOUS
<1>1. TypeOK /\ Handles /\ Tracked /\ Remembered
  BY DEF IInv
<1>2. TypeOK' /\ Handles' /\ Tracked' /\ Remembered'
  BY <1>1, StepTypeOK, StepHandles, StepTracked, StepRemembered
<1>3. NoOrphanLoop' /\ FoundOrphans'
  <2>1. CASE UNCHANGED vars
    BY <2>1 DEF vars, IInv, NoOrphanLoop, FoundOrphans, Orphans, LiveLoops,
                Started
  <2>2. CASE \E t \in Callers : CallStep(t)
    BY <2>2, CallLoops DEF IInv
  <2>3. CASE \E s \in Session : LoopStep(s)
    BY <2>3, LoopLoops DEF IInv
  <2>4. QED
    BY <2>1, <2>2, <2>3 DEF Next
<1>4. QED
  BY <1>2, <1>3 DEF IInv

LEMMA IInvHolds == SafeSpec => []IInv
BY InitIInv, StepIInv, PTL DEF SafeSpec

(* bridge.go lines 74 to 107: however many threads start and stop agents, a
   loop that nobody can end was started by a StartAgent that overlapped another
   StartAgent. *)
THEOREM NoLoopIsOrphaned == Spec => []NoOrphanLoop
<1>1. IInv => NoOrphanLoop
  BY DEF IInv
<1>2. QED
  BY <1>1, IInvHolds, PTL DEF Spec

(* bridge.go lines 90 to 107: however many threads start and stop agents, a
   StartAgent that overlaps no call leaves no loop polling beside its own, but
   orphans. *)
THEOREM OneLoopAtATime == Spec => []SingleLoop
<1>1. IInv => SingleLoop
  BY DEF IInv, FoundOrphans, SingleLoop, LiveLoops
<1>2. QED
  BY <1>1, IInvHolds, PTL DEF Spec

(* bridge.go lines 94 to 96, 129 to 131 and 316: a call that overlaps no other
   closes no client under a request, but an orphan's. *)
THEOREM ClientsLeftAlone == Spec => []ClientNotPulled
<1>1. IInv => ClientNotPulled
  <2> SUFFICES ASSUME IInv, NEW t \in Callers, NEW s \in Session,
                      call[t].pc = "closePi", loop[s].pc = "consult",
                      met[t] = {}
               PROVE  s \in Orphans
    BY DEF ClientNotPulled
  <2>1. s \in LiveLoops
    BY DEF IInv, Tracked
  <2>2. QED
    BY <2>1, AloneAmongOrphans DEF IInv
<1>2. QED
  BY <1>1, IInvHolds, PTL DEF Spec

-----------------------------------------------------------------------------
(* The rate limit.  While the loop of the last session is the only one, and
   that session was started alone, nothing else has lengthened its history:
   an orphan would still run.  The length its poll has read is the length. *)
OnlyLoop ==
    sessions # Nil /\ origin[sessions] = {} /\ LiveLoops \subseteq {sessions}

Counted ==
    OnlyLoop =>
      /\ HistoryWithinLimit
      /\ loop[sessions].pc \in {"consult", "act"}
           => loop[sessions].recent = switches

LEMMA InitCounted == Init => Counted
BY DEF Init, Counted, OnlyLoop, Nil

LEMMA CallCounted ==
    ASSUME TypeOK, Counted, NEW t \in Callers, CallStep(t)
    PROVE  Counted'
<1>1. CASE StartCommit(t)
  <2>1. sessions' = sessions + 1 /\ loop'[sessions + 1].pc = "dial"
        /\ switches' = 0
    BY <1>1, CommitEffect
  <2>2. HistoryWithinLimit'
    BY <2>1, LimitsAssumption DEF HistoryWithinLimit
  <2>3. QED
    BY <2>1, <2>2 DEF Counted
<1>2. CASE ~StartCommit(t)
  <2>1. UNCHANGED <<sessions, exited, origin, loop, switches>>
    BY <1>2, TakeEffect, CloseEffect, AwaitEffect, ClosePiEffect
       DEF CallStep, Proceed, StartRefused, history
  <2>2. LiveLoops' = LiveLoops
    BY <2>1 DEF LiveLoops, Started
  <2>3. QED
    BY <2>1, <2>2 DEF Counted, OnlyLoop, HistoryWithinLimit
<1>3. QED
  BY <1>1, <1>2

LEMMA LoopCounted ==
    ASSUME IInv, Counted, NEW s \in Session, LoopStep(s)
    PROVE  Counted'
<1> SUFFICES ASSUME OnlyLoop'
             PROVE  /\ HistoryWithinLimit'
                    /\ loop'[sessions'].pc \in {"consult", "act"}
                         => loop'[sessions'].recent = switches'
  BY DEF Counted
<1>1. /\ TypeOK /\ loop \in [Session -> Loop] /\ loop[s] \in Loop
      /\ sessions \in Nat /\ switches \in Nat
  BY SessionsAssumption, LimitsAssumption DEF IInv, TypeOK
<1>2. /\ UNCHANGED <<sessions, stopped, origin>>
      /\ loop[s].pc \notin {"none", "exited"}
      /\ \/ exited' = exited /\ ~Exit(s)
         \/ Exit(s) /\ s \in stopped /\ exited' = exited \cup {s}
  BY <1>1, LoopFrame
<1>3. s \in LiveLoops
  BY <1>2 DEF IInv, Tracked
<1>4. s = sessions
  <2>1. CASE exited' = exited
    <3>1. LiveLoops' = LiveLoops
      BY <1>2, <2>1 DEF LiveLoops, Started
    <3>2. QED
      BY <1>2, <1>3, <3>1 DEF OnlyLoop
  <2>2. CASE s \in stopped
    <3>1. s \notin Orphans
      BY <2>2 DEF Orphans
    <3>2. sessions \in Started /\ origin[sessions] = {}
      BY <1>1, <1>2 DEF OnlyLoop, Started, Nil
    <3>3. ~(s < sessions)
      BY <1>3, <3>1, <3>2 DEF IInv, FoundOrphans
    <3>4. QED
      BY <1>1, <1>3, <3>3 DEF LiveLoops, Started
  <2>3. QED
    BY <1>2, <2>1, <2>2
<1>5. OnlyLoop
  <2>1. LiveLoops \subseteq LiveLoops' \cup {s}
    BY <1>2 DEF LiveLoops, Started
  <2>2. QED
    BY <1>2, <1>4, <2>1 DEF OnlyLoop
<1>6. /\ RateLimit = 0 \/ switches <= RateLimit
      /\ loop[s].pc \in {"consult", "act"} => loop[s].recent = switches
  BY <1>4, <1>5 DEF Counted, HistoryWithinLimit, OnlyLoop
<1>7. CASE Switch(s)
  <2>1. /\ loop'[s].pc = "select" /\ loop[s].pc = "act"
        /\ switches' = Longer(switches) /\ MaySwitch(loop[s].recent)
    BY <1>1, <1>7 DEF Switch, PollDone
  <2>2. RateLimit = 0 \/ switches' <= RateLimit
    BY <1>1, <1>6, <2>1, LimitsAssumption DEF Longer, MaySwitch
  <2>3. QED
    BY <1>2, <1>4, <2>1, <2>2 DEF HistoryWithinLimit
<1>8. CASE ReadState(s)
  <2>1. loop'[s].recent = switches /\ switches' = switches
    BY <1>1, <1>8 DEF ReadState
  <2>2. QED
    BY <1>2, <1>4, <1>6, <2>1 DEF HistoryWithinLimit
<1>9. CASE Consult(s)
  <2>1. /\ loop'[s].recent = loop[s].recent /\ loop[s].pc = "consult"
        /\ switches' = switches
    BY <1>1, <1>9 DEF Consult, Loop
  <2>2. QED
    BY <1>2, <1>4, <1>6, <2>1 DEF HistoryWithinLimit
<1>10. CASE Dial(s) \/ PollFails(s) \/ ActFails(s) \/ Tick(s) \/ Exit(s)
  <2>1. loop'[s].pc \notin {"consult", "act"} /\ switches' = switches
    BY <1>1, <1>10 DEF Dial, PollFails, ActFails, Tick, Exit, PollDone, Loop
  <2>2. QED
    BY <1>2, <1>4, <1>6, <2>1 DEF HistoryWithinLimit
<1>11. QED
  BY <1>7, <1>8, <1>9, <1>10 DEF LoopStep, Run

LEMMA StepCounted == IInv /\ Counted /\ [Next]_vars => Counted'
<1> SUFFICES ASSUME IInv, Counted, [Next]_vars PROVE Counted'
  OBVIOUS
<1>1. CASE UNCHANGED vars
  BY <1>1 DEF vars, Counted, OnlyLoop, HistoryWithinLimit, LiveLoops, Started
<1>2. CASE \E t \in Callers : CallStep(t)
  BY <1>2, CallCounted DEF IInv
<1>3. CASE \E s \in Session : LoopStep(s)
  BY <1>3, LoopCounted
<1>4. QED
  BY <1>1, <1>2, <1>3 DEF Next

(* bridge.go lines 334 and 384 to 395: while the loop of a session that was
   started alone is the only one, it never selects more often than the limit,
   although the history is read before the orchestrator is consulted and
   tested after it. *)
THEOREM LimitHolds == Spec => []HistoryWithinLimit
<1>1. Counted => HistoryWithinLimit
  BY DEF Counted, OnlyLoop, HistoryWithinLimit
<1>2. QED
  BY <1>1, InitCounted, StepCounted, IInvHolds, PTL DEF Spec, SafeSpec

-----------------------------------------------------------------------------
(* Every step of the bridge is a step of the abstract lifecycle or changes
   nothing it can see. *)
LEMMA InitLifecycle == Init => Lifecycle!Init
BY DEF Init, Lifecycle!Init, LiveLoops, Started, Orphans, Crowded

(* The loop of a session that no one has stopped runs. *)
LEMMA UnstoppedRuns ==
    ASSUME IInv, NEW s \in Nat \ {0}, s <= sessions, s \notin stopped
    PROVE  s \in LiveLoops
BY NumberTypes DEF IInv, Tracked, LiveLoops, Started

LEMMA CallLifecycle ==
    ASSUME IInv, NEW t \in Callers, CallStep(t)
    PROVE  [Lifecycle!Next]_(Lifecycle!lifecycleVars)
<1>1. /\ TypeOK /\ Handles
      /\ sessions \in Nat /\ current \in Nat /\ call[t].session \in Nat
      /\ sessions <= MaxSessions
  BY NumberTypes, SessionsAssumption DEF IInv, TypeOK
<1>2. CASE CloseStop(t)
  <2>1. /\ call[t].pc = "close"
        /\ stopped' = stopped \cup ({call[t].session} \ {Nil})
        /\ UNCHANGED <<sessions, exited, origin>>
    BY <1>1, <1>2, CloseEffect
  <2>2. Orphans' = Orphans
    BY <1>1, <1>2, <2>1, CallOrphans DEF StartCommit
  <2>3. UNCHANGED <<LiveLoops, Crowded>>
    BY <2>1 DEF LiveLoops, Started, Crowded
  <2>4. CASE call[t].session = Nil
    <3>1. stopped' = stopped
      BY <2>1, <2>4
    <3>2. QED
      BY <2>1, <2>2, <2>3, <3>1 DEF Lifecycle!lifecycleVars
  <2>5. CASE call[t].session # Nil
    <3> DEFINE s == call[t].session
    <3>1. s <= sessions /\ s \notin stopped
      BY <2>1 DEF IInv, Handles
    <3>2. s \in LiveLoops
      BY <1>1, <2>5, <3>1, UnstoppedRuns DEF Nil
    <3>3. s \notin Orphans
      BY <2>1 DEF Orphans
    <3>4. (LiveLoops \cap stopped)' = (LiveLoops \cap stopped) \cup {s}
      BY <2>1, <2>3, <2>5, <3>2
    <3>5. Lifecycle!AskToEnd(s)
      BY <2>1, <2>2, <2>3, <3>1, <3>2, <3>3, <3>4 DEF Lifecycle!AskToEnd
    <3>6. s \in 1 .. MaxSessions
      BY <1>1, <2>5, <3>1, SessionsAssumption DEF Nil
    <3>7. QED
      BY <3>5, <3>6 DEF Lifecycle!Next
  <2>6. QED
    BY <2>4, <2>5
<1>3. CASE StartCommit(t)
  <2>1. /\ call[t].pc = "commit"
        /\ sessions < MaxSessions /\ sessions' = sessions + 1
        /\ origin'[sessions + 1] = met[t]
        /\ \A s \in Session : s # sessions + 1 => origin'[s] = origin[s]
        /\ UNCHANGED <<stopped, exited>>
    BY <1>1, <1>3, CommitEffect
  <2>2. sessions + 1 \notin stopped /\ sessions + 1 \notin exited
    BY <1>1 DEF IInv, Handles, Tracked, Started
  <2>3. LiveLoops' = LiveLoops \cup {sessions + 1}
    BY <1>1, <2>1, <2>2 DEF LiveLoops, Started
  <2>4. (LiveLoops \cap stopped)' = LiveLoops \cap stopped
    BY <2>1, <2>2, <2>3
  <2>5. Lifecycle!NewSession
    BY <2>1, <2>3, <2>4 DEF Lifecycle!NewSession
  <2>6. /\ \A s \in Started : origin'[s] = origin[s] /\ s \in Started'
        /\ Started' = Started \cup {sessions + 1}
    BY <1>1, <2>1, SessionsAssumption DEF Started, Session
  <2>7. Orphans' = Orphans \cup (LiveLoops \cap {current})
    BY <1>1, <1>3, CallOrphans
  <2>8. CASE met[t] = {}
    <3>1. LiveLoops = Orphans /\ current = Nil
      BY <2>1, <2>8, AloneAmongOrphans DEF IInv
    <3>2. UNCHANGED Orphans
      BY <2>7, <3>1
    <3>3. UNCHANGED Crowded
      BY <2>1, <2>6, <2>8 DEF Crowded
    <3>4. Lifecycle!SpawnAlone
      BY <2>5, <3>1, <3>2, <3>3 DEF Lifecycle!SpawnAlone
    <3>5. QED
      BY <3>4 DEF Lifecycle!Next
  <2>9. CASE met[t] # {}
    <3>1. Crowded' = Crowded \cup {sessions + 1}
      BY <2>1, <2>6, <2>9 DEF Crowded
    <3>2. \/ UNCHANGED Orphans
          \/ \E s \in (LiveLoops \cap Crowded) \ (LiveLoops \cap stopped) :
               Orphans' = Orphans \cup {s}
      <4>1. CASE current \notin LiveLoops
        BY <2>7, <4>1
      <4>2. CASE current \in LiveLoops
        <5>1. current # Nil /\ current \in Started
          BY <1>1, <4>2 DEF LiveLoops, Started, Nil
        <5>2. origin[current] # {}
          BY <2>1, <5>1 DEF IInv, Remembered
        <5>3. current \notin stopped
          BY DEF IInv, Handles
        <5>4. current \in (LiveLoops \cap Crowded) \ (LiveLoops \cap stopped)
          BY <4>2, <5>1, <5>2, <5>3 DEF Crowded
        <5>5. Orphans' = Orphans \cup {current}
          BY <2>7, <4>2
        <5>6. QED
          BY <5>4, <5>5
      <4>3. QED
        BY <4>1, <4>2
    <3>3. Lifecycle!SpawnInCrowd
      BY <2>5, <3>1, <3>2 DEF Lifecycle!SpawnInCrowd
    <3>4. QED
      BY <3>3 DEF Lifecycle!Next
  <2>10. QED
    BY <2>8, <2>9
<1>4. CASE ~CloseStop(t) /\ ~StartCommit(t)
  <2>1. UNCHANGED <<sessions, stopped, exited, origin>>
    BY <1>1, <1>4, TakeEffect, AwaitEffect, ClosePiEffect
       DEF CallStep, Proceed, StartRefused, history
  <2>2. Orphans' = Orphans
    BY <1>1, <1>4, CallOrphans
  <2>3. QED
    BY <2>1, <2>2 DEF Lifecycle!lifecycleVars, LiveLoops, Started, Crowded
<1>5. QED
  BY <1>2, <1>3, <1>4

LEMMA LoopLifecycle ==
    ASSUME IInv, NEW s \in Session, LoopStep(s)
    PROVE  [Lifecycle!Next]_(Lifecycle!lifecycleVars)
<1>1. /\ UNCHANGED <<sessions, stopped, origin>>
      /\ loop[s].pc \notin {"none", "exited"}
      /\ exited' = exited \/ (s \in stopped /\ exited' = exited \cup {s})
  BY LoopFrame DEF IInv
<1>2. Orphans' = Orphans
  BY LoopOrphans DEF IInv
<1>3. CASE exited' = exited
  BY <1>1, <1>2, <1>3 DEF Lifecycle!lifecycleVars, LiveLoops, Started, Crowded
<1>4. CASE s \in stopped /\ exited' = exited \cup {s}
  <2>1. s \in LiveLoops
    BY <1>1 DEF IInv, Tracked
  <2>2. LiveLoops' = LiveLoops \ {s} /\ UNCHANGED Crowded
    BY <1>1, <1>4 DEF LiveLoops, Started, Crowded
  <2>3. Lifecycle!End(s)
    BY <1>1, <1>2, <1>4, <2>1, <2>2 DEF Lifecycle!End
  <2>4. QED
    BY <2>3 DEF Lifecycle!Next, Session
<1>5. QED
  BY <1>1, <1>3, <1>4

(* For any threads the bridge implements the lifecycle's safety: numbered
   sessions, no loop that ends unasked, none but lost ones beside a start that
   overlapped no call, and none lost but in a crowd. *)
THEOREM LifecycleImplemented == Spec => Lifecycle!SafeSpec
<1>1. IInv /\ [Next]_vars => [Lifecycle!Next]_(Lifecycle!lifecycleVars)
  <2> SUFFICES ASSUME IInv, [Next]_vars
               PROVE  [Lifecycle!Next]_(Lifecycle!lifecycleVars)
    OBVIOUS
  <2>1. CASE UNCHANGED vars
    BY <2>1 DEF vars, Lifecycle!lifecycleVars, LiveLoops, Started, Orphans,
                Crowded
  <2>2. CASE \E t \in Callers : CallStep(t)
    BY <2>2, CallLifecycle
  <2>3. CASE \E s \in Session : LoopStep(s)
    BY <2>3, LoopLifecycle
  <2>4. QED
    BY <2>1, <2>2, <2>3 DEF Next
<1>2. QED
  BY <1>1, InitLifecycle, IInvHolds, PTL DEF Spec, SafeSpec,
     Lifecycle!SafeSpec
=============================================================================
