---------------------------- MODULE MobileBridge ----------------------------
(***************************************************************************)
(* Lifecycle of the in-process agent of pkg/mobilebridge: application      *)
(* threads call StartAgent and StopAgent while the background loop of each *)
(* session polls, all sharing one runtimeState under one mutex.            *)
(*                                                                         *)
(* A critical section of state.mu is one action.  A session is the pair of *)
(* channels StartAgent makes together (stopCh, doneCh), the loop it spawns *)
(* and the orchestrator client that loop creates: all four are named by    *)
(* the session's number, and 0 is nil.  The history is kept as its length, *)
(* the status as its running flag and last action.  What a poll reads from *)
(* and writes to disk is modelled in StateFiles and AdaptivePolicy; here a *)
(* poll only has the outcomes these can give it.                           *)
(*                                                                         *)
(* Any thread may start and stop the agent: the application does both from *)
(* its main thread and from a coroutine, and holds no lock.  Some promises *)
(* of the code depend on which calls overlap, so two history variables,    *)
(* met and origin, remember it; no guard reads them.                       *)
(***************************************************************************)
EXTENDS Integers, FiniteSets

CONSTANTS
    Callers,       \* threads that call StartAgent and StopAgent
    MaxSessions,   \* bound: how many sessions are ever started
    WithPi,        \* sessions configured to use the orchestrator (usePi)
    RateLimit,     \* the maxPerMinute argument of validateAction (6)
    HistoryCap     \* how many selections the history keeps (8)

ASSUME SessionsAssumption == MaxSessions \in Nat
ASSUME PiAssumption == WithPi \subseteq 1 .. MaxSessions
ASSUME LimitsAssumption ==
    /\ RateLimit \in Nat
    /\ HistoryCap \in Nat \ {0}
    /\ RateLimit <= HistoryCap

VARIABLES
    current,    \* session whose channels runtimeState holds
    pi,         \* session whose client runtimeState holds
    status,     \* runtimeState.status
    switches,   \* length of runtimeState.history
    sessions,   \* number of loops spawned so far
    stopped,    \* sessions whose stopCh is closed
    exited,     \* sessions whose doneCh is closed
    closed,     \* sessions whose orchestrator client is closed
    call,       \* what each application thread is doing
    loop,       \* what each session's loop is doing
    met,        \* history: the kinds of calls that overlap a thread's call
    origin      \* history: those that the session's StartAgent had met

history == <<met, origin>>
vars == <<current, pi, status, switches, sessions,
          stopped, exited, closed, call, loop, met, origin>>

Nil == 0
Session == 1 .. MaxSessions
SessionOrNil == 0 .. MaxSessions

Status ==
    [running : BOOLEAN,
     action  : {"none", "starting", "stopped", "switched", "error"}]

(* A call keeps the references it took out of runtimeState. *)
Call ==
    [op      : {"none", "start", "stop"},
     pc      : {"idle", "close", "wait", "closePi", "commit"},
     session : SessionOrNil,
     pi      : SessionOrNil]

(* A loop keeps the client and the history length its poll read. *)
Loop ==
    [pc     : {"none", "dial", "poll", "consult", "act", "select", "exited"},
     pi     : SessionOrNil,
     recent : 0 .. HistoryCap]

IdleCall == [op |-> "none", pc |-> "idle", session |-> Nil, pi |-> Nil]
NoLoop == [pc |-> "none", pi |-> Nil, recent |-> 0]

Started == 1 .. sessions
LiveLoops == Started \ exited

(* Loops that nobody can end: their stop channel is open, and neither
   runtimeState nor a call that is about to close it holds it. *)
Orphans ==
    {s \in LiveLoops \ (stopped \cup {current}) :
       \A t \in Callers : call[t].pc = "close" => call[t].session # s}

Init ==
    /\ current = Nil
    /\ pi = Nil
    /\ status = [running |-> FALSE, action |-> "none"]
    /\ switches = 0
    /\ sessions = 0
    /\ stopped = {}
    /\ exited = {}
    /\ closed = {}
    /\ call = [t \in Callers |-> IdleCall]
    /\ loop = [s \in Session |-> NoLoop]
    /\ met = [t \in Callers |-> {}]
    /\ origin = [s \in Session |-> {}]

-----------------------------------------------------------------------------
(* StartAgent and StopAgent *)

(* A call of t begins and meets those under way; they meet it. *)
Begins(t, op) ==
    /\ met' = [u \in Callers |->
                 IF u = t THEN {call[v].op : v \in Callers \ {t}} \ {"none"}
                 ELSE IF call[u].pc = "idle" THEN {}
                 ELSE met[u] \cup {op}]
    /\ UNCHANGED origin

(* A call of t returns. *)
Returns(t) == met' = [met EXCEPT ![t] = {}]

(* A configuration that does not parse or validate is reported, and nothing
   else happens: a running loop goes on. *)
StartRefused(t) ==
    /\ call[t].pc = "idle"
    /\ status' = [running |-> FALSE, action |-> "error"]
    /\ UNCHANGED <<current, pi, switches, sessions, stopped, exited, closed,
                   call, loop, history>>

(* Faulty variant: the old session is forgotten instead of taken over. *)
StartTakeForgetsOld(t) ==
    /\ call[t].pc = "idle"
    /\ sessions + Cardinality({u \in Callers : call[u].op = "start"})
         < MaxSessions
    /\ call' = [call EXCEPT ![t] = [op |-> "start", pc |-> "close",
                                    session |-> Nil, pi |-> pi]]
    /\ current' = Nil
    /\ pi' = Nil
    /\ Begins(t, "start")
    /\ UNCHANGED <<status, switches, sessions, stopped, exited, closed, loop>>

(* First critical section of StartAgent: the references move to the call.
   The first conjunct keeps the number of sessions within MaxSessions. *)
StartTake(t) ==
    /\ call[t].pc = "idle"
    /\ sessions + Cardinality({u \in Callers : call[u].op = "start"})
         < MaxSessions
    /\ call' = [call EXCEPT ![t] = [op |-> "start", pc |-> "close",
                                    session |-> current, pi |-> pi]]
    /\ current' = Nil
    /\ pi' = Nil
    /\ Begins(t, "start")
    /\ UNCHANGED <<status, switches, sessions, stopped, exited, closed, loop>>

(* Faulty variant: StopAgent leaves the channels in runtimeState. *)
StopTakeKeepsChannels(t) ==
    /\ call[t].pc = "idle"
    /\ call' = [call EXCEPT ![t] = [op |-> "stop", pc |-> "close",
                                    session |-> current, pi |-> pi]]
    /\ pi' = Nil
    /\ status' = [running |-> FALSE, action |-> "stopped"]
    /\ Begins(t, "stop")
    /\ UNCHANGED <<current, switches, sessions, stopped, exited, closed, loop>>

(* Critical section of StopAgent: reported as stopped before it is. *)
StopTake(t) ==
    /\ call[t].pc = "idle"
    /\ call' = [call EXCEPT ![t] = [op |-> "stop", pc |-> "close",
                                    session |-> current, pi |-> pi]]
    /\ current' = Nil
    /\ pi' = Nil
    /\ status' = [running |-> FALSE, action |-> "stopped"]
    /\ Begins(t, "stop")
    /\ UNCHANGED <<switches, sessions, stopped, exited, closed, loop>>

(* Faulty variant: the client is closed before the loop has ended. *)
CloseStopThenPi(t) ==
    /\ call[t].pc = "close"
    /\ stopped' = stopped \cup ({call[t].session} \ {Nil})
    /\ call' = [call EXCEPT ![t].pc = "closePi"]
    /\ UNCHANGED <<current, pi, status, switches, sessions, exited, closed,
                   loop, history>>

(* close(stopCh), unless it is nil. *)
CloseStop(t) ==
    /\ call[t].pc = "close"
    /\ stopped' = stopped \cup ({call[t].session} \ {Nil})
    /\ call' = [call EXCEPT ![t].pc = "wait"]
    /\ UNCHANGED <<current, pi, status, switches, sessions, exited, closed,
                   loop, history>>

(* Faulty variant: the call does not wait for the loop. *)
AwaitNothing(t) ==
    /\ call[t].pc = "wait"
    /\ call' = [call EXCEPT ![t].pc = "closePi"]
    /\ UNCHANGED <<current, pi, status, switches, sessions, stopped, exited,
                   closed, loop, history>>

(* <-doneCh, unless it is nil. *)
AwaitDone(t) ==
    /\ call[t].pc = "wait"
    /\ call[t].session \in exited \cup {Nil}
    /\ call' = [call EXCEPT ![t].pc = "closePi"]
    /\ UNCHANGED <<current, pi, status, switches, sessions, stopped, exited,
                   closed, loop, history>>

(* Close the client the call took; StopAgent returns. *)
ClosePi(t) ==
    /\ call[t].pc = "closePi"
    /\ closed' = closed \cup ({call[t].pi} \ {Nil})
    /\ call' = [call EXCEPT ![t] = IF @.op = "start"
                                   THEN [@ EXCEPT !.pc = "commit"]
                                   ELSE IdleCall]
    /\ IF call[t].op = "start" THEN UNCHANGED met ELSE Returns(t)
    /\ UNCHANGED <<current, pi, status, switches, sessions, stopped, exited,
                   loop, origin>>

(* Last critical section of StartAgent: make the channels and spawn the
   loop.  Whatever runtimeState held is overwritten, except its client. *)
StartCommit(t) ==
    /\ call[t].pc = "commit"
    /\ sessions < MaxSessions
    /\ sessions' = sessions + 1
    /\ current' = sessions + 1
    /\ switches' = 0
    /\ status' = [running |-> TRUE, action |-> "starting"]
    /\ loop' = [loop EXCEPT ![sessions + 1].pc = "dial"]
    /\ call' = [call EXCEPT ![t] = IdleCall]
    /\ origin' = [origin EXCEPT ![sessions + 1] = met[t]]
    /\ Returns(t)
    /\ UNCHANGED <<pi, stopped, exited, closed>>

-----------------------------------------------------------------------------
(* runLoop and runOnce *)

(* updateError: the report claims a running agent, whoever is reporting. *)
ReportError == status' = [running |-> TRUE, action |-> "error"]

(* A session configured to use the orchestrator has its client before the
   first poll, or reports that it does without. *)
Dial(s) ==
    /\ loop[s].pc = "dial"
    /\ loop' = [loop EXCEPT ![s].pc = "poll"]
    /\ \/ s \notin WithPi /\ UNCHANGED <<pi, status>>
       \/ s \in WithPi /\ pi' = s /\ UNCHANGED status
       \/ s \in WithPi /\ ReportError /\ UNCHANGED pi
    /\ UNCHANGED <<current, switches, sessions, stopped, exited, closed, call,
                   history>>

(* runOnce has returned: what the poll read is gone. *)
PollDone == [pc |-> "select", pi |-> Nil, recent |-> 0]

(* Faulty variant: the loop returns when a poll fails. *)
PollFailsAndReturns(s) ==
    /\ loop[s].pc = "poll"
    /\ ReportError
    /\ exited' = exited \cup {s}
    /\ loop' = [loop EXCEPT ![s].pc = "exited"]
    /\ UNCHANGED <<current, pi, switches, sessions, stopped, closed, call,
                   history>>

(* A store that does not load, no candidate, nothing left to rank. *)
PollFails(s) ==
    /\ loop[s].pc = "poll"
    /\ ReportError
    /\ loop' = [loop EXCEPT ![s] = PollDone]
    /\ UNCHANGED <<current, pi, switches, sessions, stopped, exited, closed,
                   call, history>>

(* The poll's critical section: copy the client and the history.  Whether
   the orchestrator is consulted depends on the ranking. *)
ReadState(s) ==
    /\ loop[s].pc = "poll"
    /\ \E ambiguous \in BOOLEAN :
         loop' = [loop EXCEPT ![s] =
                    [pc |-> IF ambiguous /\ pi # Nil THEN "consult" ELSE "act",
                     pi |-> pi, recent |-> switches]]
    /\ UNCHANGED <<current, pi, status, switches, sessions, stopped, exited,
                   closed, call, history>>

(* DecideWithFallback, bounded by its timeout: an error closes the client
   (runtimeState keeps it) and the policy's selection stands. *)
Consult(s) ==
    /\ loop[s].pc = "consult"
    /\ \/ loop[s].pi \notin closed /\ UNCHANGED closed
       \/ closed' = closed \cup {loop[s].pi}
    /\ loop' = [loop EXCEPT ![s].pc = "act"]
    /\ UNCHANGED <<current, pi, status, switches, sessions, stopped, exited,
                   call, history>>

(* validateAction, with the history length as the switch count. *)
MaySwitch(recent) == RateLimit = 0 \/ recent + 1 <= RateLimit

(* The action is rejected, or its template or configuration fails. *)
ActFails(s) ==
    /\ loop[s].pc = "act"
    /\ ReportError
    /\ loop' = [loop EXCEPT ![s] = PollDone]
    /\ UNCHANGED <<current, pi, switches, sessions, stopped, exited, closed,
                   call, history>>

(* Faulty variant: the history is never trimmed. *)
LongerUntrimmed(n) == n + 1

(* The history after one more selection, trimmed to its last HistoryCap. *)
Longer(n) == IF n < HistoryCap THEN n + 1 ELSE HistoryCap

(* The configuration is rendered: remember the selection and report it. *)
Switch(s) ==
    /\ loop[s].pc = "act"
    /\ MaySwitch(loop[s].recent)
    /\ switches' = Longer(switches)
    /\ status' = [running |-> TRUE, action |-> "switched"]
    /\ loop' = [loop EXCEPT ![s] = PollDone]
    /\ UNCHANGED <<current, pi, sessions, stopped, exited, closed, call,
                   history>>

(* The select statement: another poll, or the end of the loop. *)
Tick(s) ==
    /\ loop[s].pc = "select"
    /\ loop' = [loop EXCEPT ![s].pc = "poll"]
    /\ UNCHANGED <<current, pi, status, switches, sessions, stopped, exited,
                   closed, call, history>>

(* Faulty variant: the loop looks at runtimeState instead of its own channel. *)
ExitIfCurrent(s) ==
    /\ loop[s].pc = "select"
    /\ s \in stopped
    /\ s = current
    /\ exited' = exited \cup {s}
    /\ loop' = [loop EXCEPT ![s].pc = "exited"]
    /\ UNCHANGED <<current, pi, status, switches, sessions, stopped, closed,
                   call, history>>

Exit(s) ==
    /\ loop[s].pc = "select"
    /\ s \in stopped
    /\ exited' = exited \cup {s}
    /\ loop' = [loop EXCEPT ![s].pc = "exited"]
    /\ UNCHANGED <<current, pi, status, switches, sessions, stopped, closed,
                   call, history>>

-----------------------------------------------------------------------------
Proceed(t) == CloseStop(t) \/ AwaitDone(t) \/ ClosePi(t) \/ StartCommit(t)

CallStep(t) == StartRefused(t) \/ StartTake(t) \/ StopTake(t) \/ Proceed(t)

Run(s) ==
    \/ Dial(s) \/ PollFails(s) \/ ReadState(s) \/ Consult(s)
    \/ ActFails(s) \/ Switch(s) \/ Tick(s)

LoopStep(s) == Run(s) \/ Exit(s)

Next ==
    \/ \E t \in Callers : CallStep(t)
    \/ \E s \in Session : LoopStep(s)

SafeSpec == Init /\ [][Next]_vars

(* A call that has begun and a loop that runs are scheduled.  A select with
   both channels ready picks either at random, so a loop that is stopped and
   comes back to its select again and again takes the stop branch. *)
Spec ==
    /\ SafeSpec
    /\ \A t \in Callers : WF_vars(Proceed(t))
    /\ \A s \in Session : WF_vars(Run(s)) /\ SF_vars(Exit(s))

-----------------------------------------------------------------------------
(* What runtimeState, the calls and the loops can hold; a poll consults only a
   client that it read (bridge.go line 300). *)
TypeOK ==
    /\ current \in SessionOrNil
    /\ pi \in SessionOrNil
    /\ status \in Status
    /\ switches \in 0 .. HistoryCap
    /\ sessions \in 0 .. MaxSessions
    /\ stopped \subseteq Session
    /\ exited \subseteq Session
    /\ closed \subseteq Session
    /\ call \in [Callers -> Call]
    /\ loop \in [Session -> Loop]
    /\ met \in [Callers -> SUBSET {"start", "stop"}]
    /\ origin \in [Session -> SUBSET {"start", "stop"}]
    /\ \A s \in Session : loop[s].pc = "consult" => loop[s].pi # Nil

(* However many threads start and stop the agent at once, no stop channel is
   closed twice, which would be a panic in the application's process: a call
   about to close a channel (bridge.go lines 88 and 123) holds the only
   reference to it. *)
NoDoubleClose ==
    \A t \in Callers :
      call[t].pc = "close" => call[t].session \notin stopped

(* A loop that nobody can end polls and rewrites the configuration for the
   life of the process.  Only a StartAgent that overlaps another StartAgent
   leaves one (bridge.go lines 98 to 106): whatever stops go on beside it, and
   whatever is called later, any other running loop is stopped or still has
   its channel in runtimeState or in a call about to close it. *)
NoOrphanLoop == \A s \in Orphans : "start" \in origin[s]

(* A StartAgent that overlapped no other call has ended the loop before its
   own (bridge.go lines 90 to 107): two sessions poll at once only if a call
   went on beside the later start, or the earlier loop is an orphan. *)
SingleLoop ==
    \A r, s \in LiveLoops : r < s => origin[s] # {} \/ r \in Orphans

(* A session never selects more often than the limit validateAction is given
   (bridge.go line 334), although the length it tests was read before the
   selection was appended: while its loop is the only one, and no call went on
   beside the StartAgent that started it. *)
HistoryWithinLimit ==
    sessions # Nil /\ origin[sessions] = {} /\ LiveLoops \subseteq {sessions}
      => RateLimit = 0 \/ switches <= RateLimit

(* A call that overlaps no other never closes a client in the middle of a
   request on it (bridge.go lines 94, 129 and 316), an orphan's excepted. *)
ClientNotPulled ==
    \A t \in Callers, s \in Session :
      /\ call[t].pc = "closePi" /\ loop[s].pc = "consult"
      /\ call[t].pi = loop[s].pi
      => met[t] # {} \/ s \in Orphans

(* StartAgent and StopAgent return, whatever the other threads do: the loop a
   call waits for (bridge.go lines 91 and 126) comes back to its select. *)
CallsReturn ==
    \A t \in Callers : call[t].pc # "idle" ~> call[t].pc = "idle"

Crowded == {s \in Started : origin[s] # {}}

Lifecycle == INSTANCE AgentLifecycle
    WITH spawned <- sessions, live <- LiveLoops,
         doomed <- LiveLoops \cap stopped, lost <- Orphans,
         crowded <- Crowded

(* A loop ends exactly when asked to, a start alone finds only loops lost in
   a crowd, and at most one is lost to a start: the promise of runLoop,
   StartAgent and StopAgent to any threads. *)
ImplementsLifecycle == Lifecycle!Spec
=============================================================================
