------------------------- MODULE InsideSessionProofs -------------------------
(* Proofs about InsideSession: the types, that no failure leaves its sing-box
   behind, and that no earlier attempt answers a probe, for any number of runs
   and attempts and any switch limit. *)
EXTENDS InsideSession, TLAPS

(* Where a run is bounds the attempt it is at and what it has listed. *)
Counted ==
    /\ opts \in [mode : Modes, probe : BOOLEAN, hold : BOOLEAN, max : 1 .. MaxAttempts]
    /\ pc # "idle" => run >= 1 /\ attempt >= 1
    /\ pc \in {"apply", "probe", "report", "hold"} => attempt <= opts.max
    /\ pc \in {"apply", "probe"} => tried = attempt - 1 /\ learned = tried

(* The controller holds a process from its start to the end of its attempt. *)
Held ==
    /\ \A b \in alive : b.run <= run
    /\ pc \in {"try", "apply"} => box = None
    /\ pc \in {"probe", "report", "hold"} => box = This

Inv == TypeOK /\ Counted /\ Held /\ NoStrayBox /\ NoAttemptAnswersForAnother

USE AttemptsAssumption

-----------------------------------------------------------------------------
LEMMA InitInv == Init => Inv
BY DEF Init, Inv, TypeOK, Counted, Held, NoStrayBox, NoAttemptAnswersForAnother,
       Names, None, NoReport, Modes, This

(* The names of processes are those of the run and the attempt it is at. *)
LEMMA ThisIsAName ==
    ASSUME TypeOK, Counted, pc # "idle", attempt <= opts.max
    PROVE  This \in Names \ {None} /\ This.run = run
BY DEF TypeOK, Counted, Names, None, This

(* Stop leaves no process of this run. *)
LEMMA StopTakesTheBox ==
    ASSUME Inv, pc # "idle", Stop
    PROVE  /\ box' = None /\ box' \in Names
           /\ starting' \subseteq alive' /\ alive' \subseteq alive
           /\ listener' \in alive' \cup {None} /\ listener' \in Names
           /\ \A b \in alive' : b.run # run
<1>1. None \in Names
  BY DEF None, Names
<1>2. \A b \in alive \ {box} : b.run # run
  BY DEF Inv, NoStrayBox
<1> QED BY <1>1, <1>2 DEF Stop, Inv, TypeOK

(* What ends a run before it has started a process. *)
LEMMA EndsEmpty ==
    ASSUME Inv, pc \in {"try", "apply"} PROVE \A b \in alive : b.run # run
BY DEF Inv, TypeOK, NoStrayBox, Held

LEMMA BeginKeeps == ASSUME Inv, Begin PROVE Inv'
<1>1. PICK mode \in Modes, probe \in BOOLEAN, hold \in BOOLEAN, max \in 1 .. MaxAttempts :
        opts' = [mode |-> mode, probe |-> probe, hold |-> hold, max |-> max]
  BY DEF Begin
<1>2. \A b \in alive : b.run < run + 1 /\ b.run # run + 1
  BY DEF Inv, TypeOK, Held, Names
<1>3. TypeOK'
  BY <1>1 DEF Begin, Inv, TypeOK, Names, None, NoReport, disk, processes
<1>4. Counted'
  BY <1>1 DEF Begin, Inv, TypeOK, Counted
<1>5. Held'
  BY <1>2 DEF Begin, Inv, TypeOK, Held, Names, processes
<1>6. NoStrayBox' /\ NoAttemptAnswersForAnother'
  BY <1>2 DEF Begin, Inv, TypeOK, NoStrayBox, NoAttemptAnswersForAnother, processes
<1> QED BY <1>3, <1>4, <1>5, <1>6 DEF Inv

(* A run returns with nothing started, whatever it has written. *)
LEMMA EarlyEndKeeps ==
    ASSUME Inv, pc \in {"try", "apply"}, NEW how, End(how),
           UNCHANGED <<run, opts, attempt, tried, box, answered, last, processes>>,
           learned' \in {tried, tried + 1},
           config' \in Names, state'.of \in Names
    PROVE  Inv'
<1>1. TypeOK'
  BY DEF Inv, TypeOK, End, processes
<1>2. Counted' /\ Held'
  BY DEF Inv, Counted, Held, End, processes
<1>3. NoStrayBox' /\ NoAttemptAnswersForAnother'
  BY EndsEmpty DEF End, NoStrayBox, NoAttemptAnswersForAnother, processes
<1> QED BY <1>1, <1>2, <1>3 DEF Inv

LEMMA NextAttemptKeeps ==
    ASSUME Inv, pc \in {"apply", "probe"}, NextAttempt, UNCHANGED answered PROVE Inv'
<1>1. /\ box' = None /\ box' \in Names
      /\ starting' \subseteq alive' /\ alive' \subseteq alive
      /\ listener' \in alive' \cup {None} /\ listener' \in Names
      /\ \A b \in alive' : b.run # run
  BY StopTakesTheBox DEF NextAttempt
<1>2. This \in Names
  BY ThisIsAName DEF Inv, Counted
<1>3. TypeOK'
  BY <1>1, <1>2 DEF NextAttempt, Inv, TypeOK, Counted, Report, disk
<1>4. Counted' /\ Held'
  BY <1>1 DEF NextAttempt, Inv, TypeOK, Counted, Held
<1>5. NoStrayBox' /\ NoAttemptAnswersForAnother'
  BY <1>1 DEF NextAttempt, NoStrayBox, NoAttemptAnswersForAnother
<1> QED BY <1>3, <1>4, <1>5 DEF Inv

LEMMA StartKeeps == ASSUME Inv, Start PROVE Inv'
<1>1. This \in Names \ {None} /\ This.run = run
  BY ThisIsAName DEF Start, Inv, Counted
<1>2. \A b \in alive : b.run # run
  BY EndsEmpty DEF Start
<1>3. This' = This
  BY DEF Start, This
<1>4. TypeOK'
  BY <1>1 DEF Start, Inv, TypeOK, disk
<1>5. Counted'
  BY DEF Start, Inv, Counted
<1>6. Held'
  BY <1>1, <1>3 DEF Start, Inv, TypeOK, Held
<1>7. NoStrayBox' /\ NoAttemptAnswersForAnother'
  BY <1>2 DEF Start, NoStrayBox, NoAttemptAnswersForAnother
<1> QED BY <1>4, <1>5, <1>6, <1>7 DEF Inv

(* Whoever listens is a process; one of this run is the one that is held. *)
LEMMA SucceedKeeps == ASSUME Inv, Succeed PROVE Inv'
<1>1. answered' \in Names /\ (answered'.run = run => answered' = box)
  <2>1. CASE opts.probe
    <3>1. listener \in alive
      BY <2>1 DEF Succeed, Inv, TypeOK
    <3> QED BY <2>1, <3>1 DEF Succeed, Inv, TypeOK, NoStrayBox
  <2>2. CASE ~opts.probe
    BY <2>2 DEF Succeed, Inv, TypeOK
  <2> QED BY <2>1, <2>2
<1>2. TypeOK'
  BY <1>1 DEF Succeed, Inv, TypeOK, Counted, disk, processes
<1>3. Counted' /\ Held'
  BY DEF Succeed, Inv, Counted, Held, This, processes
<1>4. NoStrayBox' /\ NoAttemptAnswersForAnother'
  BY <1>1 DEF Succeed, Inv, NoStrayBox, NoAttemptAnswersForAnother, processes
<1> QED BY <1>2, <1>3, <1>4 DEF Inv

LEMMA ReportRunningKeeps == ASSUME Inv, ReportRunning PROVE Inv'
<1>1. This \in Names
  BY ThisIsAName DEF ReportRunning, Inv, Counted
<1>2. pc' = "hold" \/ (pc' = "idle" /\ outcome' = "connected")
  BY DEF ReportRunning, End
<1>3. TypeOK'
  BY <1>1, <1>2 DEF ReportRunning, Inv, TypeOK, Report, memory, processes
<1>4. Counted' /\ Held'
  BY <1>2 DEF ReportRunning, Inv, Counted, Held, This, memory, processes
<1>5. NoStrayBox' /\ NoAttemptAnswersForAnother'
  BY <1>2 DEF ReportRunning, Inv, NoStrayBox, NoAttemptAnswersForAnother, memory, processes
<1> QED BY <1>3, <1>4, <1>5 DEF Inv

(* The run ends and its process, if it has one, goes on. *)
LEMMA AbandonKeeps == ASSUME Inv, ReportFails \/ Killed PROVE Inv'
<1>1. /\ pc' = "idle" /\ outcome' \in {"unwritten", "killed"}
      /\ UNCHANGED <<run, memory, disk, processes>>
  BY DEF ReportFails, Killed, End
<1>2. TypeOK'
  BY <1>1 DEF Inv, TypeOK, memory, disk, processes
<1>3. Counted' /\ Held'
  BY <1>1 DEF Inv, Counted, Held, memory, processes
<1>4. NoStrayBox' /\ NoAttemptAnswersForAnother'
  BY <1>1 DEF NoStrayBox, NoAttemptAnswersForAnother, processes
<1> QED BY <1>2, <1>3, <1>4 DEF Inv

LEMMA ReleaseKeeps == ASSUME Inv, Release PROVE Inv'
<1>1. /\ box' = None /\ box' \in Names
      /\ starting' \subseteq alive' /\ alive' \subseteq alive
      /\ listener' \in alive' \cup {None} /\ listener' \in Names
      /\ \A b \in alive' : b.run # run
  BY StopTakesTheBox DEF Release
<1>2. TypeOK'
  BY <1>1 DEF Release, End, Inv, TypeOK, disk
<1>3. Counted' /\ Held'
  BY <1>1 DEF Release, End, Inv, Counted, Held
<1>4. NoStrayBox' /\ NoAttemptAnswersForAnother'
  BY <1>1 DEF Release, End, NoStrayBox, NoAttemptAnswersForAnother
<1> QED BY <1>2, <1>3, <1>4 DEF Inv

(* A process binds the probe address or ends; none comes to be. *)
LEMMA ProcessKeeps ==
    ASSUME Inv, NEW b \in alive, Bind(b) \/ Crash(b) PROVE Inv'
<1>1. /\ UNCHANGED <<run, pc, outcome, memory, disk>>
      /\ starting' \subseteq alive' /\ alive' \subseteq alive
      /\ listener' \in alive' \cup {None}
  BY DEF Bind, Crash, Exits, Inv, TypeOK
<1>2. None \in Names
  BY DEF None, Names
<1>3. TypeOK'
  BY <1>1, <1>2 DEF Inv, TypeOK, memory, disk
<1>4. Counted' /\ Held'
  BY <1>1 DEF Inv, Counted, Held, This, memory
<1>5. NoStrayBox' /\ NoAttemptAnswersForAnother'
  BY <1>1 DEF Inv, NoStrayBox, NoAttemptAnswersForAnother, memory
<1> QED BY <1>3, <1>4, <1>5 DEF Inv

LEMMA RenderKeeps == ASSUME Inv, Render PROVE Inv'
<1>1. This \in Names
  BY ThisIsAName DEF Render, MayTry, Inv
<1>2. CASE opts.mode = "render"
  <2>1. End("rendered") /\ state'.of = This /\ config' = This /\ pc = "try"
    BY <1>2 DEF Render, MayTry, Report
  <2> QED BY <1>1, <2>1, EarlyEndKeeps DEF Render, Inv, TypeOK, memory
<1>3. CASE opts.mode # "render"
  <2>1. pc' = "apply" /\ UNCHANGED <<run, outcome, memory, state, processes>> /\ config' = This
    BY <1>3 DEF Render
  <2>2. TypeOK'
    BY <1>1, <2>1 DEF Inv, TypeOK, memory, processes
  <2>3. Counted' /\ Held'
    BY <2>1 DEF Render, MayTry, Inv, TypeOK, Counted, Held, This, memory, processes
  <2>4. NoStrayBox' /\ NoAttemptAnswersForAnother'
    BY <2>1 DEF Render, MayTry, Inv, NoStrayBox, NoAttemptAnswersForAnother, memory, processes
  <2> QED BY <2>2, <2>3, <2>4 DEF Inv
<1> QED BY <1>2, <1>3

LEMMA StepKeeps == ASSUME Inv, [Next]_vars PROVE Inv'
<1>1. CASE Begin BY <1>1, BeginKeeps
<1>2. CASE Exhausted
  BY <1>2, EarlyEndKeeps DEF Exhausted, Inv, TypeOK, memory
<1>3. CASE Rejected
  BY <1>3, EarlyEndKeeps DEF Rejected, Inv, TypeOK, memory, disk
<1>4. CASE Unrendered
  BY <1>4, EarlyEndKeeps DEF Unrendered, MayTry, Inv, TypeOK, memory, disk
<1>5. CASE Render BY <1>5, RenderKeeps
<1>6. CASE Validate
  <2>1. This \in Names
    BY <1>6, ThisIsAName DEF Validate, Inv, Counted
  <2>2. (state'.of = This \/ state' = state) /\ \E how : End(how)
    BY <1>6 DEF Validate, Report
  <2> QED BY <1>6, <2>1, <2>2, EarlyEndKeeps DEF Validate, Inv, TypeOK, memory
<1>7. CASE BinaryMissing
  <2>1. This \in Names
    BY <1>7, ThisIsAName DEF BinaryMissing, Inv, Counted
  <2>2. state'.of = This /\ learned' = tried + 1
    BY <1>7 DEF BinaryMissing, Report, Inv, Counted
  <2> QED BY <1>7, <2>1, <2>2, EarlyEndKeeps DEF BinaryMissing, Inv, TypeOK
<1>8. CASE NotStarted BY <1>8, NextAttemptKeeps DEF NotStarted
<1>9. CASE Start BY <1>9, StartKeeps
<1>10. CASE ProbeFails BY <1>10, NextAttemptKeeps DEF ProbeFails
<1>11. CASE Succeed BY <1>11, SucceedKeeps
<1>12. CASE ReportRunning BY <1>12, ReportRunningKeeps
<1>13. CASE ReportFails \/ Killed BY <1>13, AbandonKeeps
<1>14. CASE Release BY <1>14, ReleaseKeeps
<1>15. CASE \E b \in alive : Bind(b) \/ Crash(b) BY <1>15, ProcessKeeps
<1>16. CASE UNCHANGED vars
  BY <1>16 DEF vars, memory, disk, processes, Inv, TypeOK, Counted, Held, NoStrayBox,
               NoAttemptAnswersForAnother, This
<1> QED BY <1>1, <1>2, <1>3, <1>4, <1>5, <1>6, <1>7, <1>8, <1>9, <1>10, <1>11, <1>12, <1>13,
           <1>14, <1>15, <1>16 DEF Next

LEMMA InvHolds == Spec => []Inv
BY InitInv, StepKeeps, PTL DEF Spec

-----------------------------------------------------------------------------
(* runWithResolved lists and learns each attempt once, makes no more than it
   was asked for, and every variable keeps its type. *)
THEOREM TypeCorrect == Spec => []TypeOK
<1>1. Inv => TypeOK BY DEF Inv
<1> QED BY <1>1, InvHolds, PTL

(* However a run fails, it leaves no sing-box of its own behind. *)
THEOREM NothingLeftBehind == Spec => []NoStrayBox
<1>1. Inv => NoStrayBox BY DEF Inv
<1> QED BY <1>1, InvHolds, PTL

(* The process that answers a probe is the one that is probed, unless an
   earlier run has left it. *)
THEOREM OwnBoxAnswers == Spec => []NoAttemptAnswersForAnother
<1>1. Inv => NoAttemptAnswersForAnother BY DEF Inv
<1> QED BY <1>1, InvHolds, PTL
=============================================================================
