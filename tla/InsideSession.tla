---------------------------- MODULE InsideSession ----------------------------
(***************************************************************************)
(* Runs of the inside agent, one after the other on one state directory:   *)
(* the attempts of runWithResolved in cmd/inside/main.go, the sing-box     *)
(* processes its sbctl.Controller starts, and what a run leaves behind,    *)
(* state.json, the rendered configuration and processes that still run.    *)
(*                                                                         *)
(* Which profile is attempted when is modelled in AdaptivePolicy; here a   *)
(* profile, its configuration and its process are named by the run and the *)
(* attempt, [run, attempt].  All probing processes want one probe address. *)
(***************************************************************************)
EXTENDS Integers, FiniteSets

CONSTANTS
    MaxAttempts,   \* opts.MaxAttempts, at most the number of profiles
    SwitchLimit,   \* the maxPerMinute argument of validateAction (6)
    MaxRuns        \* bound: runs begun

ASSUME AttemptsAssumption ==
    MaxAttempts \in Nat \ {0} /\ SwitchLimit \in Nat /\ MaxRuns \in Nat

VARIABLES
    run,        \* number of runs begun
    pc,         \* where the run is; idle between runs
    opts,       \* what the run was asked for
    attempt,    \* the attempt it is at
    tried,      \* how many attempts it has listed
    learned,    \* how many attempts it recorded in the adaptive state
    box,        \* the process the controller holds
    answered,   \* the process that answered the last probe
    last,       \* lastState
    outcome,    \* how the last run ended
    config,     \* what config.json was rendered for
    state,      \* state.json
    starting,   \* processes about to bind the probe address
    alive,      \* processes that run
    listener    \* the process that holds the probe address

memory == <<opts, attempt, tried, learned, box, answered, last>>
disk == <<config, state>>
processes == <<starting, alive, listener>>
vars == <<run, pc, outcome, memory, disk, processes>>

None == [run |-> 0, attempt |-> 0]
This == [run |-> run, attempt |-> attempt]

Modes == {"connect", "render", "validate"}

Report(status, process, attempts) ==
    [status |-> status, of |-> This, box |-> process, attempts |-> attempts]

NoReport == [status |-> "none", of |-> None, box |-> None, attempts |-> 0]

Init ==
    /\ run = 0 /\ pc = "idle" /\ outcome = "none"
    /\ opts = [mode |-> "connect", probe |-> FALSE, hold |-> FALSE, max |-> 1]
    /\ attempt = 0 /\ tried = 0 /\ learned = 0
    /\ box = None /\ answered = None
    /\ last = NoReport
    /\ config = None /\ state = NoReport
    /\ starting = {} /\ alive = {} /\ listener = None

(* The run returns: what it held in memory is gone. *)
End(how) == pc' = "idle" /\ outcome' = how

-----------------------------------------------------------------------------
Begin ==
    /\ pc = "idle"
    /\ run < MaxRuns
    /\ run' = run + 1
    /\ pc' = "try" /\ outcome' = "none"
    /\ \E mode \in Modes, probe, hold \in BOOLEAN, max \in 1 .. MaxAttempts :
         opts' = [mode |-> mode, probe |-> probe, hold |-> hold, max |-> max]
    /\ attempt' = 1 /\ tried' = 0 /\ learned' = 0
    /\ box' = None /\ answered' = None /\ last' = NoReport
    /\ UNCHANGED <<disk, processes>>

(* The attempts are used up: report the last one. *)
Exhausted ==
    /\ pc = "try" /\ attempt > opts.max
    /\ state' = last
    /\ End("failed")
    /\ UNCHANGED <<run, memory, config, processes>>

(* validateAction; each profile is attempted once, so its loop guard holds. *)
Rejected ==
    /\ pc = "try" /\ attempt <= opts.max
    /\ attempt > SwitchLimit /\ SwitchLimit > 0
    /\ End("rejected")
    /\ UNCHANGED <<run, memory, disk, processes>>

(* Faulty variant: one attempt too many. *)
MayTryOnceMore ==
    /\ pc = "try" /\ attempt <= opts.max + 1
    /\ SwitchLimit = 0 \/ attempt <= SwitchLimit

MayTry ==
    /\ pc = "try" /\ attempt <= opts.max
    /\ SwitchLimit = 0 \/ attempt <= SwitchLimit

(* No template, or a template that does not render. *)
Unrendered ==
    /\ MayTry
    /\ End("unrendered")
    /\ UNCHANGED <<run, memory, disk, processes>>

Render ==
    /\ MayTry
    /\ config' = This
    /\ IF opts.mode = "render"
       THEN state' = Report("rendered", None, 0) /\ End("rendered")
       ELSE pc' = "apply" /\ UNCHANGED <<state, outcome>>
    /\ UNCHANGED <<run, memory, processes>>

(* --validate-only: state.json is also written when there is no binary. *)
Validate ==
    /\ pc = "apply" /\ opts.mode = "validate"
    /\ \/ state' = Report("validated", None, 0) /\ End("validated")
       \/ state' = Report("validated", None, 0) /\ End("missing")
       \/ UNCHANGED state /\ End("invalid")
    /\ UNCHANGED <<run, memory, config, processes>>

BinaryMissing ==
    /\ pc = "apply" /\ opts.mode = "connect"
    /\ state' = Report("failed", None, 0)
    /\ learned' = learned + 1
    /\ End("missing")
    /\ UNCHANGED <<run, opts, attempt, tried, box, answered, last, config, processes>>

(* Controller.Stop kills the process it holds and waits for it. *)
Stop ==
    /\ box' = None
    /\ starting' = starting \ {box}
    /\ alive' = alive \ {box}
    /\ listener' = IF listener = box THEN None ELSE listener

(* Faulty variant: the controller is not told. *)
NextAttemptLeaving ==
    /\ tried' = tried + 1 /\ learned' = learned + 1
    /\ last' = Report("failed", box, tried + 1)
    /\ attempt' = attempt + 1
    /\ pc' = "try"
    /\ UNCHANGED <<box, processes>>
    /\ UNCHANGED <<run, opts, outcome, disk>>

(* An attempt failed: list it, learn it, stop its process, try the next. *)
NextAttempt ==
    /\ tried' = tried + 1 /\ learned' = learned + 1
    /\ last' = Report("failed", box, tried + 1)
    /\ attempt' = attempt + 1
    /\ pc' = "try"
    /\ Stop
    /\ UNCHANGED <<run, opts, outcome, disk>>

(* sing-box check refuses the configuration, or the process does not start. *)
NotStarted ==
    /\ pc = "apply" /\ opts.mode = "connect"
    /\ NextAttempt
    /\ UNCHANGED answered

Start ==
    /\ pc = "apply" /\ opts.mode = "connect"
    /\ box' = This
    /\ alive' = alive \cup {This}
    /\ starting' = IF opts.probe THEN starting \cup {This} ELSE starting
    /\ pc' = "probe"
    /\ UNCHANGED <<run, outcome, opts, attempt, tried, learned, answered, last,
                   disk, listener>>

(* Nobody listens in time, or the request through the proxy fails. *)
ProbeFails ==
    /\ pc = "probe" /\ opts.probe
    /\ NextAttempt
    /\ UNCHANGED answered

(* The probe is answered through the probe address, or none is asked for. *)
Succeed ==
    /\ pc = "probe"
    /\ opts.probe => listener # None
    /\ answered' = IF opts.probe THEN listener ELSE box
    /\ tried' = tried + 1 /\ learned' = learned + 1
    /\ pc' = "report"
    /\ UNCHANGED <<run, outcome, opts, attempt, box, last, disk, processes>>

ReportRunning ==
    /\ pc = "report"
    /\ state' = Report("running", box, tried)
    /\ IF opts.hold THEN pc' = "hold" /\ UNCHANGED outcome ELSE End("connected")
    /\ UNCHANGED <<run, memory, config, processes>>

(* writeState fails: the run ends, its process goes on. *)
ReportFails ==
    /\ pc = "report"
    /\ End("unwritten")
    /\ UNCHANGED <<run, memory, disk, processes>>

(* A signal ends a run that is kept alive for the runtime API. *)
Release ==
    /\ pc = "hold"
    /\ Stop
    /\ End("released")
    /\ UNCHANGED <<run, opts, attempt, tried, learned, answered, last, disk>>

(* Anywhere else a signal ends the agent without a word to its process. *)
Killed ==
    /\ pc \notin {"idle", "hold"}
    /\ End("killed")
    /\ UNCHANGED <<run, memory, disk, processes>>

-----------------------------------------------------------------------------
(* sing-box (external) *)

Exits(b) ==
    /\ starting' = starting \ {b}
    /\ alive' = alive \ {b}
    /\ listener' = IF listener = b THEN None ELSE listener

(* A process that finds its probe address taken ends. *)
Bind(b) ==
    /\ b \in starting
    /\ IF listener = None
       THEN /\ listener' = b
            /\ starting' = starting \ {b}
            /\ UNCHANGED alive
       ELSE Exits(b)
    /\ UNCHANGED <<run, pc, outcome, memory, disk>>

Crash(b) ==
    /\ b \in alive
    /\ Exits(b)
    /\ UNCHANGED <<run, pc, outcome, memory, disk>>

Next ==
    \/ Begin \/ Exhausted \/ Rejected \/ Unrendered \/ Render \/ Validate
    \/ BinaryMissing \/ NotStarted \/ Start \/ ProbeFails \/ Succeed
    \/ ReportRunning \/ ReportFails \/ Release \/ Killed
    \/ \E b \in alive : Bind(b) \/ Crash(b)

Spec == Init /\ [][Next]_vars

-----------------------------------------------------------------------------
Names == [run : 0 .. MaxRuns, attempt : 0 .. MaxAttempts]

(* What a run, state.json and the processes can be: a run makes no more
   attempts than it was asked for (main.go lines 584 to 614), and lists and
   learns each once, wherever it failed (lines 705, 733, 774, 789 and 811). *)
TypeOK ==
    /\ run \in 0 .. MaxRuns
    /\ pc \in {"idle", "try", "apply", "probe", "report", "hold"}
    /\ opts.max \in 1 .. MaxAttempts /\ attempt \in 0 .. opts.max + 1
    /\ tried \in 0 .. opts.max /\ learned \in {tried, tried + 1}
    /\ pc = "try" => tried = attempt - 1 /\ learned = tried
    /\ pc \in {"report", "hold"} => tried = attempt /\ learned = tried
    /\ {box, answered, config, listener} \subseteq Names
    /\ starting \subseteq alive /\ alive \subseteq Names \ {None}
    /\ listener \in alive \cup {None}
    /\ last.of \in Names /\ state.of \in Names

(* main.go lines 733, 837 and 876: a process started by a run is the one its
   controller holds, or the run left it on purpose; a run that reports a
   failure or was told to stop leaves none, wherever it failed.  (A run whose
   state.json cannot be written, or that is killed, does leave its process.) *)
NoStrayBox ==
    \A b \in alive :
      b.run = run =>
        \/ pc # "idle" /\ b = box
        \/ pc = "idle" /\ outcome \in {"connected", "unwritten", "killed"}

(* main.go lines 733 and 781: a probe that succeeds was not answered by a
   process of an earlier attempt of this run (one an earlier run has left can
   answer it: the probe goes to an address). *)
NoAttemptAnswersForAnother ==
    pc = "report" /\ answered.run = run => answered = box
=============================================================================
