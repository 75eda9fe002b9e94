--------------------------- MODULE AgentLifecycle ---------------------------
(***************************************************************************)
(* What the mobile bridge promises the threads of an application.  Agent   *)
(* sessions are numbered; a loop ends only after it was asked to, and then *)
(* does end.  A start that overlaps no other call finds no loop running    *)
(* but lost ones.  A loop is lost, running for the life of the process,    *)
(* only if it was started in a crowd, that is, by a call that overlapped   *)
(* another.  MobileBridge implements this specification.                   *)
(***************************************************************************)
EXTENDS Naturals

CONSTANT MaxSessions   \* bound: how many sessions are ever started

VARIABLES
    spawned,   \* number of sessions started so far
    live,      \* sessions whose background loop has not returned
    doomed,    \* the live sessions that were asked to end
    lost,      \* the live sessions that can no longer be asked to
    crowded    \* the sessions that were started in a crowd

lifecycleVars == <<spawned, live, doomed, lost, crowded>>

Init ==
    /\ spawned = 0
    /\ live = {}
    /\ doomed = {}
    /\ lost = {}
    /\ crowded = {}

NewSession ==
    /\ spawned < MaxSessions
    /\ spawned' = spawned + 1
    /\ live' = live \cup {spawned + 1}
    /\ doomed' = doomed

SpawnAlone ==
    /\ live = lost
    /\ NewSession
    /\ UNCHANGED <<lost, crowded>>

(* The new session may take the place of one whose loop still runs. *)
SpawnInCrowd ==
    /\ NewSession
    /\ crowded' = crowded \cup {spawned + 1}
    /\ \/ UNCHANGED lost
       \/ \E s \in (live \cap crowded) \ doomed : lost' = lost \cup {s}

AskToEnd(s) ==
    /\ s \in live \ (doomed \cup lost)
    /\ doomed' = doomed \cup {s}
    /\ UNCHANGED <<spawned, live, lost, crowded>>

End(s) ==
    /\ s \in doomed
    /\ live' = live \ {s}
    /\ doomed' = doomed \ {s}
    /\ UNCHANGED <<spawned, lost, crowded>>

Next ==
    \/ SpawnAlone
    \/ SpawnInCrowd
    \/ \E s \in 1 .. MaxSessions : AskToEnd(s) \/ End(s)

SafeSpec == Init /\ [][Next]_lifecycleVars
Spec == SafeSpec /\ \A s \in 1 .. MaxSessions : WF_lifecycleVars(End(s))
=============================================================================
