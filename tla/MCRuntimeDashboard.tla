-------------------------- MODULE MCRuntimeDashboard --------------------------
(* Two events of one second, and a later one that says what the first said. *)
EXTENDS RuntimeDashboard

ThreeEvents ==
    <<[text |-> "switch", later |-> FALSE], [text |-> "fail", later |-> FALSE],
      [text |-> "switch", later |-> TRUE]>>
=============================================================================
