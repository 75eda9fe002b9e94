------------------------- MODULE MCOrchestratorClient -------------------------
(* Three profiles, of which a ranking offers two or three. *)
EXTENDS OrchestratorClient, TLC

CONSTANTS p1, p2, p3

Interchangeable == Permutations(Profiles)
=============================================================================
