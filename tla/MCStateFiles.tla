---------------------------- MODULE MCStateFiles ----------------------------
(* Three bundles: b1 brings two profiles, b2 claims the endpoint of the first
   for another id, b3 revokes the first and brings the second again. *)
EXTENDS StateFiles, TLC

CONSTANTS b1, b2, b3, x, y, i1, i2

BundleProfiles ==
    (b1 :> {[id |-> "p", ep |-> x], [id |-> "q", ep |-> y]}) @@
    (b2 :> {[id |-> "r", ep |-> x]}) @@
    (b3 :> {[id |-> "q", ep |-> y]})

Revocations == (b1 :> {}) @@ (b2 :> {}) @@ (b3 :> {"p"})
=============================================================================
