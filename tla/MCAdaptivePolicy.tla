-------------------------- MODULE MCAdaptivePolicy --------------------------
(* Three profiles of equal standing but for what is learnt about them: two
   over TCP and one over UDP that depends on DNS, which the deterministic
   ranking prefers. *)
EXTENDS AdaptivePolicy

CONSTANTS p1, p2, dns

ThreeProfiles == {p1, p2, dns}
NoCooldown == [p \in ThreeProfiles |-> 0]
HalfWorking == [p \in ThreeProfiles |-> 50]
Fast == [p \in ThreeProfiles |-> 100]
NoFails == [p \in ThreeProfiles |-> 0]
SameTrust == [p \in ThreeProfiles |-> 50]
PolicyScores == [p \in ThreeProfiles |-> IF p = dns THEN 3 ELSE 2]
=============================================================================
