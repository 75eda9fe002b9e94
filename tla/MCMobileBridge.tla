--------------------------- MODULE MCMobileBridge ---------------------------
(* The application threads of the MobileBridge instances. *)
EXTENDS MobileBridge

CONSTANTS a, b
=============================================================================
