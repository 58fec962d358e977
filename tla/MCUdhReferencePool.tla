------------------------ MODULE MCUdhReferencePool ------------------------
(* Instances of UdhReferencePool for TLC. *)
EXTENDS UdhReferencePool

CONSTANTS c1, c2
===========================================================================
