-------------------------- MODULE MCSubmitMetrics --------------------------
(* Instances of SubmitMetrics for TLC. *)
EXTENDS SubmitMetrics

CONSTANT a
=============================================================================
