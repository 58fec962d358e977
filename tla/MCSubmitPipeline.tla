-------------------------- MODULE MCSubmitPipeline --------------------------
(* Instances of SubmitPipeline for TLC. *)
EXTENDS SubmitPipeline, TLC

CONSTANTS a, b

\* Ids are model values and no action orders them.
Symmetry == Permutations(Ids)
=============================================================================
