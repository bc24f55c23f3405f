-------------------------- MODULE MCIssuePipeline --------------------------
(* Instances of IssuePipeline for TLC. *)
EXTENDS IssuePipeline

AllFaults == {"transport", "timeout"}
LossOnly  == {"transport"}
=============================================================================
