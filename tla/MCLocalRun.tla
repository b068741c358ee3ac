------------------------------ MODULE MCLocalRun ------------------------------
(***************************************************************************)
(* Two configurations with four runs each, three runs in a job: three      *)
(* jobs, one of them across both configurations and the last one shorter.  *)
(***************************************************************************)
EXTENDS LocalRun
=============================================================================
