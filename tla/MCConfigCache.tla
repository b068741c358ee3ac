---------------------------- MODULE MCConfigCache ----------------------------
(***************************************************************************)
(* Callers of generate_scenario_variations are alike.                      *)
(***************************************************************************)
EXTENDS ConfigCache, TLC

Symmetry == Permutations(Procs)
=============================================================================
