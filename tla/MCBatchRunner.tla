---------------------------- MODULE MCBatchRunner ----------------------------
(* BatchRunner on a small instance: every campaign has a name key and a label  *)
(* of its own (ids that differ in their first 63 characters, launches in       *)
(* different hundredths of a second).                                          *)
EXTENDS BatchRunner

Own == [c \in Campaigns |-> c]
=============================================================================
