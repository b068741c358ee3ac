--------------------------- MODULE MCAnalyzerWorker ----------------------------
(* AnalyzerWorker on a small instance: one campaign with two notebooks, one    *)
(* with a single one.                                                          *)
EXTENDS AnalyzerWorker, TLC

CONSTANTS c1, c2
TwoAndOne == c1 :> 2 @@ c2 :> 1
=============================================================================
