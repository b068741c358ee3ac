---------------------------- MODULE MCSearchLoop -----------------------------
(* SearchLoop on a small instance: three assignments, two of which have the   *)
(* same name; the second is proposed with one run or with two.                *)
EXTENDS SearchLoop

CONSTANTS i1, i2, i3, n1, n2

Proposals == {[id |-> i1, reps |-> 1], [id |-> i2, reps |-> 1],
              [id |-> i2, reps |-> 2], [id |-> i3, reps |-> 2]}

DigestOf == [i \in Ids |-> IF i = i3 THEN n2 ELSE n1]
=============================================================================
