------------------------------ MODULE MCBatch ------------------------------
(* Batch on small instances.  Threads are model values.                    *)
EXTENDS Batch, TLC

ThreadSymmetry == Permutations(Threads)

\* CWOP's ten minutes are shortened to three, to be longer than the others'.
Periods == [s \in Services |-> IF s = "cwop" THEN 3 ELSE 2]
=============================================================================
