----------------------------- MODULE MCPublish -----------------------------
(* Publish on small instances.  Fields and threads are model values.        *)
EXTENDS Publish, TLC

\* Threads are interchangeable (used by the runs with no liveness property).
ThreadSymmetry == Permutations(Threads)
=============================================================================
