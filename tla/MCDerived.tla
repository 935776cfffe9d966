----------------------------- MODULE MCDerived -----------------------------
(* Derived with a window of three ticks.                                   *)
EXTENDS Derived

\* Wind directions on both sides of north, and at and just before the bounds
\* of the first, the second and the last sector.
Bounds == {0, 44, 45, 134, 135, 1394, 1395, 1440}
=============================================================================
