------------------------------ MODULE MCTowers ------------------------------
(* Towers with two sensors.  Threads and sensors are model values.          *)
EXTENDS Towers, TLC

Symmetry == Permutations(Threads) \cup Permutations(Sensors)
=============================================================================
