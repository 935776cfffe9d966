-------------------------- MODULE MCObservations --------------------------
(* Observations with a few temperatures, speeds and days.                 *)
EXTENDS Observations
=============================================================================
