---------------------------- MODULE MCRainfall ----------------------------
(* Rainfall with a small calendar.                                        *)
EXTENDS Rainfall

=============================================================================
