-------------------------------- MODULE MCSim --------------------------------
(* A small instance of Sim for TLC.                                        *)
EXTENDS Sim
=============================================================================
