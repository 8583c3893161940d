------------------------------ MODULE MCKeeper ------------------------------
(* A small instance of Keeper for TLC.                                     *)
EXTENDS Keeper
=============================================================================
