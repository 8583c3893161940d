------------------------------ MODULE MCLedger ------------------------------
(* A small instance of Ledger for TLC.                                     *)
EXTENDS Ledger
=============================================================================
