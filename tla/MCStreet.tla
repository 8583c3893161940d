------------------------------ MODULE MCStreet ------------------------------
(***************************************************************************)
(* A small street for TLC: one depositor, one trader, two days.            *)
(***************************************************************************)
EXTENDS Street
=============================================================================
