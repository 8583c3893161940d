------------------------------ MODULE MCHouse -------------------------------
(***************************************************************************)
(* Small instances of House for TLC: two virtual shares a unit, so that    *)
(* every conversion rounds; rounds that lose everything, lose some, break  *)
(* even and gain.                                                          *)
(***************************************************************************)
EXTENDS HouseClient, TLC

MCSymmetry == Permutations(Owners)
=============================================================================
