------------------------------ MODULE MCLadder ------------------------------
(***************************************************************************)
(* Small instances of Ladder for TLC: two bins, a band and a tent that     *)
(* overlap, prices for one unit or three, fees of a half so that a small   *)
(* trade pays both the depositors and the protocol.                        *)
(***************************************************************************)
EXTENDS LadderClient, TLC

MCBand == [lo |-> 0, hi |-> 0, h |-> 1]
MCTent == [lo |-> 0, hi |-> 2, h |-> 2]
MCLines == {MCBand, MCTent}
MCOneLine == {MCTent}
MCSymmetry == Permutations(Traders) \union Permutations(Tranches)
=============================================================================
