------------------------------ MODULE MCSeries ------------------------------
(***************************************************************************)
(* Small instances of Series for TLC: a day is two seconds, with the close *)
(* in its second one; two closes of winter come a second later; and some   *)
(* days have no round.                                                     *)
(***************************************************************************)
EXTENDS SeriesClient

MCWinter  == {7, 8}
MCNoRound == {5, 9}

\* Any close may be posted well or badly, but for one that cannot be at all.
MCPostable == (0 .. 20) \ {4}

\* Closes that cannot be posted any more, two with no good price, and one whose
\* good price may be on another exponent.
MCLost     == {4, 6}
MCUnsure   == {8, 10}
MCRescaled == {7}
MCGood     == (0 .. 20) \ (MCLost \union MCUnsure)
MCMoving   == MCUnsure \union MCRescaled
=============================================================================
