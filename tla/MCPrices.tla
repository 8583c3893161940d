------------------------------ MODULE MCPrices ------------------------------
(***************************************************************************)
(* A small instance of Prices for TLC: two sure prices, one too uncertain  *)
(* and one on another exponent.                                            *)
(***************************************************************************)
EXTENDS PricesClient

MCPrints == {[price |-> 1, conf |-> 0, expo |-> 1], [price |-> 2, conf |-> 0, expo |-> 1],
             [price |-> 1, conf |-> 1, expo |-> 1], [price |-> 1, conf |-> 0, expo |-> 2]}
=============================================================================
