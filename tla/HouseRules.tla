----------------------------- MODULE HouseRules -----------------------------
(***************************************************************************)
(* The pure rules of a house: the share price both ways, how much of the   *)
(* house goes into a round, and the average of the fees it has earned.     *)
(***************************************************************************)
EXTENDS Integers

CONSTANTS
  VIRTUAL_SHARES,        \* shares a fresh house mints per quote base unit
  HOUSE_FEE_MULTIPLE,    \* a round gets at most this many average fee incomes
  HOUSE_MIN_COMMIT_DIV,  \* and at least this fraction of what the house holds
  HOUSE_FEE_EMA_DIV      \* the weight of the last round in the average

ASSUME HouseRuleConstants ==
  /\ VIRTUAL_SHARES \in Nat \ {0} /\ HOUSE_FEE_MULTIPLE \in Nat
  /\ HOUSE_MIN_COMMIT_DIV \in Nat \ {0} /\ HOUSE_FEE_EMA_DIV \in Nat \ {0}

Lower(a, b)  == IF a <= b THEN a ELSE b
Higher(a, b) == IF a >= b THEN a ELSE b

\* The price of a share is (assets + 1) / (shares + VIRTUAL_SHARES).  Both ways
\* round against the caller; the redemption also never exceeds the assets.
shares_up(amount, assets, shares) ==
  (amount * (shares + VIRTUAL_SHARES) + assets) \div (assets + 1)
shares_for(amount, assets, shares) ==
  (amount * (shares + VIRTUAL_SHARES)) \div (assets + 1)
assets_up(n, assets, shares) ==
  Lower((n * (assets + 1) + shares) \div (shares + VIRTUAL_SHARES), assets)
assets_for(n, assets, shares) ==
  Lower((n * (assets + 1)) \div (shares + VIRTUAL_SHARES), assets)

\* With no history of fees everything; otherwise a multiple of the average,
\* within a fraction of the capital and all of it.
commit_for(assets, ema) ==
  IF ema = 0 THEN assets
  ELSE Lower(Higher(ema * HOUSE_FEE_MULTIPLE, assets \div HOUSE_MIN_COMMIT_DIV), assets)

next_fee_ema(ema, fees) ==
  IF ema = 0 THEN fees
  ELSE ema - ema \div HOUSE_FEE_EMA_DIV + fees \div HOUSE_FEE_EMA_DIV
=============================================================================
