---------------------------- MODULE LadderRules ----------------------------
(***************************************************************************)
(* The pure rules of one round: what a trade costs in fees, how a fee is   *)
(* split, what a partial sale releases of a holder's cost basis, what a    *)
(* shape pays in a bin, how a void splits the vault, and the window a      *)
(* round trades in.  Amounts are natural numbers of quote base units.      *)
(* Times are natural numbers.  No operator here is recursive, so the       *)
(* modules that use these rules can be proved about.                       *)
(***************************************************************************)
EXTENDS Integers

CONSTANTS
  BINS,              \* number of price bins (64 in the program)
  LADDER_FEE_BPS,    \* the fee for most of the day
  FEE_PEAK_BPS,      \* the fee in the last hour
  FEE_RAMP_START,    \* time left when the fee starts to rise
  FEE_RAMP_END,      \* time left when it stops rising
  FEE_ACC_SCALE,     \* fixed-point scale of the fee accumulator
  WAD_SCALAR,        \* fixed-point units of the curve per quote base unit
  ROUND_SECS,        \* how long a round trades at most
  OPEN_DELAY,        \* a round opens this long after it is started, at least
  LOCK_GAP_MIN, LOCK_GAP_MAX   \* the lock's distance from the close

ASSUME RuleConstants ==
  /\ BINS \in Nat \ {0}
  /\ LADDER_FEE_BPS \in Nat /\ FEE_PEAK_BPS \in Nat
  /\ FEE_RAMP_START \in Nat /\ FEE_RAMP_END \in Nat
  /\ FEE_RAMP_END < FEE_RAMP_START
  /\ FEE_ACC_SCALE \in Nat \ {0} /\ WAD_SCALAR \in Nat \ {0}
  /\ ROUND_SECS \in Nat \ {0} /\ OPEN_DELAY \in Nat
  /\ LOCK_GAP_MIN \in Nat \ {0} /\ LOCK_GAP_MAX \in Nat
  /\ LOCK_GAP_MIN <= LOCK_GAP_MAX

Least(a, b) == IF a <= b THEN a ELSE b
Most(a, b)  == IF a >= b THEN a ELSE b
SatSub(a, b) == Most(a - b, 0)
CeilDiv(a, b) == (a + b - 1) \div b

Bins == 0 .. BINS - 1

-----------------------------------------------------------------------------
(* Fees.                                                                   *)

\* The fee rate with `left` time to the close: flat, then a straight line
\* from the base to the peak, then the peak.
fee_bps_at(left) ==
  LET peak == Most(FEE_PEAK_BPS, LADDER_FEE_BPS)
  IN  IF left >= FEE_RAMP_START THEN LADDER_FEE_BPS
      ELSE IF left <= FEE_RAMP_END THEN peak
      ELSE LADDER_FEE_BPS
             + ((peak - LADDER_FEE_BPS) * (FEE_RAMP_START - left))
                 \div (FEE_RAMP_START - FEE_RAMP_END)

\* Rounded up, at least one unit, never more than the amount itself.
fee_on(amount, bps) == Least(Most((amount * bps + 9999) \div 10000, 1), amount)

\* The depositors' 90%, and the protocol's remainder.
lp_part(fee) == (fee * 90) \div 100
protocol_part(fee) == fee - lp_part(fee)

\* What a sale quoted at `cost` brings before the fee: a unit against the
\* seller, never below zero.
sale_proceeds(cost) == SatSub(cost, 1)

\* Half of the protocol's fees pay whoever settles.
settle_bounty(fees) == fees \div 2

\* What the accumulator gains per unit of depth, and what a tranche of depth
\* `depth` has earned since it joined at `snap`.  Both floor.
fee_accrual(fee, depth) ==
  IF fee = 0 \/ depth = 0 THEN 0 ELSE (fee * FEE_ACC_SCALE) \div depth
tranche_fees(depth, acc, snap) == (depth * (acc - snap)) \div FEE_ACC_SCALE

-----------------------------------------------------------------------------
(* Positions.                                                              *)

\* Cost basis released by selling `sold` of `held` shares: rounded up.
basis_released(net_paid, sold, held) ==
  IF held = 0 THEN 0 ELSE Least(CeilDiv(net_paid * sold, held), net_paid)

\* A shape is a record [lo, hi, h].  Its payout multiple in bin i: a plateau
\* of height h with sloped shoulders, zero outside.
level(shape, i) ==
  IF i < shape.lo \/ i > shape.hi
  THEN 0
  ELSE Least(shape.h, Least(i - shape.lo + 1, shape.hi - i + 1))

-----------------------------------------------------------------------------
(* A void: depositors first, up to what they put in.                       *)

void_lp_last(vault, deposits, basis) ==
  IF basis = 0 THEN vault ELSE SatSub(vault, basis)
void_lp_part(vault, deposits, basis) ==
  IF basis = 0 THEN vault ELSE Least(vault, deposits)
void_share_up(claim, pot, claims) ==
  IF claims = 0 THEN 0 ELSE CeilDiv(claim * pot, claims)
void_share(claim, pot, claims) ==
  IF claims = 0 THEN 0 ELSE (claim * pot) \div claims

-----------------------------------------------------------------------------
(* A round's window from the moment it is started and its close.           *)

opens_for(now, close) == Most(now + OPEN_DELAY, close - ROUND_SECS)
locks_for(now, close) ==
  LET gap == (close - opens_for(now, close)) \div 24
  IN  close - Most(LOCK_GAP_MIN, Least(gap, LOCK_GAP_MAX))
=============================================================================
