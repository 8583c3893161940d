---------------------------- MODULE LadderProofs ----------------------------
(***************************************************************************)
(* What the books of a round promise, proved of Ladder for every set of    *)
(* traders, lines and deposits, every fee schedule and every sequence of   *)
(* instructions.  The sums are over however many accounts exist.           *)
(*                                                                         *)
(* The last two sections are about the readers of a round, LadderClient:   *)
(* only they use its assumptions, TransactionHolds and WalletsApart.       *)
(***************************************************************************)
EXTENDS LadderClient, BookLemmas

-----------------------------------------------------------------------------
(* The rules of Ladder's own constants.                                    *)

LEMMA LevelNat ==
  ASSUME NEW line \in Lines, NEW i \in Int
  PROVE  level(line, i) \in Nat
BY LadderConstants DEF level, Least

\* A round's window is not empty and closes before its day does.
LEMMA WindowOrder ==
  ASSUME NEW t \in Nat, t + MIN_ROUND <= SETTLES
  PROVE  /\ opens_for(t, SETTLES) \in Nat /\ locks_for(t, SETTLES) \in Nat
         /\ opens_for(t, SETTLES) < locks_for(t, SETTLES)
         /\ locks_for(t, SETTLES) + LOCK_GAP_MIN <= SETTLES
<1> DEFINE o == opens_for(t, SETTLES)
           gap == (SETTLES - o) \div 24
<1>1. o \in Nat /\ o + LOCK_GAP_MIN < SETTLES
  BY RuleConstants, LadderConstants DEF opens_for, Most
<1>2. gap \in Nat /\ o + gap < SETTLES
  BY <1>1, RuleConstants, LadderConstants
<1>3. locks_for(t, SETTLES) = SETTLES - Most(LOCK_GAP_MIN, Least(gap, LOCK_GAP_MAX))
  BY DEF locks_for
<1> HIDE DEF o, gap
<1>4. locks_for(t, SETTLES) \in Int /\ o < locks_for(t, SETTLES)
        /\ locks_for(t, SETTLES) + LOCK_GAP_MIN <= SETTLES
  BY <1>1, <1>2, <1>3, RuleConstants, LadderConstants DEF Most, Least
<1> QED
  BY <1>1, <1>4 DEF o

-----------------------------------------------------------------------------
(* Types.                                                                  *)

LEMMA FeeCharged ==
  ASSUME TypeOK, NEW amount \in Nat
  PROVE  LET fee == fee_on(amount, fee_bps_at(SETTLES - now))
         IN  fee \in Nat /\ fee <= amount
<1>1. SETTLES - now \in Int
  BY LadderConstants DEF TypeOK
<1> QED
  BY <1>1, FeeRate, FeeOn

LEMMA BookFeeTypes ==
  ASSUME TypeOK, NEW fee \in Nat, BookFee(fee)
  PROVE  /\ acc_fee' \in Nat /\ fees_lp' \in Nat /\ fees_protocol' \in Nat
         /\ curve_seq' \in Nat /\ worst' \in Nat \ {0}
         /\ acc_fee <= acc_fee'
<1>1. b_units(depth) \in Nat
  BY RuleConstants, DivNat DEF TypeOK, b_units
<1>2. lp_part(fee) \in Nat /\ protocol_part(fee) \in Nat
  BY FeeSplit
<1>3. fee_accrual(lp_part(fee), b_units(depth)) \in Nat
  BY <1>1, <1>2, AccrualBounds
<1> QED
  BY <1>2, <1>3, LadderConstants DEF TypeOK, BookFee

LEMMA OwedNat ==
  ASSUME NEW p \in Positions, NEW n \in Nat, NEW i \in Int
  PROVE  owed_by(p[2], n, i) \in Nat /\ owed_by(p[2], n, i) = n * level(p[2], i)
<1>1. p[2] \in Lines
  BY DEF Positions
<1> QED
  BY <1>1, LevelNat, MulNat DEF owed_by

LEMMA OwedInBins ==
  ASSUME NEW p \in Positions, NEW n \in Nat
  PROVE  \A i \in Bins : i \in Int /\ owed_by(p[2], n, i) \in Nat
<1>1. \A i \in Bins : i \in Int
  BY RuleConstants DEF Bins
<1> QED
  BY <1>1, OwedNat

\* What a finished round owes one position or one deposit is a natural number.
LEMMA ClaimsNat ==
  ASSUME TypeOK
  PROVE  /\ \A p \in Positions : redemption(p) \in Nat
         /\ \A t \in Tranches : refund(t) \in Nat /\ tranche_depth(t) \in Nat
         /\ \A t \in Tranches : b_units(tranche_depth(t)) \in Nat
         /\ \A t \in Tranches : snap[t] <= acc_fee => earned(t) \in Nat
<1>1. ASSUME NEW p \in Positions PROVE redemption(p) \in Nat
  <2>1. shares[p] \in Nat /\ net_paid[p] \in Nat /\ settled_bin \in Int
    BY RuleConstants DEF TypeOK, Bins
  <2> QED
    BY <2>1, OwedNat, VoidShare DEF redemption, TypeOK
<1>2. ASSUME NEW t \in Tranches PROVE refund(t) \in Nat
  BY VoidShare DEF refund, TypeOK
<1>3. ASSUME NEW t \in Tranches
      PROVE  tranche_depth(t) \in Nat /\ b_units(tranche_depth(t)) \in Nat
  <2>1. deposit[t] * WAD_SCALAR \in Nat
    BY RuleConstants, MulNat DEF TypeOK
  <2>2. tranche_depth(t) \in Nat
    BY <2>1, DivNat DEF tranche_depth, liquidity_for_deposit, TypeOK
  <2> QED
    BY <2>2, RuleConstants, DivNat DEF b_units
<1>4. ASSUME NEW t \in Tranches, snap[t] <= acc_fee PROVE earned(t) \in Nat
  <2>1. acc_fee - snap[t] \in Nat
    BY <1>4 DEF TypeOK
  <2> QED
    BY <1>3, <2>1, RuleConstants, MulNat, DivNat DEF earned, tranche_fees
<1> QED
  BY <1>1, <1>2, <1>3, <1>4

\* The depth of a deposit from its three fields, whichever state they are read in.
LEMMA UnitsNat ==
  ASSUME NEW d \in Nat, NEW amount \in Nat, NEW w \in Nat
  PROVE  b_units(IF d # 0 \/ w = 0 THEN d ELSE liquidity_for_deposit(amount, w)) \in Nat
<1>1. amount * WAD_SCALAR \in Nat
  BY RuleConstants, MulNat
<1>2. (IF d # 0 \/ w = 0 THEN d ELSE liquidity_for_deposit(amount, w)) \in Nat
  BY <1>1, DivNat DEF liquidity_for_deposit
<1> QED
  BY <1>2, RuleConstants, DivNat DEF b_units

\* The state is well typed after any step: no book goes below zero, whatever
\* the curve quotes and whoever calls.
LEMMA TypeStep == TypeOK /\ [Next]_vars => TypeOK'
<1> SUFFICES ASSUME TypeOK, [Next]_vars PROVE TypeOK'
  OBVIOUS
<1> USE RuleConstants, LadderConstants
<1> USE DEF TypeOK, clockVars, scheduleVars, curveVars, bookVars, potVars,
            positionVars, trancheVars
<1>1. CASE Tick
  BY <1>1 DEF Tick
<1>2. CASE SetPaused
  BY <1>2 DEF SetPaused
<1>3. ASSUME NEW t \in Tranches, NEW amount \in Deposits, Create(t, amount)
      PROVE  TypeOK'
  <2>1. opens_at' \in Nat /\ locks_at' \in Nat
    BY <1>3, WindowOrder DEF Create
  <2> QED
    BY <1>3, <2>1 DEF Create
<1>4. ASSUME NEW t \in Tranches, NEW amount \in Deposits, LpJoin(t, amount)
      PROVE  TypeOK'
  <2>1. liquidity_for_deposit(amount, worst) \in Nat
    BY MulNat, DivNat DEF liquidity_for_deposit
  <2> QED
    BY <1>4, <2>1 DEF LpJoin, Join, BookDeposit, snap_at_join
<1>5. ASSUME NEW w \in Worsts, Open(w) PROVE TypeOK'
  <2>1. liquidity_for_deposit(deposit_total, w) \in Nat /\ w \in Nat \ {0}
    BY MulNat, DivNat DEF liquidity_for_deposit
  <2> QED
    BY <1>5, <2>1 DEF Open
<1>6. ASSUME NEW p \in Positions, NEW n \in Sizes, NEW cost \in Costs, Buy(p, n, cost)
      PROVE  TypeOK'
  <2> DEFINE pay == cost + 1
             fee == fee_on(pay, fee_bps_at(SETTLES - now))
  <2>1. pay \in Nat /\ fee \in Nat
    BY FeeCharged
  <2>2. BookFee(fee)
    BY <1>6 DEF Buy
  <2>3. \A i \in Bins : owed_by(p[2], n, i) \in Nat
    BY OwedInBins
  <2> HIDE DEF fee
  <2>4. /\ acc_fee' \in Nat /\ fees_lp' \in Nat /\ fees_protocol' \in Nat
        /\ curve_seq' \in Nat /\ worst' \in Nat \ {0}
    BY <2>1, <2>2, BookFeeTypes
  <2>5. /\ payout' \in [Bins -> Nat] /\ cash' \in Nat
        /\ basis_total' \in Nat /\ vault' \in Nat
        /\ shares' \in [Positions -> Nat] /\ net_paid' \in [Positions -> Nat]
    BY <1>6, <2>1, <2>3 DEF Buy, fee
  <2> QED
    BY <1>6, <2>4, <2>5 DEF Buy, count_first_buy
<1>7. ASSUME NEW p \in Positions, NEW n \in Sizes, NEW cost \in Costs, Sell(p, n, cost)
      PROVE  TypeOK'
  <2> DEFINE got == sale_proceeds(cost)
             fee == fee_on(got, fee_bps_at(SETTLES - now))
             released == basis_released(net_paid[p], n, shares[p])
  <2>1. got \in Nat
    BY DEF sale_proceeds, SatSub, Most
  <2>2. fee \in Nat /\ fee <= got
    BY <2>1, FeeCharged
  <2>3. BookFee(fee)
    BY <1>7 DEF Sell
  <2>4. \A i \in Bins : owed_by(p[2], n, i) \in Nat
    BY OwedInBins
  <2>5. n # 0 /\ n <= shares[p]
    BY <1>7 DEF Sell
  <2>6. released \in Nat /\ released <= net_paid[p]
    BY <2>5, BasisReleased
  <2> HIDE DEF got, fee, released
  <2>7. /\ acc_fee' \in Nat /\ fees_lp' \in Nat /\ fees_protocol' \in Nat
        /\ curve_seq' \in Nat /\ worst' \in Nat \ {0}
    BY <2>2, <2>3, BookFeeTypes
  <2>8. /\ payout' \in [Bins -> Nat] /\ cash' \in Nat
        /\ basis_total' \in Nat /\ vault' \in Nat
        /\ shares' \in [Positions -> Nat] /\ net_paid' \in [Positions -> Nat]
    BY <1>7, <2>1, <2>2, <2>4, <2>5, <2>6 DEF Sell, got, fee, released
  <2> QED
    BY <1>7, <2>7, <2>8 DEF Sell
<1>8. ASSUME NEW bin \in Bins, Settle(bin) PROVE TypeOK'
  BY <1>8, BountyBounds DEF Settle
<1>9. ASSUME NEW proof \in BOOLEAN, Void(proof) PROVE TypeOK'
  <2> DEFINE pot == cash + fees_lp + fees_protocol
             lp  == void_lp_part(pot, deposit_total, basis_total)
  <2>1. lp \in Nat /\ lp <= pot
    <3>1. pot \in Nat
      OBVIOUS
    <3> HIDE DEF pot
    <3> QED
      BY <3>1, VoidSplit
  <2> HIDE DEF lp
  <2> QED
    BY <1>9, <2>1 DEF Void, lp
<1>10. ASSUME NEW p \in Positions, NEW caller \in Callers, Redeem(p, caller)
       PROVE  TypeOK'
  <2>1. redemption(p) \in Nat
    BY ClaimsNat
  <2> HIDE DEF redemption
  <2> QED
    BY <1>10, <2>1 DEF Redeem, ClosePosition, SatSub, Most
<1>11. ASSUME NEW p \in Positions, Sweep(p) PROVE TypeOK'
  BY <1>11 DEF Sweep, ClosePosition, SatSub, Most
<1>12. ASSUME NEW t \in Tranches, NEW caller \in Callers, NEW result \in Results,
              ClaimLp(t, caller, result)
       PROVE  TypeOK'
  <2> DEFINE principal == draw(result, lp_pool)
             fees == draw(earned(t), fees_lp)
  <2>1. principal \in Nat /\ principal <= lp_pool
    BY DEF draw, Least
  <2>2. status = "Settled" => fees \in Nat /\ fees <= fees_lp
    BY <1>12, ClaimsNat DEF ClaimLp, draw, Least
  <2>3. refund(t) \in Nat
    BY ClaimsNat
  <2> HIDE DEF principal, fees
  <2>4. /\ lp_pool' \in Nat /\ fees_lp' \in Nat /\ vault' \in Nat
    BY <1>12, <2>1, <2>2, <2>3 DEF ClaimLp, Final, refund, earned, principal, fees
  <2> QED
    BY <1>12, <2>4 DEF ClaimLp, SatSub, Most
<1>13. CASE CollectFees
  BY <1>13 DEF CollectFees
<1>14. CASE Close
  BY <1>14 DEF Close
<1>15. CASE UNCHANGED vars
  BY <1>15 DEF vars
<1> QED
  BY <1>1, <1>2, <1>3, <1>4, <1>5, <1>6, <1>7, <1>8, <1>9, <1>10, <1>11, <1>12,
     <1>13, <1>14, <1>15 DEF Next

\* Every book is well typed in every reachable state: no instruction, in any
\* order, takes a pot or a total below zero.
THEOREM TypeCorrect == Spec => []TypeOK
<1>1. Init => TypeOK
  <2> SUFFICES ASSUME Init PROVE TypeOK
    OBVIOUS
  <2> USE DEF Init, TypeOK
  <2>1. payout \in [Bins -> Nat] /\ settled_bin \in Bins \union {-1}
    OBVIOUS
  <2>2. shares \in [Positions -> Nat] /\ net_paid \in [Positions -> Nat]
    OBVIOUS
  <2>3. /\ deposit \in [Tranches -> Nat] /\ tdepth \in [Tranches -> Nat]
        /\ snap \in [Tranches -> Nat]
    OBVIOUS
  <2>4. live \subseteq Positions /\ tranches \subseteq Tranches
    OBVIOUS
  <2>5. /\ now \in Nat /\ paused \in BOOLEAN /\ started \in BOOLEAN
        /\ status \in {"None", "Seeding", "Open", "Settled", "Void"}
        /\ opens_at \in Nat /\ locks_at \in Nat
    OBVIOUS
  <2>6. /\ depth \in Nat /\ worst \in Nat \ {0} /\ open_worst \in Nat
        /\ curve_seq \in Nat /\ acc_fee \in Nat
        /\ cash \in Nat /\ deposit_total \in Nat /\ basis_total \in Nat
    OBVIOUS
  <2>7. /\ fees_lp \in Nat /\ fees_protocol \in Nat
        /\ lp_pool \in Nat /\ void_lp_pot \in Nat /\ void_trader_pot \in Nat
        /\ open_positions \in Nat /\ open_tranches \in Nat /\ vault \in Nat
    OBVIOUS
  <2> QED
    BY <2>1, <2>2, <2>3, <2>4, <2>5, <2>6, <2>7
<1>2. TypeOK /\ [Next]_vars => TypeOK'
  BY TypeStep
<1> QED
  BY <1>1, <1>2, PTL DEF Spec

-----------------------------------------------------------------------------
(* Accounts and their counters.                                            *)

\* The counters that gate closing are the numbers of accounts, always; and a
\* round's account is gone only when no position and no deposit is left.
THEOREM AccountsCounted == Spec => [](Accounts /\ CountsExact)
<1> DEFINE Inv == Accounts /\ CountsExact
<1>1. Init => Inv
  BY FS_EmptySet DEF Init, Accounts, CountsExact
<1>2. TypeOK /\ Inv /\ [Next]_vars => Inv'
  <2> SUFFICES ASSUME TypeOK, Inv, [Next]_vars PROVE Inv'
    OBVIOUS
  <2>0. /\ Cardinality(live) \in Nat /\ Cardinality(tranches) \in Nat
        /\ (Cardinality(live) = 0 => live = {})
        /\ (Cardinality(tranches) = 0 => tranches = {})
    BY FS_CardinalityType, FS_EmptySet DEF Accounts
  <2> USE DEF Accounts, CountsExact, clockVars, scheduleVars, curveVars, bookVars,
              potVars, positionVars, trancheVars
  <2>1. CASE Tick \/ SetPaused \/ CollectFees \/ UNCHANGED vars
    BY <2>1 DEF Tick, SetPaused, CollectFees, vars
  <2>2. ASSUME NEW t \in Tranches, NEW amount \in Deposits, Create(t, amount)
        PROVE  Inv'
    BY <2>2, FS_Singleton DEF Create
  <2>3. ASSUME NEW t \in Tranches, NEW amount \in Deposits, LpJoin(t, amount)
        PROVE  Inv'
    <3>1. IsFiniteSet(tranches') /\ Cardinality(tranches') = Cardinality(tranches) + 1
      BY <2>3, FS_AddElement DEF LpJoin
    <3> QED
      BY <2>3, <3>1 DEF LpJoin
  <2>4. ASSUME NEW w \in Worsts, Open(w) PROVE Inv'
    BY <2>4 DEF Open
  <2>5. ASSUME NEW p \in Positions, NEW n \in Sizes, NEW cost \in Costs, Buy(p, n, cost)
        PROVE  Inv'
    <3>1. /\ IsFiniteSet(live')
          /\ Cardinality(live') = IF p \in live THEN Cardinality(live)
                                                ELSE Cardinality(live) + 1
      BY <2>5, FS_AddElement DEF Buy
    <3>2. status' = "Open" /\ open_positions' = Cardinality(live')
      BY <2>5, <3>1 DEF Buy, Tradeable, count_first_buy
    <3>3. \A q \in Positions \ live' : shares'[q] = 0 /\ net_paid'[q] = 0
      BY <2>5 DEF Buy, TypeOK
    <3> QED
      BY <2>5, <3>1, <3>2, <3>3 DEF Buy
  <2>6. ASSUME NEW p \in Positions, NEW n \in Sizes, NEW cost \in Costs, Sell(p, n, cost)
        PROVE  Inv'
    <3>1. p \in live
      BY <2>6, LadderConstants DEF Sell, TypeOK
    <3> QED
      BY <2>6, <3>1 DEF Sell
  <2>7. ASSUME NEW bin \in Bins, Settle(bin) PROVE Inv'
    BY <2>7 DEF Settle
  <2>8. ASSUME NEW proof \in BOOLEAN, Void(proof) PROVE Inv'
    BY <2>8 DEF Void
  <2>9. ASSUME NEW p \in live, ClosePosition(p), Final, status' = status,
               UNCHANGED <<tranches, open_tranches>>
        PROVE  Inv'
    <3>1. IsFiniteSet(live') /\ Cardinality(live') = Cardinality(live) - 1
      BY <2>9, FS_RemoveElement DEF ClosePosition
    <3>2. open_positions' = Cardinality(live')
      BY <2>0, <2>9, <3>1 DEF ClosePosition, SatSub, Most
    <3>3. \A q \in Positions \ live' : shares'[q] = 0 /\ net_paid'[q] = 0
      BY <2>9 DEF ClosePosition, TypeOK
    <3> QED
      BY <2>9, <3>1, <3>2, <3>3 DEF Final
  <2>10. ASSUME NEW p \in Positions, NEW caller \in Callers, Redeem(p, caller)
         PROVE  Inv'
    BY <2>9, <2>10 DEF Redeem
  <2>11. ASSUME NEW p \in Positions, Sweep(p) PROVE Inv'
    BY <2>9, <2>11 DEF Sweep
  <2>12. ASSUME NEW t \in Tranches, NEW caller \in Callers, NEW result \in Results,
                ClaimLp(t, caller, result)
         PROVE  Inv'
    <3>1. IsFiniteSet(tranches') /\ Cardinality(tranches') = Cardinality(tranches) - 1
      BY <2>12, FS_RemoveElement DEF ClaimLp
    <3>2. open_tranches' = Cardinality(tranches')
      BY <2>0, <2>12, <3>1 DEF ClaimLp, SatSub, Most
    <3> QED
      BY <2>12, <3>1, <3>2 DEF ClaimLp, Final
  <2>13. CASE Close
    BY <2>0, <2>13 DEF Close, Closable
  <2> QED
    BY <2>1, <2>2, <2>3, <2>4, <2>5, <2>6, <2>7, <2>8, <2>10, <2>11, <2>12, <2>13
    DEF Next
<1> QED
  BY <1>1, <1>2, TypeCorrect, PTL DEF Spec

-----------------------------------------------------------------------------
(* One position, one day.                                                  *)

\* A position sold down to nothing keeps no basis: the last sale releases all
\* of it, however the sales before it rounded.
THEOREM SoldOut == Spec => []SoldOutOwedNothing
<1>1. Init => SoldOutOwedNothing
  BY DEF Init, SoldOutOwedNothing
<1>2. TypeOK /\ SoldOutOwedNothing /\ [Next]_vars => SoldOutOwedNothing'
  <2> SUFFICES ASSUME TypeOK, SoldOutOwedNothing, [Next]_vars, NEW q \in Positions,
                      shares'[q] = 0
               PROVE  net_paid'[q] = 0
    BY DEF SoldOutOwedNothing
  <2>0. /\ shares[q] \in Nat /\ net_paid[q] \in Nat
        /\ shares[q] = 0 => net_paid[q] = 0
    BY DEF TypeOK, SoldOutOwedNothing
  <2>1. CASE UNCHANGED <<shares, net_paid>>
    BY <2>0, <2>1
  <2>2. ASSUME NEW p \in Positions, NEW n \in Sizes, NEW cost \in Costs, Buy(p, n, cost)
        PROVE  net_paid'[q] = 0
    BY <2>0, <2>2, LadderConstants DEF Buy, TypeOK
  <2>3. ASSUME NEW p \in Positions, NEW n \in Sizes, NEW cost \in Costs, Sell(p, n, cost)
        PROVE  net_paid'[q] = 0
    <3>1. CASE p # q
      BY <2>0, <2>3, <3>1 DEF Sell, TypeOK
    <3>2. CASE p = q
      <4>1. n \in Nat /\ n = shares[q]
        BY <2>0, <2>3, <3>2, LadderConstants DEF Sell, TypeOK
      <4>2. basis_released(net_paid[q], n, shares[q]) = net_paid[q]
        BY <2>0, <4>1, BasisReleased
      <4> QED
        BY <2>0, <2>3, <3>2, <4>2 DEF Sell, TypeOK
    <3> QED
      BY <3>1, <3>2
  <2>4. ASSUME NEW p \in Positions, ClosePosition(p) PROVE net_paid'[q] = 0
    BY <2>0, <2>4 DEF ClosePosition, TypeOK
  <2> QED
    BY <2>1, <2>2, <2>3, <2>4
    DEF Next, vars, clockVars, positionVars, Tick, SetPaused, Create, LpJoin, Open,
        Settle, Void, Redeem, Sweep, ClaimLp, CollectFees, Close
<1> QED
  BY <1>1, <1>2, TypeCorrect, PTL DEF Spec

\* A day that was started and whose account is gone is past its close ...
THEOREM DaysEnd == Spec => []DayOver
<1>1. Init => DayOver
  BY DEF Init, DayOver
<1>2. TypeOK /\ DayOver /\ [Next]_vars => DayOver'
  <2> SUFFICES ASSUME TypeOK, DayOver, [Next]_vars PROVE DayOver'
    OBVIOUS
  <2>1. CASE Tick
    BY <2>1, LadderConstants DEF Tick, TypeOK, DayOver, scheduleVars
  <2>2. CASE Close
    BY <2>2 DEF Close, Closable, DayOver, clockVars
  <2>3. CASE status' = status /\ UNCHANGED <<now, started>>
    BY <2>3 DEF DayOver
  <2>4. CASE status' # "None"
    BY <2>4 DEF DayOver
  <2> QED
    BY <2>1, <2>2, <2>3, <2>4
    DEF Next, vars, clockVars, scheduleVars, SetPaused, Create, LpJoin, Open, Buy,
        Sell, Settle, Void, Redeem, Sweep, ClaimLp, CollectFees
<1> QED
  BY <1>1, <1>2, TypeCorrect, PTL DEF Spec

\* ... and a round is started well before its close: so no day is offered twice.
THEOREM OneRound == Spec => OneRoundPerDay
<1>1. TypeOK /\ DayOver /\ [Next]_vars
        => [status = "None" /\ status' # "None" => ~started]_vars
  <2> SUFFICES ASSUME TypeOK, DayOver, Next, status = "None", status' # "None"
               PROVE  ~started
    OBVIOUS
  <2>1. PICK t \in Tranches, amount \in Deposits : Create(t, amount)
    BY DEF Next, clockVars, Final, Tick, SetPaused, LpJoin, Open, InOpenWindow, Buy, Sell,
           Tradeable, Settle, Void, NeverOpened, NeverSettled, Redeem, Sweep, ClaimLp,
           CollectFees, Close, Closable
  <2> QED
    BY <2>1, LadderConstants, RuleConstants DEF Create, DayOver, TypeOK
<1> QED
  BY <1>1, TypeCorrect, DaysEnd, PTL DEF Spec, OneRoundPerDay

\* While a round can trade its window is not empty, and it ends before the
\* day's close by the least gap at the least, late openings included.
THEOREM WindowHolds == Spec => []Window
<1>1. Init => Window
  BY DEF Init, Window, Running
<1>2. TypeOK /\ Window /\ [Next]_vars => Window'
  <2> SUFFICES ASSUME TypeOK, Window, [Next]_vars, Running' PROVE Window'
    BY DEF Window
  <2> USE DEF TypeOK, Window, Running, scheduleVars
  <2>1. ASSUME NEW t \in Tranches, NEW amount \in Deposits, Create(t, amount)
        PROVE  Window'
    BY <2>1, WindowOrder DEF Create
  <2>2. ASSUME NEW w \in Worsts, Open(w) PROVE Window'
    BY <2>2, LadderConstants DEF Open, InOpenWindow
  <2>3. CASE status' = status /\ UNCHANGED <<opens_at, locks_at>>
    BY <2>3
  <2>4. CASE ~ Running'
    BY <2>4
  <2> QED
    BY <2>1, <2>2, <2>3, <2>4
    DEF Next, vars, Tick, SetPaused, LpJoin, Buy, Sell, Settle, Void, Redeem,
        Sweep, ClaimLp, CollectFees, Close
<1> QED
  BY <1>1, <1>2, TypeCorrect, PTL DEF Spec

-----------------------------------------------------------------------------
(* The sums of the books.                                                  *)

\* Nothing but the accounts that exist counts towards the opening: early
\* deposits have no depth of their own, and no one trades before it.
THEOREM Opening == Spec => []OpeningBell
<1> DEFINE Known == Accounts /\ CountsExact
<1>1. Init => OpeningBell
  BY DEF Init, OpeningBell
<1>2. TypeOK /\ Known /\ OpeningBell /\ [Next]_vars => OpeningBell'
  <2> SUFFICES ASSUME TypeOK, Known, OpeningBell, [Next]_vars PROVE OpeningBell'
    OBVIOUS
  <2>1. ASSUME NEW t \in Tranches, NEW amount \in Deposits, Create(t, amount)
        PROVE  OpeningBell'
    BY <2>1 DEF Create, CountsExact, OpeningBell, TypeOK, positionVars
  <2>2. ASSUME NEW t \in Tranches, NEW amount \in Deposits, LpJoin(t, amount)
        PROVE  OpeningBell'
    <3>1. CASE status = "Seeding"
      BY <2>2, <3>1 DEF LpJoin, Join, snap_at_join, OpeningBell, TypeOK, positionVars
    <3>2. CASE status = "Open"
      BY <2>2, <3>2 DEF LpJoin, Join, snap_at_join, OpeningBell, TypeOK
    <3> QED
      BY <2>2, <3>1, <3>2 DEF LpJoin
  <2>3. ASSUME NEW w \in Worsts, Open(w) PROVE OpeningBell'
    BY <2>3, LadderConstants DEF Open, InOpenWindow, OpeningBell, trancheVars
  <2>4. ASSUME NEW fee \in Nat, BookFee(fee), status = "Open", status' = status,
               UNCHANGED <<open_worst, trancheVars>>
        PROVE  OpeningBell'
    <3>1. acc_fee <= acc_fee'
      BY <2>4, BookFeeTypes
    <3>2. \A t \in tranches : snap[t] \in Nat
      BY DEF TypeOK
    <3>3. acc_fee \in Nat /\ acc_fee' \in Nat
      BY <2>4, BookFeeTypes DEF TypeOK
    <3> QED
      BY <2>4, <3>1, <3>2, <3>3 DEF OpeningBell, trancheVars
  <2>5. ASSUME NEW p \in Positions, NEW n \in Sizes, NEW cost \in Costs, Buy(p, n, cost)
        PROVE  OpeningBell'
    <3> DEFINE fee == fee_on(cost + 1, fee_bps_at(SETTLES - now))
    <3>1. fee \in Nat
      BY FeeCharged, LadderConstants
    <3> HIDE DEF fee
    <3> QED
      BY <2>4, <2>5, <3>1 DEF Buy, Tradeable, fee
  <2>6. ASSUME NEW p \in Positions, NEW n \in Sizes, NEW cost \in Costs, Sell(p, n, cost)
        PROVE  OpeningBell'
    <3> DEFINE fee == fee_on(sale_proceeds(cost), fee_bps_at(SETTLES - now))
    <3>1. fee \in Nat
      BY FeeCharged, LadderConstants DEF sale_proceeds, SatSub, Most
    <3> HIDE DEF fee
    <3> QED
      BY <2>4, <2>6, <3>1 DEF Sell, Tradeable, fee
  <2>7. ASSUME NEW bin \in Bins, Settle(bin) PROVE OpeningBell'
    BY <2>7 DEF Settle, OpeningBell, curveVars, trancheVars
  <2>8. ASSUME NEW t \in Tranches, NEW caller \in Callers, NEW result \in Results,
               ClaimLp(t, caller, result)
        PROVE  OpeningBell'
    BY <2>8 DEF ClaimLp, Final, OpeningBell, curveVars, TypeOK
  <2>9. CASE Final' /\ Final /\ UNCHANGED <<status, curveVars, trancheVars>>
    BY <2>9 DEF Final, OpeningBell, curveVars, trancheVars
  <2>10. CASE status' \in {"Void", "None"}
    BY <2>10 DEF OpeningBell
  <2>11. CASE UNCHANGED <<status, curveVars, positionVars, trancheVars>>
    BY <2>11 DEF OpeningBell, curveVars, positionVars, trancheVars
  <2> QED
    BY <2>1, <2>2, <2>3, <2>5, <2>6, <2>7, <2>8, <2>9, <2>10, <2>11
    DEF Next, vars, Final, Tick, SetPaused, Void, Redeem, Sweep, CollectFees, Close
<1> QED
  BY <1>1, <1>2, TypeCorrect, AccountsCounted, PTL DEF Spec

\* What the holders paid and have not released, and what the depositors put
\* in, are the totals a void divides by.
THEOREM BasisIsExact == Spec => []BasisExact
<1> DEFINE Known == Accounts /\ CountsExact
           Basis == SumOver(live, net_paid)
           Deposited == SumOver(tranches, deposit)
<1>1. Init => BasisExact
  BY DEF Init, BasisExact, Running
<1>2. TypeOK /\ Known /\ BasisExact /\ [Next]_vars => BasisExact'
  <2> SUFFICES ASSUME TypeOK, Known, BasisExact, [Next]_vars PROVE BasisExact'
    OBVIOUS
  <2>0. /\ IsFiniteSet(live) /\ \A p \in live : net_paid[p] \in Nat
        /\ IsFiniteSet(tranches) /\ \A t \in tranches : deposit[t] \in Nat
        /\ Basis \in Nat /\ Deposited \in Nat
    BY SumNat DEF TypeOK, Accounts, SumOver
  <2> /\ \A p \in live : net_paid[p] \in Int
      /\ \A t \in tranches : deposit[t] \in Int
    BY <2>0
  <2>1. ASSUME NEW t \in Tranches, NEW amount \in Deposits, Create(t, amount)
        PROVE  BasisExact'
    <3>1. live' = {} /\ Basis' = 0
      BY <2>1, SumEmpty DEF Create, CountsExact, positionVars, SumOver
    <3>2. deposit'[t] = amount /\ amount \in Nat /\ tranches' = {t}
      BY <2>1, LadderConstants DEF Create, TypeOK
    <3>3. Deposited' = amount
      BY <3>2, SumSingle DEF SumOver
    <3> QED
      BY <2>1, <3>1, <3>3 DEF Create, BasisExact
  <2>2. ASSUME NEW t \in Tranches, NEW amount \in Deposits, LpJoin(t, amount)
        PROVE  BasisExact'
    <3>1. /\ t \notin tranches /\ tranches' = tranches \union {t}
          /\ deposit'[t] = amount /\ deposit'[t] \in Int /\ amount \in Nat
          /\ \A u \in tranches : deposit'[u] = deposit[u]
      BY <2>2, LadderConstants DEF LpJoin, Join, TypeOK
    <3>2. Deposited' = Deposited + amount
      <4>1. SumFunctionOnSet(deposit', tranches \union {t})
              = SumFunctionOnSet(deposit, tranches) + deposit'[t]
        BY <2>0, <3>1, SumCreated
      <4> QED
        BY <3>1, <4>1 DEF SumOver
    <3>3. Running /\ status' = status /\ Basis' = Basis
      BY <2>2 DEF LpJoin, Running, positionVars, SumOver
    <3>4. basis_total' = basis_total /\ deposit_total' = deposit_total + amount
      BY <2>2 DEF LpJoin, Join, BookDeposit
    <3> QED
      BY <3>2, <3>3, <3>4 DEF BasisExact, Running
  <2>3. ASSUME NEW p \in Positions, NEW n \in Sizes, NEW cost \in Costs, Buy(p, n, cost)
        PROVE  BasisExact'
    <3> DEFINE fee == fee_on(cost + 1, fee_bps_at(SETTLES - now))
               total == cost + 1 + fee
    <3>1. total \in Nat
      BY FeeCharged, LadderConstants
    <3>2. net_paid' = [net_paid EXCEPT ![p] = @ + total] /\ basis_total' = basis_total + total
      BY <2>3 DEF Buy
    <3>3. Running /\ Running' /\ deposit_total' = deposit_total /\ Deposited' = Deposited
          /\ live' = live \union {p}
      BY <2>3 DEF Buy, Tradeable, Running, trancheVars, SumOver
    <3> HIDE DEF fee, total
    <3>4. /\ net_paid[p] \in Nat /\ net_paid'[p] = net_paid[p] + total
          /\ \A q \in live \ {p} : net_paid'[q] = net_paid[q]
      BY <3>2 DEF TypeOK
    <3>5. CASE p \in live
      <4>1. SumFunctionOnSet(net_paid', live)
              = SumFunctionOnSet(net_paid, live) + (net_paid'[p] - net_paid[p])
        BY <2>0, <3>1, <3>4, <3>5, SumUpdate
      <4>2. Basis' = Basis + total
        <5>1. live' = live
          BY <3>3, <3>5
        <5>2. SumFunctionOnSet(net_paid, live) \in Int
          BY <2>0, SumInt
        <5> QED
          BY <3>1, <3>4, <4>1, <5>1, <5>2 DEF SumOver
      <4> QED
        BY <2>0, <3>1, <3>2, <3>3, <4>2 DEF BasisExact
    <3>6. CASE p \notin live
      <4>1. net_paid[p] = 0
        BY <3>6 DEF Accounts
      <4>2. SumFunctionOnSet(net_paid', live \union {p})
              = SumFunctionOnSet(net_paid, live) + net_paid'[p]
        <5>1. net_paid'[p] \in Int /\ \A q \in live : net_paid'[q] = net_paid[q]
          BY <3>1, <3>4, <3>6
        <5> QED
          BY <2>0, <3>6, <5>1, SumCreated
      <4>3. Basis' = Basis + total
        BY <2>0, <3>1, <3>3, <3>4, <4>1, <4>2 DEF SumOver
      <4> QED
        BY <2>0, <3>1, <3>2, <3>3, <4>3 DEF BasisExact
    <3> QED
      BY <3>5, <3>6
  <2>4. ASSUME NEW p \in Positions, NEW n \in Sizes, NEW cost \in Costs, Sell(p, n, cost)
        PROVE  BasisExact'
    <3> DEFINE released == basis_released(net_paid[p], n, shares[p])
    <3>1. p \in live
      BY <2>4, LadderConstants DEF Sell, Accounts, TypeOK
    <3>2. released \in Nat /\ released <= net_paid[p] /\ net_paid[p] \in Nat
      <4>1. /\ n \in Nat /\ n <= shares[p] /\ shares[p] \in Nat /\ shares[p] # 0
            /\ net_paid[p] \in Nat
        BY <2>4, LadderConstants DEF Sell, TypeOK
      <4> QED
        BY <4>1, BasisReleased
    <3>3. /\ net_paid' = [net_paid EXCEPT ![p] = @ - released]
          /\ basis_total' = basis_total - released
          /\ Running /\ Running' /\ deposit_total' = deposit_total /\ Deposited' = Deposited
          /\ live' = live
      BY <2>4 DEF Sell, Tradeable, Running, trancheVars, SumOver
    <3> HIDE DEF released
    <3>4. /\ net_paid'[p] = net_paid[p] - released
          /\ \A q \in live \ {p} : net_paid'[q] = net_paid[q]
      BY <3>3 DEF TypeOK
    <3>5. SumFunctionOnSet(net_paid', live)
            = SumFunctionOnSet(net_paid, live) + (net_paid'[p] - net_paid[p])
      BY <2>0, <3>1, <3>2, <3>4, SumUpdate
    <3>6. Basis' = Basis - released
      BY <2>0, <3>2, <3>3, <3>4, <3>5 DEF SumOver
    <3> QED
      BY <2>0, <3>2, <3>3, <3>6 DEF BasisExact
  <2>5. ASSUME NEW proof \in BOOLEAN, Void(proof) PROVE BasisExact'
    <3>1. /\ Running /\ ~Running' /\ basis_total' = basis_total
          /\ deposit_total' = deposit_total /\ Basis' = Basis /\ Deposited' = Deposited
      BY <2>5 DEF Void, NeverOpened, NeverSettled, Running, positionVars, trancheVars,
                  SumOver
    <3> QED
      BY <2>0, <3>1 DEF BasisExact
  <2>6. ASSUME NEW p \in live, ClosePosition(p), Final, status' = status,
               UNCHANGED <<basis_total, deposit_total, trancheVars>>
        PROVE  BasisExact'
    <3>1. live' = live \ {p} /\ \A q \in live \ {p} : net_paid'[q] = net_paid[q]
      BY <2>6 DEF ClosePosition, TypeOK
    <3>2. Basis' = Basis - net_paid[p]
      <4>1. SumFunctionOnSet(net_paid', live \ {p})
              = SumFunctionOnSet(net_paid, live) - net_paid[p]
        BY <2>0, <3>1, SumClosed
      <4> QED
        BY <3>1, <4>1 DEF SumOver
    <3>3. Basis' \in Int /\ Basis' <= Basis /\ Deposited' = Deposited
      BY <2>0, <2>6, <3>2 DEF trancheVars, SumOver
    <3> QED
      BY <2>0, <2>6, <3>3 DEF BasisExact, Final, Running, TypeOK
  <2>7. ASSUME NEW p \in Positions, NEW caller \in Callers, Redeem(p, caller)
        PROVE  BasisExact'
    BY <2>6, <2>7 DEF Redeem
  <2>8. ASSUME NEW p \in Positions, Sweep(p) PROVE BasisExact'
    BY <2>6, <2>8 DEF Sweep, bookVars
  <2>9. ASSUME NEW t \in Tranches, NEW caller \in Callers, NEW result \in Results,
               ClaimLp(t, caller, result)
        PROVE  BasisExact'
    <3>1. /\ t \in tranches /\ tranches' = tranches \ {t}
          /\ \A u \in tranches \ {t} : deposit'[u] = deposit[u]
      BY <2>9 DEF ClaimLp, TypeOK
    <3>2. Deposited' = Deposited - deposit[t]
      <4>1. SumFunctionOnSet(deposit', tranches \ {t})
              = SumFunctionOnSet(deposit, tranches) - deposit[t]
        BY <2>0, <3>1, SumClosed
      <4> QED
        BY <3>1, <4>1 DEF SumOver
    <3>3. /\ Final /\ status' = status /\ basis_total' = basis_total
          /\ deposit_total' = deposit_total /\ Basis' = Basis
      BY <2>9 DEF ClaimLp, positionVars, SumOver
    <3>4. Deposited' \in Int /\ Deposited' <= Deposited
      BY <2>0, <3>1, <3>2
    <3> QED
      BY <2>0, <3>3, <3>4 DEF BasisExact, Final, Running, TypeOK
  <2>10. CASE status' \in {"Settled", "None"}
    BY <2>10 DEF BasisExact, Running
  <2>11. CASE /\ Running => Running'
              /\ Running' \/ status' = "Void" => status' = status \/ Running
              /\ UNCHANGED <<basis_total, deposit_total, positionVars, trancheVars>>
    <3>1. Basis' = Basis /\ Deposited' = Deposited
      BY <2>11 DEF positionVars, trancheVars, SumOver
    <3> QED
      BY <2>0, <2>11, <3>1 DEF BasisExact, Running
  <2> QED
    BY <2>1, <2>2, <2>3, <2>4, <2>5, <2>7, <2>8, <2>9, <2>10, <2>11
    DEF Next, vars, bookVars, Running, Tick, SetPaused, Open, InOpenWindow, Settle,
        CollectFees, Close
<1> QED
  BY <1>1, <1>2, TypeCorrect, AccountsCounted, PTL DEF Spec

-----------------------------------------------------------------------------
(* Fees.                                                                   *)

\* A trade leaves every deposit's depth alone.
LEMMA DepthKept ==
  ASSUME UNCHANGED <<tdepth, deposit, open_worst>>
  PROVE  \A t \in Tranches : tranche_depth(t)' = tranche_depth(t)
BY DEF tranche_depth, liquidity_for_deposit

\* The depth of an early deposit, recomputed from the opening bell, and of a
\* late one, stored, add up to no more than the depth fees are divided by.
THEOREM DepthIsShared == Spec => []DepthShared
<1> DEFINE Depths == SumOver(tranches, [t \in tranches |-> tranche_depth(t)])
<1>1. Init => DepthShared
  BY DEF Init, DepthShared, Running
<1>2. TypeOK /\ Accounts /\ OpeningBell /\ BasisExact /\ DepthShared /\ [Next]_vars
        => DepthShared'
  <2> SUFFICES ASSUME TypeOK, Accounts, OpeningBell, BasisExact, DepthShared, [Next]_vars
               PROVE DepthShared'
    OBVIOUS
  <2> DEFINE D == [t \in tranches |-> tranche_depth(t)]
  <2>0. /\ IsFiniteSet(tranches) /\ \A t \in tranches : D[t] \in Int
        /\ \A t \in tranches : deposit[t] \in Int
        /\ SumFunctionOnSet(D, tranches) \in Int
    <3>1. IsFiniteSet(tranches) /\ \A t \in tranches : t \in Tranches /\ deposit[t] \in Int
      BY DEF Accounts, TypeOK
    <3>2. \A t \in tranches : D[t] \in Int
      BY <3>1, ClaimsNat
    <3> QED
      BY <3>1, <3>2, SumInt
  <2>1. ASSUME NEW t \in Tranches, NEW amount \in Deposits, Create(t, amount)
        PROVE  DepthShared'
    <3> DEFINE E == [u \in {t} |-> tranche_depth(u)']
    <3>1. tranches' = {t} /\ depth' = 0 /\ tdepth'[t] = 0 /\ open_worst' = 0
      BY <2>1 DEF Create, TypeOK
    <3>2. E[t] = 0
      BY <3>1 DEF tranche_depth
    <3>3. SumFunctionOnSet(E, {t}) = 0
      BY <3>2, SumSingle
    <3>4. Depths' = 0
      BY <3>1, <3>3 DEF SumOver
    <3> QED
      BY <3>1, <3>4 DEF DepthShared
  <2>2. ASSUME NEW t \in Tranches, NEW amount \in Deposits, LpJoin(t, amount)
        PROVE  DepthShared'
    <3> DEFINE E == [u \in tranches \union {t} |-> tranche_depth(u)']
               early == status = "Seeding" /\ depth = 0
               b == IF early THEN 0 ELSE liquidity_for_deposit(amount, worst)
    <3>1. /\ t \notin tranches /\ tranches' = tranches \union {t}
          /\ Running /\ depth' = depth + b
          /\ tdepth' = [tdepth EXCEPT ![t] = b] /\ deposit' = [deposit EXCEPT ![t] = amount]
          /\ open_worst' = open_worst
      BY <2>2 DEF LpJoin, Join, Running
    <3>2. b \in Nat
      BY RuleConstants, LadderConstants, MulNat, DivNat DEF liquidity_for_deposit, TypeOK
    <3>3. b = 0 => open_worst = 0
      BY <2>2 DEF LpJoin, Join, OpeningBell
    <3> HIDE DEF b
    <3>4. E[t] = b
      BY <3>1, <3>2, <3>3 DEF tranche_depth, TypeOK
    <3>5. \A u \in tranches : u # t /\ u \in Tranches
      BY <3>1 DEF TypeOK
    <3>6. \A u \in tranches : E[u] = D[u]
      BY <3>1, <3>5 DEF tranche_depth, TypeOK, liquidity_for_deposit
    <3> HIDE DEF D, E
    <3>7. SumFunctionOnSet(E, tranches \union {t}) = SumFunctionOnSet(D, tranches) + E[t]
      <4>1. E[t] \in Int /\ t \notin tranches
        BY <3>1, <3>2, <3>4
      <4> QED
        BY <2>0, <3>6, <4>1, SumCreated
    <3>8. Depths' = SumFunctionOnSet(D, tranches) + b
      BY <3>1, <3>4, <3>7 DEF SumOver, E
    <3>9. Depths = SumFunctionOnSet(D, tranches)
      BY DEF SumOver, D
    <3>10. Depths <= depth
      BY <3>1 DEF DepthShared
    <3>11. depth \in Nat /\ depth' = depth + b
      BY <3>1 DEF TypeOK
    <3> HIDE DEF Depths
    <3>12. Depths' <= depth'
      BY <2>0, <3>2, <3>8, <3>9, <3>10, <3>11
    <3> QED
      BY <3>12 DEF DepthShared, Depths
  <2>3. ASSUME NEW w \in Worsts, Open(w) PROVE DepthShared'
    <3> DEFINE E == [u \in tranches |-> tranche_depth(u)']
               F == [u \in tranches |-> WAD_SCALAR * deposit[u]]
    <3>1. /\ tranches' = tranches /\ deposit' = deposit /\ open_worst' = w
          /\ depth' = (deposit_total * WAD_SCALAR) \div w
          /\ \A u \in tranches : tdepth'[u] = 0
      BY <2>3 DEF Open, InOpenWindow, OpeningBell, liquidity_for_deposit, trancheVars
    <3>2. w \in Nat \ {0} /\ WAD_SCALAR \in Int
      BY LadderConstants, RuleConstants
    <3>3. \A u \in tranches : F[u] \in Int /\ F[u] = WAD_SCALAR * deposit[u]
      BY <2>0, <3>2
    <3>4. \A u \in tranches : E[u] = F[u] \div w
      <4>1. \A u \in tranches : E[u] = (deposit[u] * WAD_SCALAR) \div w
        BY <3>1, <3>2 DEF tranche_depth, liquidity_for_deposit
      <4>2. \A u \in tranches : deposit[u] * WAD_SCALAR = WAD_SCALAR * deposit[u]
        BY <2>0, <3>2
      <4> QED
        BY <4>1, <4>2
    <3> HIDE DEF E, F
    <3>5. SumFunctionOnSet(E, tranches) <= SumFunctionOnSet(F, tranches) \div w
      BY <2>0, <3>2, <3>3, <3>4, SumFloors
    <3>6. SumFunctionOnSet(F, tranches) = WAD_SCALAR * SumFunctionOnSet(deposit, tranches)
      BY <2>0, <3>2, <3>3, SumScaled
    <3>7. SumFunctionOnSet(deposit, tranches) = deposit_total
      BY <2>3 DEF Open, InOpenWindow, BasisExact, Running, SumOver
    <3>8. deposit_total * WAD_SCALAR = WAD_SCALAR * deposit_total
      BY <3>2 DEF TypeOK
    <3>9. Depths' = SumFunctionOnSet(E, tranches)
      BY <3>1 DEF SumOver, E
    <3> QED
      BY <3>1, <3>5, <3>6, <3>7, <3>8, <3>9 DEF DepthShared
  <2>4. CASE /\ Running' => Running
             /\ UNCHANGED <<depth, tdepth, deposit, open_worst, tranches>>
    <3>1. Depths' = Depths
      BY <2>4 DEF tranche_depth, liquidity_for_deposit, SumOver
    <3> QED
      BY <2>4, <3>1 DEF DepthShared
  <2>5. CASE ~Running'
    BY <2>5 DEF DepthShared
  <2> QED
    BY <2>1, <2>2, <2>3, <2>4, <2>5
    DEF Next, vars, curveVars, trancheVars, Running, Final, Tick, SetPaused, Buy, Sell, Tradeable,
        BookFee, Settle, Void, Redeem, Sweep, ClaimLp, CollectFees, Close
<1> QED
  BY <1>1, <1>2, TypeCorrect, AccountsCounted, Opening, BasisIsExact, PTL DEF Spec

\* What the accumulator has promised before any floor is covered by what was
\* collected: a trade's fee is divided by at least the depth that shares it.
THEOREM FeesAreEarned == Spec => []FeesEarned
<1> DEFINE Units(t) == b_units(tranche_depth(t))
           Promised == SumOver(tranches, [t \in tranches |-> Units(t) * (acc_fee - snap[t])])
<1>1. Init => FeesEarned
  BY DEF Init, FeesEarned, Running
<1>2. TypeOK /\ Accounts /\ OpeningBell /\ DepthShared /\ FeesEarned /\ [Next]_vars
        => FeesEarned'
  <2> SUFFICES ASSUME TypeOK, Accounts, OpeningBell, DepthShared, FeesEarned, [Next]_vars
               PROVE FeesEarned'
    OBVIOUS
  <2> DEFINE P == [t \in tranches |-> Units(t) * (acc_fee - snap[t])]
             U == [t \in tranches |-> Units(t)]
  <2>0. /\ IsFiniteSet(tranches) /\ \A t \in tranches : t \in Tranches
        /\ \A t \in Tranches : Units(t) \in Nat
        /\ \A t \in tranches : P[t] \in Int /\ U[t] \in Nat
        /\ acc_fee \in Nat /\ fees_lp \in Nat /\ FEE_ACC_SCALE \in Nat \ {0}
    <3>1. IsFiniteSet(tranches) /\ \A t \in tranches : t \in Tranches /\ snap[t] \in Nat
      BY DEF Accounts, TypeOK
    <3>2. \A t \in Tranches : Units(t) \in Nat
      BY ClaimsNat
    <3>3. acc_fee \in Nat /\ fees_lp \in Nat
      BY DEF TypeOK
    <3> HIDE DEF Units
    <3> QED
      BY <3>1, <3>2, <3>3, RuleConstants
  <2>1. ASSUME NEW t \in Tranches, NEW amount \in Deposits, Create(t, amount)
        PROVE  FeesEarned'
    <3> DEFINE E == [u \in {t} |-> Units(u)' * (acc_fee' - snap'[u])]
    <3>1. tranches' = {t} /\ acc_fee' = 0 /\ snap'[t] = 0 /\ fees_lp' = 0
      BY <2>1 DEF Create, TypeOK
    <3>2. Units(t)' \in Nat
      <4>1. tdepth'[t] = 0 /\ open_worst' = 0
        BY <2>1 DEF Create, TypeOK
      <4> QED
        BY <4>1, RuleConstants DEF tranche_depth, b_units
    <3> HIDE DEF Units
    <3>3. E[t] = 0
      BY <3>1, <3>2
    <3>4. SumFunctionOnSet(E, {t}) = 0
      BY <3>3, SumSingle
    <3>5. Promised' = 0
      BY <3>1, <3>4 DEF SumOver
    <3> HIDE DEF Promised
    <3>6. Promised' <= FEE_ACC_SCALE * fees_lp'
      BY <2>0, <3>1, <3>5
    <3> QED
      BY <3>6 DEF FeesEarned, Promised, Units
  <2>2. ASSUME NEW t \in Tranches, NEW amount \in Deposits, LpJoin(t, amount)
        PROVE  FeesEarned'
    <3> DEFINE E == [u \in tranches \union {t} |-> Units(u)' * (acc_fee' - snap'[u])]
    <3>1. /\ t \notin tranches /\ tranches' = tranches \union {t}
          /\ Running /\ acc_fee' = acc_fee /\ fees_lp' = fees_lp
          /\ snap' = [snap EXCEPT ![t] = acc_fee]
      BY <2>2 DEF LpJoin, Join, snap_at_join, OpeningBell, Running
    <3>2. \A u \in tranches : Units(u)' = Units(u) /\ snap'[u] = snap[u]
      BY <2>2, <2>0, <3>1 DEF LpJoin, Join, BookDeposit, tranche_depth, TypeOK,
                              liquidity_for_deposit
    <3>3. snap'[t] = acc_fee /\ Units(t)' \in Nat
      <4>1. TypeOK'
        BY TypeStep
      <4>2. open_worst' \in Nat /\ \A u \in Tranches : tdepth'[u] \in Nat /\ deposit'[u] \in Nat
        BY <4>1 DEF TypeOK
      <4>3. \A u \in Tranches : Units(u)' \in Nat
        BY <4>2, UnitsNat DEF tranche_depth
      <4> QED
        BY <3>1, <4>3 DEF TypeOK
    <3> HIDE DEF Units
    <3>4. E[t] = 0
      BY <2>0, <3>1, <3>3
    <3>5. \A u \in tranches : E[u] = P[u]
      BY <3>1, <3>2
    <3> HIDE DEF E, P
    <3>6. SumFunctionOnSet(E, tranches \union {t}) = SumFunctionOnSet(P, tranches) + E[t]
      <4>1. E[t] \in Int /\ t \notin tranches
        BY <3>1, <3>4
      <4> QED
        BY <2>0, <3>5, <4>1, SumCreated
    <3>7. Promised' = SumFunctionOnSet(E, tranches \union {t})
      BY <3>1 DEF SumOver, E
    <3>8. Promised = SumFunctionOnSet(P, tranches)
      BY DEF SumOver, P
    <3>9. Promised <= FEE_ACC_SCALE * fees_lp
      BY <3>1 DEF FeesEarned, Units
    <3>10. SumFunctionOnSet(P, tranches) \in Int
      BY <2>0, SumInt
    <3> HIDE DEF Promised
    <3>11. Promised' <= FEE_ACC_SCALE * fees_lp'
      BY <3>1, <3>4, <3>6, <3>7, <3>8, <3>9, <3>10
    <3> QED
      BY <3>11 DEF FeesEarned, Promised, Units
  <2>3. ASSUME NEW w \in Worsts, Open(w) PROVE FeesEarned'
    <3> DEFINE E == [u \in tranches |-> Units(u)' * (acc_fee' - snap'[u])]
    <3>1. /\ tranches' = tranches /\ acc_fee' = 0 /\ fees_lp' = fees_lp
          /\ \A u \in tranches : snap'[u] = 0
      BY <2>3 DEF Open, InOpenWindow, OpeningBell, curveVars, bookVars, trancheVars, TypeOK
    <3>2. \A u \in tranches : Units(u)' \in Int
      <4>1. TypeOK'
        BY TypeStep
      <4>2. open_worst' \in Nat /\ \A u \in Tranches : tdepth'[u] \in Nat /\ deposit'[u] \in Nat
        BY <4>1 DEF TypeOK
      <4>3. \A u \in Tranches : Units(u)' \in Nat
        BY <4>2, UnitsNat DEF tranche_depth
      <4> QED
        BY <2>0, <4>3
    <3> HIDE DEF Units
    <3>3. \A u \in tranches : E[u] = 0 * U[u]
      BY <2>0, <3>1, <3>2
    <3>4. \A u \in tranches : U[u] \in Int
      BY <2>0
    <3> HIDE DEF E, U
    <3>5. SumFunctionOnSet(E, tranches) = 0 * SumFunctionOnSet(U, tranches)
      BY <2>0, <3>3, <3>4, SumScaled
    <3>6. SumFunctionOnSet(U, tranches) \in Int
      BY <2>0, <3>4, SumInt
    <3>7. Promised' = SumFunctionOnSet(E, tranches)
      BY <3>1 DEF SumOver, E
    <3> HIDE DEF Promised
    <3>8. Promised' = 0
      BY <3>5, <3>6, <3>7
    <3>9. FEE_ACC_SCALE * fees_lp' \in Nat
      BY <2>0, <3>1, MulNat
    <3> QED
      BY <3>8, <3>9 DEF FeesEarned, Promised, Units
  <2>4. ASSUME NEW fee \in Nat, BookFee(fee), status = "Open", status' = status,
               UNCHANGED <<depth, open_worst, trancheVars>>
        PROVE  FeesEarned'
    <3> DEFINE lp    == lp_part(fee)
               share == fee_accrual(lp, b_units(depth))
               E == [u \in tranches |-> Units(u)' * (acc_fee' - snap'[u])]
               D == [u \in tranches |-> tranche_depth(u)]
    <3>1. lp \in Nat /\ b_units(depth) \in Nat
      BY FeeSplit, RuleConstants, DivNat DEF TypeOK, b_units
    <3>2. share \in Nat /\ b_units(depth) * share <= lp * FEE_ACC_SCALE
      <4> HIDE DEF lp
      <4> QED
        BY <3>1, AccrualBounds
    <3>3. /\ acc_fee' = acc_fee + share /\ fees_lp' = fees_lp + lp
          /\ tranches' = tranches /\ Running
          /\ \A u \in tranches : snap'[u] = snap[u] /\ snap[u] \in Nat
      BY <2>4, <2>0 DEF BookFee, trancheVars, Running, TypeOK
    <3>4. \A u \in tranches : Units(u)' = Units(u)
      BY <2>0, <2>4, DepthKept DEF trancheVars, b_units
    \* The depths that share are no more than the depth divided by.
    <3>5. SumFunctionOnSet(U, tranches) \in Nat
            /\ SumFunctionOnSet(U, tranches) <= b_units(depth)
      <4>1. \A u \in tranches : D[u] \in Int /\ U[u] = D[u] \div WAD_SCALAR
        BY <2>0, ClaimsNat DEF b_units
      <4>2. SumFunctionOnSet(D, tranches) \in Int /\ SumFunctionOnSet(D, tranches) <= depth
        <5>1. SumFunctionOnSet(D, tranches) <= depth
          BY <3>3 DEF DepthShared, SumOver
        <5> HIDE DEF D
        <5> QED
          BY <2>0, <4>1, <5>1, SumInt
      <4> HIDE DEF D, U
      <4>3. SumFunctionOnSet(U, tranches) <= SumFunctionOnSet(D, tranches) \div WAD_SCALAR
        BY <2>0, <4>1, RuleConstants, SumFloors
      <4>4. SumFunctionOnSet(U, tranches) \in Nat
        BY <2>0, SumNat
      <4>5. \A a, b \in Int : a <= b => a \div WAD_SCALAR <= b \div WAD_SCALAR
        BY RuleConstants
      <4>6. depth \in Int /\ SumFunctionOnSet(D, tranches) \div WAD_SCALAR \in Int
            /\ b_units(depth) \in Int
        BY <4>2, RuleConstants DEF TypeOK, b_units
      <4>7. SumFunctionOnSet(D, tranches) \div WAD_SCALAR <= b_units(depth)
        BY <4>2, <4>5, <4>6 DEF b_units
      <4> QED
        BY <4>3, <4>4, <4>6, <4>7
    <3> HIDE DEF lp, share, Units
    <3>6. \A u \in tranches : E[u] = P[u] + share * U[u]
      <4> TAKE u \in tranches
      <4>1. E[u] = Units(u) * (acc_fee + share - snap[u])
        <5>1. Units(u)' = Units(u) /\ snap'[u] = snap[u] /\ acc_fee' = acc_fee + share
          BY <3>3, <3>4
        <5>2. E[u] = Units(u)' * (acc_fee' - snap'[u])
          OBVIOUS
        <5>3. Units(u) \in Int /\ snap[u] \in Int /\ acc_fee \in Int /\ share \in Int
          BY <2>0, <3>2, <3>3
        <5> HIDE DEF E
        <5> QED
          BY <5>1, <5>2, <5>3
      <4>2. P[u] = Units(u) * (acc_fee - snap[u]) /\ U[u] = Units(u)
        OBVIOUS
      <4>3. Units(u) \in Int /\ acc_fee - snap[u] \in Int
        BY <2>0, <3>3
      <4>4. \A a, b, c \in Int : a * (b + c) = a * b + c * a
        OBVIOUS
      <4>5. acc_fee + share - snap[u] = (acc_fee - snap[u]) + share
        BY <2>0, <3>2, <3>3
      <4> QED
        BY <3>2, <4>1, <4>2, <4>3, <4>4, <4>5
    <3>7. Promised' = SumFunctionOnSet(E, tranches) /\ Promised = SumFunctionOnSet(P, tranches)
      BY <3>3 DEF SumOver
    <3>8. Promised <= FEE_ACC_SCALE * fees_lp
      BY <3>3 DEF FeesEarned, Units
    <3> HIDE DEF E, P, U
    <3>9. \A u \in tranches : P[u] \in Int /\ U[u] \in Int
      BY <2>0
    <3>10. SumFunctionOnSet(E, tranches)
             = SumFunctionOnSet(P, tranches) + share * SumFunctionOnSet(U, tranches)
      BY <2>0, <3>2, <3>6, <3>9, SumLinear
    <3>11. SumFunctionOnSet(P, tranches) \in Int
      BY <2>0, <3>9, SumInt
    <3>12. share * SumFunctionOnSet(U, tranches) <= share * b_units(depth)
      BY <3>1, <3>2, <3>5, MulMonotone
    <3>13. share * b_units(depth) <= FEE_ACC_SCALE * lp
      BY <2>0, <3>1, <3>2
    <3>14. /\ share * SumFunctionOnSet(U, tranches) \in Int
           /\ share * b_units(depth) \in Int
           /\ FEE_ACC_SCALE * lp \in Int /\ FEE_ACC_SCALE * fees_lp \in Int
           /\ FEE_ACC_SCALE * (fees_lp + lp) = FEE_ACC_SCALE * fees_lp + FEE_ACC_SCALE * lp
      BY <2>0, <3>1, <3>2, <3>5
    <3> HIDE DEF Promised
    <3>15. Promised' <= FEE_ACC_SCALE * fees_lp'
      BY <3>3, <3>7, <3>8, <3>10, <3>11, <3>12, <3>13, <3>14
    <3> QED
      BY <3>15 DEF FeesEarned, Promised, Units
  <2>5. ASSUME NEW p \in Positions, NEW n \in Sizes, NEW cost \in Costs, Buy(p, n, cost)
        PROVE  FeesEarned'
    <3> DEFINE fee == fee_on(cost + 1, fee_bps_at(SETTLES - now))
    <3>1. fee \in Nat
      BY FeeCharged, LadderConstants
    <3> HIDE DEF fee
    <3> QED
      BY <2>4, <2>5, <3>1 DEF Buy, Tradeable, fee
  <2>6. ASSUME NEW p \in Positions, NEW n \in Sizes, NEW cost \in Costs, Sell(p, n, cost)
        PROVE  FeesEarned'
    <3> DEFINE fee == fee_on(sale_proceeds(cost), fee_bps_at(SETTLES - now))
    <3>1. fee \in Nat
      BY FeeCharged, LadderConstants DEF sale_proceeds, SatSub, Most
    <3> HIDE DEF fee
    <3> QED
      BY <2>4, <2>6, <3>1 DEF Sell, Tradeable, fee
  <2>7. CASE /\ Running' => Running
             /\ UNCHANGED <<open_worst, acc_fee, fees_lp, trancheVars>>
    <3>1. Promised' = Promised
      BY <2>7 DEF tranche_depth, liquidity_for_deposit, b_units, SumOver, trancheVars
    <3> QED
      BY <2>7, <3>1 DEF FeesEarned
  <2>8. CASE ~Running'
    BY <2>8 DEF FeesEarned
  <2> QED
    BY <2>1, <2>2, <2>3, <2>5, <2>6, <2>7, <2>8
    DEF Next, vars, curveVars, bookVars, Running, Final, Tick, SetPaused, Settle, Void,
        Redeem, Sweep, ClaimLp, CollectFees, Close
<1> QED
  BY <1>1, <1>2, TypeCorrect, AccountsCounted, Opening, DepthIsShared, PTL DEF Spec

\* Floored, the promise is met while the round is open ...
LEMMA FeesFloored ==
  TypeOK /\ Accounts /\ OpeningBell /\ FeesEarned
    => (status = "Open" => fees_promised <= fees_lp)
<1> SUFFICES ASSUME TypeOK, Accounts, OpeningBell, FeesEarned, status = "Open"
             PROVE  fees_promised <= fees_lp
  OBVIOUS
<1> DEFINE P == [t \in tranches |-> b_units(tranche_depth(t)) * (acc_fee - snap[t])]
           E == [t \in tranches |-> earned(t)]
<1>1. /\ IsFiniteSet(tranches) /\ FEE_ACC_SCALE \in Nat \ {0} /\ fees_lp \in Nat
      /\ \A t \in tranches : P[t] \in Int
  <2>1. \A t \in tranches : t \in Tranches /\ snap[t] \in Nat /\ acc_fee \in Nat
    BY DEF TypeOK
  <2>2. \A t \in tranches : b_units(tranche_depth(t)) \in Nat
    BY <2>1, ClaimsNat
  <2> QED
    BY <2>1, <2>2, RuleConstants DEF Accounts, TypeOK
<1>2. \A t \in tranches : E[t] = P[t] \div FEE_ACC_SCALE
  BY DEF earned, tranche_fees
<1>3. SumFunctionOnSet(P, tranches) <= FEE_ACC_SCALE * fees_lp
  BY DEF FeesEarned, Running, SumOver
<1>4. fees_promised = SumFunctionOnSet(E, tranches)
  BY DEF fees_promised, SumOver
<1> HIDE DEF P, E
<1>5. /\ SumFunctionOnSet(E, tranches) \in Int
      /\ FEE_ACC_SCALE * SumFunctionOnSet(E, tranches) <= SumFunctionOnSet(P, tranches)
  BY <1>1, <1>2, SumFloors
<1>6. SumFunctionOnSet(P, tranches) \in Int
  BY <1>1, SumInt
<1>7. \A a, b \in Int : FEE_ACC_SCALE * a <= FEE_ACC_SCALE * b => a <= b
  BY <1>1
<1>8. FEE_ACC_SCALE * SumFunctionOnSet(E, tranches) <= FEE_ACC_SCALE * fees_lp
  BY <1>1, <1>3, <1>5, <1>6
<1> QED
  BY <1>1, <1>4, <1>5, <1>7, <1>8

\* ... and every claim of a settled round takes no more than its own part, so
\* the last depositor's fees are there whoever claims first.
THEOREM FeesArePromised == Spec => []FeePromise
<1>1. Init => FeePromise
  BY DEF Init, FeePromise
<1>2. TypeOK /\ Accounts /\ OpeningBell /\ FeePromise /\ [Next]_vars
        /\ (status = "Open" => fees_promised <= fees_lp)'
        => FeePromise'
  <2> SUFFICES ASSUME TypeOK, Accounts, OpeningBell, FeePromise, [Next]_vars,
                      status' = "Settled"
               PROVE  fees_promised' <= fees_lp'
    BY DEF FeePromise
  <2> DEFINE E == [t \in tranches |-> earned(t)]
  <2>1. CASE status \in {"Open", "Settled"}
             /\ UNCHANGED <<open_worst, acc_fee, fees_lp, trancheVars>>
    <3>1. fees_promised' = fees_promised
      BY <2>1 DEF fees_promised, earned, tranche_depth, liquidity_for_deposit, SumOver,
                  trancheVars
    <3> QED
      BY <2>1, <3>1 DEF FeePromise
  <2>2. ASSUME NEW t \in Tranches, NEW caller \in Callers, NEW result \in Results,
               ClaimLp(t, caller, result)
        PROVE  fees_promised' <= fees_lp'
    <3> DEFINE F == [u \in tranches \ {t} |-> earned(u)']
    <3>1. /\ status = "Settled" /\ t \in tranches /\ tranches' = tranches \ {t}
          /\ fees_lp' = fees_lp - draw(earned(t), fees_lp)
      BY <2>2 DEF ClaimLp, earned
    <3>2. /\ IsFiniteSet(tranches) /\ \A u \in tranches : E[u] \in Int
          /\ E[t] = earned(t) /\ earned(t) \in Nat /\ fees_lp \in Nat
      <4>1. \A u \in tranches : u \in Tranches /\ snap[u] <= acc_fee
        BY <3>1 DEF OpeningBell, TypeOK
      <4>2. \A u \in tranches : earned(u) \in Nat
        BY <4>1, ClaimsNat
      <4> QED
        BY <3>1, <4>2 DEF Accounts, TypeOK
    <3>3. \A u \in tranches \ {t} : F[u] = E[u]
      <4>1. \A u \in tranches \ {t} :
              u \in Tranches /\ tdepth'[u] = tdepth[u] /\ snap'[u] = snap[u]
                /\ deposit'[u] = deposit[u]
        BY <2>2 DEF ClaimLp, TypeOK
      <4> QED
        BY <2>2, <4>1 DEF ClaimLp, earned, tranche_depth, curveVars
    <3>4. fees_promised = SumFunctionOnSet(E, tranches)
          /\ fees_promised' = SumFunctionOnSet(F, tranches \ {t})
      BY <3>1 DEF fees_promised, SumOver
    <3> HIDE DEF E, F
    <3>5. SumFunctionOnSet(F, tranches \ {t}) = SumFunctionOnSet(E, tranches) - E[t]
      BY <3>1, <3>2, <3>3, SumClosed
    <3>6. SumFunctionOnSet(E, tranches) \in Int
      BY <3>2, SumInt
    <3>7. draw(earned(t), fees_lp) \in Int /\ draw(earned(t), fees_lp) <= earned(t)
      BY <3>2 DEF draw, Least
    <3>8. fees_promised <= fees_lp
      BY <3>1 DEF FeePromise
    <3> QED
      BY <3>1, <3>2, <3>4, <3>5, <3>6, <3>7, <3>8
  <2> QED
    BY <2>1, <2>2
    DEF Next, vars, curveVars, bookVars, Final, Tick, SetPaused, Create, LpJoin, Open, Buy,
        Sell, Tradeable, Settle, Void, Redeem, Sweep, CollectFees, Close
<1> QED
  BY <1>1, <1>2, FeesFloored, TypeCorrect, AccountsCounted, Opening, FeesAreEarned, PTL
  DEF Spec

-----------------------------------------------------------------------------
(* Obligations.                                                            *)

\* No bin ever owes more than the cash behind it: a trade that would break
\* this fails, and nothing else takes cash or adds shares.
THEOREM AlwaysSolvent == Spec => []Solvent
<1>1. Init => Solvent
  BY DEF Init, Solvent, Running
<1>2. TypeOK /\ Solvent /\ [Next]_vars => Solvent'
  <2> SUFFICES ASSUME TypeOK, Solvent, [Next]_vars PROVE Solvent'
    OBVIOUS
  <2>1. ASSUME NEW t \in Tranches, NEW amount \in Deposits, Create(t, amount)
        PROVE  Solvent'
    BY <2>1, LadderConstants DEF Create, Solvent
  <2>2. ASSUME NEW t \in Tranches, NEW amount \in Deposits, LpJoin(t, amount)
        PROVE  Solvent'
    <3>1. /\ cash' = cash + amount /\ payout' = payout /\ status' = status /\ Running
          /\ amount \in Nat /\ cash \in Nat /\ \A i \in Bins : payout[i] \in Nat
      BY <2>2, LadderConstants DEF LpJoin, Join, BookDeposit, Running, TypeOK
    <3> QED
      BY <3>1 DEF Solvent, Running
  <2>3. ASSUME NEW p \in Positions, NEW n \in Sizes, NEW cost \in Costs, Buy(p, n, cost)
        PROVE  Solvent'
    BY <2>3 DEF Buy, Tradeable, Solvent
  <2>4. ASSUME NEW p \in Positions, NEW n \in Sizes, NEW cost \in Costs, Sell(p, n, cost)
        PROVE  Solvent'
    BY <2>4 DEF Sell, Tradeable, Solvent
  <2>5. ASSUME NEW bin \in Bins, Settle(bin) PROVE Solvent'
    BY <2>5 DEF Settle, Solvent, Running
  <2>6. CASE Running /\ Running' /\ UNCHANGED <<cash, payout>>
    BY <2>6 DEF Solvent, Running
  <2>7. CASE ~Running' /\ (status' = "Settled" => status = "Settled" /\ settled_bin' = settled_bin)
    BY <2>7 DEF Solvent
  <2> QED
    BY <2>1, <2>2, <2>3, <2>4, <2>5, <2>6, <2>7
    DEF Next, vars, bookVars, potVars, Running, Final, Tick, SetPaused, Open, InOpenWindow,
        Void, Redeem, Sweep, ClaimLp, CollectFees, Close
<1> QED
  BY <1>1, <1>2, TypeCorrect, PTL DEF Spec

\* The payout table is what the holders are owed, bin by bin, and the cash of a
\* settled round is what its winners still hold.
THEOREM ObligationsAreExact == Spec => []ObligationsExact
<1>1. Init => ObligationsExact
  BY DEF Init, ObligationsExact, Running
<1>2. TypeOK /\ Accounts /\ CountsExact /\ Solvent /\ ObligationsExact /\ [Next]_vars
        => ObligationsExact'
  <2> SUFFICES ASSUME TypeOK, Accounts, CountsExact, Solvent, ObligationsExact, [Next]_vars
               PROVE  ObligationsExact'
    OBVIOUS
  <2> DEFINE T(i) == [q \in live |-> shares[q] * level(q[2], i)]
  <2>0. /\ IsFiniteSet(live)
        /\ \A q \in live : q \in Positions /\ shares[q] \in Nat
        /\ \A i \in Bins : i \in Int /\ payout[i] \in Nat
        /\ \A i \in Bins : \A q \in Positions : level(q[2], i) \in Nat
        /\ \A i \in Bins : \A q \in live : T(i)[q] \in Int
        /\ \A i \in Bins : owed_in(i) = SumFunctionOnSet(T(i), live)
        /\ \A i \in Bins : SumFunctionOnSet(T(i), live) \in Int
    <3>1. IsFiniteSet(live) /\ \A q \in live : q \in Positions /\ shares[q] \in Nat
      BY DEF Accounts, TypeOK
    <3>2. \A i \in Bins : i \in Int /\ payout[i] \in Nat
      BY RuleConstants DEF Bins, TypeOK
    <3>3. \A i \in Bins : \A q \in Positions : level(q[2], i) \in Nat
      BY <3>2, LevelNat DEF Positions
    <3>4. \A i \in Bins : \A q \in live : T(i)[q] \in Int
      BY <3>1, <3>3
    <3>5. \A i \in Bins : owed_in(i) = SumFunctionOnSet(T(i), live)
      BY DEF owed_in, SumOver
    <3> HIDE DEF T
    <3>6. \A i \in Bins : SumFunctionOnSet(T(i), live) \in Int
      BY <3>1, <3>4, SumInt
    <3> QED
      BY <3>1, <3>2, <3>3, <3>4, <3>5, <3>6
  <2>1. ASSUME NEW t \in Tranches, NEW amount \in Deposits, Create(t, amount)
        PROVE  ObligationsExact'
    <3>1. status' = "Seeding" /\ live' = {} /\ \A i \in Bins : payout'[i] = 0
      BY <2>1 DEF Create, CountsExact, positionVars
    <3>2. \A i \in Bins : owed_in(i)' = 0
      BY <3>1, SumEmpty DEF owed_in, SumOver
    <3> QED
      BY <3>1, <3>2 DEF ObligationsExact
  \* A trade moves one position's shares by n and what is owed in a bin by what
  \* n shares owe in it.
  <2>2. ASSUME NEW p \in Positions, NEW n \in Int, NEW i \in Bins,
               p \in live \/ shares[p] = 0, live' = live \union {p},
               \A q \in live \ {p} : shares'[q] = shares[q],
               shares'[p] = shares[p] + n
        PROVE  owed_in(i)' = owed_in(i) + n * level(p[2], i)
    <3> DEFINE E == [q \in live \union {p} |-> shares'[q] * level(q[2], i)]
    <3>1. /\ level(p[2], i) \in Nat /\ shares[p] \in Nat
          /\ n * level(p[2], i) \in Int
      BY <2>0 DEF TypeOK
    <3>2. E[p] = shares[p] * level(p[2], i) + n * level(p[2], i) /\ E[p] \in Int
      BY <2>2, <3>1
    <3>3. \A q \in live \ {p} : E[q] = T(i)[q]
      BY <2>2
    <3>4. owed_in(i)' = SumFunctionOnSet(E, live \union {p})
      BY <2>2 DEF owed_in, SumOver
    <3>5. p \in live => T(i)[p] = shares[p] * level(p[2], i)
      OBVIOUS
    <3> HIDE DEF E, T
    <3>6. shares[p] * level(p[2], i) \in Int
      BY <3>1
    <3>7. CASE p \in live
      <4>1. live \union {p} = live
        BY <3>7
      <4>2. SumFunctionOnSet(E, live) = SumFunctionOnSet(T(i), live) + (E[p] - T(i)[p])
        BY <2>0, <3>2, <3>3, <3>7, SumUpdate
      <4>3. E[p] - T(i)[p] = n * level(p[2], i)
        BY <3>1, <3>2, <3>5, <3>6, <3>7
      <4> QED
        BY <2>0, <3>4, <4>1, <4>2, <4>3
    <3>8. CASE p \notin live
      <4>1. shares[p] * level(p[2], i) = 0
        BY <2>2, <3>1, <3>8
      <4>2. \A q \in live : E[q] = T(i)[q]
        BY <3>3, <3>8
      <4>3. E[p] = n * level(p[2], i) /\ E[p] \in Int
        BY <3>1, <3>2, <4>1
      <4>4. IsFiniteSet(live) /\ \A q \in live : T(i)[q] \in Int
        BY <2>0
      <4>5. SumFunctionOnSet(E, live \union {p}) = SumFunctionOnSet(T(i), live) + E[p]
        <5> DEFINE Ti == T(i)
        <5>1. /\ IsFiniteSet(live) /\ p \notin live /\ E[p] \in Int
              /\ \A q \in live : Ti[q] \in Int
              /\ \A q \in live : E[q] = Ti[q]
          BY <3>8, <4>2, <4>3, <4>4
        <5> HIDE DEF Ti
        <5>2. SumFunctionOnSet(E, live \union {p}) = SumFunctionOnSet(Ti, live) + E[p]
          BY <5>1, SumCreated
        <5> QED
          BY <5>2 DEF Ti
      <4> QED
        BY <2>0, <3>4, <4>3, <4>5
    <3> QED
      BY <3>7, <3>8
  <2>3. ASSUME NEW p \in Positions, NEW n \in Sizes, NEW cost \in Costs, Buy(p, n, cost)
        PROVE  ObligationsExact'
    <3>1. /\ n \in Nat /\ (p \in live \/ shares[p] = 0)
          /\ live' = live \union {p} /\ Running /\ Running'
          /\ shares' = [shares EXCEPT ![p] = @ + n]
          /\ \A i \in Bins : payout'[i] = payout[i] + owed_by(p[2], n, i)
      BY <2>3, LadderConstants DEF Buy, Tradeable, Running, Accounts
    <3>2. n \in Int /\ shares'[p] = shares[p] + n /\ \A q \in live \ {p} : shares'[q] = shares[q]
      BY <3>1 DEF TypeOK
    <3> HIDE DEF T
    <3>3. \A i \in Bins : owed_in(i)' = owed_in(i) + n * level(p[2], i)
      BY <2>2, <3>1, <3>2
    <3>4. \A i \in Bins : owed_by(p[2], n, i) = n * level(p[2], i)
      BY <2>0, <3>1, OwedNat
    <3>5. \A i \in Bins : payout[i] = owed_in(i)
      BY <3>1 DEF ObligationsExact
    <3> QED
      BY <3>1, <3>3, <3>4, <3>5 DEF ObligationsExact, Running
  <2>4. ASSUME NEW p \in Positions, NEW n \in Sizes, NEW cost \in Costs, Sell(p, n, cost)
        PROVE  ObligationsExact'
    <3>1. /\ n \in Nat \ {0} /\ n <= shares[p] /\ shares[p] \in Nat
          /\ live' = live /\ Running /\ Running'
          /\ shares' = [shares EXCEPT ![p] = @ - n]
          /\ \A i \in Bins : payout'[i] = payout[i] - owed_by(p[2], n, i)
      BY <2>4, LadderConstants DEF Sell, Tradeable, Running, TypeOK
    <3>2. p \in live /\ live \union {p} = live
      BY <3>1 DEF Accounts
    <3>3. /\ -n \in Int /\ shares'[p] = shares[p] + (-n)
          /\ \A q \in live \ {p} : shares'[q] = shares[q]
      BY <3>1 DEF TypeOK
    <3> HIDE DEF T
    <3>4. \A i \in Bins : owed_in(i)' = owed_in(i) + (-n) * level(p[2], i)
      BY <2>2, <3>1, <3>2, <3>3
    <3>5. \A i \in Bins : owed_by(p[2], n, i) = n * level(p[2], i)
      BY <2>0, <3>1, OwedNat
    <3>6. \A i \in Bins : payout[i] = owed_in(i)
      BY <3>1 DEF ObligationsExact
    <3>7. \A i \in Bins : payout'[i] = owed_in(i)'
      <4> TAKE i \in Bins
      <4>1. level(p[2], i) \in Nat /\ payout[i] \in Nat /\ n \in Nat
        BY <2>0, <3>1
      <4>2. (-n) * level(p[2], i) = 0 - n * level(p[2], i) /\ n * level(p[2], i) \in Int
        BY <4>1
      <4> QED
        BY <3>1, <3>4, <3>5, <3>6, <4>1, <4>2
    <3> QED
      BY <3>1, <3>7 DEF ObligationsExact, Running
  <2>5. ASSUME NEW bin \in Bins, Settle(bin) PROVE ObligationsExact'
    <3>1. /\ Running /\ status' = "Settled" /\ settled_bin' = bin
          /\ cash' = payout[bin] /\ payout' = payout
          /\ live' = live /\ shares' = shares
      BY <2>5 DEF Settle, Running, positionVars
    <3>2. owed_in(settled_bin)' = owed_in(bin)
      BY <3>1 DEF owed_in, SumOver
    <3> QED
      BY <3>1, <3>2 DEF ObligationsExact, Running
  \* One position goes with exactly what it is owed.
  <2>6. ASSUME NEW p \in live, ClosePosition(p), status = "Settled", status' = status,
               settled_bin' = settled_bin,
               payout' = [payout EXCEPT ![settled_bin] = @ - redemption(p)],
               cash' = cash - redemption(p)
        PROVE  ObligationsExact'
    <3> DEFINE s == settled_bin
               E == [q \in live \ {p} |-> shares'[q] * level(q[2], s)]
    <3>1. s \in Bins /\ cash = owed_in(s) /\ payout[s] = cash
      BY <2>6 DEF Solvent, ObligationsExact
    <3>2. redemption(p) = T(s)[p] /\ redemption(p) \in Int
      <4>1. redemption(p) = owed_by(p[2], shares[p], s)
        BY <2>6 DEF redemption
      <4>2. p \in Positions /\ shares[p] \in Nat /\ s \in Int
        BY <2>0, <3>1
      <4>3. T(s)[p] = shares[p] * level(p[2], s)
        BY <2>6
      <4> QED
        <5>1. owed_by(p[2], shares[p], s) \in Nat
              /\ owed_by(p[2], shares[p], s) = shares[p] * level(p[2], s)
          BY <4>2, OwedNat
        <5> QED
          BY <4>1, <4>3, <5>1
    <3>3. live' = live \ {p} /\ \A q \in live \ {p} : E[q] = T(s)[q]
      BY <2>6 DEF ClosePosition, TypeOK
    <3>4. owed_in(settled_bin)' = SumFunctionOnSet(E, live \ {p})
      BY <2>6, <3>3 DEF owed_in, SumOver
    <3>5. payout'[s] = payout[s] - redemption(p)
      BY <2>6, <3>1 DEF TypeOK
    <3> HIDE DEF E, T, s
    <3>6. SumFunctionOnSet(E, live \ {p}) = SumFunctionOnSet(T(s), live) - T(s)[p]
      <4>1. IsFiniteSet(live) /\ \A q \in live : T(s)[q] \in Int
        BY <2>0, <3>1
      <4> QED
        BY <2>6, <3>3, <4>1, SumClosed
    <3>7. settled_bin' = s
      BY <2>6 DEF s
    <3> QED
      BY <2>0, <2>6, <3>1, <3>2, <3>4, <3>5, <3>6, <3>7 DEF ObligationsExact, Running
  <2>7. ASSUME NEW p \in Positions, NEW caller \in Callers, Redeem(p, caller)
        PROVE  ObligationsExact'
    <3>1. CASE status = "Settled"
      BY <2>6, <2>7, <3>1 DEF Redeem, potVars
    <3>2. CASE status # "Settled"
      BY <2>7, <3>2 DEF Redeem, Final, ObligationsExact, Running
    <3> QED
      BY <3>1, <3>2
  <2>8. ASSUME NEW p \in Positions, Sweep(p) PROVE ObligationsExact'
    <3>1. CASE status = "Settled"
      <4>1. /\ p \in live /\ ClosePosition(p) /\ redemption(p) = 0
            /\ status' = status /\ settled_bin' = settled_bin
            /\ payout' = payout /\ cash' = cash
        BY <2>8 DEF Sweep, bookVars, potVars
      <4>2. settled_bin \in Bins
        BY <3>1 DEF Solvent
      <4>3. payout' = [payout EXCEPT ![settled_bin] = @ - redemption(p)]
            /\ cash' = cash - redemption(p)
        BY <4>1, <4>2 DEF TypeOK
      <4> QED
        BY <2>6, <3>1, <4>1, <4>3
    <3>2. CASE status # "Settled"
      BY <2>8, <3>2 DEF Sweep, Final, ObligationsExact, Running
    <3> QED
      BY <3>1, <3>2
  <2>9. CASE /\ Running' => Running /\ UNCHANGED <<payout, live, shares>>
             /\ status' = "Settled" =>
                  status = "Settled" /\ UNCHANGED <<cash, payout, settled_bin, live, shares>>
    <3>1. CASE Running'
      BY <2>9, <3>1 DEF ObligationsExact, Running, owed_in, SumOver
    <3>2. CASE status' = "Settled"
      BY <2>9, <3>2 DEF ObligationsExact, Running, owed_in, SumOver
    <3>3. CASE ~Running' /\ status' # "Settled"
      BY <3>3 DEF ObligationsExact
    <3> QED
      BY <3>1, <3>2, <3>3
  <2> QED
    BY <2>1, <2>3, <2>4, <2>5, <2>7, <2>8, <2>9
    DEF Next, vars, bookVars, potVars, positionVars, Running, Final, Tick, SetPaused, LpJoin,
        Join, Open, InOpenWindow, Void, NeverOpened, NeverSettled, ClaimLp, CollectFees, Close
<1> QED
  BY <1>1, <1>2, TypeCorrect, AccountsCounted, AlwaysSolvent, PTL DEF Spec

-----------------------------------------------------------------------------
(* Voids and funding.                                                      *)

\* Floored shares of a pot, over claims that sum to no more than the divisor,
\* never overdraw it.
LEMMA SharesFit ==
  ASSUME NEW S, IsFiniteSet(S), NEW pot \in Nat, NEW total \in Nat,
         NEW claim, \A x \in S : claim[x] \in Nat,
         SumFunctionOnSet(claim, S) <= total,
         NEW share, \A x \in S : share[x] = void_share(claim[x], pot, total)
  PROVE  SumFunctionOnSet(share, S) \in Nat /\ SumFunctionOnSet(share, S) <= pot
<1> DEFINE scaled == [x \in S |-> total * share[x]]
           parts  == [x \in S |-> pot * claim[x]]
<1>1. \A x \in S : /\ share[x] \in Nat /\ share[x] \in Int /\ claim[x] \in Int
                   /\ total * share[x] <= pot * claim[x]
  <2> TAKE x \in S
  <2>1. claim[x] \in Nat /\ share[x] = void_share(claim[x], pot, total)
    OBVIOUS
  <2>2. /\ void_share(claim[x], pot, total) \in Nat
        /\ total * void_share(claim[x], pot, total) <= pot * claim[x]
    BY <2>1, VoidShare
  <2> QED
    BY <2>1, <2>2
<1>2. /\ SumFunctionOnSet(share, S) \in Nat /\ SumFunctionOnSet(claim, S) \in Nat
  BY <1>1, SumNat
<1>3. CASE total = 0
  <2> DEFINE zero == [x \in S |-> 0]
  <2>1. \A x \in S : zero[x] = 0 * share[x] /\ share[x] = zero[x]
    BY <1>1, <1>3 DEF void_share
  <2>2. \A x \in S : zero[x] \in Int
    OBVIOUS
  <2> HIDE DEF zero
  <2>3. SumFunctionOnSet(zero, S) = 0 * SumFunctionOnSet(share, S)
    BY <1>1, <2>1, SumScaled
  <2>4. SumFunctionOnSet(share, S) = SumFunctionOnSet(zero, S)
    BY <1>1, <2>1, <2>2, SumSame
  <2> QED
    BY <1>2, <2>3, <2>4
<1>4. CASE total # 0
  <2>1. /\ \A x \in S : scaled[x] = total * share[x] /\ scaled[x] \in Int
        /\ \A x \in S : parts[x] = pot * claim[x] /\ parts[x] \in Int
        /\ \A x \in S : scaled[x] <= parts[x]
        /\ total \in Int /\ pot \in Int
    BY <1>1
  <2> HIDE DEF scaled, parts
  <2>2. SumFunctionOnSet(scaled, S) = total * SumFunctionOnSet(share, S)
    BY <1>1, <2>1, SumScaled
  <2>3. SumFunctionOnSet(parts, S) = pot * SumFunctionOnSet(claim, S)
    BY <1>1, <2>1, SumScaled
  <2>4. SumFunctionOnSet(scaled, S) <= SumFunctionOnSet(parts, S)
    BY <2>1, SumMonotone
  <2>5. pot * SumFunctionOnSet(claim, S) <= pot * total
    BY <1>2, MulMonotone
  <2>6. total * SumFunctionOnSet(share, S) <= pot * total
    <3>1. total * SumFunctionOnSet(share, S) \in Int /\ pot * total \in Int
          /\ pot * SumFunctionOnSet(claim, S) \in Int
      BY <1>2
    <3> QED
      BY <2>2, <2>3, <2>4, <2>5, <3>1
  <2>7. SumFunctionOnSet(share, S) <= (pot * total) \div total
    BY <1>2, <1>4, <2>6, DivGreatest
  <2> QED
    BY <1>2, <1>4, <2>7, DivExact
<1> QED
  BY <1>3, <1>4

\* Traders share something in a void only when the depositors' pot is whole.
THEOREM VoidsInOrder == Spec => []VoidOrder
<1>1. Init => VoidOrder
  BY DEF Init, VoidOrder
<1>2. TypeOK /\ VoidOrder /\ [Next]_vars => VoidOrder'
  <2> SUFFICES ASSUME TypeOK, VoidOrder, [Next]_vars PROVE VoidOrder'
    OBVIOUS
  <2>1. ASSUME NEW proof \in BOOLEAN, Void(proof) PROVE VoidOrder'
    <3> DEFINE pot == cash + fees_lp + fees_protocol
               lp == void_lp_part(pot, deposit_total, basis_total)
    <3>1. /\ void_lp_pot' = lp /\ void_trader_pot' = pot - lp
          /\ deposit_total' = deposit_total
      BY <2>1 DEF Void
    <3>2. pot \in Nat /\ deposit_total \in Nat /\ basis_total \in Nat
      BY DEF TypeOK
    <3> HIDE DEF pot
    <3>3. lp \in Nat /\ lp <= pot /\ (lp < pot => lp = deposit_total)
      BY <3>2, VoidSplit
    <3> QED
      BY <3>1, <3>2, <3>3 DEF VoidOrder
  <2>2. CASE status' = "Void" =>
               status = "Void" /\ UNCHANGED <<void_lp_pot, void_trader_pot, deposit_total>>
    BY <2>2 DEF VoidOrder
  <2> QED
    BY <2>1, <2>2
    DEF Next, vars, bookVars, potVars, Final, Tick, SetPaused, Create, LpJoin, Open,
        InOpenWindow, Buy, Sell, Tradeable, Settle, Redeem, Sweep, ClaimLp, CollectFees, Close
<1> QED
  BY <1>1, <1>2, TypeCorrect, PTL DEF Spec

\* ... and then a depositor's share is what it put in.
THEOREM DepositorsComeFirst == Spec => []DepositorsFirst
<1>1. TypeOK /\ Accounts /\ BasisExact /\ VoidOrder => DepositorsFirst
  <2> SUFFICES ASSUME TypeOK, Accounts, BasisExact, VoidOrder, status = "Void",
                      NEW p \in live, redemption(p) > 0, NEW t \in tranches
               PROVE  refund(t) >= deposit[t]
    BY DEF DepositorsFirst
  <2>1. /\ net_paid[p] \in Nat /\ void_trader_pot \in Nat /\ basis_total \in Nat
        /\ deposit_total \in Nat /\ void_lp_pot \in Nat /\ t \in Tranches
        /\ \A u \in tranches : deposit[u] \in Nat
    BY DEF TypeOK
  <2>2. void_trader_pot # 0
    <3> SUFFICES ASSUME void_trader_pot = 0 PROVE FALSE
      OBVIOUS
    <3>1. redemption(p) = void_share(net_paid[p], 0, basis_total)
      BY DEF redemption
    <3>2. net_paid[p] * 0 = 0 /\ (basis_total # 0 => 0 \div basis_total = 0)
      BY <2>1
    <3> QED
      BY <3>1, <3>2 DEF void_share
  <2>3. void_lp_pot = deposit_total
    BY <2>1, <2>2 DEF VoidOrder
  <2>4. deposit[t] <= deposit_total
    <3>1. deposit[t] <= SumFunctionOnSet(deposit, tranches)
      BY <2>1, SumTerm DEF Accounts
    <3>2. deposit_total >= SumFunctionOnSet(deposit, tranches)
      BY DEF BasisExact, SumOver
    <3>3. SumFunctionOnSet(deposit, tranches) \in Nat
      BY <2>1, SumNat DEF Accounts
    <3> QED
      BY <2>1, <3>1, <3>2, <3>3
  <2>5. refund(t) = void_share(deposit[t], deposit_total, deposit_total)
    BY <2>3 DEF refund
  <2>6. CASE deposit_total = 0
    BY <2>1, <2>4, <2>6, ClaimsNat
  <2>7. CASE deposit_total # 0
    <3>1. deposit[t] \in Nat
      BY <2>1
    <3>2. void_share(deposit[t], deposit_total, deposit_total) = deposit[t]
      BY <2>1, <2>7, <3>1, VoidShare
    <3> QED
      BY <2>5, <3>1, <3>2
  <2> QED
    BY <2>6, <2>7
<1> QED
  BY <1>1, TypeCorrect, AccountsCounted, BasisIsExact, VoidsInOrder, PTL

\* What the vault holds is what the books say, to the unit, until a void; and a
\* void leaves enough for every floored share of both pots.
THEOREM ClaimsAreFunded == Spec => []EveryClaimFunded
<1>1. Init => EveryClaimFunded
  BY DEF Init, EveryClaimFunded, Running
<1>2. TypeOK /\ Accounts /\ BasisExact /\ BasisExact' /\ TypeOK' /\ EveryClaimFunded
        /\ [Next]_vars => EveryClaimFunded'
  <2> SUFFICES ASSUME TypeOK, TypeOK', Accounts, BasisExact, BasisExact', EveryClaimFunded,
                      [Next]_vars
               PROVE  EveryClaimFunded'
    OBVIOUS
  <2> DEFINE R == [p \in live |-> redemption(p)]
             D == [t \in tranches |-> refund(t)]
  <2>0. /\ cash \in Nat /\ fees_lp \in Nat /\ fees_protocol \in Nat /\ vault \in Nat
        /\ lp_pool \in Nat /\ basis_total \in Nat /\ deposit_total \in Nat
        /\ IsFiniteSet(live) /\ IsFiniteSet(tranches)
        /\ \A p \in live : R[p] \in Nat /\ R[p] \in Int /\ R[p] = redemption(p)
        /\ \A t \in tranches : D[t] \in Nat /\ D[t] \in Int /\ D[t] = refund(t)
    BY ClaimsNat DEF TypeOK, Accounts
  <2> HIDE DEF R, D
  <2>1. /\ traders_owed = SumFunctionOnSet(R, live) /\ traders_owed \in Nat
        /\ refunds_owed = SumFunctionOnSet(D, tranches) /\ refunds_owed \in Nat
    <3>1. traders_owed = SumFunctionOnSet(R, live) /\ refunds_owed = SumFunctionOnSet(D, tranches)
      BY DEF traders_owed, refunds_owed, SumOver, R, D
    <3> QED
      BY <2>0, <3>1, SumNat
  <2>2. ASSUME NEW t \in Tranches, NEW amount \in Deposits, Create(t, amount)
        PROVE  EveryClaimFunded'
    <3>1. status' = "Seeding" /\ vault' = amount /\ cash' = amount /\ fees_lp' = 0
          /\ fees_protocol' = 0 /\ amount \in Nat
      BY <2>2, LadderConstants DEF Create
    <3> QED
      BY <3>1 DEF EveryClaimFunded
  <2>3. ASSUME NEW t \in Tranches, NEW amount \in Deposits, LpJoin(t, amount)
        PROVE  EveryClaimFunded'
    <3>1. /\ vault' = vault + amount /\ cash' = cash + amount /\ amount \in Nat
          /\ fees_lp' = fees_lp /\ fees_protocol' = fees_protocol
          /\ Running /\ status' = status
      BY <2>3, LadderConstants DEF LpJoin, Join, BookDeposit, Running
    <3> QED
      BY <2>0, <3>1 DEF EveryClaimFunded, Running
  <2>4. ASSUME NEW p \in Positions, NEW n \in Sizes, NEW cost \in Costs, Buy(p, n, cost)
        PROVE  EveryClaimFunded'
    <3> DEFINE fee == fee_on(cost + 1, fee_bps_at(SETTLES - now))
    <3>1. cost + 1 \in Nat /\ fee \in Nat
      BY FeeCharged, LadderConstants
    <3>2. lp_part(fee) \in Nat /\ protocol_part(fee) \in Nat /\ lp_part(fee) + protocol_part(fee) = fee
      BY <3>1, FeeSplit
    <3>3. /\ cash' = cash + (cost + 1) /\ vault' = vault + (cost + 1 + fee)
          /\ fees_lp' = fees_lp + lp_part(fee)
          /\ fees_protocol' = fees_protocol + protocol_part(fee)
          /\ status = "Open" /\ status' = status
      BY <2>4 DEF Buy, BookFee, Tradeable
    <3> HIDE DEF fee
    <3> QED
      BY <2>0, <3>1, <3>2, <3>3 DEF EveryClaimFunded, Running
  <2>5. ASSUME NEW p \in Positions, NEW n \in Sizes, NEW cost \in Costs, Sell(p, n, cost)
        PROVE  EveryClaimFunded'
    <3> DEFINE got == sale_proceeds(cost)
               fee == fee_on(got, fee_bps_at(SETTLES - now))
    <3>1. got \in Nat
      BY LadderConstants DEF sale_proceeds, SatSub, Most
    <3>2. fee \in Nat
      BY <3>1, FeeCharged
    <3>3. lp_part(fee) \in Nat /\ protocol_part(fee) \in Nat /\ lp_part(fee) + protocol_part(fee) = fee
      BY <3>2, FeeSplit
    <3>4. /\ cash' = cash - got /\ vault' = vault - (got - fee)
          /\ fees_lp' = fees_lp + lp_part(fee)
          /\ fees_protocol' = fees_protocol + protocol_part(fee)
          /\ status = "Open" /\ status' = status
      BY <2>5 DEF Sell, BookFee, Tradeable
    <3> HIDE DEF got, fee
    <3> QED
      BY <2>0, <3>1, <3>2, <3>3, <3>4 DEF EveryClaimFunded, Running
  <2>6. ASSUME NEW bin \in Bins, Settle(bin) PROVE EveryClaimFunded'
    <3> DEFINE bounty == settle_bounty(fees_protocol)
    <3>1. bounty \in Nat /\ payout[bin] \in Nat
      BY <2>0, BountyBounds DEF TypeOK
    <3>2. /\ cash' = payout[bin] /\ lp_pool' = cash - payout[bin] /\ fees_lp' = fees_lp
          /\ fees_protocol' = fees_protocol - bounty /\ vault' = vault - bounty
          /\ status = "Open" /\ status' = "Settled"
      BY <2>6 DEF Settle
    <3> HIDE DEF bounty
    <3> QED
      BY <2>0, <3>1, <3>2 DEF EveryClaimFunded, Running
  \* The moment of the void: both pots are in the vault, and the floored shares
  \* of each fit in it.
  <2>7. ASSUME NEW proof \in BOOLEAN, Void(proof) PROVE EveryClaimFunded'
    <3>1. /\ Running /\ status' = "Void" /\ vault' = vault
          /\ void_trader_pot' = (cash + fees_lp + fees_protocol) - void_lp_pot'
      BY <2>7 DEF Void, NeverOpened, NeverSettled, Running
    <3>2. vault' = void_lp_pot' + void_trader_pot'
          /\ void_lp_pot' \in Nat /\ void_trader_pot' \in Nat
      <4>1. vault = cash + fees_lp + fees_protocol
        BY <3>1 DEF EveryClaimFunded
      <4>2. void_lp_pot' \in Nat /\ void_trader_pot' \in Nat
        BY DEF TypeOK
      <4>3. cash + fees_lp + fees_protocol \in Int /\ void_lp_pot' \in Int
        BY <2>0, <4>2
      <4>4. vault' = void_lp_pot' + void_trader_pot'
        BY <3>1, <4>1, <4>3
      <4> QED
        BY <4>2, <4>4
    <3>3. traders_owed' <= void_trader_pot' /\ traders_owed' \in Nat
      <4> DEFINE S == live'
                 claim == net_paid'
                 share == [p \in live' |-> redemption(p)']
      <4>1. IsFiniteSet(S)
        BY <2>0, <2>7 DEF Void, positionVars
      <4>2. \A p \in S : claim[p] \in Nat /\ share[p] = void_share(claim[p], void_trader_pot', basis_total')
        BY <3>1 DEF redemption, TypeOK
      <4>3. SumFunctionOnSet(claim, S) <= basis_total'
        <5>1. basis_total' >= SumFunctionOnSet(net_paid', live')
          BY <3>1 DEF BasisExact, SumOver
        <5>2. SumFunctionOnSet(claim, S) \in Nat
          BY <4>1, <4>2, SumNat
        <5> QED
          BY <5>1, <5>2 DEF TypeOK
      <4>4. traders_owed' = SumFunctionOnSet(share, S)
        BY DEF traders_owed, SumOver
      <4>5. basis_total' \in Nat /\ void_trader_pot' \in Nat
        BY DEF TypeOK
      <4> HIDE DEF S, claim, share
      <4>6. SumFunctionOnSet(share, S) \in Nat /\ SumFunctionOnSet(share, S) <= void_trader_pot'
        BY <4>1, <4>2, <4>3, <4>5, SharesFit
      <4> QED
        BY <4>4, <4>6
    <3>4. refunds_owed' <= void_lp_pot' /\ refunds_owed' \in Nat
      <4> DEFINE S == tranches'
                 claim == deposit'
                 share == [t \in tranches' |-> refund(t)']
      <4>1. IsFiniteSet(S)
        BY <2>0, <2>7 DEF Void, trancheVars
      <4>2. \A t \in S : claim[t] \in Nat /\ share[t] = void_share(claim[t], void_lp_pot', deposit_total')
        BY DEF refund, TypeOK
      <4>3. SumFunctionOnSet(claim, S) <= deposit_total'
        <5>1. deposit_total' >= SumFunctionOnSet(deposit', tranches')
          BY <3>1 DEF BasisExact, SumOver
        <5>2. SumFunctionOnSet(claim, S) \in Nat
          BY <4>1, <4>2, SumNat
        <5> QED
          BY <5>1, <5>2 DEF TypeOK
      <4>4. refunds_owed' = SumFunctionOnSet(share, S)
        BY DEF refunds_owed, SumOver
      <4>5. deposit_total' \in Nat /\ void_lp_pot' \in Nat
        BY DEF TypeOK
      <4> HIDE DEF S, claim, share
      <4>6. SumFunctionOnSet(share, S) \in Nat /\ SumFunctionOnSet(share, S) <= void_lp_pot'
        BY <4>1, <4>2, <4>3, <4>5, SharesFit
      <4> QED
        BY <4>4, <4>6
    <3> QED
      BY <3>1, <3>2, <3>3, <3>4 DEF EveryClaimFunded, Running
  \* A position goes with its own redemption and leaves the others' alone.
  <2>8. ASSUME NEW p \in live, ClosePosition(p), status = "Void", status' = status,
               vault' = vault - redemption(p), UNCHANGED <<potVars, basis_total, deposit_total>>,
               UNCHANGED trancheVars
        PROVE  EveryClaimFunded'
    <3> DEFINE Rest == [q \in live \ {p} |-> redemption(q)']
    <3>1. live' = live \ {p} /\ \A q \in live \ {p} : net_paid'[q] = net_paid[q]
      BY <2>8 DEF ClosePosition, TypeOK
    <3>2. \A q \in live \ {p} : Rest[q] = R[q]
      <4>1. \A q \in live \ {p} : redemption(q)' = redemption(q)
        BY <2>8, <3>1 DEF redemption, potVars
      <4> QED
        BY <2>0, <4>1
    <3>3. traders_owed' = SumFunctionOnSet(Rest, live \ {p})
      BY <3>1 DEF traders_owed, SumOver
    <3> HIDE DEF Rest
    <3>4. SumFunctionOnSet(Rest, live \ {p}) = SumFunctionOnSet(R, live) - R[p]
      BY <2>0, <3>2, SumClosed
    <3>5. refunds_owed' = refunds_owed
      BY <2>8 DEF refunds_owed, refund, SumOver, potVars, trancheVars
    <3>6. redemption(p) = R[p] /\ R[p] \in Int
      BY <2>0
    <3> QED
      BY <2>0, <2>1, <2>8, <3>3, <3>4, <3>5, <3>6 DEF EveryClaimFunded, Running
  <2>9. ASSUME NEW p \in Positions, NEW caller \in Callers, Redeem(p, caller)
        PROVE  EveryClaimFunded'
    <3>1. p \in live /\ Final /\ status' = status
      BY <2>9 DEF Redeem
    <3>2. CASE status = "Settled"
      <4>1. /\ cash' = cash - redemption(p) /\ vault' = vault - redemption(p)
            /\ lp_pool' = lp_pool /\ fees_lp' = fees_lp /\ fees_protocol' = fees_protocol
        BY <2>9, <3>2 DEF Redeem, potVars
      <4>2. redemption(p) \in Int
        BY <2>0, <3>1
      <4> QED
        BY <2>0, <3>1, <3>2, <4>1, <4>2 DEF EveryClaimFunded, Running
    <3>3. CASE status = "Void"
      BY <2>8, <2>9, <3>1, <3>3 DEF Redeem
    <3> QED
      BY <3>1, <3>2, <3>3 DEF Final
  <2>10. ASSUME NEW p \in Positions, Sweep(p) PROVE EveryClaimFunded'
    <3>1. /\ p \in live /\ Final /\ status' = status /\ redemption(p) = 0 /\ vault' = vault
          /\ ClosePosition(p) /\ UNCHANGED <<bookVars, potVars, trancheVars>>
      BY <2>10 DEF Sweep
    <3>2. CASE status = "Settled"
      BY <3>1, <3>2 DEF EveryClaimFunded, Running, bookVars, potVars
    <3>3. CASE status = "Void"
      BY <2>0, <2>8, <3>1, <3>3 DEF bookVars
    <3> QED
      BY <3>1, <3>2, <3>3 DEF Final
  <2>11. ASSUME NEW t \in Tranches, NEW caller \in Callers, NEW result \in Results,
                ClaimLp(t, caller, result)
         PROVE  EveryClaimFunded'
    <3>1. t \in tranches /\ Final /\ status' = status /\ tranches' = tranches \ {t}
      BY <2>11 DEF ClaimLp
    <3>2. CASE status = "Settled"
      <4> DEFINE principal == draw(result, lp_pool)
                 fees == draw(earned(t), fees_lp)
      <4>1. /\ vault' = vault - (principal + fees) /\ lp_pool' = lp_pool - principal
            /\ fees_lp' = fees_lp - fees /\ cash' = cash /\ fees_protocol' = fees_protocol
            /\ snap[t] <= acc_fee
        BY <2>11, <3>2 DEF ClaimLp, earned
      <4>2. principal \in Int /\ fees \in Int
        BY <2>0, <4>1, ClaimsNat, LadderConstants DEF draw, Least
      <4> HIDE DEF principal, fees
      <4> QED
        BY <2>0, <3>1, <3>2, <4>1, <4>2 DEF EveryClaimFunded, Running
    <3>3. CASE status = "Void"
      <4> DEFINE Rest == [u \in tranches \ {t} |-> refund(u)']
      <4>1. /\ vault' = vault - refund(t)
            /\ UNCHANGED <<void_lp_pot, void_trader_pot, basis_total, deposit_total, positionVars>>
            /\ \A u \in tranches \ {t} : deposit'[u] = deposit[u]
        BY <2>11, <3>3 DEF ClaimLp, refund, TypeOK
      <4>2. \A u \in tranches \ {t} : Rest[u] = D[u]
        <5>1. \A u \in tranches \ {t} : refund(u)' = refund(u)
          BY <4>1 DEF refund
        <5> QED
          BY <2>0, <5>1
      <4>3. refunds_owed' = SumFunctionOnSet(Rest, tranches \ {t})
        BY <3>1 DEF refunds_owed, SumOver
      <4> HIDE DEF Rest
      <4>4. SumFunctionOnSet(Rest, tranches \ {t}) = SumFunctionOnSet(D, tranches) - D[t]
        BY <2>0, <3>1, <4>2, SumClosed
      <4>5. traders_owed' = traders_owed
        BY <3>1, <3>3, <4>1 DEF traders_owed, redemption, SumOver, positionVars
      <4>6. refund(t) = D[t] /\ D[t] \in Int
        BY <2>0, <3>1
      <4> QED
        BY <2>0, <2>1, <3>1, <3>3, <4>1, <4>3, <4>4, <4>5, <4>6 DEF EveryClaimFunded, Running
    <3> QED
      BY <3>1, <3>2, <3>3 DEF Final
  <2>12. CASE CollectFees
    BY <2>0, <2>12 DEF CollectFees, EveryClaimFunded, Running, potVars
  <2>13. CASE /\ status' = status \/ status' = "None" \/ (Running /\ Running')
              /\ status' # "None" =>
                   UNCHANGED <<bookVars, potVars, positionVars, trancheVars, vault>>
    <3>1. CASE status' = "None"
      BY <3>1 DEF EveryClaimFunded, Running
    <3>2. CASE status' # "None"
      BY <2>13, <3>2 DEF EveryClaimFunded, Running, traders_owed, refunds_owed, redemption, refund,
                         SumOver, bookVars, potVars, positionVars, trancheVars
    <3> QED
      BY <3>1, <3>2
  <2> QED
    BY <2>2, <2>3, <2>4, <2>5, <2>6, <2>7, <2>9, <2>10, <2>11, <2>12, <2>13
    DEF Next, vars, Running, Tick, SetPaused, Open, InOpenWindow, Close
<1> QED
  BY <1>1, <1>2, TypeCorrect, AccountsCounted, BasisIsExact, PTL DEF Spec

\* A term of a sum of what is owed is covered by what covers the sum.
LEMMA OneOfMany ==
  ASSUME NEW S, IsFiniteSet(S), NEW f, \A x \in S : f[x] \in Nat,
         NEW y \in S, NEW pot \in Int, SumFunctionOnSet(f, S) <= pot
  PROVE  f[y] <= pot
<1>1. f[y] <= SumFunctionOnSet(f, S) /\ SumFunctionOnSet(f, S) \in Nat
  BY SumTerm, SumNat
<1> QED
  BY <1>1

\* No exit is refused by a checked subtraction of the program, in any order.
THEOREM NoExitIsRefused == Spec => []NoExitRefused
<1>1. TypeOK /\ Accounts /\ BasisExact /\ Solvent /\ OpeningBell /\ ObligationsExact
        /\ EveryClaimFunded => NoExitRefused
  <2> SUFFICES ASSUME TypeOK, Accounts, BasisExact, Solvent, OpeningBell, ObligationsExact,
                      EveryClaimFunded
               PROVE  NoExitRefused
    OBVIOUS
  <2>0. /\ cash \in Nat /\ fees_lp \in Nat /\ fees_protocol \in Nat /\ vault \in Nat
        /\ lp_pool \in Nat /\ basis_total \in Nat
        /\ IsFiniteSet(live) /\ IsFiniteSet(tranches)
        /\ \A p \in live : p \in Positions /\ redemption(p) \in Nat /\ shares[p] \in Nat
        /\ \A t \in tranches : refund(t) \in Nat
    BY ClaimsNat DEF TypeOK, Accounts
  \* A position's part of a bin is no more than the bin owes.
  <2>1. ASSUME NEW p \in live, NEW i \in Bins, payout[i] = owed_in(i)
        PROVE  owed_by(p[2], shares[p], i) <= payout[i]
    <3> DEFINE T == [q \in live |-> shares[q] * level(q[2], i)]
    <3>1. i \in Int /\ payout[i] \in Nat
      BY RuleConstants DEF Bins, TypeOK
    <3>2. \A q \in live : T[q] \in Nat /\ T[q] = owed_by(q[2], shares[q], i)
      BY <2>0, <3>1, OwedNat
    <3>3. SumFunctionOnSet(T, live) = payout[i]
      BY <2>1 DEF owed_in, SumOver
    <3> HIDE DEF T
    <3>4. T[p] <= payout[i]
      <4>1. payout[i] \in Int /\ SumFunctionOnSet(T, live) <= payout[i]
        BY <3>1, <3>3
      <4>2. \A q \in live : T[q] \in Nat
        BY <3>2
      <4> QED
        BY <2>0, <4>1, <4>2, OneOfMany
    <3> QED
      BY <3>2, <3>4
  <2>2. CASE Running
    <3>1. ASSUME NEW p \in live PROVE net_paid[p] <= basis_total
      <4>1. \A q \in live : net_paid[q] \in Nat
        BY DEF TypeOK
      <4>2. SumFunctionOnSet(net_paid, live) <= basis_total
        BY <2>0, <2>2 DEF BasisExact, SumOver
      <4> QED
        BY <2>0, <4>1, <4>2, OneOfMany
    <3>2. \A p \in live : \A i \in Bins : owed_by(p[2], shares[p], i) <= payout[i]
      BY <2>1, <2>2 DEF ObligationsExact
    <3>3. settle_bounty(fees_protocol) <= vault
      <4>1. settle_bounty(fees_protocol) \in Nat /\ settle_bounty(fees_protocol) <= fees_protocol
        BY <2>0, BountyBounds
      <4>2. vault = cash + fees_lp + fees_protocol
        BY <2>2 DEF EveryClaimFunded
      <4> QED
        BY <2>0, <4>1, <4>2
    <3>4. \A i \in Bins : payout[i] <= cash
      BY <2>2 DEF Solvent
    <3> QED
      BY <2>2, <3>1, <3>2, <3>3, <3>4 DEF NoExitRefused, Running, Final
  <2>3. CASE status = "Settled"
    <3>1. /\ settled_bin \in Bins /\ payout[settled_bin] = owed_in(settled_bin)
          /\ payout[settled_bin] = cash
      BY <2>3 DEF Solvent, ObligationsExact
    <3>2. \A p \in live : redemption(p) <= payout[settled_bin]
      BY <2>1, <2>3, <3>1 DEF redemption
    <3>3. vault = cash + lp_pool + fees_lp + fees_protocol
      BY <2>3 DEF EveryClaimFunded
    <3>4. cash <= vault /\ lp_pool + fees_lp <= vault /\ fees_protocol <= vault
      BY <2>0, <3>3
    <3>5. \A p \in live : redemption(p) <= cash /\ redemption(p) <= vault
      BY <2>0, <3>1, <3>2, <3>4
    <3> QED
      BY <2>3, <3>2, <3>4, <3>5 DEF NoExitRefused, Running, Final, OpeningBell
  <2>4. CASE status = "Void"
    <3> DEFINE R == [p \in live |-> redemption(p)]
               D == [t \in tranches |-> refund(t)]
    <3>1. /\ \A p \in live : R[p] \in Nat /\ R[p] = redemption(p)
          /\ \A t \in tranches : D[t] \in Nat /\ D[t] = refund(t)
      BY <2>0
    <3>2. vault >= SumFunctionOnSet(R, live) + SumFunctionOnSet(D, tranches)
      BY <2>4 DEF EveryClaimFunded, traders_owed, refunds_owed, SumOver
    <3> HIDE DEF R, D
    <3>3. SumFunctionOnSet(R, live) \in Nat /\ SumFunctionOnSet(D, tranches) \in Nat
      BY <2>0, <3>1, SumNat
    <3>4. SumFunctionOnSet(R, live) <= vault /\ SumFunctionOnSet(D, tranches) <= vault
      BY <2>0, <3>2, <3>3
    <3>5. \A p \in live : R[p] <= vault
      BY <2>0, <3>1, <3>4, OneOfMany
    <3>6. \A t \in tranches : D[t] <= vault
      BY <2>0, <3>1, <3>4, OneOfMany
    <3> QED
      BY <2>4, <3>1, <3>5, <3>6 DEF NoExitRefused, Running, Final
  <2>5. CASE ~Running /\ ~Final
    BY <2>5 DEF NoExitRefused, Final
  <2> QED
    BY <2>2, <2>3, <2>4, <2>5 DEF Final
<1> QED
  BY <1>1, TypeCorrect, AccountsCounted, BasisIsExact, AlwaysSolvent, Opening,
     ObligationsAreExact, ClaimsAreFunded, PTL

\* The strengthening, whole.
THEOREM BooksHold == Spec => []BooksInv
<1>1. Accounts /\ Solvent /\ OpeningBell /\ DepthShared /\ FeesEarned /\ VoidOrder
        /\ DayOver /\ Window => BooksInv
  BY DEF BooksInv
<1> QED
  BY <1>1, AccountsCounted, AlwaysSolvent, Opening, DepthIsShared, FeesAreEarned,
     VoidsInOrder, DaysEnd, WindowHolds, PTL

-----------------------------------------------------------------------------
(* The round as the keeper and the app read it.                            *)

\* An open round's bell has rung, and a round not opened has only deposits.
Bell ==
  /\ status = "Open" => opens_at <= now
  /\ status = "Seeding" => cash = deposit_total /\ fees_lp = 0 /\ fees_protocol = 0

LEMMA BellHolds == Spec => []Bell
<1>1. Init => Bell
  BY DEF Init, Bell
<1>2. TypeOK /\ Bell /\ [Next]_vars => Bell'
  <2> SUFFICES ASSUME TypeOK, Bell, [Next]_vars PROVE Bell'
    OBVIOUS
  <2>1. CASE Tick
    BY <2>1 DEF Tick, Bell, scheduleVars, bookVars, TypeOK
  <2>2. ASSUME NEW t \in Tranches, NEW amount \in Deposits, Create(t, amount) PROVE Bell'
    BY <2>2 DEF Create, Bell
  <2>3. ASSUME NEW t \in Tranches, NEW amount \in Deposits, LpJoin(t, amount) PROVE Bell'
    BY <2>3 DEF LpJoin, Join, BookDeposit, Bell, scheduleVars, clockVars
  <2>4. ASSUME NEW w \in Worsts, Open(w) PROVE Bell'
    BY <2>4 DEF Open, InOpenWindow, Bell, clockVars, TypeOK
  <2>5. ASSUME NEW p \in Positions, NEW n \in Sizes, NEW cost \in Costs, Buy(p, n, cost)
        PROVE  Bell'
    BY <2>5 DEF Buy, Tradeable, Bell, clockVars, scheduleVars
  <2>6. ASSUME NEW p \in Positions, NEW n \in Sizes, NEW cost \in Costs, Sell(p, n, cost)
        PROVE  Bell'
    BY <2>6 DEF Sell, Tradeable, Bell, clockVars, scheduleVars
  <2>7. ASSUME NEW bin \in Bins, Settle(bin) PROVE Bell'
    BY <2>7 DEF Settle, Bell
  <2>8. ASSUME NEW proof \in BOOLEAN, Void(proof) PROVE Bell'
    BY <2>8 DEF Void, Bell
  <2>9. ASSUME NEW p \in Positions, NEW caller \in Callers, Redeem(p, caller) PROVE Bell'
    BY <2>9 DEF Redeem, Final, Bell
  <2>10. ASSUME NEW p \in Positions, Sweep(p) PROVE Bell'
    BY <2>10 DEF Sweep, Final, Bell
  <2>11. ASSUME NEW t \in Tranches, NEW caller \in Callers, NEW result \in Results,
                ClaimLp(t, caller, result)
         PROVE  Bell'
    BY <2>11 DEF ClaimLp, Final, Bell
  <2>12. CASE CollectFees \/ Close
    BY <2>12 DEF CollectFees, Close, Closable, Bell
  <2>13. CASE SetPaused \/ UNCHANGED vars
    BY <2>13 DEF SetPaused, vars, clockVars, scheduleVars, bookVars, Bell
  <2> QED
    BY <2>1, <2>2, <2>3, <2>4, <2>5, <2>6, <2>7, <2>8, <2>9, <2>10, <2>11, <2>12, <2>13 DEF Next
<1> QED
  BY <1>1, <1>2, TypeCorrect, PTL DEF Spec

\* The keeper's step is the one the program would take.
LEMMA StepsAreThePrograms == TypeOK => StepsMatch
BY LadderConstants DEF TypeOK, StepsMatch, nextStep, InOpenWindow, NeverOpened, NeverSettled

\* A round too late to open gives every deposit back whole.
LEMMA WholeAgain ==
  ASSUME TypeOK, Accounts, OpeningBell, BasisExact, Bell, status = "Seeding",
         NEW t \in tranches
  PROVE  refundNow(t) = deposit[t]
<1>1. live = {} /\ basis_total = SumOver(live, net_paid)
  BY DEF OpeningBell, BasisExact, Running
<1>2. basis_total = 0
  BY <1>1, SumEmpty DEF SumOver
<1>3. cash + fees_lp + fees_protocol = deposit_total /\ deposit_total \in Nat
  BY DEF Bell, TypeOK
<1>4. void_lp_part(cash + fees_lp + fees_protocol, deposit_total, basis_total) = deposit_total
  BY <1>2, <1>3 DEF void_lp_part
<1>5. /\ deposit[t] \in Nat /\ deposit_total = SumFunctionOnSet(deposit, tranches)
      /\ IsFiniteSet(tranches) /\ \A u \in tranches : deposit[u] \in Nat
  BY DEF BasisExact, Running, SumOver, TypeOK, Accounts
<1>6. deposit[t] <= deposit_total
  BY <1>5, SumTerm
<1>7. refundNow(t) = void_share(deposit[t], deposit_total, deposit_total) \/ deposit_total = 0
  BY <1>3, <1>4 DEF refundNow, voidShare, void_share
<1>8. CASE deposit_total = 0
  BY <1>4, <1>5, <1>6, <1>8 DEF refundNow, voidShare
<1>9. CASE deposit_total # 0
  BY <1>3, <1>5, <1>7, <1>9, VoidShare
<1> QED
  BY <1>8, <1>9

LEMMA StagesAreThePrograms ==
  ASSUME TypeOK, Accounts, OpeningBell, BasisExact, Bell, Window
  PROVE  StagesMatch
<1>1. /\ now \in Int /\ opens_at \in Int /\ locks_at \in Int /\ SETTLES \in Int
      /\ OPEN_WINDOW \in Nat /\ LOCK_GAP_MIN \in Nat
  BY RuleConstants, LadderConstants DEF TypeOK
<1>2. status \in {"None", "Seeding", "Open", "Settled", "Void"}
  BY DEF TypeOK
<1>3. Tradeable <=> status # "None" /\ stageOf = "trading"
  BY <1>1, <1>2 DEF Tradeable, stageOf, Final, Bell, Window, Running
<1>4. NeverOpened <=> status # "None" /\ stageOf = "void soon"
  <2>1. CASE status = "Seeding"
    <3>1. opens_at < locks_at
      BY <2>1 DEF Window, Running
    <3> QED
      BY <1>1, <2>1, <3>1 DEF NeverOpened, stageOf, Final
  <2>2. CASE status # "Seeding"
    BY <1>2, <2>2 DEF NeverOpened, stageOf, Final
  <2> QED
    BY <2>1, <2>2
<1>5. ASSUME joinable, nextStep = "void", NEW t \in tranches
      PROVE  refundNow(t) = deposit[t]
  <2>1. status = "Seeding"
    BY <1>1, <1>5, LadderConstants DEF joinable, nextStep, Running, Window
  <2> QED
    BY <2>1, WholeAgain
<1> QED
  BY <1>3, <1>4, <1>5 DEF StagesMatch

-----------------------------------------------------------------------------
(* What a wallet is told.                                                  *)

\* Each line and each deposit is under one wallet.
LEMMA HoldingsOf ==
  ASSUME TypeOK, Accounts
  PROVE  /\ IsFiniteSet(Wallets) /\ IsFiniteSet(live) /\ IsFiniteSet(tranches)
         /\ \A p \in live : p \in Positions /\ p[1] \in Wallets
         /\ tranches \subseteq Tranches /\ \A t \in tranches : t \in Wallets
         /\ \A w \in Wallets : /\ Holding(w).positions = {p \in live : p[1] = w}
                               /\ Holding(w).tranches = {t \in tranches : t = w}
<1>1. IsFiniteSet(Wallets)
  BY WalletsApart, FS_Union DEF Wallets
<1>2. \A p \in live : p \in Positions /\ p[1] \in Wallets
  BY DEF TypeOK, Positions, Wallets
<1>3. tranches \subseteq Tranches /\ \A t \in tranches : t \in Wallets
  BY DEF TypeOK, Wallets
<1> QED
  BY <1>1, <1>2, <1>3 DEF Accounts, Holding

\* A statement that counts f of every line and g of every deposit counts, over
\* all wallets, every line and every deposit once.
LEMMA StatementSum ==
  ASSUME TypeOK, Accounts,
         NEW f, \A p \in live : f[p] \in Int, NEW g, \A t \in tranches : g[t] \in Int,
         NEW said,
         \A w \in Wallets : said[w] = SumFunctionOnSet(f, {p \in live : p[1] = w})
                                        + SumFunctionOnSet(g, {t \in tranches : t = w})
  PROVE  SumFunctionOnSet(said, Wallets)
           = SumFunctionOnSet(f, live) + SumFunctionOnSet(g, tranches)
<1> DEFINE wallet == [p \in live |-> p[1]]
           itself == [t \in tranches |-> t]
           lines    == [w \in Wallets |-> {p \in live : p[1] = w}]
           deposits == [w \in Wallets |-> {t \in tranches : t = w}]
           F == [w \in Wallets |-> SumFunctionOnSet(f, lines[w])]
           G == [w \in Wallets |-> SumFunctionOnSet(g, deposits[w])]
<1>1. IsFiniteSet(Wallets) /\ IsFiniteSet(live) /\ IsFiniteSet(tranches)
  BY HoldingsOf
<1>2. SumFunctionOnSet(F, Wallets) = SumFunctionOnSet(f, live)
  <2>1. \A p \in live : wallet[p] \in Wallets
    BY HoldingsOf
  <2>2. \A w \in Wallets : lines[w] = {p \in live : wallet[p] = w}
    OBVIOUS
  <2>3. \A w \in Wallets : F[w] = SumFunctionOnSet(f, lines[w])
    OBVIOUS
  <2> HIDE DEF F, wallet, lines
  <2> QED
    BY <1>1, <2>1, <2>2, <2>3, SumByKey
<1>3. SumFunctionOnSet(G, Wallets) = SumFunctionOnSet(g, tranches)
  <2>1. \A t \in tranches : itself[t] \in Wallets
    BY HoldingsOf
  <2>2. \A w \in Wallets : deposits[w] = {t \in tranches : itself[t] = w}
    OBVIOUS
  <2>3. \A w \in Wallets : G[w] = SumFunctionOnSet(g, deposits[w])
    OBVIOUS
  <2> HIDE DEF G, itself, deposits
  <2> QED
    BY <1>1, <2>1, <2>2, <2>3, SumByKey
<1>4. ASSUME NEW w \in Wallets
      PROVE  F[w] \in Int /\ G[w] \in Int /\ said[w] = F[w] + 1 * G[w]
  <2> DEFINE ps == {p \in live : p[1] = w}
             ts == {t \in tranches : t = w}
  <2>1. ps = lines[w] /\ ts = deposits[w]
    OBVIOUS
  <2>2. /\ IsFiniteSet(ps) /\ \A p \in ps : f[p] \in Int
        /\ IsFiniteSet(ts) /\ \A t \in ts : g[t] \in Int
    BY <1>1, FS_Subset
  <2>3. F[w] = SumFunctionOnSet(f, ps) /\ G[w] = SumFunctionOnSet(g, ts)
    BY <2>1
  <2>4. said[w] = SumFunctionOnSet(f, ps) + SumFunctionOnSet(g, ts)
    OBVIOUS
  <2> HIDE DEF F, G, ps, ts, lines, deposits
  <2>5. SumFunctionOnSet(f, ps) \in Int /\ SumFunctionOnSet(g, ts) \in Int
    BY <2>2, SumInt
  <2> QED
    BY <2>3, <2>4, <2>5
<1> HIDE DEF F, G
<1>5. SumFunctionOnSet(said, Wallets)
        = SumFunctionOnSet(F, Wallets) + 1 * SumFunctionOnSet(G, Wallets)
  BY <1>1, <1>4, SumLinear
<1>6. SumFunctionOnSet(G, Wallets) \in Int
  BY <1>1, <1>4, SumInt
<1> QED
  BY <1>2, <1>3, <1>5, <1>6

\* The SDK's numbers are the program's.
LEMMA SameNumbers ==
  ASSUME TypeOK
  PROVE  /\ \A p \in live : Final => owedTo(p) = redemption(p)
         /\ \A t \in tranches : trancheFees(t) = earned(t)
         /\ \A t \in tranches : trancheTerms(t) = tranche_depth(t)
         /\ \A t \in tranches : voidShare(deposit[t], void_lp_pot, deposit_total) = refund(t)
<1>1. basis_total \in Nat /\ deposit_total \in Nat
  BY DEF TypeOK
<1>2. \A p \in live : Final => owedTo(p) = redemption(p)
  BY <1>1 DEF owedTo, redemption, owed_by, void_share, Final
<1>3. \A t \in tranches : trancheTerms(t) = tranche_depth(t)
  BY DEF trancheTerms, tranche_depth, liquidityForDeposit, liquidity_for_deposit
<1>4. \A t \in tranches : trancheFees(t) = earned(t)
  BY <1>3 DEF trancheFees, earned, tranche_fees, b_units
<1>5. \A t \in tranches : voidShare(deposit[t], void_lp_pot, deposit_total) = refund(t)
  BY <1>1 DEF voidShare, refund, void_share
<1> QED
  BY <1>2, <1>3, <1>4, <1>5

\* What everyone is told is ready is in the vault.
LEMMA ReadyIsThere ==
  ASSUME TypeOK, Accounts, ObligationsExact, EveryClaimFunded, FeePromise, OpeningBell
  PROVE  SumOver(Wallets, [w \in Wallets |-> value(w)["ready"]]) <= vault
<1> DEFINE said == [w \in Wallets |-> value(w)["ready"]]
           owes == [p \in live |-> redemption(p)]
           due  == [t \in tranches |-> IF status = "Settled" THEN earned(t) ELSE refund(t)]
<1>1. /\ IsFiniteSet(Wallets) /\ IsFiniteSet(live) /\ IsFiniteSet(tranches) /\ vault \in Nat
  BY HoldingsOf DEF TypeOK
<1>2. CASE ~ Final
  <2>1. \A w \in Wallets : said[w] = 0
    BY <1>2 DEF value
  <2> HIDE DEF said
  <2>2. SumFunctionOnSet(said, Wallets) = 0
    BY <1>1, <2>1, SumZero
  <2> QED
    BY <1>1, <2>2 DEF SumOver, said
<1>3. CASE Final
  <2>1. /\ \A p \in live : owes[p] = redemption(p) /\ owes[p] \in Int
        /\ \A t \in tranches : due[t] \in Int
        /\ \A t \in tranches : due[t] = IF status = "Settled" THEN trancheFees(t)
                                 ELSE voidShare(deposit[t], void_lp_pot, deposit_total)
    <3>1. \A p \in live : redemption(p) \in Nat
      BY ClaimsNat DEF TypeOK
    <3>2. \A t \in tranches : t \in Tranches /\ refund(t) \in Nat
      BY ClaimsNat DEF TypeOK
    <3>3. status = "Settled" => \A t \in tranches : earned(t) \in Nat
      BY <3>2, ClaimsNat DEF OpeningBell
    <3> QED
      BY <3>1, <3>2, <3>3, SameNumbers
  <2>2. ASSUME NEW w \in Wallets
        PROVE  said[w] = SumFunctionOnSet(owes, {p \in live : p[1] = w})
                           + SumFunctionOnSet(due, {t \in tranches : t = w})
    <3> DEFINE ps == {p \in live : p[1] = w}
               ts == {t \in tranches : t = w}
               lines    == [p \in ps |-> owedTo(p)]
               deposits == [t \in ts |-> IF status = "Settled" THEN trancheFees(t)
                              ELSE voidShare(deposit[t], void_lp_pot, deposit_total)]
    <3>1. Holding(w).positions = ps /\ Holding(w).tranches = ts
      BY HoldingsOf
    <3>2. said[w] = SumFunctionOnSet(lines, ps) + SumFunctionOnSet(deposits, ts)
      BY <1>3, <3>1 DEF value, SumOver
    <3>3. /\ IsFiniteSet(ps) /\ IsFiniteSet(ts)
          /\ \A p \in ps : lines[p] = owes[p] /\ lines[p] \in Int
          /\ \A t \in ts : deposits[t] = due[t] /\ deposits[t] \in Int
      <4>1. IsFiniteSet(ps) /\ IsFiniteSet(ts)
        BY <1>1, FS_Subset
      <4>2. \A p \in ps : lines[p] = redemption(p)
        BY <1>3, SameNumbers
      <4> QED
        BY <2>1, <4>1, <4>2
    <3> HIDE DEF ps, ts, lines, deposits, owes, due, said
    <3>4. SumFunctionOnSet(lines, ps) = SumFunctionOnSet(owes, ps)
      BY <3>3, SumSame
    <3>5. SumFunctionOnSet(deposits, ts) = SumFunctionOnSet(due, ts)
      BY <3>3, SumSame
    <3> QED
      BY <3>2, <3>4, <3>5 DEF ps, ts
  <2> HIDE DEF said, owes, due
  <2>3. SumFunctionOnSet(said, Wallets)
          = SumFunctionOnSet(owes, live) + SumFunctionOnSet(due, tranches)
    BY <2>1, <2>2, StatementSum
  <2>4. CASE status = "Void"
    <3>1. due = [t \in tranches |-> refund(t)]
      BY <2>4 DEF due
    <3>2. vault >= SumFunctionOnSet(owes, live) + SumFunctionOnSet(due, tranches)
      BY <2>4, <3>1 DEF EveryClaimFunded, traders_owed, refunds_owed, SumOver, owes
    <3>3. SumFunctionOnSet(owes, live) \in Int /\ SumFunctionOnSet(due, tranches) \in Int
      BY <1>1, <2>1, SumInt
    <3> QED
      BY <1>1, <2>3, <3>2, <3>3 DEF SumOver, said
  <2>5. CASE status = "Settled"
    <3>1. due = [t \in tranches |-> earned(t)]
      BY <2>5 DEF due
    <3>2. SumFunctionOnSet(due, tranches) <= fees_lp
      BY <2>5, <3>1 DEF FeePromise, fees_promised, SumOver
    <3>3. owes = [p \in live |-> shares[p] * level(p[2], settled_bin)]
      BY <2>5 DEF owes, redemption, owed_by
    <3>4. SumFunctionOnSet(owes, live) = cash
      BY <2>5, <3>3 DEF ObligationsExact, owed_in, SumOver
    <3>5. vault = cash + lp_pool + fees_lp + fees_protocol
          /\ cash \in Nat /\ lp_pool \in Nat /\ fees_lp \in Nat /\ fees_protocol \in Nat
      BY <2>5 DEF EveryClaimFunded, TypeOK
    <3>6. SumFunctionOnSet(due, tranches) \in Int
      BY <1>1, <2>1, SumInt
    <3>7. SumFunctionOnSet(said, Wallets) <= vault
      BY <2>3, <3>2, <3>4, <3>5, <3>6
    <3> QED
      BY <3>7 DEF SumOver, said
  <2> QED
    BY <1>3, <2>4, <2>5 DEF Final
<1> QED
  BY <1>2, <1>3

\* What is at work in lines, and in the house, is what a void would share out.
LEMMA WorkIsCounted ==
  ASSUME TypeOK, Accounts, BasisExact, Running
  PROVE  /\ SumOver(Wallets, [w \in Wallets |-> value(w)["atWork"]]) = basis_total
         /\ SumOver(Wallets, [w \in Wallets |-> value(w)["inHouse"]]) = deposit_total
<1> DEFINE work  == [w \in Wallets |-> value(w)["atWork"]]
           house == [w \in Wallets |-> value(w)["inHouse"]]
           none == [p \in live |-> 0]
           nil  == [t \in tranches |-> 0]
<1>1. /\ IsFiniteSet(Wallets) /\ IsFiniteSet(live) /\ IsFiniteSet(tranches) /\ ~ Final
  BY HoldingsOf DEF Running, Final
<1>2. /\ \A p \in live : net_paid[p] \in Int
      /\ \A t \in tranches : deposit[t] \in Int
  BY DEF TypeOK
<1>3. ASSUME NEW w \in Wallets
      PROVE  /\ work[w] = SumFunctionOnSet(net_paid, {p \in live : p[1] = w})
                            + SumFunctionOnSet(nil, {t \in tranches : t = w})
             /\ house[w] = SumFunctionOnSet(none, {p \in live : p[1] = w})
                            + SumFunctionOnSet(deposit, {t \in tranches : t = w})
  <2> DEFINE ps == {p \in live : p[1] = w}
             ts == {t \in tranches : t = w}
  <2>1. Holding(w).positions = ps /\ Holding(w).tranches = ts
    BY HoldingsOf
  <2>2. work[w] = SumFunctionOnSet(net_paid, ps) /\ house[w] = SumFunctionOnSet(deposit, ts)
    BY <1>1, <2>1 DEF value, SumOver
  <2>3. /\ IsFiniteSet(ps) /\ IsFiniteSet(ts)
        /\ \A p \in ps : net_paid[p] \in Int /\ none[p] = 0
        /\ \A t \in ts : deposit[t] \in Int /\ nil[t] = 0
    BY <1>1, <1>2, FS_Subset
  <2> HIDE DEF ps, ts, none, nil, work, house
  <2>4. SumFunctionOnSet(none, ps) = 0 /\ SumFunctionOnSet(nil, ts) = 0
    BY <2>3, SumZero
  <2>5. SumFunctionOnSet(net_paid, ps) \in Int /\ SumFunctionOnSet(deposit, ts) \in Int
    BY <2>3, SumInt
  <2>6. /\ work[w] = SumFunctionOnSet(net_paid, ps) + SumFunctionOnSet(nil, ts)
        /\ house[w] = SumFunctionOnSet(none, ps) + SumFunctionOnSet(deposit, ts)
    BY <2>2, <2>4, <2>5
  <2> QED
    BY <2>6 DEF ps, ts
<1>4. /\ \A p \in live : none[p] \in Int /\ none[p] = 0
      /\ \A t \in tranches : nil[t] \in Int /\ nil[t] = 0
  OBVIOUS
<1> HIDE DEF work, house, none, nil
<1>5. /\ SumFunctionOnSet(none, live) = 0 /\ SumFunctionOnSet(nil, tranches) = 0
  BY <1>1, <1>4, SumZero
<1>6. SumFunctionOnSet(work, Wallets)
        = SumFunctionOnSet(net_paid, live) + SumFunctionOnSet(nil, tranches)
  BY <1>2, <1>3, <1>4, StatementSum
<1>7. SumFunctionOnSet(house, Wallets)
        = SumFunctionOnSet(none, live) + SumFunctionOnSet(deposit, tranches)
  BY <1>2, <1>3, <1>4, StatementSum
<1>8. /\ basis_total = SumFunctionOnSet(net_paid, live)
      /\ deposit_total = SumFunctionOnSet(deposit, tranches)
      /\ basis_total \in Nat /\ deposit_total \in Nat
  BY DEF BasisExact, TypeOK, SumOver
<1> QED
  BY <1>5, <1>6, <1>7, <1>8 DEF SumOver, work, house

\* The shares of the house shown are of a whole.
LEMMA SharesOfAWhole ==
  ASSUME TypeOK, Accounts, BasisExact, DepthShared, Running
  PROVE  SumOver(Wallets, [w \in Wallets |-> houseShare(w)]) <= houseWhole
<1> DEFINE said == [w \in Wallets |-> houseShare(w)]
           part == [t \in tranches |-> IF status = "Seeding" THEN deposit[t] ELSE tranche_depth(t)]
           none == [p \in live |-> 0]
<1>1. IsFiniteSet(Wallets) /\ IsFiniteSet(live) /\ IsFiniteSet(tranches)
  BY HoldingsOf
<1>2. \A t \in tranches : /\ part[t] \in Int
                          /\ part[t] = IF status = "Seeding" THEN deposit[t] ELSE trancheTerms(t)
  <2>1. \A t \in tranches : t \in Tranches /\ deposit[t] \in Nat /\ tranche_depth(t) \in Nat
    BY ClaimsNat DEF TypeOK
  <2> QED
    BY <2>1, SameNumbers
<1>3. ASSUME NEW w \in Wallets
      PROVE  said[w] = SumFunctionOnSet(none, {p \in live : p[1] = w})
                         + SumFunctionOnSet(part, {t \in tranches : t = w})
  <2> DEFINE ps == {p \in live : p[1] = w}
             ts == {t \in tranches : t = w}
             mine == IF status = "Seeding" THEN deposit ELSE [t \in ts |-> trancheTerms(t)]
  <2>1. Holding(w).tranches = ts
    BY HoldingsOf
  <2>2. said[w] = SumFunctionOnSet(mine, ts)
    BY <2>1 DEF houseShare, SumOver
  <2>3. /\ IsFiniteSet(ps) /\ IsFiniteSet(ts)
        /\ \A p \in ps : none[p] = 0
        /\ \A t \in ts : part[t] = mine[t] /\ part[t] \in Int
    <3>1. IsFiniteSet(ps) /\ IsFiniteSet(ts)
      BY <1>1, FS_Subset
    <3>2. \A t \in ts : t \in tranches
      OBVIOUS
    <3> QED
      BY <1>2, <3>1, <3>2
  <2> HIDE DEF ps, ts, mine, none, part, said
  <2>4. SumFunctionOnSet(none, ps) = 0
    BY <2>3, SumZero
  <2>5. SumFunctionOnSet(mine, ts) = SumFunctionOnSet(part, ts)
        /\ SumFunctionOnSet(part, ts) \in Int
    BY <2>3, SumSame, SumInt
  <2>6. said[w] = SumFunctionOnSet(none, ps) + SumFunctionOnSet(part, ts)
    BY <2>2, <2>4, <2>5
  <2> QED
    BY <2>6 DEF ps, ts
<1>4. \A p \in live : none[p] \in Int /\ none[p] = 0
  OBVIOUS
<1> HIDE DEF said, none
<1>5. SumFunctionOnSet(said, Wallets)
        = SumFunctionOnSet(none, live) + SumFunctionOnSet(part, tranches)
  <2> HIDE DEF part
  <2> QED
    BY <1>2, <1>3, <1>4, StatementSum
<1>6. SumFunctionOnSet(none, live) = 0 /\ SumFunctionOnSet(part, tranches) \in Int
  <2> HIDE DEF part
  <2> QED
    BY <1>1, <1>2, <1>4, SumZero, SumInt
<1>7. SumFunctionOnSet(part, tranches) <= houseWhole
  <2>1. CASE status = "Seeding"
    <3>1. \A t \in tranches : part[t] = deposit[t]
      BY <2>1
    <3> HIDE DEF part
    <3>2. SumFunctionOnSet(part, tranches) = SumFunctionOnSet(deposit, tranches)
      BY <1>1, <1>2, <3>1, SumSame
    <3>3. SumFunctionOnSet(deposit, tranches) = deposit_total /\ deposit_total \in Nat
      BY DEF BasisExact, SumOver, TypeOK
    <3> QED
      BY <2>1, <3>2, <3>3 DEF houseWhole
  <2>2. CASE status # "Seeding"
    <3>1. part = [t \in tranches |-> tranche_depth(t)]
      BY <2>2
    <3> QED
      BY <2>2, <3>1 DEF houseWhole, DepthShared, SumOver
  <2> QED
    BY <2>1, <2>2
<1> HIDE DEF part
<1>8. houseWhole \in Int
  BY DEF houseWhole, TypeOK
<1>9. SumFunctionOnSet(said, Wallets) <= houseWhole
  BY <1>5, <1>6, <1>7, <1>8
<1> QED
  BY <1>9 DEF SumOver, said

\* A wallet that has one deposit and no lines is told what its claim pays.
LEMMA DepositAlone ==
  ASSUME TypeOK, Accounts, OpeningBell, NEW t \in tranches, Final
  PROVE  value(t).ready = IF status = "Settled" THEN earned(t) ELSE refund(t)
<1> DEFINE due == [u \in {t} |-> IF status = "Settled" THEN trancheFees(u)
                                 ELSE voidShare(deposit[u], void_lp_pot, deposit_total)]
           owed == [p \in {} |-> owedTo(p)]
<1>1. t \in Tranches /\ t \in Wallets /\ t \notin Traders
  BY HoldingsOf, WalletsApart
<1>2. Holding(t).positions = {} /\ Holding(t).tranches = {t}
  <2>1. \A p \in live : p[1] # t
    BY <1>1, HoldingsOf DEF Positions
  <2> QED
    BY <1>1, <2>1, HoldingsOf
<1>3. value(t).ready = SumFunctionOnSet(owed, {}) + SumFunctionOnSet(due, {t})
  BY <1>2 DEF value, SumOver
<1>4. due[t] = (IF status = "Settled" THEN earned(t) ELSE refund(t)) /\ due[t] \in Int
  <2>1. refund(t) \in Nat /\ (status = "Settled" => earned(t) \in Nat)
    BY <1>1, ClaimsNat DEF OpeningBell
  <2> QED
    BY <2>1, SameNumbers
<1> HIDE DEF due, owed
<1>5. SumFunctionOnSet(owed, {}) = 0 /\ SumFunctionOnSet(due, {t}) = due[t]
  BY <1>4, SumEmpty, SumSingle
<1> QED
  BY <1>3, <1>4, <1>5

\* The SDK's quote is the program's charge.
LEMMA QuotesAreCharges ==
  ASSUME TypeOK, NEW c \in Costs
  PROVE  LET fee(a) == fee_on(a, fee_bps_at(SETTLES - now))
         IN  /\ quoteBuy(c) = c + 1 + fee(c + 1)
             /\ quoteSell(c) = sale_proceeds(c) - fee(sale_proceeds(c))
<1>1. c \in Nat
  BY LadderConstants
<1>2. feeBpsAt(LADDER_FEE_BPS) = fee_bps_at(SETTLES - now)
  BY DEF feeBpsAt, fee_bps_at
<1>3. \A a, bps \in Nat : feeOn(a, bps) = fee_on(a, bps)
  BY DEF feeOn, fee_on
<1>4. (IF c > 0 THEN c - 1 ELSE 0) = sale_proceeds(c)
  BY <1>1 DEF sale_proceeds, SatSub, Most
<1> QED
  BY <1>2, <1>4 DEF quoteBuy, quoteSell, feeOn, fee_on

LEMMA StatementsHold ==
  ASSUME TypeOK, Accounts, OpeningBell, DepthShared, BasisExact, ObligationsExact,
         EveryClaimFunded, FeePromise
  PROVE  StatementsAddUp
<1>1. SumOver(Wallets, [w \in Wallets |-> value(w)["ready"]]) <= vault
  BY ReadyIsThere
<1>2. Final => \A p \in live : owedTo(p) = redemption(p)
  BY SameNumbers
<1>3. /\ status = "Void" => \A t \in tranches : refund(t) = value(t).ready
      /\ status = "Settled" => \A t \in tranches : earned(t) = value(t).ready
  BY DepositAlone DEF Final
<1>4. Running => /\ SumOver(Wallets, [w \in Wallets |-> value(w)["atWork"]]) = basis_total
                 /\ SumOver(Wallets, [w \in Wallets |-> value(w)["inHouse"]]) = deposit_total
  BY WorkIsCounted
<1>5. Running => SumOver(Wallets, [w \in Wallets |-> houseShare(w)]) <= houseWhole
  BY SharesOfAWhole
<1>6. Tradeable => \A c \in Costs :
        /\ quoteBuy(c) = c + 1 + fee_on(c + 1, fee_bps_at(SETTLES - now))
        /\ quoteSell(c) = sale_proceeds(c) - fee_on(sale_proceeds(c), fee_bps_at(SETTLES - now))
  BY QuotesAreCharges
<1> QED
  BY <1>1, <1>2, <1>3, <1>4, <1>5, <1>6 DEF StatementsAddUp

-----------------------------------------------------------------------------
(* What one press of Collect sends.                                        *)

\* The transactions filled with the first n claims.
Filled(items) ==
  CHOOSE g : g = [n \in 0 .. Len(items) |-> IF n = 0 THEN <<>> ELSE Pack(g[n - 1], items[n])]

\* Filling them one claim after the other is well defined.
LEMMA FillExists ==
  ASSUME NEW items, Len(items) \in Nat
  PROVE  \A n \in 0 .. Len(items) :
           Filled(items)[n] = IF n = 0 THEN <<>> ELSE Pack(Filled(items)[n - 1], items[n])
<1> DEFINE Upto(m) == \E g : g = [n \in 0 .. m |-> IF n = 0 THEN <<>> ELSE Pack(g[n - 1], items[n])]
           Good == {m \in Nat : Upto(m)}
<1>1. Upto(0)
  <2> DEFINE h == [n \in 0 .. 0 |-> <<>>]
  <2>1. h = [n \in 0 .. 0 |-> IF n = 0 THEN <<>> ELSE Pack(h[n - 1], items[n])]
    OBVIOUS
  <2> QED
    BY <2>1
<1>2. ASSUME NEW m \in Nat, Upto(m) PROVE Upto(m + 1)
  <2>1. PICK g : g = [n \in 0 .. m |-> IF n = 0 THEN <<>> ELSE Pack(g[n - 1], items[n])]
    BY <1>2
  <2> DEFINE h == [n \in 0 .. m + 1 |-> IF n = m + 1 THEN Pack(g[m], items[n]) ELSE g[n]]
  <2>2. \A n \in 0 .. m : h[n] = g[n]
    OBVIOUS
  <2>3. ASSUME NEW n \in 0 .. m + 1
        PROVE  h[n] = IF n = 0 THEN <<>> ELSE Pack(h[n - 1], items[n])
    <3>1. CASE n = m + 1
      BY <2>2, <3>1
    <3>2. CASE n # m + 1
      <4>1. n \in 0 .. m /\ (n # 0 => n - 1 \in 0 .. m)
        BY <3>2
      <4>2. h[n] = g[n] /\ (n # 0 => h[n - 1] = g[n - 1])
        BY <2>2, <4>1
      <4>3. g[n] = IF n = 0 THEN <<>> ELSE Pack(g[n - 1], items[n])
        BY <2>1, <4>1
      <4> QED
        BY <4>2, <4>3
    <3> QED
      BY <3>1, <3>2
  <2>4. h = [n \in 0 .. m + 1 |-> h[n]]
    OBVIOUS
  <2> HIDE DEF h
  <2>5. h = [n \in 0 .. m + 1 |-> IF n = 0 THEN <<>> ELSE Pack(h[n - 1], items[n])]
    BY <2>3, <2>4
  <2> QED
    BY <2>5
<1> HIDE DEF Upto
<1>3. Nat \subseteq Good
  <2>1. 0 \in Good
    BY <1>1
  <2>2. \A m \in Nat : m \in Good => m + 1 \in Good
    BY <1>2
  <2> HIDE DEF Good
  <2> QED
    BY <2>1, <2>2, NatSetInduction
<1>4. Upto(Len(items))
  BY <1>3
<1>5. Filled(items) = [n \in 0 .. Len(items) |->
                         IF n = 0 THEN <<>> ELSE Pack(Filled(items)[n - 1], items[n])]
  BY <1>4 DEF Upto, Filled
<1> QED
  BY <1>5

\* Transactions that fit.
Fit(out) ==
  /\ out = [i \in 1 .. Len(out) |-> out[i]] /\ Len(out) \in Nat
  /\ \A i \in 1 .. Len(out) :
       /\ Len(out[i].ixs) \in 1 .. PER_TX
       /\ out[i].ixs = [j \in 1 .. Len(out[i].ixs) |-> out[i].ixs[j]]
       /\ out[i].units \in Nat /\ out[i].units <= MAX_UNITS

\* One more claim is at one more place, and the others stay where they are.
LEMMA PackAdds ==
  ASSUME NEW out, Fit(out), NEW it, it.units \in Nat, BASE_UNITS + it.units <= MAX_UNITS
  PROVE  /\ Fit(Pack(out, it))
         /\ \E z : /\ z \notin Places(out) /\ Places(Pack(out, it)) = Places(out) \union {z}
                   /\ claimAt(Pack(out, it), z) = it.ix
                   /\ \A q \in Places(out) : claimAt(Pack(out, it), q) = claimAt(out, q)
<1> DEFINE L == Len(out)
           new == Pack(out, it)
<1>0. PER_TX \in Nat \ {0} /\ MAX_UNITS \in Nat /\ BASE_UNITS \in Nat /\ L \in Nat
  BY TransactionHolds DEF Fit
<1>1. CASE out # <<>> /\ Len(out[L].ixs) < PER_TX /\ out[L].units + it.units <= MAX_UNITS
  <2> DEFINE old == out[L].ixs
             K == Len(old)
             more == Append(old, it.ix)
  <2>1. L \in 1 .. L
    BY <1>0, <1>1 DEF Fit
  <2>2. /\ K \in 1 .. PER_TX /\ K < PER_TX /\ out[L].units \in Nat
        /\ old = [j \in 1 .. K |-> old[j]]
    BY <1>1, <2>1 DEF Fit
  <2>3. /\ Len(more) = K + 1 /\ more = [j \in 1 .. K + 1 |-> more[j]]
        /\ more[K + 1] = it.ix /\ \A j \in 1 .. K : more[j] = old[j]
    <3>1. old \in Seq({old[j] : j \in 1 .. K} \union {it.ix})
      BY <2>2
    <3> HIDE DEF old
    <3> QED
      BY <3>1, <2>2
  <2>4. new = [out EXCEPT ![L] = [ixs |-> more, units |-> out[L].units + it.units]]
    BY <1>1 DEF Pack
  <2> HIDE DEF more
  <2>5. /\ new = [i \in 1 .. L |-> new[i]] /\ Len(new) = L
        /\ new[L].ixs = more /\ new[L].units = out[L].units + it.units
        /\ \A i \in 1 .. L : i # L => new[i] = out[i]
    <3>1. out = [i \in 1 .. L |-> out[i]]
      BY DEF Fit
    <3>2. new = [i \in 1 .. L |-> new[i]]
      BY <2>4, <3>1
    <3>3. Len(new) = L
      BY <3>2, <1>0
    <3>4. L \in DOMAIN out
      BY <2>1, <3>1
    <3>5. new[L] = [ixs |-> more, units |-> out[L].units + it.units]
      BY <2>4, <3>4
    <3>6. \A i \in 1 .. L : i # L => new[i] = out[i]
      BY <2>4, <3>1
    <3> HIDE DEF new
    <3> QED
      BY <3>2, <3>3, <3>5, <3>6
  <2> HIDE DEF new
  <2>6. Fit(new)
    <3>1. \A i \in 1 .. L :
            /\ Len(new[i].ixs) \in 1 .. PER_TX
            /\ new[i].ixs = [j \in 1 .. Len(new[i].ixs) |-> new[i].ixs[j]]
            /\ new[i].units \in Nat /\ new[i].units <= MAX_UNITS
      <4> SUFFICES ASSUME NEW i \in 1 .. L
                   PROVE  /\ Len(new[i].ixs) \in 1 .. PER_TX
                          /\ new[i].ixs = [j \in 1 .. Len(new[i].ixs) |-> new[i].ixs[j]]
                          /\ new[i].units \in Nat /\ new[i].units <= MAX_UNITS
        OBVIOUS
      <4>1. CASE i = L
        <5>1. new[i].ixs = more /\ new[i].units = out[L].units + it.units
          BY <2>5, <4>1
        <5>2. Len(more) \in 1 .. PER_TX /\ more = [j \in 1 .. Len(more) |-> more[j]]
          BY <1>0, <2>2, <2>3
        <5>3. new[i].units \in Nat /\ new[i].units <= MAX_UNITS
          BY <1>1, <2>2, <5>1
        <5> QED
          BY <5>1, <5>2, <5>3
      <4>2. CASE i # L
        BY <2>5, <4>2 DEF Fit
      <4> QED
        BY <4>1, <4>2
    <3> QED
      BY <1>0, <2>5, <3>1 DEF Fit
  <2>7. ASSUME NEW i, NEW j
        PROVE  <<i, j>> \in Places(new) <=> <<i, j>> \in Places(out) \/ <<i, j>> = <<L, K + 1>>
    <3>1. CASE i \in 1 .. L
      <4>1. CASE i = L
        <5>1. Len(new[i].ixs) = K + 1 /\ Len(out[i].ixs) = K
          BY <2>3, <2>5, <4>1
        <5> QED
          BY <1>0, <2>2, <2>5, <3>1, <4>1, <5>1 DEF Places
      <4>2. CASE i # L
        BY <2>5, <3>1, <4>2 DEF Places
      <4> QED
        BY <4>1, <4>2
    <3>2. CASE i \notin 1 .. L
      BY <2>1, <2>5, <3>2 DEF Places
    <3> QED
      BY <3>1, <3>2
  <2>8. Places(new) = Places(out) \union {<<L, K + 1>>}
    <3>1. \A q \in Places(new) \union Places(out) : q = <<q[1], q[2]>>
      BY DEF Places
    <3> QED
      BY <2>7, <3>1
  <2>9. <<L, K + 1>> \notin Places(out)
    BY <2>2 DEF Places
  <2>10. claimAt(new, <<L, K + 1>>) = it.ix
    BY <2>3, <2>5 DEF claimAt
  <2>11. ASSUME NEW q \in Places(out) PROVE claimAt(new, q) = claimAt(out, q)
    <3>1. q[1] \in 1 .. L /\ q[2] \in 1 .. PER_TX /\ q[2] <= Len(out[q[1]].ixs)
      BY DEF Places
    <3>2. CASE q[1] = L
      <4>1. q[2] \in 1 .. K
        BY <2>2, <3>1, <3>2
      <4>2. claimAt(new, q) = more[q[2]] /\ claimAt(out, q) = old[q[2]]
        BY <2>5, <3>2 DEF claimAt
      <4> QED
        BY <2>3, <4>1, <4>2
    <3>3. CASE q[1] # L
      BY <2>5, <3>1, <3>3 DEF claimAt
    <3> QED
      BY <3>2, <3>3
  <2> QED
    BY <2>6, <2>8, <2>9, <2>10, <2>11 DEF new
<1>2. CASE ~ (out # <<>> /\ Len(out[L].ixs) < PER_TX /\ out[L].units + it.units <= MAX_UNITS)
  <2> DEFINE tx == [ixs |-> <<it.ix>>, units |-> BASE_UNITS + it.units]
  <2>1. new = Append(out, tx)
    BY <1>2 DEF Pack
  <2>2. out \in Seq({out[i] : i \in 1 .. L} \union {tx})
    BY <1>0 DEF Fit
  <2>3. /\ tx.units \in Nat /\ tx.units <= MAX_UNITS
        /\ Len(tx.ixs) = 1 /\ tx.ixs[1] = it.ix /\ tx.ixs = [j \in 1 .. 1 |-> tx.ixs[j]]
    BY <1>0
  <2> HIDE DEF tx
  <2>4. /\ Len(new) = L + 1 /\ new = [i \in 1 .. L + 1 |-> new[i]]
        /\ new[L + 1] = tx /\ \A i \in 1 .. L : new[i] = out[i]
    <3> DEFINE T == {out[i] : i \in 1 .. L} \union {tx}
    <3>1. out \in Seq(T) /\ tx \in T
      BY <2>2
    <3> HIDE DEF T, new
    <3>2. new \in Seq(T) /\ Len(new) = L + 1
      BY <2>1, <3>1
    <3>3. new[L + 1] = tx /\ \A i \in 1 .. L : new[i] = out[i]
      BY <2>1, <3>1
    <3> QED
      BY <3>2, <3>3
  <2> HIDE DEF new
  <2>5. Fit(new)
    <3>1. \A i \in 1 .. L + 1 :
            /\ Len(new[i].ixs) \in 1 .. PER_TX
            /\ new[i].ixs = [j \in 1 .. Len(new[i].ixs) |-> new[i].ixs[j]]
            /\ new[i].units \in Nat /\ new[i].units <= MAX_UNITS
      <4> SUFFICES ASSUME NEW i \in 1 .. L + 1
                   PROVE  /\ Len(new[i].ixs) \in 1 .. PER_TX
                          /\ new[i].ixs = [j \in 1 .. Len(new[i].ixs) |-> new[i].ixs[j]]
                          /\ new[i].units \in Nat /\ new[i].units <= MAX_UNITS
        OBVIOUS
      <4>1. CASE i = L + 1
        <5>1. new[i] = tx
          BY <2>4, <4>1
        <5>2. Len(tx.ixs) \in 1 .. PER_TX
          BY <1>0, <2>3
        <5> QED
          BY <2>3, <5>1, <5>2
      <4>2. CASE i # L + 1
        <5>1. i \in 1 .. L
          BY <1>0, <4>2
        <5> QED
          BY <2>4, <5>1 DEF Fit
      <4> QED
        BY <4>1, <4>2
    <3> QED
      BY <1>0, <2>4, <3>1 DEF Fit
  <2>6. ASSUME NEW i, NEW j
        PROVE  <<i, j>> \in Places(new) <=> <<i, j>> \in Places(out) \/ <<i, j>> = <<L + 1, 1>>
    <3>1. CASE i \in 1 .. L
      <4>1. new[i] = out[i] /\ Len(new) = L + 1
        BY <2>4, <3>1
      <4> HIDE DEF L
      <4>2. i \in 1 .. L + 1 /\ i # L + 1
        BY <1>0, <3>1
      <4> QED
        BY <3>1, <4>1, <4>2 DEF Places, L
    <3>2. CASE i = L + 1
      <4>1. i \in 1 .. L + 1 /\ i \notin 1 .. L /\ Len(new) = L + 1 /\ Len(new[i].ixs) = 1
        BY <1>0, <2>3, <2>4, <3>2
      <4> QED
        <5>1. j \in 1 .. PER_TX /\ j <= Len(new[i].ixs) <=> j = 1
          BY <1>0, <4>1
        <5>2. <<i, j>> \in Places(new) <=> j = 1
          BY <4>1, <5>1 DEF Places
        <5>3. <<i, j>> \notin Places(out)
          BY <4>1 DEF Places
        <5> QED
          BY <3>2, <5>2, <5>3
    <3>3. CASE i \notin 1 .. L /\ i # L + 1
      BY <1>0, <2>4, <3>3 DEF Places
    <3> QED
      BY <3>1, <3>2, <3>3
  <2>7. Places(new) = Places(out) \union {<<L + 1, 1>>}
    <3>1. \A q \in Places(new) \union Places(out) : q = <<q[1], q[2]>>
      BY DEF Places
    <3> QED
      BY <2>6, <3>1
  <2>8. <<L + 1, 1>> \notin Places(out)
    BY <1>0 DEF Places
  <2>9. claimAt(new, <<L + 1, 1>>) = it.ix
    BY <2>3, <2>4 DEF claimAt
  <2>10. \A q \in Places(out) : claimAt(new, q) = claimAt(out, q)
    BY <2>4 DEF claimAt, Places
  <2> QED
    BY <2>5, <2>7, <2>8, <2>9, <2>10 DEF new
<1> QED
  BY <1>1, <1>2

\* The claims packed are the claims given, each at one place.
LEMMA PackedOnce ==
  ASSUME NEW items, Len(items) \in Nat,
         \A n \in 1 .. Len(items) : /\ items[n].units \in Nat
                                    /\ BASE_UNITS + items[n].units <= MAX_UNITS,
         \A m, n \in 1 .. Len(items) : items[m].ix = items[n].ix => m = n
  PROVE  LET txs == packByCompute(items)
         IN  /\ \A i \in 1 .. Len(txs) : Len(txs[i].ixs) <= PER_TX /\ txs[i].units <= MAX_UNITS
             /\ {claimAt(txs, q) : q \in Places(txs)} = {items[n].ix : n \in 1 .. Len(items)}
             /\ \A q, r \in Places(txs) : claimAt(txs, q) = claimAt(txs, r) => q = r
<1> DEFINE out(n) == Filled(items)[n]
           Once(n) == /\ Fit(out(n))
                      /\ \A q \in Places(out(n)) : \E k \in 1 .. n : claimAt(out(n), q) = items[k].ix
                      /\ \A k \in 1 .. n : \E q \in Places(out(n)) : claimAt(out(n), q) = items[k].ix
                      /\ \A q, r \in Places(out(n)) :
                           claimAt(out(n), q) = claimAt(out(n), r) => q = r
           Good == {n \in Nat : n <= Len(items) => Once(n)}
<1>1. Once(0)
  <2>1. out(0) = <<>>
    BY FillExists
  <2>2. Fit(out(0)) /\ Places(out(0)) = {}
    BY <2>1 DEF Fit, Places
  <2> HIDE DEF out
  <2> QED
    BY <2>2
<1>2. ASSUME NEW n \in Nat, n + 1 <= Len(items), Once(n) PROVE Once(n + 1)
  <2> DEFINE it == items[n + 1]
  <2>1. out(n + 1) = Pack(out(n), it)
    <3>1. n + 1 \in 0 .. Len(items) /\ n + 1 # 0 /\ (n + 1) - 1 = n
      BY <1>2
    <3> QED
      BY <3>1, FillExists
  <2>2. n + 1 \in 1 .. Len(items) /\ \A k \in 1 .. n : k \in 1 .. Len(items)
    BY <1>2
  <2>3. it.units \in Nat /\ BASE_UNITS + it.units <= MAX_UNITS
    BY <2>2
  <2> HIDE DEF out, it
  <2>30. Fit(out(n)) /\ Fit(Pack(out(n), it))
    BY <1>2, <2>3, PackAdds
  <2>4. PICK z : /\ z \notin Places(out(n)) /\ Places(out(n + 1)) = Places(out(n)) \union {z}
                 /\ claimAt(out(n + 1), z) = it.ix
                 /\ \A q \in Places(out(n)) : claimAt(out(n + 1), q) = claimAt(out(n), q)
    BY <1>2, <2>1, <2>3, <2>30, PackAdds
  <2>5. Fit(out(n + 1))
    BY <2>1, <2>30
  <2>6. ASSUME NEW q \in Places(out(n + 1))
        PROVE  \E k \in 1 .. n + 1 : claimAt(out(n + 1), q) = items[k].ix
    <3>1. CASE q = z
      BY <1>2, <2>4, <3>1 DEF it
    <3>2. CASE q # z
      <4>1. PICK k \in 1 .. n : claimAt(out(n), q) = items[k].ix
        BY <1>2, <2>4, <3>2
      <4> QED
        BY <2>4, <3>2, <4>1
    <3> QED
      BY <3>1, <3>2
  <2>7. ASSUME NEW k \in 1 .. n + 1
        PROVE  \E q \in Places(out(n + 1)) : claimAt(out(n + 1), q) = items[k].ix
    <3>1. CASE k = n + 1
      BY <2>4, <3>1 DEF it
    <3>2. CASE k # n + 1
      <4>1. k \in 1 .. n
        BY <3>2
      <4>2. PICK q \in Places(out(n)) : claimAt(out(n), q) = items[k].ix
        BY <1>2, <4>1
      <4> QED
        BY <2>4, <4>2
    <3> QED
      BY <3>1, <3>2
  <2>8. ASSUME NEW q \in Places(out(n)) PROVE claimAt(out(n + 1), q) # it.ix
    <3>1. PICK k \in 1 .. n : claimAt(out(n), q) = items[k].ix
      BY <1>2
    <3>2. k \in 1 .. Len(items) /\ k # n + 1
      BY <2>2
    <3>3. items[k].ix # items[n + 1].ix
      BY <2>2, <3>2
    <3> QED
      BY <2>4, <3>1, <3>3 DEF it
  <2>9. ASSUME NEW q \in Places(out(n + 1)), NEW r \in Places(out(n + 1)),
               claimAt(out(n + 1), q) = claimAt(out(n + 1), r)
        PROVE  q = r
    BY <1>2, <2>4, <2>8, <2>9
  <2> QED
    BY <2>5, <2>6, <2>7, <2>9
<1>3. Len(items) \in Good
  <2> HIDE DEF Once
  <2>1. 0 \in Good
    BY <1>1
  <2>2. \A n \in Nat : n \in Good => n + 1 \in Good
    <3> SUFFICES ASSUME NEW n \in Nat, n <= Len(items) => Once(n), n + 1 <= Len(items)
                 PROVE  Once(n + 1)
      OBVIOUS
    <3>1. n <= Len(items)
      OBVIOUS
    <3> QED
      BY <1>2, <3>1
  <2> HIDE DEF Good
  <2> QED
    BY <2>1, <2>2, NatSetInduction
<1>4. Once(Len(items))
  <2> HIDE DEF Once
  <2> QED
    BY <1>3
<1>5. packByCompute(items) = out(Len(items))
  BY DEF packByCompute, Filled
<1> HIDE DEF out
<1> DEFINE txs == out(Len(items))
<1>6. \A i \in 1 .. Len(txs) : Len(txs[i].ixs) <= PER_TX /\ txs[i].units <= MAX_UNITS
  <2>1. PER_TX \in Nat
    BY TransactionHolds
  <2> QED
    <3>1. Fit(txs)
      BY <1>4
    <3> HIDE DEF txs
    <3>2. ASSUME NEW i \in 1 .. Len(txs)
          PROVE  Len(txs[i].ixs) <= PER_TX /\ txs[i].units <= MAX_UNITS
      <4>1. Len(txs[i].ixs) \in 1 .. PER_TX /\ txs[i].units <= MAX_UNITS
        BY <3>1 DEF Fit
      <4> QED
        BY <2>1, <4>1
    <3> QED
      BY <3>2
<1>7. {claimAt(txs, q) : q \in Places(txs)} = {items[n].ix : n \in 1 .. Len(items)}
  BY <1>4
<1>8. \A q, r \in Places(txs) : claimAt(txs, q) = claimAt(txs, r) => q = r
  BY <1>4
<1> QED
  BY <1>5, <1>6, <1>7, <1>8

\* A list of a finite set has each element once.
LEMMA ListOf ==
  ASSUME NEW S, IsFiniteSet(S)
  PROVE  /\ Cardinality(S) \in Nat
         /\ \A i \in 1 .. Cardinality(S) : SetToSeq(S)[i] \in S
         /\ \A i, j \in 1 .. Cardinality(S) : SetToSeq(S)[i] = SetToSeq(S)[j] => i = j
         /\ \A x \in S : \E i \in 1 .. Cardinality(S) : SetToSeq(S)[i] = x
<1> DEFINE n == Cardinality(S)
           list == SetToSeq(S)
<1>1. n \in Nat /\ ExistsBijection(1 .. n, S)
  BY FS_CardinalityType
<1>2. \E f \in [1 .. n -> S] : IsInjective(f)
  BY <1>1 DEF ExistsBijection, Bijection, Injection, IsInjective
<1>3. list \in [1 .. n -> S] /\ IsInjective(list)
  BY <1>2 DEF SetToSeq
<1>4. list \in Injection(1 .. n, S)
  BY <1>3 DEF Injection, IsInjective
<1>5. list \in Surjection(1 .. n, S)
  <2>1. Cardinality(1 .. n) = n
    BY <1>1, FS_Interval
  <2> HIDE DEF list
  <2> QED
    BY <1>4, <2>1, FS_Injection
<1> QED
  BY <1>1, <1>3, <1>5 DEF Surjection, IsInjective

LEMMA CollectedWhole ==
  ASSUME TypeOK, Accounts
  PROVE  CollectsEverything
<1> SUFFICES ASSUME NEW w \in Wallets
             PROVE  LET txs == collectTxs(w)
                    IN  /\ \A i \in 1 .. Len(txs) :
                             Len(txs[i].ixs) <= PER_TX /\ txs[i].units <= MAX_UNITS
                        /\ {claimAt(txs, q) : q \in Places(txs)}
                             = Holding(w).positions \union Holding(w).tranches
                        /\ \A q, r \in Places(txs) : claimAt(txs, q) = claimAt(txs, r) => q = r
  BY DEF CollectsEverything, collectPlan
<1> DEFINE ps == Holding(w).positions
           ts == Holding(w).tranches
           M == Cardinality(ps)
           N == Cardinality(ts)
           lines == [i \in 1 .. M |-> [ix |-> SetToSeq(ps)[i], units |-> REDEEM_UNITS]]
           deposits == [i \in 1 .. N |-> [ix |-> SetToSeq(ts)[i],
                                          units |-> claimComputeUnits(SetToSeq(ts)[i])]]
           items == lines \o deposits
<1>1. /\ IsFiniteSet(ps) /\ IsFiniteSet(ts)
      /\ \A p \in ps, t \in ts : p # t
  <2>1. ps = {p \in live : p[1] = w} /\ ts = {t \in tranches : t = w}
    BY HoldingsOf
  <2>2. ps \in SUBSET live /\ ts \in SUBSET tranches
    BY <2>1
  <2>3. ps \subseteq Positions /\ ts \subseteq Tranches
    BY <2>2, HoldingsOf
  <2> HIDE DEF ps, ts
  <2>4. IsFiniteSet(ps) /\ IsFiniteSet(ts)
    BY <2>2, HoldingsOf, FS_Subset
  <2> QED
    BY <2>3, <2>4, WalletsApart
<1> HIDE DEF ps, ts
<1>2. /\ M \in Nat
      /\ \A i \in 1 .. M : SetToSeq(ps)[i] \in ps
      /\ \A i, j \in 1 .. M : SetToSeq(ps)[i] = SetToSeq(ps)[j] => i = j
      /\ \A x \in ps : \E i \in 1 .. M : SetToSeq(ps)[i] = x
  BY <1>1, ListOf
<1>3. /\ N \in Nat
      /\ \A i \in 1 .. N : SetToSeq(ts)[i] \in ts
      /\ \A i, j \in 1 .. N : SetToSeq(ts)[i] = SetToSeq(ts)[j] => i = j
      /\ \A x \in ts : \E i \in 1 .. N : SetToSeq(ts)[i] = x
  BY <1>1, ListOf
<1>4. collectTxs(w) = packByCompute(items)
  BY DEF collectTxs, ps, ts
<1> HIDE DEF M, N
<1>5. /\ Len(lines) = M /\ Len(deposits) = N /\ Len(items) = M + N
      /\ \A n \in 1 .. M + N : items[n] = IF n <= M THEN lines[n] ELSE deposits[n - M]
  BY <1>2, <1>3
<1>6. ASSUME NEW n \in 1 .. M + N
      PROVE  /\ n <= M => n \in 1 .. M /\ items[n].ix = SetToSeq(ps)[n]
             /\ ~(n <= M) => n - M \in 1 .. N /\ items[n].ix = SetToSeq(ts)[n - M]
             /\ items[n].units \in Nat /\ BASE_UNITS + items[n].units <= MAX_UNITS
  <2>1. \A t : claimComputeUnits(t) \in {REDEEM_UNITS, CLAIM_EARLY_UNITS}
    BY DEF claimComputeUnits
  <2>2. \A u \in {REDEEM_UNITS, CLAIM_EARLY_UNITS} : u \in Nat /\ BASE_UNITS + u <= MAX_UNITS
    BY TransactionHolds DEF Most
  <2>3. CASE n <= M
    <3>1. n \in 1 .. M /\ items[n] = lines[n]
      BY <1>2, <1>3, <1>5, <2>3
    <3> HIDE DEF items
    <3> QED
      BY <2>2, <2>3, <3>1
  <2>4. CASE ~(n <= M)
    <3>1. n - M \in 1 .. N /\ items[n] = deposits[n - M]
      BY <1>2, <1>3, <1>5, <2>4
    <3> HIDE DEF items
    <3> QED
      BY <2>1, <2>2, <2>4, <3>1
  <2> QED
    BY <2>3, <2>4
<1> HIDE DEF items
<1>7. ASSUME NEW m \in 1 .. M + N, NEW n \in 1 .. M + N, items[m].ix = items[n].ix
      PROVE  m = n
  <2>1. CASE m <= M /\ n <= M
    BY <1>2, <1>6, <1>7, <2>1
  <2>2. CASE ~(m <= M) /\ ~(n <= M)
    <3>1. m - M = n - M
      BY <1>3, <1>6, <1>7, <2>2
    <3> QED
      BY <1>2, <3>1
  <2>3. CASE m <= M /\ ~(n <= M)
    BY <1>1, <1>2, <1>3, <1>6, <1>7, <2>3
  <2>4. CASE ~(m <= M) /\ n <= M
    BY <1>1, <1>2, <1>3, <1>6, <1>7, <2>4
  <2> QED
    BY <2>1, <2>2, <2>3, <2>4
<1>8. {items[n].ix : n \in 1 .. M + N} = ps \union ts
  <2>1. \A n \in 1 .. M + N : items[n].ix \in ps \union ts
    BY <1>2, <1>3, <1>6
  <2>2. ASSUME NEW x \in ps PROVE \E n \in 1 .. M + N : items[n].ix = x
    <3>1. PICK i \in 1 .. M : SetToSeq(ps)[i] = x
      BY <1>2
    <3>2. i \in 1 .. M + N /\ i <= M
      BY <1>2, <1>3
    <3> QED
      BY <1>6, <3>1, <3>2
  <2>3. ASSUME NEW x \in ts PROVE \E n \in 1 .. M + N : items[n].ix = x
    <3>1. PICK i \in 1 .. N : SetToSeq(ts)[i] = x
      BY <1>3
    <3>2. M + i \in 1 .. M + N /\ ~(M + i <= M) /\ (M + i) - M = i
      BY <1>2, <1>3
    <3>3. items[M + i].ix = SetToSeq(ts)[(M + i) - M]
      BY <1>6, <3>2
    <3> QED
      BY <3>1, <3>2, <3>3
  <2> QED
    BY <2>1, <2>2, <2>3
<1>9. LET txs == packByCompute(items)
      IN  /\ \A i \in 1 .. Len(txs) : Len(txs[i].ixs) <= PER_TX /\ txs[i].units <= MAX_UNITS
          /\ {claimAt(txs, q) : q \in Places(txs)} = {items[n].ix : n \in 1 .. Len(items)}
          /\ \A q, r \in Places(txs) : claimAt(txs, q) = claimAt(txs, r) => q = r
  <2>1. Len(items) = M + N /\ Len(items) \in Nat
    BY <1>2, <1>3, <1>5
  <2>2. \A n \in 1 .. Len(items) : /\ items[n].units \in Nat
                                   /\ BASE_UNITS + items[n].units <= MAX_UNITS
    BY <1>6, <2>1
  <2>3. \A m, n \in 1 .. Len(items) : items[m].ix = items[n].ix => m = n
    BY <1>7, <2>1
  <2> QED
    BY <2>1, <2>2, <2>3, PackedOnce
<1>10. Len(items) = M + N
  BY <1>5
<1> QED
  BY <1>4, <1>8, <1>9, <1>10 DEF ps, ts

\* In every reachable state the keeper's step, the app's stages and statements
\* and what Collect sends are right about the round.
THEOREM ClientAgreesHolds == Spec => []ClientAgrees
<1>1. /\ TypeOK /\ Accounts /\ OpeningBell /\ Window /\ BasisExact /\ DepthShared
      /\ ObligationsExact /\ EveryClaimFunded /\ FeePromise /\ Bell
      => ClientAgrees
  BY StepsAreThePrograms, StagesAreThePrograms, StatementsHold, CollectedWhole DEF ClientAgrees
<1> QED
  BY <1>1, TypeCorrect, AccountsCounted, Opening, WindowHolds, BasisIsExact, DepthIsShared,
     ObligationsAreExact, ClaimsAreFunded, FeesArePromised, BellHolds, PTL
=============================================================================
