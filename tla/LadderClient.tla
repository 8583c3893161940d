---------------------------- MODULE LadderClient ----------------------------
(***************************************************************************)
(* A round as the keeper and the app read it: the step the keeper takes    *)
(* next, the stage the app names, what a wallet's lines and deposits are   *)
(* said to be worth, and the transactions one press of Collect sends.      *)
(* All of it is computed outside the program from the accounts as they     *)
(* stand, and each number has to be the one the program will act on.       *)
(*                                                                         *)
(* In this instance every deposit is of a wallet of its own.               *)
(***************************************************************************)
EXTENDS Ladder, SequencesExt

CONSTANTS
  PER_TX, MAX_UNITS, BASE_UNITS,      \* what one collecting transaction holds
  REDEEM_UNITS, CLAIM_EARLY_UNITS     \* what each claim in it costs

ASSUME TransactionHolds ==
  /\ PER_TX \in Nat \ {0} /\ MAX_UNITS \in Nat /\ BASE_UNITS \in Nat
  /\ REDEEM_UNITS \in Nat /\ CLAIM_EARLY_UNITS \in Nat
  /\ BASE_UNITS + Most(REDEEM_UNITS, CLAIM_EARLY_UNITS) <= MAX_UNITS

\* Wallets are finitely many.
ASSUME WalletsApart ==
  /\ IsFiniteSet(Traders) /\ IsFiniteSet(Tranches)
  /\ Tranches \intersect (Traders \union Positions) = {}

-----------------------------------------------------------------------------
(* The keeper's next step, and the app's name for where a round stands.    *)

nextStep ==
  IF status = "Seeding"
  THEN IF now >= opens_at + OPEN_WINDOW \/ now >= locks_at THEN "void"
       ELSE IF now >= opens_at THEN "open" ELSE "none"
  ELSE IF status # "Open" THEN "none"
  ELSE IF now >= SETTLES + VOID_FALLBACK THEN "void"
  ELSE IF now >= SETTLES THEN "settle" ELSE "none"

stageOf ==
  IF Final THEN status
  ELSE IF status = "Seeding"
  THEN IF now < opens_at THEN "funded"
       ELSE IF now < opens_at + OPEN_WINDOW /\ now < locks_at THEN "opening" ELSE "void soon"
  ELSE IF now < locks_at THEN "trading" ELSE IF now < SETTLES THEN "locked" ELSE "settling"

joinable == Running /\ now < locks_at

-----------------------------------------------------------------------------
(* The SDK's arithmetic, as written there.                                 *)

feeBpsAt(base) ==
  LET left == SETTLES - now
      peak == Most(FEE_PEAK_BPS, base)
  IN  IF left >= FEE_RAMP_START THEN base
      ELSE IF left <= FEE_RAMP_END THEN peak
      ELSE base + ((peak - base) * (FEE_RAMP_START - left)) \div (FEE_RAMP_START - FEE_RAMP_END)
feeOn(amount, bps) ==
  LET raw == (amount * bps + 9999) \div 10000 IN Least(Most(raw, 1), amount)

\* What leaves the wallet for a buy, and what arrives for a sale.
quoteBuy(cost) == cost + 1 + feeOn(cost + 1, feeBpsAt(LADDER_FEE_BPS))
quoteSell(cost) ==
  LET amount == IF cost > 0 THEN cost - 1 ELSE 0
  IN  amount - feeOn(amount, feeBpsAt(LADDER_FEE_BPS))

owedTo(p) ==
  IF status = "Settled" THEN shares[p] * level(p[2], settled_bin)
  ELSE IF basis_total > 0 THEN (net_paid[p] * void_trader_pot) \div basis_total ELSE 0

voidShare(claim, pot, claims) == IF claims > 0 THEN (claim * pot) \div claims ELSE 0

liquidityForDeposit(amount, w) == (amount * WAD_SCALAR) \div w
trancheTerms_stored(t) == tdepth[t]
\* A deposit's depth, recomputed from the opening bell for an early one.
trancheTerms(t) ==
  IF tdepth[t] # 0 \/ open_worst = 0 THEN tdepth[t]
  ELSE liquidityForDeposit(deposit[t], open_worst)
trancheFees(t) ==
  ((trancheTerms(t) \div WAD_SCALAR) * (acc_fee - snap[t])) \div FEE_ACC_SCALE

-----------------------------------------------------------------------------
(* A wallet's statement.                                                   *)

Wallets == Traders \union Tranches
Holding(w) == [positions |-> {p \in live : p[1] = w}, tranches |-> tranches \intersect {w}]

\* The lines' and deposits' part of "ready to collect", the principal of a
\* settled deposit left out; what is at work in lines, and in the house.
value(w) ==
  LET h == Holding(w)
  IN  [ready |-> IF ~Final THEN 0
                 ELSE SumOver(h.positions, [p \in h.positions |-> owedTo(p)])
                    + SumOver(h.tranches, [t \in h.tranches |->
                        IF status = "Settled" THEN trancheFees(t)
                        ELSE voidShare(deposit[t], void_lp_pot, deposit_total)]),
       atWork  |-> IF Final THEN 0 ELSE SumOver(h.positions, net_paid),
       inHouse |-> IF Final THEN 0 ELSE SumOver(h.tranches, deposit)]

\* A depositor's share of the house as the panel draws it, of the depth of an
\* open round and of the money in a seeding one, and the whole it is part of.
houseShare(w) ==
  LET mine == Holding(w).tranches
  IN  IF status = "Seeding" THEN SumOver(mine, deposit)
      ELSE SumOver(mine, [t \in mine |-> trancheTerms(t)])
houseWhole == IF status = "Seeding" THEN deposit_total ELSE depth

-----------------------------------------------------------------------------
(* Collecting.                                                             *)

claimComputeUnits(t) ==
  IF tdepth[t] = 0 /\ open_worst # 0 THEN CLAIM_EARLY_UNITS ELSE REDEEM_UNITS

\* The next claim goes into the last transaction while it has room, else into
\* a new one.
Pack(out, it) ==
  IF out # <<>> /\ Len(out[Len(out)].ixs) < PER_TX
                /\ out[Len(out)].units + it.units <= MAX_UNITS
  THEN [out EXCEPT ![Len(out)] = [ixs |-> Append(@.ixs, it.ix), units |-> @.units + it.units]]
  ELSE Append(out, [ixs |-> <<it.ix>>, units |-> BASE_UNITS + it.units])

packByCompute(items) ==
  LET packed[n \in 0 .. Len(items)] == IF n = 0 THEN <<>> ELSE Pack(packed[n - 1], items[n])
  IN  packed[Len(items)]

\* Every line redeemed, then every deposit claimed.
collectTxs(w) ==
  LET h == Holding(w)
  IN  packByCompute(
        [i \in 1 .. Cardinality(h.positions) |->
           [ix |-> SetToSeq(h.positions)[i], units |-> REDEEM_UNITS]]
        \o [i \in 1 .. Cardinality(h.tranches) |->
           [ix |-> SetToSeq(h.tranches)[i], units |-> claimComputeUnits(SetToSeq(h.tranches)[i])]])

\* The wallets for which Collect all has this round to collect.
collectPlan == {w \in Wallets : Final /\ Holding(w).positions \union Holding(w).tranches # {}}

-----------------------------------------------------------------------------
\* The keeper takes a step when and only when the program has one to take.
StepsMatch ==
  /\ nextStep = "open" <=> InOpenWindow
  /\ nextStep = "void" <=> NeverOpened \/ NeverSettled(FALSE)
  /\ nextStep = "settle" <=> NeverSettled(TRUE) /\ ~NeverSettled(FALSE)

\* What a deposit gets back if the round is voided as it stands.
refundNow(t) ==
  LET pot == void_lp_part(cash + fees_lp + fees_protocol, deposit_total, basis_total)
  IN  voidShare(deposit[t], pot, deposit_total)

\* What the app says a round is at, and offers there, is what the program takes.
\* Deposits are offered, and taken, up to the lock: also into a round too late to
\* open, which only waits to be voided.  Those come back whole.
StagesMatch ==
  /\ Tradeable <=> status # "None" /\ stageOf = "trading"
  /\ NeverOpened <=> status # "None" /\ stageOf = "void soon"
  /\ joinable /\ nextStep = "void" => \A t \in tranches : refundNow(t) = deposit[t]

\* A statement adds up to money that exists: what everyone is told is ready is
\* in the vault, each line at what redeeming it pays; what is at work and in
\* the house is what a void would share out; shares of the house are of a whole.
StatementsAddUp ==
  LET total(field) == SumOver(Wallets, [w \in Wallets |-> value(w)[field]])
      fee(a) == fee_on(a, fee_bps_at(SETTLES - now))
  IN  /\ total("ready") <= vault
      /\ Final => \A p \in live : owedTo(p) = redemption(p)
      /\ status = "Void" => \A t \in tranches : refund(t) = value(t).ready
      /\ status = "Settled" => \A t \in tranches : earned(t) = value(t).ready
      /\ Running => total("atWork") = basis_total /\ total("inHouse") = deposit_total
      /\ Running => SumOver(Wallets, [w \in Wallets |-> houseShare(w)]) <= houseWhole
      /\ Tradeable => \A c \in Costs : /\ quoteBuy(c) = c + 1 + fee(c + 1)
                                       /\ quoteSell(c) = sale_proceeds(c) - fee(sale_proceeds(c))

\* Where claims are in a list of transactions, and the claim at a place.
Places(txs) == {q \in (1 .. Len(txs)) \X (1 .. PER_TX) : q[2] <= Len(txs[q[1]].ixs)}
claimAt(txs, q) == txs[q[1]].ixs[q[2]]

\* One press of Collect leaves nothing behind: every line and every deposit of the
\* wallet is claimed once, in transactions that fit.
CollectsEverything ==
  \A w \in collectPlan :
    LET txs == collectTxs(w)
    IN  /\ \A i \in 1 .. Len(txs) : Len(txs[i].ixs) <= PER_TX /\ txs[i].units <= MAX_UNITS
        /\ {claimAt(txs, q) : q \in Places(txs)} = Holding(w).positions \union Holding(w).tranches
        /\ \A q, r \in Places(txs) : claimAt(txs, q) = claimAt(txs, r) => q = r

\* Everyone outside the program reads a round as the program does.
ClientAgrees == StepsMatch /\ StagesMatch /\ StatementsAddUp /\ CollectsEverything
=============================================================================
