------------------------------- MODULE Ladder -------------------------------
(***************************************************************************)
(* One round of a series, from the instruction that starts it to the one   *)
(* that closes its account: the day whose close is SETTLES, funded through *)
(* a vault of its own.  Every instruction is one atomic action.            *)
(*                                                                         *)
(* The scoring rule is abstracted to what the books see of it: a trade is  *)
(* quoted SOME cost up to the most its shares can pay, and moves the       *)
(* cheapest bin's price (`worst`, ln(1/p_min) in whole units) to SOME      *)
(* value.  The program itself does not trust the rule either: it compares  *)
(* cash with the payout table after every trade.  What holds here holds    *)
(* whatever the curve says.                                                *)
(*                                                                         *)
(* Prices are abstracted to their verdicts: some acceptable price opens    *)
(* the round or lands in some bin (open_handler, settle_handler), or the   *)
(* one update for the close is shown to be unfit (void_handler with a      *)
(* proof).  So is the series: active and caught up whenever it need be.    *)
(***************************************************************************)
EXTENDS LadderRules, FiniteSets, Functions

CONSTANTS
  Traders,          \* wallets that trade
  Lines,            \* shapes they trade: records [lo, hi, h]
  Tranches,         \* deposit accounts: (owner, index) in the program
  SETTLES,          \* the round's close, settles_at
  MIN_ROUND,        \* a round is started this long before its close, at least
  MAX_LEAD,         \* and at most this long
  OPEN_ON_TIME, OPEN_WINDOW,   \* from opens_at: on time, and openable at all
  VOID_FALLBACK,    \* an opened round voids without proof this long after
  CLAIM_GRACE,      \* anyone may pay out others' claims this long after
  ONE_TOKEN,        \* the least deposit
  Deposits, Sizes, Costs, Worsts,  \* the inputs tried, all finite
  Results,          \* a tranche's deposit and its profit or loss, as tried
  PauseValues,      \* what the authority may set `paused` to
  MAX_NOW,          \* bound on the clock
  MAX_TRADES        \* bound on curve_seq

Positions == Traders \X Lines

ASSUME LadderConstants ==
  /\ SETTLES \in Nat /\ MIN_ROUND \in Nat /\ MAX_LEAD \in Nat
  /\ OPEN_DELAY + LOCK_GAP_MIN < MIN_ROUND
  /\ LOCK_GAP_MIN < ROUND_SECS /\ ROUND_SECS <= SETTLES
  /\ OPEN_ON_TIME \in Nat /\ OPEN_WINDOW \in Nat
  /\ VOID_FALLBACK \in Nat /\ CLAIM_GRACE \in Nat
  /\ ONE_TOKEN \in Nat \ {0}
  /\ Deposits \subseteq Nat /\ Sizes \subseteq Nat \ {0} /\ Costs \subseteq Nat
  /\ Worsts \subseteq Nat \ {0} /\ Worsts # {}
  /\ Lines \subseteq [lo : Int, hi : Int, h : Nat \ {0}]
  /\ Results \subseteq Nat /\ PauseValues \subseteq BOOLEAN
  /\ MAX_NOW \in Nat /\ MAX_TRADES \in Nat

VARIABLES
  now,              \* the cluster clock
  paused,           \* ProtocolConfig::paused
  status,           \* "None" while the account does not exist
  started,          \* history: this day's round has been started before
  opens_at, locks_at,
  depth,            \* b, the liquidity of all tranches, in fixed point
  worst,            \* ln(1/p_min) of the current curve
  open_worst,       \* the same of the opening bell (var_bands_e9); 0 before
  curve_seq, acc_fee,
  cash, deposit_total, basis_total,
  payout,           \* owed in total if bin i settles
  fees_lp, fees_protocol,
  settled_bin,      \* -1 is NO_BIN
  lp_pool, void_lp_pot, void_trader_pot,
  live,             \* position accounts that exist
  shares, net_paid, \* their fields; zero where no account exists
  open_positions,
  tranches,         \* tranche accounts that exist
  deposit, tdepth, snap,   \* their deposit, b and fee_snap
  open_tranches,
  vault             \* what the round's token account holds

clockVars    == <<now, paused>>
scheduleVars == <<opens_at, locks_at, started>>
curveVars    == <<depth, worst, open_worst, curve_seq, acc_fee>>
bookVars     == <<cash, deposit_total, basis_total, payout, fees_lp, fees_protocol>>
potVars      == <<settled_bin, lp_pool, void_lp_pot, void_trader_pot>>
positionVars == <<live, shares, net_paid, open_positions>>
trancheVars  == <<tranches, deposit, tdepth, snap, open_tranches>>
vars == <<clockVars, status, scheduleVars, curveVars, bookVars, potVars,
          positionVars, trancheVars, vault>>

Final == status \in {"Settled", "Void"}

Init ==
  /\ now = 0 /\ paused = FALSE
  /\ status = "None" /\ started = FALSE
  /\ opens_at = 0 /\ locks_at = 0
  /\ depth = 0 /\ worst = 1 /\ open_worst = 0
  /\ curve_seq = 0 /\ acc_fee = 0
  /\ cash = 0 /\ deposit_total = 0 /\ basis_total = 0
  /\ payout = [i \in Bins |-> 0]
  /\ fees_lp = 0 /\ fees_protocol = 0
  /\ settled_bin = -1 /\ lp_pool = 0 /\ void_lp_pot = 0 /\ void_trader_pot = 0
  /\ live = {} /\ open_positions = 0
  /\ shares = [p \in Positions |-> 0] /\ net_paid = [p \in Positions |-> 0]
  /\ tranches = {} /\ open_tranches = 0
  /\ deposit = [t \in Tranches |-> 0] /\ tdepth = [t \in Tranches |-> 0]
  /\ snap = [t \in Tranches |-> 0]
  /\ vault = 0

-----------------------------------------------------------------------------
(* The world around the program.                                           *)

Tick ==
  /\ now < MAX_NOW
  /\ now' = now + 1
  /\ UNCHANGED <<paused, status, scheduleVars, curveVars, bookVars, potVars,
                 positionVars, trancheVars, vault>>

\* The protocol's authority stops or restarts new money coming in.
SetPaused ==
  /\ paused' \in PauseValues \ {paused}
  /\ UNCHANGED <<now, status, scheduleVars, curveVars, bookVars, potVars,
                 positionVars, trancheVars, vault>>

-----------------------------------------------------------------------------
(* Starting, funding and opening a round.                                  *)

\* Anyone starts the day's round with the first deposit.  The account's
\* address is the day, so it can be started only while none exists.
Create(t, amount) ==
  /\ status = "None" /\ ~paused
  /\ now + MIN_ROUND <= SETTLES /\ SETTLES <= now + MAX_LEAD
  /\ amount >= ONE_TOKEN
  /\ status' = "Seeding" /\ started' = TRUE
  /\ opens_at' = opens_for(now, SETTLES) /\ locks_at' = locks_for(now, SETTLES)
  /\ depth' = 0 /\ worst' = 1 /\ open_worst' = 0 /\ curve_seq' = 0 /\ acc_fee' = 0
  /\ cash' = amount /\ deposit_total' = amount /\ basis_total' = 0
  /\ payout' = [i \in Bins |-> 0]
  /\ fees_lp' = 0 /\ fees_protocol' = 0
  /\ settled_bin' = -1
  /\ lp_pool' = 0 /\ void_lp_pot' = 0 /\ void_trader_pot' = 0
  /\ tranches' = {t} /\ open_tranches' = 1
  /\ deposit' = [deposit EXCEPT ![t] = amount]
  /\ tdepth' = [tdepth EXCEPT ![t] = 0] /\ snap' = [snap EXCEPT ![t] = 0]
  /\ vault' = amount
  /\ UNCHANGED <<clockVars, positionVars>>

\* The depth a deposit buys when the cheapest bin's ln(1/p) is w, in the curve's
\* fixed-point unit; and a depth in whole units of the quote, which is what fees
\* are counted against.
liquidity_for_deposit(amount, w) == (amount * WAD_SCALAR) \div w
b_units(b) == b \div WAD_SCALAR

\* A tranche's depth: stored for a late deposit, recomputed from its size and
\* the opening bell for one made before open.
tranche_depth_now(t) ==
  IF tdepth[t] # 0 \/ open_worst = 0
  THEN tdepth[t]
  ELSE liquidity_for_deposit(deposit[t], worst)
tranche_depth(t) ==
  IF tdepth[t] # 0 \/ open_worst = 0
  THEN tdepth[t]
  ELSE liquidity_for_deposit(deposit[t], open_worst)

\* The fee accumulator a tranche starts counting from: a late deposit earns
\* nothing of what was traded before it.
snap_at_start(early) == 0
snap_at_join(early) == IF early THEN 0 ELSE acc_fee

BookCashOnly(amount) ==
  cash' = cash + amount /\ deposit_total' = deposit_total
BookDeposit(amount) ==
  cash' = cash + amount /\ deposit_total' = deposit_total + amount

\* Price a deposit against the curve as it stands, and book it.
Join(t, amount) ==
  LET early == status = "Seeding" /\ depth = 0
      b     == IF early THEN 0 ELSE liquidity_for_deposit(amount, worst)
  IN  /\ early \/ b > 0
      /\ tdepth' = [tdepth EXCEPT ![t] = b]
      /\ snap'   = [snap EXCEPT ![t] = snap_at_join(early)]
      /\ depth'  = depth + b
      /\ deposit' = [deposit EXCEPT ![t] = amount]
      /\ BookDeposit(amount)

\* Add liquidity.  The curve_seq a caller names must be the current one:
\* callers that name another fail and change nothing, so they are left out.
LpJoin(t, amount) ==
  /\ status \in {"Seeding", "Open"} /\ now < locks_at /\ ~paused
  /\ t \notin tranches
  /\ amount >= ONE_TOKEN
  /\ Join(t, amount)
  /\ tranches' = tranches \union {t}
  /\ open_tranches' = open_tranches + 1
  /\ vault' = vault + amount
  /\ UNCHANGED <<clockVars, status, scheduleVars, worst, open_worst, curve_seq,
                 acc_fee, basis_total, payout, fees_lp, fees_protocol, potVars,
                 positionVars>>

\* The window a seeding round may open in, and the void that takes over when
\* it has passed.
InOpenWindow ==
  /\ status = "Seeding"
  /\ opens_at <= now /\ now < opens_at + OPEN_WINDOW /\ now < locks_at
NeverOpened ==
  /\ status = "Seeding"
  /\ now >= opens_at + OPEN_WINDOW \/ now >= locks_at

\* Open: on time at opens_at, late at this moment.  The prior's cheapest bin
\* prices every deposit made so far at once.
Open(w) ==
  /\ InOpenWindow
  /\ opens_at' = IF now < opens_at + OPEN_ON_TIME THEN opens_at ELSE now
  /\ IF depth = 0
     THEN /\ worst' = w /\ open_worst' = w
          /\ depth' = liquidity_for_deposit(deposit_total, w)
     ELSE UNCHANGED <<worst, open_worst, depth>>
  /\ depth' > 0
  /\ status' = "Open"
  /\ UNCHANGED <<clockVars, locks_at, started, curve_seq, acc_fee, bookVars,
                 potVars, positionVars, trancheVars, vault>>

-----------------------------------------------------------------------------
(* Trading.                                                                *)

Tradeable == status = "Open" /\ opens_at <= now /\ now < locks_at

\* What n shares of a line owe in bin i.
owed_flat(line, n, i) == IF level(line, i) > 0 THEN n ELSE 0
owed_by(line, n, i) == n * level(line, i)

\* A trade's mark on the curve and the fee books.
BookFee(fee) ==
  /\ acc_fee' = acc_fee + fee_accrual(lp_part(fee), b_units(depth))
  /\ fees_lp' = fees_lp + lp_part(fee)
  /\ fees_protocol' = fees_protocol + protocol_part(fee)
  /\ curve_seq' = curve_seq + 1
  /\ worst' \in Worsts

\* The first touch of a line by a wallet counts a new position account.
count_every_buy(p) == open_positions + 1
count_first_buy(p) == IF p \in live THEN open_positions ELSE open_positions + 1

\* Buy n shares of p's line at a cost the curve quotes, plus one unit.  The
\* first buy creates the position's account.
Buy(p, n, cost) ==
  LET line  == p[2]
      pay   == cost + 1
      fee   == fee_on(pay, fee_bps_at(SETTLES - now))
      total == pay + fee
  IN  /\ ~paused /\ Tradeable
      /\ curve_seq < MAX_TRADES
      /\ 0 < cost /\ cost <= n * line.h
      /\ payout' = [i \in Bins |-> payout[i] + owed_by(line, n, i)]
      /\ cash' = cash + pay
      /\ \A i \in Bins : payout'[i] <= cash'
      /\ BookFee(fee)
      /\ live' = live \union {p}
      /\ open_positions' = count_first_buy(p)
      /\ shares'   = [shares EXCEPT ![p] = @ + n]
      /\ net_paid' = [net_paid EXCEPT ![p] = @ + total]
      /\ basis_total' = basis_total + total
      /\ vault' = vault + total
      /\ UNCHANGED <<clockVars, status, scheduleVars, depth, open_worst,
                     deposit_total, potVars, trancheVars>>

\* Sell n held shares for what the curve quotes, less one unit and the fee.
\* The basis is released at the shares held before the sale.
Sell(p, n, cost) ==
  LET line     == p[2]
      got      == sale_proceeds(cost)
      fee      == fee_on(got, fee_bps_at(SETTLES - now))
      released == basis_released(net_paid[p], n, shares[p])
  IN  /\ ~paused /\ Tradeable
      /\ curve_seq < MAX_TRADES
      /\ n <= shares[p]
      /\ 0 <= cost /\ cost <= n * line.h
      /\ \A i \in Bins : owed_by(line, n, i) <= payout[i]
      /\ payout' = [i \in Bins |-> payout[i] - owed_by(line, n, i)]
      /\ got <= cash /\ cash' = cash - got
      /\ \A i \in Bins : payout'[i] <= cash'
      /\ BookFee(fee)
      /\ shares'   = [shares EXCEPT ![p] = @ - n]
      /\ net_paid' = [net_paid EXCEPT ![p] = @ - released]
      /\ released <= basis_total /\ basis_total' = basis_total - released
      /\ got - fee <= vault /\ vault' = vault - (got - fee)
      /\ UNCHANGED <<clockVars, status, scheduleVars, depth, open_worst,
                     deposit_total, potVars, live, open_positions, trancheVars>>

-----------------------------------------------------------------------------
(* The two endings.                                                        *)

\* Settle in the bin the close's price fell in: winners' money is reserved in
\* cash, the rest becomes the depositors' pool, the settler gets the bounty.
Settle(bin) ==
  LET bounty == settle_bounty(fees_protocol)
  IN  /\ status = "Open" /\ now >= SETTLES
      /\ payout[bin] <= cash
      /\ lp_pool' = cash - payout[bin] /\ cash' = payout[bin]
      /\ settled_bin' = bin /\ status' = "Settled"
      /\ fees_protocol' = fees_protocol - bounty
      /\ bounty <= vault /\ vault' = vault - bounty
      /\ UNCHANGED <<clockVars, scheduleVars, curveVars, deposit_total,
                     basis_total, payout, fees_lp, void_lp_pot, void_trader_pot,
                     positionVars, trancheVars>>

\* An opened round that cannot settle: its close's one update is shown to be
\* unfit (proof), or it has waited out the fallback.
NeverSettledProven(proof) == status = "Open" /\ now >= SETTLES /\ proof
NeverSettled(proof) ==
  /\ status = "Open" /\ now >= SETTLES
  /\ proof \/ now >= SETTLES + VOID_FALLBACK

\* Give up on a round that cannot finish: every fee goes back into
\* the pot, and the depositors' part is taken out of it first.
Void(proof) ==
  LET refundable == cash + fees_lp + fees_protocol
      lp_pot     == void_lp_part(refundable, deposit_total, basis_total)
  IN  /\ NeverOpened \/ NeverSettled(proof)
      /\ void_lp_pot' = lp_pot /\ void_trader_pot' = refundable - lp_pot
      /\ fees_lp' = 0 /\ fees_protocol' = 0
      /\ status' = "Void"
      /\ UNCHANGED <<clockVars, scheduleVars, curveVars, cash, deposit_total,
                     basis_total, payout, settled_bin, lp_pool, positionVars,
                     trancheVars, vault>>

-----------------------------------------------------------------------------
(* Paying out and clearing up.                                             *)

\* The owner at any time, anyone else once the grace period is over.
may_collect_own(caller) == caller = "owner"
may_collect(caller) == caller = "owner" \/ now >= SETTLES + CLAIM_GRACE

redemption(p) ==
  IF status = "Settled"
  THEN owed_by(p[2], shares[p], settled_bin)
  ELSE void_share(net_paid[p], void_trader_pot, basis_total)

ClosePosition(p) ==
  /\ live' = live \ {p}
  /\ open_positions' = SatSub(open_positions, 1)
  /\ shares'   = [shares EXCEPT ![p] = 0]
  /\ net_paid' = [net_paid EXCEPT ![p] = 0]

Redeem(p, caller) ==
  LET owed == redemption(p)
  IN  /\ Final /\ p \in live /\ may_collect(caller)
      /\ IF status = "Settled"
         THEN /\ owed <= payout[settled_bin] /\ owed <= cash
              /\ payout' = [payout EXCEPT ![settled_bin] = @ - owed]
              /\ cash' = cash - owed
         ELSE UNCHANGED <<payout, cash>>
      /\ owed <= vault /\ vault' = vault - owed
      /\ ClosePosition(p)
      /\ UNCHANGED <<clockVars, status, scheduleVars, curveVars, deposit_total,
                     basis_total, fees_lp, fees_protocol, potVars, trancheVars>>

\* Anyone clears a position that is owed nothing.
Sweep(p) ==
  /\ Final /\ p \in live /\ redemption(p) = 0
  /\ ClosePosition(p)
  /\ UNCHANGED <<clockVars, status, scheduleVars, curveVars, bookVars, potVars,
                 trancheVars, vault>>

\* A draw on a pot that only shrinks: a rounding surplus is absorbed here.
draw(owed, pot) == Least(owed, pot)

\* Take what a finished round owes one tranche off its books: principal and
\* fees from pots that only shrink, or its share of a void.  The principal is
\* the deposit and its profit or loss at the settled bin, `result`, which the
\* abstract curve leaves open.
ClaimLp(t, caller, result) ==
  LET principal == draw(result, lp_pool)
      fees      == draw(tranche_fees(b_units(tranche_depth(t)), acc_fee, snap[t]), fees_lp)
      owed      == IF status = "Settled" THEN principal + fees
                   ELSE void_share(deposit[t], void_lp_pot, deposit_total)
  IN  /\ Final /\ t \in tranches /\ may_collect(caller)
      /\ IF status = "Settled"
         THEN /\ snap[t] <= acc_fee
              /\ lp_pool' = lp_pool - principal /\ fees_lp' = fees_lp - fees
         ELSE UNCHANGED <<lp_pool, fees_lp>>
      /\ owed <= vault /\ vault' = vault - owed
      /\ tranches' = tranches \ {t}
      /\ open_tranches' = SatSub(open_tranches, 1)
      /\ deposit' = [deposit EXCEPT ![t] = 0]
      /\ tdepth' = [tdepth EXCEPT ![t] = 0] /\ snap' = [snap EXCEPT ![t] = 0]
      /\ UNCHANGED <<clockVars, status, scheduleVars, curveVars, cash,
                     deposit_total, basis_total, payout, fees_protocol,
                     settled_bin, void_lp_pot, void_trader_pot, positionVars>>

\* The treasury's share, only out of a settled round.
CollectFees ==
  /\ status = "Settled" /\ fees_protocol > 0
  /\ fees_protocol <= vault /\ vault' = vault - fees_protocol
  /\ fees_protocol' = 0
  /\ UNCHANGED <<clockVars, status, scheduleVars, curveVars, cash, deposit_total,
                 basis_total, payout, fees_lp, potVars, positionVars, trancheVars>>

\* Close a finished round with nothing left to pay, not before the day's close.
\* The dust goes to the treasury; the account's bytes go with it, and nothing
\* reads them while the status is "None".
ClosableAnytime ==
  Final /\ open_positions = 0 /\ open_tranches = 0 /\ fees_protocol = 0
Closable ==
  /\ Final /\ now >= SETTLES
  /\ open_positions = 0 /\ open_tranches = 0 /\ fees_protocol = 0
Close ==
  /\ Closable
  /\ status' = "None" /\ vault' = 0
  /\ UNCHANGED <<clockVars, scheduleVars, curveVars, bookVars, potVars,
                 positionVars, trancheVars>>

-----------------------------------------------------------------------------
Callers == {"owner", "other"}

Next ==
  \/ Tick
  \/ SetPaused
  \/ \E t \in Tranches, amount \in Deposits : Create(t, amount)
  \/ \E t \in Tranches, amount \in Deposits : LpJoin(t, amount)
  \/ \E w \in Worsts : Open(w)
  \/ \E p \in Positions, n \in Sizes, cost \in Costs : Buy(p, n, cost)
  \/ \E p \in Positions, n \in Sizes, cost \in Costs : Sell(p, n, cost)
  \/ \E bin \in Bins : Settle(bin)
  \/ \E proof \in BOOLEAN : Void(proof)
  \/ \E p \in Positions, caller \in Callers : Redeem(p, caller)
  \/ \E p \in Positions : Sweep(p)
  \/ \E t \in Tranches, caller \in Callers, result \in Results :
        ClaimLp(t, caller, result)
  \/ CollectFees
  \/ Close

\* Nobody is obliged to trade, open, settle or come for their money.  What the
\* program promises rests on anyone (the keeper, in practice) running the
\* instructions open to anyone: void without a proof, clear up, close, and pay
\* the absent after the grace period.
Fairness ==
  /\ WF_vars(Tick)
  /\ WF_vars(Void(FALSE))
  /\ \A p \in Positions : WF_vars(Redeem(p, "other"))
  /\ \A t \in Tranches : WF_vars(\E result \in Results : ClaimLp(t, "other", result))
  /\ WF_vars(CollectFees)
  /\ WF_vars(Close)

Spec == Init /\ [][Next]_vars
FairSpec == Spec /\ Fairness

-----------------------------------------------------------------------------
(* What the books promise.                                                 *)

TypeOK ==
  /\ now \in Nat /\ paused \in BOOLEAN /\ started \in BOOLEAN
  /\ status \in {"None", "Seeding", "Open", "Settled", "Void"}
  /\ opens_at \in Nat /\ locks_at \in Nat
  /\ depth \in Nat /\ worst \in Nat \ {0} /\ open_worst \in Nat
  /\ curve_seq \in Nat /\ acc_fee \in Nat
  /\ cash \in Nat /\ deposit_total \in Nat /\ basis_total \in Nat
  /\ payout \in [Bins -> Nat]
  /\ fees_lp \in Nat /\ fees_protocol \in Nat
  /\ settled_bin \in Bins \union {-1}
  /\ lp_pool \in Nat /\ void_lp_pot \in Nat /\ void_trader_pot \in Nat
  /\ live \subseteq Positions /\ open_positions \in Nat
  /\ shares \in [Positions -> Nat] /\ net_paid \in [Positions -> Nat]
  /\ tranches \subseteq Tranches /\ open_tranches \in Nat
  /\ deposit \in [Tranches -> Nat] /\ tdepth \in [Tranches -> Nat]
  /\ snap \in [Tranches -> Nat]
  /\ vault \in Nat

SumOver(S, f) == SumFunctionOnSet(f, S)

\* What every position together is owed in bin i, and what a finished round
\* still owes to positions and deposits.
owed_in(i)    == SumOver(live, [p \in live |-> shares[p] * level(p[2], i)])
traders_owed  == SumOver(live, [p \in live |-> redemption(p)])
refund(t)     == void_share(deposit[t], void_lp_pot, deposit_total)
refunds_owed  == SumOver(tranches, [t \in tranches |-> refund(t)])
earned(t)     == tranche_fees(b_units(tranche_depth(t)), acc_fee, snap[t])
fees_promised == SumOver(tranches, [t \in tranches |-> earned(t)])

Running == status \in {"Seeding", "Open"}

\* The payout table is exactly what every holder together would be owed in
\* each bin, through any mix of buys and sells of overlapping lines; and once
\* settled the reserved cash is exactly what the winners still hold, so no
\* order of redemptions can meet an empty pot or a failed subtraction.
ObligationsExact ==
  /\ Running => \A i \in Bins : payout[i] = owed_in(i)
  /\ status = "Settled" => cash = owed_in(settled_bin) /\ payout[settled_bin] = cash

\* The void's denominators are what the holders and depositors put in: exact
\* while money moves, and never less than what is left to claim afterwards.
BasisExact ==
  LET basis    == SumOver(live, net_paid)
      deposits == SumOver(tranches, deposit)
  IN  /\ Running => basis_total = basis /\ deposit_total = deposits
      /\ status = "Void" => basis_total >= basis /\ deposit_total >= deposits

\* The token account holds, at every moment, enough for everyone still owed,
\* whoever comes first: in a void every floored share of both pots; in a
\* settled round the winners, the depositors' pool and the fees.
EveryClaimFunded ==
  /\ Running => vault = cash + fees_lp + fees_protocol
  /\ status = "Settled" => vault = cash + lp_pool + fees_lp + fees_protocol
  /\ status = "Void" => vault >= traders_owed + refunds_owed

\* No payment is ever refused by one of the program's own checks: every checked
\* subtraction an exit makes (a sale's, a settlement's, a redemption's, a
\* deposit's) succeeds in whatever order the exits come.  A refusal here would
\* hold somebody's money for good.  Whether a sale leaves the round solvent at
\* the price the curve asks is the sale's own guard, and no part of this.
NoExitRefused ==
  /\ Running =>
       /\ \A p \in live : /\ net_paid[p] <= basis_total
                         /\ \A i \in Bins : owed_by(p[2], shares[p], i) <= payout[i]
       /\ settle_bounty(fees_protocol) <= vault /\ \A i \in Bins : payout[i] <= cash
  /\ Final => \A p \in live : redemption(p) <= vault
  /\ status = "Void" => \A t \in tranches : refund(t) <= vault
  /\ status = "Settled" =>
       /\ \A p \in live : redemption(p) <= cash /\ redemption(p) <= payout[settled_bin]
       /\ \A t \in tranches : snap[t] <= acc_fee
       /\ lp_pool + fees_lp <= vault /\ fees_protocol <= vault

\* No trader is refunded anything by a void unless every depositor is whole:
\* gains taken out by sellers before it are worn by the traders who stayed.
DepositorsFirst ==
  (status = "Void" /\ \E p \in live : redemption(p) > 0) =>
    \A t \in tranches : refund(t) >= deposit[t]

\* The per-depth accumulator never promises depositors more fees than were
\* collected for them, joins after trades and depths recomputed from the
\* opening bell included.
FeePromise ==
  status \in {"Open", "Settled"} => fees_promised <= fees_lp

\* A position sold down to nothing keeps no cost basis: otherwise a void would
\* refund an exit that was already paid, and nobody could sweep it.
SoldOutOwedNothing == \A p \in Positions : shares[p] = 0 => net_paid[p] = 0

\* The counters that gate closing agree with the accounts that exist, and a
\* round's account never goes while someone is still owed through it.
CountsExact ==
  /\ open_positions = Cardinality(live)
  /\ open_tranches = Cardinality(tranches)
  /\ status = "None" => live = {} /\ tranches = {}

\* A day is offered once.  A round voided early keeps its address until its
\* close, so the same day cannot be started again on other terms.
OneRoundPerDay ==
  [][status = "None" /\ status' # "None" => ~started]_vars

\* A round that took a deposit ends, settled or void, even if nobody ever
\* opens it, no price ever comes and the protocol stays paused.
RoundEnds == status \in {"Seeding", "Open"} ~> Final

\* And then everyone is paid and the account goes, with no owner's help: one
\* absent winner cannot keep a finished round open forever.
EveryonePaidOut == Final ~> status = "None" /\ vault = 0

-----------------------------------------------------------------------------
(* The facts the promises rest on: with them, what the books promise is    *)
(* preserved by every action.                                              *)

\* Finitely many accounts; no shares and no basis without one.
Accounts ==
  /\ IsFiniteSet(live) /\ IsFiniteSet(tranches)
  /\ \A p \in Positions \ live : shares[p] = 0 /\ net_paid[p] = 0

\* No bin owes more than the cash behind it, and a settled bin is a bin.
Solvent ==
  /\ Running => \A i \in Bins : payout[i] <= cash
  /\ status = "Settled" => settled_bin \in Bins

\* A round that has not opened has no depth, no fees and no positions; one
\* that has knows the price its early deposits are recomputed at.
OpeningBell ==
  /\ status = "Seeding" =>
       /\ live = {} /\ depth = 0 /\ open_worst = 0 /\ acc_fee = 0
       /\ \A t \in tranches : tdepth[t] = 0
  /\ status = "Open" => open_worst # 0
  /\ status \in {"Seeding", "Open", "Settled"} => \A t \in tranches : snap[t] <= acc_fee

\* Depth credited to deposits is depth the fees were divided by, and before
\* any floor the accumulator has promised no more than was collected.
DepthShared ==
  Running => SumOver(tranches, [t \in tranches |-> tranche_depth(t)]) <= depth
FeesEarned ==
  Running =>
    SumOver(tranches, [t \in tranches |-> b_units(tranche_depth(t)) * (acc_fee - snap[t])])
      <= FEE_ACC_SCALE * fees_lp

\* Traders have a pot only when the depositors' pot is all they put in.
VoidOrder ==
  status = "Void" /\ void_trader_pot > 0 => void_lp_pot = deposit_total

\* A day whose account is gone is over.
DayOver == started /\ status = "None" => now >= SETTLES

\* Trading stops before the close, with the least gap at the least.
Window == Running => opens_at < locks_at /\ locks_at + LOCK_GAP_MIN <= SETTLES

\* Together they are the strengthening the proofs use.
BooksInv ==
  /\ Accounts /\ Solvent /\ OpeningBell /\ DepthShared /\ FeesEarned
  /\ VoidOrder /\ DayOver /\ Window
=============================================================================
