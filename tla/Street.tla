------------------------------- MODULE Street -------------------------------
(***************************************************************************)
(* A house and the rounds of its series together.  The rounds the house    *)
(* starts keep their money in its own token account, a day or more after   *)
(* it has taken its part home; a round anybody else starts has an account  *)
(* of its own.  No instruction checks an account against all the books     *)
(* behind it: each pays what its own books say.                            *)
(*                                                                         *)
(* House's actions are taken whole; Ladder's are cut down to one line that *)
(* pays one unit a share in the bins it covers, with the curve abstracted  *)
(* as there and the clock to days: a round of day d closes as d ends.      *)
(***************************************************************************)
EXTENDS House, LadderRules

CONSTANTS
  Traders,
  MAX_DAY,             \* bound on the clock
  Sizes, Costs,        \* trades tried
  MAX_TRADES           \* bound on the trades in all rounds standing

ASSUME StreetConstants ==
  /\ IsFiniteSet(Traders) /\ MAX_DAY \in Nat /\ MAX_TRADES \in Nat
  /\ Sizes \subseteq Nat \ {0} /\ Costs \subseteq Nat

Days == 0 .. MAX_DAY - 1      \* a day that is tried out ends within the bound
\* Token accounts are named by the day of the round they are made for; the
\* house's is no day's.
Shared == -1
NoDay == -1

VARIABLES
  today,
  round,               \* the Ladder account of each day, and its tranche
  current,             \* House::round, as a day
  tokens               \* what each token account holds

streetVars == <<today, round, current, tokens>>

NoRound ==
  [status |-> "None", shared |-> FALSE, trades |-> 0,
   cash |-> 0, payout |-> 0, deposit |-> 0, basis |-> 0,
   fees_lp |-> 0, fees_protocol |-> 0, hit |-> FALSE,
   lp_pool |-> 0, lp_pot |-> 0, trader_pot |-> 0, tranche |-> FALSE,
   live |-> {}, held |-> [u \in Traders |-> 0], paid |-> [u \in Traders |-> 0]]

\* A round of the house's keeps its money in the house's account.
vault_of(d) == IF round[d].shared THEN Shared ELSE d

Pay(v, amount) ==
  /\ amount <= tokens[v]
  /\ tokens' = [tokens EXCEPT ![v] = @ - amount]
Take(v, amount) == tokens' = [tokens EXCEPT ![v] = @ + amount]

IsFinal(r) == r.status \in {"Settled", "Void"}

-----------------------------------------------------------------------------
StreetInit ==
  /\ Init
  /\ today = 0 /\ current = NoDay
  /\ round = [d \in Days |-> NoRound]
  /\ tokens = [v \in Days \union {Shared} |-> IF v = Shared THEN vault ELSE 0]

Tick ==
  /\ today < MAX_DAY /\ today' = today + 1
  /\ UNCHANGED <<vars, round, current, tokens>>

\* What moves the house's own part of the account moves the account.
HouseMoves ==
  /\ \/ Administer
     \/ \E o \in Owners, amount \in Amounts : Deposit(o, amount)
     \/ \E o \in Owners, n \in Quantities : Withdraw(o, n)
     \/ \E o \in Owners : CancelDeposit(o)
     \/ \E o \in Owners : Claim(o)
  /\ tokens[Shared] + vault' - vault >= 0
  /\ tokens' = [tokens EXCEPT ![Shared] = @ + vault' - vault]
  /\ UNCHANGED <<today, round, current>>

-----------------------------------------------------------------------------
(* Starting the day's round: one address, for the house or for anyone.     *)

Startable(d) == round[d].status = "None" /\ today <= d /\ d <= today + 1

Funded(shared, amount) ==
  [NoRound EXCEPT !.status = "Seeding", !.shared = shared, !.cash = amount,
                  !.deposit = amount, !.tranche = TRUE]

\* No tokens move.
HouseStart(d) ==
  /\ Startable(d) /\ Start
  /\ round' = [round EXCEPT ![d] = Funded(TRUE, in_round')]
  /\ current' = d
  /\ UNCHANGED <<today, tokens>>

Create(d, amount) ==
  /\ Startable(d) /\ ~paused /\ active /\ amount >= ONE_TOKEN
  /\ round' = [round EXCEPT ![d] = Funded(FALSE, amount)]
  /\ Take(d, amount)
  /\ UNCHANGED <<vars, today, current>>

Open(d) ==
  /\ round[d].status = "Seeding" /\ today <= d
  /\ round' = [round EXCEPT ![d].status = "Open"]
  /\ UNCHANGED <<vars, today, current, tokens>>

-----------------------------------------------------------------------------
(* Trading.                                                                *)

Tradeable(d) ==
  /\ ~paused /\ round[d].status = "Open" /\ today <= d
  /\ SumOver(Days, [e \in Days |-> round[e].trades]) < MAX_TRADES

BookFee(r, fee) ==
  [r EXCEPT !.fees_lp = @ + lp_part(fee), !.fees_protocol = @ + protocol_part(fee),
            !.trades = @ + 1]

Buy(d, u, n, cost) ==
  LET r   == round[d]
      pay == cost + 1
      fee == fee_on(pay, LADDER_FEE_BPS)
  IN  /\ Tradeable(d) /\ 0 < cost /\ cost <= n
      /\ r.payout + n <= r.cash + pay
      /\ round' = [round EXCEPT ![d] =
            [BookFee(r, fee) EXCEPT
               !.cash = @ + pay, !.payout = @ + n, !.basis = @ + pay + fee,
               !.live = @ \union {u}, !.held[u] = @ + n, !.paid[u] = @ + pay + fee]]
      /\ Take(vault_of(d), pay + fee)
      /\ UNCHANGED <<vars, today, current>>

Sell(d, u, n, cost) ==
  LET r    == round[d]
      got  == sale_proceeds(cost)
      fee  == fee_on(got, LADDER_FEE_BPS)
      free == basis_released(r.paid[u], n, r.held[u])
  IN  /\ Tradeable(d) /\ n <= r.held[u] /\ cost <= n
      /\ got <= r.cash /\ r.payout - n <= r.cash - got
      /\ round' = [round EXCEPT ![d] =
            [BookFee(r, fee) EXCEPT
               !.cash = @ - got, !.payout = @ - n, !.basis = @ - free,
               !.held[u] = @ - n, !.paid[u] = @ - free]]
      /\ Pay(vault_of(d), got - fee)
      /\ UNCHANGED <<vars, today, current>>

-----------------------------------------------------------------------------
(* The two endings.  The house learns of its round's when it collects it;  *)
(* House's `phase` is the round's status.                                  *)

Ends(d) == IF d = current THEN RoundFinal /\ phase' = round'[d].status
                          ELSE UNCHANGED vars

Settle(d, hit) ==
  LET r      == round[d]
      owed   == IF hit THEN r.payout ELSE 0
      bounty == settle_bounty(r.fees_protocol)
  IN  /\ r.status = "Open" /\ today > d /\ owed <= r.cash
      /\ round' = [round EXCEPT ![d] =
            [r EXCEPT !.status = "Settled", !.hit = hit, !.lp_pool = r.cash - owed,
                      !.cash = owed, !.fees_protocol = @ - bounty]]
      /\ Pay(vault_of(d), bounty)
      /\ Ends(d) /\ UNCHANGED <<today, current>>

\* A void splits what the round's own books count, never what the account holds.
all_in_account(d) == tokens[vault_of(d)]
refundable(d) == round[d].cash + round[d].fees_lp + round[d].fees_protocol

\* Unopened once the window is over, or unsettled: by proof or by the fallback.
Void(d) ==
  LET r   == round[d]
      pot == void_lp_part(refundable(d), r.deposit, r.basis)
  IN  /\ \/ r.status = "Seeding"
         \/ r.status = "Open" /\ today > d
      /\ round' = [round EXCEPT ![d] =
            [r EXCEPT !.status = "Void", !.lp_pot = pot,
                      !.trader_pot = refundable(d) - pot,
                      !.fees_lp = 0, !.fees_protocol = 0]]
      /\ Ends(d) /\ UNCHANGED <<today, current, tokens>>

-----------------------------------------------------------------------------
(* Paying out and clearing up.                                             *)

redemption(r, u) ==
  IF r.status = "Settled" THEN (IF r.hit THEN r.held[u] ELSE 0)
                          ELSE void_share(r.paid[u], r.trader_pot, r.basis)

Redeem(d, u) ==
  LET r    == round[d]
      owed == redemption(r, u)
  IN  /\ IsFinal(r) /\ u \in r.live
      /\ r.status = "Settled" => owed <= r.cash
      /\ round' = [round EXCEPT ![d] =
            [r EXCEPT !.cash = IF r.status = "Settled" THEN @ - owed ELSE @,
                      !.live = @ \ {u}, !.held[u] = 0, !.paid[u] = 0]]
      /\ Pay(vault_of(d), owed)
      /\ UNCHANGED <<vars, today, current>>

\* What the tranche is owed: its result and fees from pots that only shrink, or
\* its share of the void.  The round forgets it.
principal_of(r, result) ==
  IF r.status = "Settled" THEN Least(result, r.lp_pool)
                          ELSE void_share(r.deposit, r.lp_pot, r.deposit)
fees_of(r, earned) == IF r.status = "Settled" THEN Least(earned, r.fees_lp) ELSE 0

tranche_taken(r, result, earned) ==
  IF r.status = "Settled"
  THEN [r EXCEPT !.lp_pool = @ - principal_of(r, result),
                 !.fees_lp = @ - fees_of(r, earned), !.tranche = FALSE]
  ELSE [r EXCEPT !.tranche = FALSE]

\* The house's tranche changes books: no tokens move.  The caller has the
\* epoch's price recorded when anything is queued, as the keeper does.
HouseCollect(result, earned) ==
  LET r        == round[current]
      recorded == pending_deposits > 0 \/ pending_withdraw_shares > 0
  IN  /\ current # NoDay /\ IsFinal(r) /\ r.tranche
      /\ Collect(principal_of(r, result), fees_of(r, earned), recorded)
      /\ round' = [round EXCEPT ![current] = tranche_taken(r, result, earned)]
      /\ current' = NoDay
      /\ UNCHANGED <<today, tokens>>

\* Anyone may have a deposit paid out, in time, unless a program owns it: a
\* house's would come out of its account and back into it, off its books.
anyone_claims(r) == TRUE
not_a_houses(r) == ~r.shared

ClaimLp(d, result, earned) ==
  LET r    == round[d]
      owed == principal_of(r, result) + fees_of(r, earned)
  IN  /\ not_a_houses(r) /\ IsFinal(r) /\ r.tranche
      /\ round' = [round EXCEPT ![d] = tranche_taken(r, result, earned)]
      /\ IF r.shared THEN UNCHANGED tokens ELSE Pay(d, owed)
      /\ UNCHANGED <<vars, today, current>>

CollectFees(d) ==
  LET r == round[d]
  IN  /\ r.status = "Settled" /\ r.fees_protocol > 0
      /\ Pay(vault_of(d), r.fees_protocol)
      /\ round' = [round EXCEPT ![d].fees_protocol = 0]
      /\ UNCHANGED <<vars, today, current>>

\* What closing sends to the treasury: an own account's dust.  A shared account
\* stays, and the dust in it.
dust_of(d) == IF round[d].shared THEN 0 ELSE tokens[d]

Close(d) ==
  LET r == round[d]
  IN  /\ IsFinal(r) /\ today > d
      /\ r.live = {} /\ ~r.tranche /\ r.fees_protocol = 0
      /\ Pay(vault_of(d), dust_of(d))
      /\ round' = [round EXCEPT ![d] = NoRound]
      /\ UNCHANGED <<vars, today, current>>

-----------------------------------------------------------------------------
StreetNext ==
  \/ Tick
  \/ HouseMoves
  \/ \E d \in Days : HouseStart(d)
  \/ \E d \in Days, amount \in Amounts : Create(d, amount)
  \/ \E d \in Days : Open(d)
  \/ \E d \in Days, u \in Traders, n \in Sizes, cost \in Costs : Buy(d, u, n, cost)
  \/ \E d \in Days, u \in Traders, n \in Sizes, cost \in Costs : Sell(d, u, n, cost)
  \/ \E d \in Days, hit \in BOOLEAN : Settle(d, hit)
  \/ \E d \in Days : Void(d)
  \/ \E d \in Days, u \in Traders : Redeem(d, u)
  \/ \E result \in Results, earned \in FeeIncomes : HouseCollect(result, earned)
  \/ \E d \in Days, result \in Results, earned \in FeeIncomes : ClaimLp(d, result, earned)
  \/ \E d \in Days : CollectFees(d)
  \/ \E d \in Days : Close(d)

\* Days pass; anyone may void what cannot settle, and the keeper collects.
StreetFairness ==
  /\ WF_<<vars, streetVars>>(Tick)
  /\ \A d \in Days : WF_<<vars, streetVars>>(Void(d))
  /\ WF_<<vars, streetVars>>(\E result \in Results, earned \in FeeIncomes :
                                 HouseCollect(result, earned))

StreetSpec == StreetInit /\ [][StreetNext]_<<vars, streetVars>> /\ StreetFairness

-----------------------------------------------------------------------------
(* What the street promises.                                               *)

\* What a round owes to everyone still to be paid from it.
owed_by_round(r) ==
  LET traders == SumOver(r.live, [u \in r.live |-> redemption(r, u)])
  IN  CASE r.status \in {"Seeding", "Open"} -> r.cash + r.fees_lp + r.fees_protocol
        [] r.status = "Settled" ->
             traders + r.fees_protocol + (IF r.tranche THEN r.lp_pool + r.fees_lp ELSE 0)
        [] r.status = "Void" ->
             traders + (IF r.tranche THEN void_share(r.deposit, r.lp_pot, r.deposit) ELSE 0)
        [] OTHER -> 0

\* What each round owes out of account v.
owed_from(v) ==
  [d \in Days |-> IF vault_of(d) = v THEN owed_by_round(round[d]) ELSE 0]

\* Every token account covers all the books behind it at once: the house's
\* capital, queue and processed withdrawals, its round in progress, and the
\* winners, refunds and fees of every round it has collected and nobody has
\* cleared up.  Whoever is paid first, the others' money is there.
EveryoneCovered ==
  \A v \in Days \union {Shared} :
    tokens[v] >= SumOver(Days, owed_from(v)) + (IF v = Shared THEN vault ELSE 0)

\* Money a house lends to a round is always there to be booked home, and is: no
\* claim, close or other round leaves the house waiting for it.
HouseComesHome == phase # "Idle" ~> phase = "Idle"
=============================================================================
