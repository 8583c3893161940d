----------------------------- MODULE HouseClient -----------------------------
(***************************************************************************)
(* A house as its depositors and the keeper see it: what the SDK makes of  *)
(* the accounts, the buttons the app offers from that, and the step the    *)
(* keeper takes.  The program books a stake only on its owner's next call, *)
(* so what is on chain is often behind what is true, and everyone here     *)
(* reads what is on chain.                                                 *)
(***************************************************************************)
EXTENDS House

CONSTANT PCTS           \* the parts of a stake the app offers to withdraw

ASSUME PartsOfAHundred == PCTS \subseteq 0 .. 100

-----------------------------------------------------------------------------
(* The SDK's mirror.                                                       *)

sharesFor(amount, a, n) == (amount * (n + VIRTUAL_SHARES)) \div (a + 1)
assetsFor(n, a, total) == Lower((n * (a + 1)) \div (total + VIRTUAL_SHARES), a)

commitFor(a, ema) ==
  IF ema = 0 THEN a
  ELSE Lower(Higher(ema * HOUSE_FEE_MULTIPLE, a \div HOUSE_MIN_COMMIT_DIV), a)

houseCapital == assets + in_round

\* A stake as it stands on chain, its shares only if of the generation in force.
stakeValue(s) ==
  LET shares == IF s.generation = generation THEN s.shares ELSE 0
  IN  [shares |-> shares, value |-> assetsFor(shares, houseCapital, total_shares),
       queuedDeposit |-> s.pending_deposit, queuedShares |-> s.pending_withdraw,
       claimable |-> s.claimable]

\* The epoch whose record the stake's next call brings, if any.
epochFor(s) ==
  IF (s.pending_deposit = 0 /\ s.pending_withdraw = 0) \/ s.pending_epoch >= epoch
  THEN {} ELSE {s.pending_epoch}

houseCollectWritesEpoch == pending_deposits > 0 \/ pending_withdraw_shares > 0

houseStep ==
  IF phase # "Idle" THEN IF phase \in {"Settled", "Void"} THEN "collect" ELSE "none"
  ELSE IF assets >= ONE_TOKEN THEN "start" ELSE "none"

-----------------------------------------------------------------------------
(* The house box of a coin's page.                                         *)

all_of_it(mine) == mine.shares
free(mine) == mine.shares - mine.queuedShares
outShares(mine, pct) == (free(mine) * pct) \div 100
\* What the button says the shares are worth.
outWorth(mine, n) == IF mine.shares > 0 THEN (mine.value * n) \div mine.shares ELSE 0

offersWithdraw(o, n) == LET mine == stakeValue(stake[o]) IN
  o \notin frozen /\ n > 0 /\ n \in {outShares(mine, pct) : pct \in PCTS}
offersClaim(o) == LET mine == stakeValue(stake[o]) IN
  mine.claimable > 0 \/ (epochFor(stake[o]) # {} /\ mine.queuedShares > 0)
offersCancel(o) == stakeValue(stake[o]).queuedDeposit > 0 /\ phase # "Idle"

-----------------------------------------------------------------------------
\* What the app offers a depositor and the keeper brings with a collection.  The
\* withdraw button works whenever it is shown, whatever the stake has been
\* through: the record the SDK brings is there, the shares it names are free, and
\* an idle house pays at least what the button says.  A claim goes through; a
\* deposit still waiting for its round to end can be taken back, with the button
\* there and the queue holding it; and the keeper's collection has the record
\* made that these will need.  (The button to take back stays for a deposit that
\* has joined and is not booked, and is refused: ShownAsBooked.  That a start the
\* keeper sends is taken is not claimed: houseStep asks one token of assets, the
\* program one token of commitment.)
ClientKeepsItsWord ==
  /\ houseStep = "collect" => record_made(houseCollectWritesEpoch)
  /\ \A o \in Owners :
       LET mine == stakeValue(stake[o])
       IN  /\ epochFor(stake[o]) \subseteq DOMAIN records
           /\ stale(stake[o]) <=> epochFor(stake[o]) # {}
           /\ \A n \in 1 .. total_shares : offersWithdraw(o, n) =>
                /\ n <= free_shares(booked[o])
                /\ phase = "Idle" /\ ~stale(stake[o])
                     => outWorth(mine, n) <= assets_for(n, assets, total_shares)
           /\ offersClaim(o) => booked[o].claimable >= mine.claimable
           /\ booked[o].pending_deposit > 0 =>
                /\ offersCancel(o) /\ cancellable(stake[o])
                /\ mine.queuedDeposit <= pending_deposits

\* "What a stake is worth now, booked as the program would book it": the shares
\* shown are those the owner's next call would find, and a deposit is shown as
\* queued, with the button to take it back, only while it is.
ShownAsBooked ==
  \A o \in Owners :
    LET mine == stakeValue(stake[o])
    IN  mine.shares = booked[o].shares /\ mine.queuedDeposit = booked[o].pending_deposit
=============================================================================
