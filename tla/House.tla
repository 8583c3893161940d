------------------------------- MODULE House --------------------------------
(***************************************************************************)
(* The standing house of one series: a pool that lends its capital to one  *)
(* round a day.  Entries made while the money is in a round are queued and *)
(* processed together when the round is collected; each depositor's own    *)
(* stake is brought up to date lazily, on its next call, from the record   *)
(* of the epoch it queued in.                                              *)
(*                                                                         *)
(* The round is abstracted to its status and to what take_tranche_owed     *)
(* returns: any principal and fees (Ladder shows what they may be).        *)
(***************************************************************************)
EXTENDS HouseRules, FiniteSets, Functions

CONSTANTS
  Owners,                          \* depositors
  Amounts, Quantities,             \* deposits and shares tried
  Results, FeeIncomes,             \* principals and fees a round may return
  PauseValues, ActiveValues,       \* what the authority may set the flags to
  ONE_TOKEN,                       \* the least deposit, and the least round
  MAX_EPOCH,                       \* bound on the rounds started
  MAX_MONEY                        \* bound on what depositors bring in

ASSUME HouseConstants ==
  /\ Amounts \subseteq Nat \ {0} /\ Quantities \subseteq Nat /\ Results \subseteq Nat
  /\ FeeIncomes \subseteq Nat /\ 0 \in FeeIncomes /\ PauseValues \subseteq BOOLEAN
  /\ ActiveValues \subseteq BOOLEAN
  /\ ONE_TOKEN \in Nat \ {0} /\ MAX_EPOCH \in Nat /\ MAX_MONEY \in Nat
  /\ IsFiniteSet(Owners)

\* The vault is one token account, shared with the house's rounds, and `vault`
\* is the house's part of it.  No payment is refused for lack of it: the round's
\* money would go instead.
VARIABLES
  paused,                  \* ProtocolConfig::paused
  active,                  \* Series::active
  frozen,                  \* stakes whose locked_until is ahead of the clock, while
                           \* the listing has not been turned down
  phase,                   \* status of the round `House::round`; "Idle" without one
  assets,                  \* in the vault and behind the shares
  in_round,
  pending_deposits, claimable,
  total_shares, pending_withdraw_shares,
  epoch, generation, fee_ema,
  records,                 \* HouseEpoch accounts, by epoch; never closed
  stake,                   \* HouseStake accounts; a blank one is one not yet made
  vault                    \* the house's tokens in the vault it shares with its rounds

controlVars == <<paused, active, frozen>>
roundVars   == <<phase, in_round, epoch, generation, fee_ema, records>>
queueVars   == <<pending_deposits, pending_withdraw_shares>>
shareVars   == <<assets, total_shares>>
vars == <<controlVars, roundVars, queueVars, shareVars, claimable, stake, vault>>

Blank == [shares |-> 0, pending_withdraw |-> 0, pending_deposit |-> 0,
          claimable |-> 0, pending_epoch |-> 0, generation |-> 0]

-----------------------------------------------------------------------------
(* Booking a stake.                                                        *)

has_pending(s) == s.pending_deposit > 0 \/ s.pending_withdraw > 0
stale(s)       == has_pending(s) /\ s.pending_epoch < epoch

book_rounding_up(s, e) ==
  [s EXCEPT !.shares = s.shares - s.pending_withdraw
                         + shares_up(s.pending_deposit, e.assets, e.shares),
            !.claimable = @ + assets_up(s.pending_withdraw, e.assets, e.shares),
            !.pending_deposit = 0, !.pending_withdraw = 0,
            !.generation = e.generation]

\* A queued entry at its epoch's one price.  If the round wiped the shares out,
\* the withdrawal is worth nothing and the deposit starts a fresh house.
book_from_epoch(s, e) ==
  LET kept   == IF e.wiped THEN 0 ELSE s.shares - s.pending_withdraw
      paid   == IF e.wiped THEN 0 ELSE assets_for(s.pending_withdraw, e.assets, e.shares)
      minted == IF e.wiped THEN shares_for(s.pending_deposit, 0, 0)
                           ELSE shares_for(s.pending_deposit, e.assets, e.shares)
  IN  [s EXCEPT !.shares = kept + minted, !.claimable = @ + paid,
                !.pending_deposit = 0, !.pending_withdraw = 0,
                !.generation = e.generation]

keep_old_shares(s) == s

\* Shares of a generation a wiped round ended are worth nothing.
void_old_shares(s) ==
  IF s.generation # generation /\ ~has_pending(s)
  THEN [s EXCEPT !.shares = 0, !.generation = generation] ELSE s

\* Booking needs the record of the epoch, and shares to take the withdrawal
\* from: without them the call is refused.
can_book(s) ==
  stale(s) => /\ s.pending_epoch \in DOMAIN records
              /\ \/ records[s.pending_epoch].wiped
                 \/ s.pending_withdraw <= s.shares
book(s) ==
  void_old_shares(IF stale(s) /\ s.pending_epoch \in DOMAIN records
                  THEN book_from_epoch(s, records[s.pending_epoch]) ELSE s)

-----------------------------------------------------------------------------
\* A house is made empty (house_create) or with a lister's seed (coin_list).
\* A listed coin's series starts inactive; any other may be in either state.
Init ==
  /\ paused = FALSE /\ phase = "Idle" /\ in_round = 0
  /\ pending_deposits = 0 /\ claimable = 0 /\ pending_withdraw_shares = 0
  /\ epoch = 0 /\ generation = 0 /\ fee_ema = 0
  /\ records = [e \in {} |-> 0]
  /\ \/ /\ active \in ActiveValues /\ frozen = {} /\ assets = 0 /\ total_shares = 0
        /\ stake = [o \in Owners |-> Blank]
     \/ \E o \in Owners, seed \in Amounts :
          /\ seed >= ONE_TOKEN
          /\ active = FALSE /\ frozen = {o}
          /\ assets = seed /\ total_shares = shares_for(seed, 0, 0)
          /\ stake = [p \in Owners |->
                IF p = o THEN [Blank EXCEPT !.shares = shares_for(seed, 0, 0)] ELSE Blank]
  /\ vault = assets

\* The authority pauses and turns the series on and off; a listing goes live
\* or is turned down; a lock runs out.
Administer ==
  /\ paused' \in PauseValues /\ active' \in ActiveValues /\ frozen' \in {frozen, {}}
  /\ UNCHANGED <<roundVars, queueVars, shareVars, claimable, stake, vault>>

Deposit(o, amount) ==
  LET s      == book(stake[o])
      minted == shares_for(amount, assets, total_shares)
  IN  /\ ~paused /\ amount >= ONE_TOKEN
      /\ assets + in_round + pending_deposits + amount <= MAX_MONEY
      /\ can_book(stake[o])
      /\ vault' = vault + amount
      /\ \/ /\ phase = "Idle"
            /\ assets' = assets + amount /\ total_shares' = total_shares + minted
            /\ stake' = [stake EXCEPT ![o] = [s EXCEPT !.shares = @ + minted]]
            /\ UNCHANGED queueVars
         \/ /\ phase # "Idle"
            /\ pending_deposits' = pending_deposits + amount
            /\ stake' = [stake EXCEPT ![o] =
                  [s EXCEPT !.pending_deposit = @ + amount, !.pending_epoch = epoch]]
            /\ UNCHANGED <<shareVars, pending_withdraw_shares>>
      /\ UNCHANGED <<controlVars, roundVars, claimable>>

\* Shares not queued to be withdrawn already.
all_shares(s)  == s.shares
free_shares(s) == s.shares - s.pending_withdraw

\* Not stopped by a pause.
Withdraw(o, n) ==
  LET s    == book(stake[o])
      paid == assets_for(n, assets, total_shares)
  IN  /\ can_book(stake[o]) /\ o \notin frozen
      /\ n > 0 /\ n <= free_shares(s)
      /\ \/ /\ phase = "Idle"
            /\ n <= total_shares
            /\ assets' = assets - paid /\ total_shares' = total_shares - n
            /\ vault' = vault - paid
            /\ stake' = [stake EXCEPT ![o] = [s EXCEPT !.shares = @ - n]]
            /\ UNCHANGED queueVars
         \/ /\ phase # "Idle"
            /\ pending_withdraw_shares' = pending_withdraw_shares + n
            /\ stake' = [stake EXCEPT ![o] =
                  [s EXCEPT !.pending_withdraw = @ + n, !.pending_epoch = epoch]]
            /\ UNCHANGED <<shareVars, pending_deposits, vault>>
      /\ UNCHANGED <<controlVars, roundVars, claimable>>

cancellable_whenever(s) == phase # "Idle" /\ s.pending_deposit > 0
cancellable(s) ==
  phase # "Idle" /\ s.pending_epoch = epoch /\ s.pending_deposit > 0

\* Only a deposit queued in the round in progress; nothing is booked.
CancelDeposit(o) ==
  LET back == stake[o].pending_deposit
  IN  /\ cancellable(stake[o])
      /\ back <= pending_deposits /\ pending_deposits' = pending_deposits - back
      /\ stake' = [stake EXCEPT ![o].pending_deposit = 0]
      /\ vault' = vault - back
      /\ UNCHANGED <<controlVars, roundVars, shareVars, pending_withdraw_shares, claimable>>

Claim(o) ==
  LET s    == book(stake[o])
      owed == Lower(s.claimable, claimable)
  IN  /\ can_book(stake[o])
      /\ claimable' = claimable - owed /\ vault' = vault - owed
      /\ stake' = [stake EXCEPT ![o] = [s EXCEPT !.claimable = 0]]
      /\ UNCHANGED <<controlVars, roundVars, queueVars, shareVars>>

-----------------------------------------------------------------------------
\* The money stays in the vault and leaves the house's books for the round's.
Start ==
  LET amount == commit_for(assets, fee_ema)
  IN  /\ ~paused /\ active /\ phase = "Idle" /\ amount >= ONE_TOKEN
      /\ epoch < MAX_EPOCH
      /\ phase' = "Running" /\ in_round' = amount
      /\ assets' = assets - amount /\ vault' = vault - amount
      /\ UNCHANGED <<controlVars, queueVars, total_shares, claimable, stake,
                     epoch, generation, fee_ema, records>>

\* The round settles or is voided (Ladder).
RoundFinal ==
  /\ phase = "Running" /\ phase' \in {"Settled", "Void"}
  /\ UNCHANGED <<controlVars, queueVars, shareVars, claimable, stake, vault,
                 in_round, epoch, generation, fee_ema, records>>

\* take_tranche_owed: a void folds the fees into what it returns, which is more
\* than the deposit when every trader sold at a loss before it.
Returns(fees) == phase = "Void" => fees = 0

record_optional(recorded) == recorded \in BOOLEAN

\* The record of the epoch's price is made whenever anything is queued; the
\* caller may have it made for an empty queue too.
record_made(recorded) ==
  pending_deposits > 0 \/ pending_withdraw_shares > 0 => recorded

pay_without_setting_aside(after, wiped, base, gone) ==
  /\ assets' = after - assets_for(gone, after, base) + pending_deposits
  /\ total_shares' = base - gone + shares_for(pending_deposits, after, base)
  /\ generation' = IF wiped THEN generation + 1 ELSE generation
  /\ pending_deposits' = 0 /\ pending_withdraw_shares' = 0
  /\ UNCHANGED claimable
mint_before_paying(after, wiped, base, gone) ==
  LET minted == shares_for(pending_deposits, after, base)
      paid   == assets_for(gone, after + pending_deposits, base)
  IN  /\ assets' = after - paid + pending_deposits
      /\ total_shares' = base - gone + minted
      /\ claimable' = claimable + paid
      /\ generation' = IF wiped THEN generation + 1 ELSE generation
      /\ pending_deposits' = 0 /\ pending_withdraw_shares' = 0

\* What the whole queue does to the house, at the price (after, base).
process_queue(after, wiped, base, gone) ==
  LET paid   == assets_for(gone, after, base)
      minted == shares_for(pending_deposits, after, base)
  IN  /\ assets' = after - paid + pending_deposits
      /\ total_shares' = base - gone + minted
      /\ claimable' = claimable + paid
      /\ generation' = IF wiped THEN generation + 1 ELSE generation
      /\ pending_deposits' = 0 /\ pending_withdraw_shares' = 0

Collect(principal, fees, recorded) ==
  LET after == assets + principal + fees
      wiped == after = 0 /\ total_shares > 0
      base  == IF wiped THEN 0 ELSE total_shares
      gone  == IF wiped THEN 0 ELSE pending_withdraw_shares
  IN  /\ phase \in {"Settled", "Void"} /\ Returns(fees)
      /\ record_made(recorded) /\ gone <= base
      /\ fee_ema' = IF phase = "Settled" THEN next_fee_ema(fee_ema, fees) ELSE fee_ema
      /\ phase' = "Idle" /\ in_round' = 0 /\ epoch' = epoch + 1
      /\ vault' = vault + principal + fees
      /\ process_queue(after, wiped, base, gone)
      /\ records' = IF ~recorded THEN records
                    ELSE [e \in DOMAIN records \union {epoch} |->
                            IF e # epoch THEN records[e]
                            ELSE [assets |-> after, shares |-> base, wiped |-> wiped,
                                  generation |-> generation']]
      /\ UNCHANGED <<controlVars, stake>>
-----------------------------------------------------------------------------
Next ==
  \/ Administer
  \/ \E o \in Owners, amount \in Amounts : Deposit(o, amount)
  \/ \E o \in Owners, n \in Quantities : Withdraw(o, n)
  \/ \E o \in Owners : CancelDeposit(o)
  \/ \E o \in Owners : Claim(o)
  \/ Start
  \/ RoundFinal
  \/ \E principal \in Results, fees \in FeeIncomes, recorded \in BOOLEAN :
        Collect(principal, fees, recorded)

\* A round ends (Ladder's RoundEnds), and anyone may collect it; the keeper
\* does, and passes the record when the queue is not empty.
Fairness ==
  /\ WF_vars(RoundFinal)
  /\ WF_vars(\E principal \in Results, fees \in FeeIncomes, recorded \in BOOLEAN :
               Collect(principal, fees, recorded))

Spec == Init /\ [][Next]_vars
FairSpec == Spec /\ Fairness

-----------------------------------------------------------------------------
(* What the house promises.                                                *)

SumOver(S, f) == SumFunctionOnSet(f, S)

booked == [o \in Owners |-> book(stake[o])]

\* What each owner has queued in the round in progress.
queued_in  == [o \in Owners |-> IF stake[o].pending_epoch = epoch
                               THEN stake[o].pending_deposit ELSE 0]
queued_out == [o \in Owners |-> IF stake[o].pending_epoch = epoch
                               THEN stake[o].pending_withdraw ELSE 0]

Records == [assets : Nat, shares : Nat, wiped : BOOLEAN, generation : Nat]
Stakes  == [shares : Nat, pending_withdraw : Nat, pending_deposit : Nat,
            claimable : Nat, pending_epoch : Nat, generation : Nat]

TypeOK ==
  /\ paused \in BOOLEAN /\ active \in BOOLEAN /\ frozen \subseteq Owners
  /\ phase \in {"Idle", "Running", "Settled", "Void"}
  /\ assets \in Nat /\ in_round \in Nat /\ claimable \in Nat /\ vault \in Nat
  /\ pending_deposits \in Nat /\ pending_withdraw_shares \in Nat
  /\ total_shares \in Nat /\ epoch \in Nat /\ generation \in Nat /\ fee_ema \in Nat
  /\ DOMAIN records \subseteq 0 .. epoch - 1
  /\ \A e \in DOMAIN records : records[e] \in Records
  /\ stake \in [Owners -> Stakes]

\* The house's queue is exactly what the stakes of the epoch in force have
\* queued: nothing is processed that nobody asked for, nothing asked for is
\* left out, whatever is cancelled or booked in between.
QueueExact ==
  /\ pending_deposits = SumOver(Owners, queued_in)
  /\ pending_withdraw_shares = SumOver(Owners, queued_out)
  /\ phase = "Idle" => pending_deposits = 0 /\ pending_withdraw_shares = 0

\* No depositor is ever shut out: the record its entry is booked from exists,
\* however many rounds later it calls, and a queued withdrawal never exceeds
\* its shares.  A stake that cannot be booked could never be moved again.  Nor
\* is a collection refused for more shares leaving than there are.
NeverShutOut ==
  /\ \A o \in Owners :
       can_book(stake[o]) /\ booked[o].pending_withdraw <= booked[o].shares
  /\ pending_withdraw_shares <= total_shares

\* Rounding and lazy booking never promise more than there is: brought up to
\* date, the stakes together hold at most the shares the house counts, and are
\* owed at most what it set aside, so the last to come finds it all.
StakesBacked ==
  /\ SumOver(Owners, [o \in Owners |-> booked[o].shares]) <= total_shares
  /\ SumOver(Owners, [o \in Owners |-> booked[o].claimable]) <= claimable

\* The house's tokens are its books: capital, queued deposits and processed
\* withdrawals.  They share a token account with its rounds' money, which would
\* silently pay for any difference.
VaultIsBooks == vault = assets + pending_deposits + claimable

\* Nobody's entry or exit takes value from those who stay: the price of a
\* share, (assets + 1) / (shares + VIRTUAL_SHARES), falls only by a round's own
\* result.  A collection is measured from the price its round left.
PriceNeverFalls ==
  [][LET left  == IF epoch' = epoch THEN assets + in_round
                  ELSE assets' + claimable' - claimable - pending_deposits
         shares == IF generation' = generation THEN total_shares ELSE 0
     IN  (left + 1) * (total_shares' + VIRTUAL_SHARES)
           <= (assets' + in_round' + 1) * (shares + VIRTUAL_SHARES)]_vars

\* Every queued entry is processed and becomes bookable, at the latest when
\* its round is collected, without its owner doing anything.
QueuedIsProcessed ==
  \A o \in Owners : has_pending(stake[o]) ~> ~has_pending(booked[o])

-----------------------------------------------------------------------------
(* The facts the promises rest on: with them they are preserved by every   *)
(* action.                                                                 *)

\* A stake never queues more than it holds, nor in an epoch to come; one whose
\* entry's epoch is over finds the record; and nothing is of a generation yet
\* to come.  An entry of the epoch in force is of the generation in force, so
\* cancelling it cannot void shares that are good.
Sound(s) ==
  /\ s.pending_withdraw <= s.shares /\ s.pending_epoch <= epoch
  /\ s.generation <= generation
  /\ stale(s) => s.pending_epoch \in DOMAIN records
  /\ has_pending(s) /\ s.pending_epoch = epoch => s.generation = generation

\* Together they are the strengthening the proofs use.
HouseInv ==
  /\ \A o \in Owners : Sound(stake[o])
  /\ \A e \in DOMAIN records : records[e].generation <= generation
  /\ VaultIsBooks /\ QueueExact /\ StakesBacked

-----------------------------------------------------------------------------
\* Lazily booked, the house is the eager one: a stake brought up to date is
\* what it would have been had everyone's entry been settled at the collect.
Eager == INSTANCE HouseEager WITH
  set_aside <- claimable, supply <- total_shares,
  held      <- [o \in Owners |-> booked[o].shares],
  owed      <- [o \in Owners |-> booked[o].claimable],
  asked_in  <- [o \in Owners |-> booked[o].pending_deposit],
  asked_out <- [o \in Owners |-> booked[o].pending_withdraw]
LazyIsEager == Eager!EagerSpec
=============================================================================
