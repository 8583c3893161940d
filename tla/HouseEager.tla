----------------------------- MODULE HouseEager -----------------------------
(***************************************************************************)
(* What a house promises its depositors: everybody's entry is settled the  *)
(* moment the round is collected, all at the one price the round left.     *)
(* There are no epochs here, no records of them, no generations of shares  *)
(* and nobody has to call: House, which books each stake lazily on its     *)
(* owner's next call, is shown to implement this.                          *)
(***************************************************************************)
EXTENDS HouseRules, Functions

CONSTANTS Owners, Amounts, Quantities, Results, FeeIncomes,
          PauseValues, ActiveValues, ONE_TOKEN

VARIABLES
  paused,
  active,       \* the house's series may start rounds
  frozen,       \* owners whose seed may not be withdrawn yet
  phase,        \* "Idle", or the state of the round its money is in
  assets,       \* what belongs to the shares and is not in a round
  in_round,     \* what the round was given
  set_aside,    \* for withdrawals already processed, rounding included
  supply,       \* shares in all, rounding included
  fee_ema,
  held,         \* each owner's shares
  owed,         \* each owner's processed withdrawals
  asked_in,     \* queued deposits, in quote units
  asked_out     \* queued withdrawals, in shares

eagerVars == <<paused, active, frozen, phase, assets, in_round, set_aside, supply,
               fee_ema, held, owed, asked_in, asked_out>>

Nobody == [o \in Owners |-> 0]

EagerInit ==
  /\ paused = FALSE /\ phase = "Idle"
  /\ in_round = 0 /\ set_aside = 0 /\ fee_ema = 0
  /\ owed = Nobody /\ asked_in = Nobody /\ asked_out = Nobody
  /\ \/ /\ assets = 0 /\ supply = 0 /\ held = Nobody
        /\ frozen = {} /\ active \in ActiveValues
     \/ \E o \in Owners, seed \in Amounts :
          /\ assets = seed /\ supply = shares_for(seed, 0, 0)
          /\ held = [Nobody EXCEPT ![o] = shares_for(seed, 0, 0)]
          /\ frozen = {o} /\ active = FALSE

EagerAdminister ==
  /\ paused' \in PauseValues /\ active' \in ActiveValues
  /\ frozen' \in {frozen, {}}
  /\ UNCHANGED <<phase, assets, in_round, set_aside, supply, fee_ema, held, owed,
                 asked_in, asked_out>>

EagerDeposit(o, amount) ==
  LET minted == shares_for(amount, assets, supply)
  IN  /\ ~paused /\ amount >= ONE_TOKEN
      /\ \/ /\ phase = "Idle"
            /\ assets' = assets + amount /\ supply' = supply + minted
            /\ held' = [held EXCEPT ![o] = @ + minted]
            /\ UNCHANGED asked_in
         \/ /\ phase # "Idle"
            /\ asked_in' = [asked_in EXCEPT ![o] = @ + amount]
            /\ UNCHANGED <<assets, supply, held>>
      /\ UNCHANGED <<paused, active, frozen, phase, in_round, set_aside, fee_ema,
                     owed, asked_out>>

EagerWithdraw(o, n) ==
  LET paid == assets_for(n, assets, supply)
  IN  /\ o \notin frozen /\ n > 0 /\ n <= held[o] - asked_out[o]
      /\ \/ /\ phase = "Idle"
            /\ assets' = assets - paid /\ supply' = supply - n
            /\ held' = [held EXCEPT ![o] = @ - n]
            /\ UNCHANGED asked_out
         \/ /\ phase # "Idle"
            /\ asked_out' = [asked_out EXCEPT ![o] = @ + n]
            /\ UNCHANGED <<assets, supply, held>>
      /\ UNCHANGED <<paused, active, frozen, phase, in_round, set_aside, fee_ema,
                     owed, asked_in>>

EagerCancel(o) ==
  /\ asked_in[o] > 0
  /\ asked_in' = [asked_in EXCEPT ![o] = 0]
  /\ UNCHANGED <<paused, active, frozen, phase, assets, in_round, set_aside, supply,
                 fee_ema, held, owed, asked_out>>

\* Everything owed is paid: no rounding, and no other claim, ever shorts it.
EagerClaim(o) ==
  /\ owed' = [owed EXCEPT ![o] = 0]
  /\ set_aside' = set_aside - owed[o]
  /\ UNCHANGED <<paused, active, frozen, phase, assets, in_round, supply, fee_ema,
                 held, asked_in, asked_out>>

EagerStart ==
  LET amount == commit_for(assets, fee_ema)
  IN  /\ ~paused /\ active /\ phase = "Idle" /\ amount >= ONE_TOKEN
      /\ phase' = "Running" /\ in_round' = amount /\ assets' = assets - amount
      /\ UNCHANGED <<paused, active, frozen, set_aside, supply, fee_ema, held, owed,
                     asked_in, asked_out>>

EagerFinish ==
  /\ phase = "Running" /\ phase' \in {"Settled", "Void"}
  /\ UNCHANGED <<paused, active, frozen, assets, in_round, set_aside, supply, fee_ema,
                 held, owed, asked_in, asked_out>>

\* Everyone at once, at one price.  A round that left nothing behind the shares
\* voids them all, and the queued deposits start a fresh house.
EagerCollect(principal, fees, ins, outs) ==
  LET after == assets + principal + fees
      wiped == after = 0 /\ supply > 0
      base  == IF wiped THEN 0 ELSE supply
      gone  == IF wiped THEN 0 ELSE outs
      paid  == assets_for(gone, after, base)
      mint  == shares_for(ins, after, base)
  IN  /\ phase \in {"Settled", "Void"} /\ phase' = "Idle" /\ in_round' = 0
      /\ fee_ema' = IF phase = "Settled" THEN next_fee_ema(fee_ema, fees) ELSE fee_ema
      /\ assets' = after - paid + ins
      /\ supply' = base - gone + mint
      /\ set_aside' = set_aside + paid
      /\ held' = [o \in Owners |->
                    (IF wiped THEN 0 ELSE held[o] - asked_out[o])
                      + shares_for(asked_in[o], after, base)]
      /\ owed' = [o \in Owners |->
                    owed[o] + (IF wiped THEN 0 ELSE assets_for(asked_out[o], after, base))]
      /\ asked_in' = Nobody /\ asked_out' = Nobody
      /\ UNCHANGED <<paused, active, frozen>>

-----------------------------------------------------------------------------
EagerNext ==
  \/ EagerAdminister
  \/ \E o \in Owners, amount \in Amounts : EagerDeposit(o, amount)
  \/ \E o \in Owners, n \in Quantities : EagerWithdraw(o, n)
  \/ \E o \in Owners : EagerCancel(o)
  \/ \E o \in Owners : EagerClaim(o)
  \/ EagerStart
  \/ EagerFinish
  \/ \E principal \in Results, fees \in FeeIncomes :
        EagerCollect(principal, fees, SumFunctionOnSet(asked_in, Owners),
                     SumFunctionOnSet(asked_out, Owners))

EagerSpec == EagerInit /\ [][EagerNext]_eagerVars
=============================================================================
