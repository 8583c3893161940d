----------------------------- MODULE HouseProofs -----------------------------
(***************************************************************************)
(* What holds of a house for any depositors, amounts, results of its       *)
(* rounds and sizing constants.  Every action but the collection touches   *)
(* one stake (OwnerStep); the collection touches the queue of everyone in  *)
(* it at once, and is a matter of floors: the parts of a queue booked one  *)
(* by one never come to more than the queue processed as a whole.          *)
(*                                                                         *)
(* Its depositors see it as the SDK reads it, a stake at a time and often  *)
(* rounds behind; that what the app then offers is there is proved from a  *)
(* further invariant, on the age of a stake and of its record (Aged).      *)
(*                                                                         *)
(* And of the house with its rounds (Street, the last part): they share    *)
(* one token account, and no instruction checks the account against all    *)
(* the books behind it.  Each step moves one round's books, or the         *)
(* house's, by no more than it moves the account those books are kept in;  *)
(* so the account covers all of them, for any number of days, traders and  *)
(* depositors.                                                             *)
(***************************************************************************)
EXTENDS Street, HouseClient, BookLemmas

Inv == TypeOK /\ HouseInv

-----------------------------------------------------------------------------
(* The rules.                                                              *)

LEMMA QuotientNat ==
  ASSUME NEW a \in Nat, NEW b \in Nat \ {0}
  PROVE  a \div b \in Nat /\ b * (a \div b) <= a
OBVIOUS

LEMMA ProductNat ==
  ASSUME NEW a \in Nat, NEW b \in Nat
  PROVE  a * b \in Nat
OBVIOUS

LEMMA BelowQuotient ==
  ASSUME NEW a \in Nat, NEW b \in Nat \ {0}, NEW c \in Nat, a < b * (c + 1)
  PROVE  a \div b <= c
OBVIOUS

\* What a deposit mints and what shares redeem for are amounts; a redemption
\* is at most the capital.
LEMMA SharesForNat ==
  ASSUME NEW amount \in Nat, NEW a \in Nat, NEW s \in Nat
  PROVE  shares_for(amount, a, s) \in Nat
<1>1. s + VIRTUAL_SHARES \in Nat /\ a + 1 \in Nat \ {0}
  BY HouseRuleConstants
<1> QED
  BY <1>1, ProductNat, QuotientNat DEF shares_for

LEMMA AssetsForNat ==
  ASSUME NEW n \in Nat, NEW a \in Nat, NEW s \in Nat
  PROVE  assets_for(n, a, s) \in Nat /\ assets_for(n, a, s) <= a
<1>1. s + VIRTUAL_SHARES \in Nat \ {0} /\ a + 1 \in Nat
  BY HouseRuleConstants
<1>2. (n * (a + 1)) \div (s + VIRTUAL_SHARES) \in Nat
  BY <1>1, ProductNat, QuotientNat
<1> QED
  BY <1>2 DEF assets_for, Lower

\* Nothing mints, and redeems for, nothing.
LEMMA NothingForNothing ==
  ASSUME NEW a \in Nat, NEW s \in Nat
  PROVE  shares_for(0, a, s) = 0 /\ assets_for(0, a, s) = 0
<1>1. s + VIRTUAL_SHARES \in Nat \ {0} /\ a + 1 \in Nat \ {0}
  BY HouseRuleConstants
<1>2. 0 * (s + VIRTUAL_SHARES) = 0 /\ 0 * (a + 1) = 0
  BY <1>1
<1>3. \A d \in Nat \ {0} : 0 \div d = 0
  OBVIOUS
<1> QED
  BY <1>1, <1>2, <1>3 DEF shares_for, assets_for, Lower

\* The shares that are there redeem for what the price says, uncapped.
LEMMA AssetsForExact ==
  ASSUME NEW n \in Nat, NEW a \in Nat, NEW s \in Nat, n <= s
  PROVE  assets_for(n, a, s) = (n * (a + 1)) \div (s + VIRTUAL_SHARES)
<1>1. s + VIRTUAL_SHARES \in Nat \ {0} /\ n < s + VIRTUAL_SHARES /\ n * (a + 1) \in Nat
  BY HouseRuleConstants, ProductNat
<1>2. \A x, y \in Nat : x < y => x * (a + 1) < y * (a + 1)
  OBVIOUS
<1>3. (n * (a + 1)) \div (s + VIRTUAL_SHARES) \in Nat
  BY <1>1, QuotientNat
<1>4. (n * (a + 1)) \div (s + VIRTUAL_SHARES) <= a
  BY <1>1, <1>2, BelowQuotient
<1> QED
  BY <1>3, <1>4 DEF assets_for, Lower

\* A round is given no more than the house holds, and the average is a number.
LEMMA CommitWithin ==
  ASSUME NEW a \in Nat, NEW ema \in Nat
  PROVE  commit_for(a, ema) \in Nat /\ commit_for(a, ema) <= a
<1>1. ema * HOUSE_FEE_MULTIPLE \in Nat /\ a \div HOUSE_MIN_COMMIT_DIV \in Nat
  BY HouseRuleConstants, ProductNat, QuotientNat
<1> QED
  BY <1>1 DEF commit_for, Higher, Lower

LEMMA EmaNat ==
  ASSUME NEW ema \in Nat, NEW fees \in Nat
  PROVE  next_fee_ema(ema, fees) \in Nat
<1>1. /\ ema \div HOUSE_FEE_EMA_DIV \in Nat /\ fees \div HOUSE_FEE_EMA_DIV \in Nat
      /\ HOUSE_FEE_EMA_DIV * (ema \div HOUSE_FEE_EMA_DIV) <= ema
  BY HouseRuleConstants, QuotientNat
<1>2. \A x \in Nat : x <= HOUSE_FEE_EMA_DIV * x
  BY HouseRuleConstants
<1>3. ema \div HOUSE_FEE_EMA_DIV <= ema
  BY <1>1, <1>2, HouseRuleConstants
<1> QED
  BY <1>1, <1>3 DEF next_fee_ema

-----------------------------------------------------------------------------
(* Booking.                                                                *)

RecordsKnown ==
  \A e \in DOMAIN records : records[e] \in Records /\ records[e].generation <= generation

\* A queued entry booked from its record: pending nothing, of the record's
\* generation, and worth what the price said.
LEMMA BookedEntry ==
  ASSUME NEW s \in Stakes, NEW e \in Records,
         e.wiped \/ s.pending_withdraw <= s.shares
  PROVE  LET b == book_from_epoch(s, e)
         IN  /\ b \in Stakes /\ b.pending_epoch = s.pending_epoch
             /\ b.pending_withdraw = 0 /\ b.pending_deposit = 0
             /\ b.generation = e.generation
<1> DEFINE kept   == IF e.wiped THEN 0 ELSE s.shares - s.pending_withdraw
           paid   == IF e.wiped THEN 0 ELSE assets_for(s.pending_withdraw, e.assets, e.shares)
           minted == IF e.wiped THEN shares_for(s.pending_deposit, 0, 0)
                                ELSE shares_for(s.pending_deposit, e.assets, e.shares)
<1>1. /\ s.shares \in Nat /\ s.pending_withdraw \in Nat /\ s.pending_deposit \in Nat
      /\ s.claimable \in Nat /\ s.pending_epoch \in Nat /\ s.generation \in Nat
  BY DEF Stakes
<1>2. e.assets \in Nat /\ e.shares \in Nat /\ e.generation \in Nat
  BY DEF Records
<1>3. kept \in Nat
  BY <1>1
<1>4. paid \in Nat
  BY <1>1, <1>2, AssetsForNat
<1>5. minted \in Nat
  BY <1>1, <1>2, SharesForNat
<1>6. book_from_epoch(s, e) =
        [s EXCEPT !.shares = kept + minted, !.claimable = @ + paid,
                  !.pending_deposit = 0, !.pending_withdraw = 0,
                  !.generation = e.generation]
  BY DEF book_from_epoch
<1> HIDE DEF kept, paid, minted
<1>7. kept + minted \in Nat /\ s.claimable + paid \in Nat
  BY <1>1, <1>3, <1>4, <1>5
<1>8. book_from_epoch(s, e) =
        [shares |-> kept + minted, pending_withdraw |-> 0, pending_deposit |-> 0,
         claimable |-> s.claimable + paid, pending_epoch |-> s.pending_epoch,
         generation |-> e.generation]
  BY <1>6 DEF Stakes
<1> QED
  BY <1>1, <1>2, <1>7, <1>8 DEF Stakes

\* A stake brought up to date is a stake with nothing stale, of the generation
\* in force, and every entry of the epoch in force is still in it.
LEMMA UpToDate ==
  ASSUME TypeOK, RecordsKnown, NEW s \in Stakes, Sound(s)
  PROVE  LET b == book(s)
         IN  /\ can_book(s)
             /\ b \in Stakes /\ ~ stale(b) /\ Sound(b)
             /\ b.pending_epoch = s.pending_epoch /\ b.generation = generation
             /\ ~ stale(s) => /\ b.pending_deposit = s.pending_deposit
                              /\ b.pending_withdraw = s.pending_withdraw
             /\ stale(s) => b.pending_deposit = 0 /\ b.pending_withdraw = 0
<1> DEFINE e == records[s.pending_epoch]
           m == IF stale(s) THEN book_from_epoch(s, e) ELSE s
<1>0. epoch \in Nat /\ generation \in Nat
  BY DEF TypeOK
<1>1. /\ s.shares \in Nat /\ s.pending_withdraw \in Nat /\ s.pending_deposit \in Nat
      /\ s.claimable \in Nat /\ s.pending_epoch \in Nat /\ s.generation \in Nat
      /\ s.pending_withdraw <= s.shares /\ s.pending_epoch <= epoch
      /\ s.generation <= generation
  BY DEF Stakes, Sound
<1>2. can_book(s) /\ book(s) = void_old_shares(m)
  BY <1>1 DEF can_book, book, Sound
<1>3. ASSUME stale(s)
      PROVE  /\ m \in Stakes /\ m.pending_epoch = s.pending_epoch
             /\ m.pending_withdraw = 0 /\ m.pending_deposit = 0
             /\ m.generation <= generation
  <2>1. e \in Records /\ e.generation <= generation
    BY <1>3 DEF Sound, RecordsKnown
  <2>2. m = book_from_epoch(s, e)
    BY <1>3
  <2> HIDE DEF e, m
  <2> QED
    BY <1>1, <2>1, <2>2, BookedEntry
<1>4. ASSUME ~ stale(s)
      PROVE  /\ m = s
             /\ has_pending(s) => s.pending_epoch = epoch /\ s.generation = generation
  BY <1>0, <1>1, <1>4 DEF stale, Sound
<1>5. /\ m \in Stakes /\ m.pending_epoch = s.pending_epoch /\ m.generation <= generation
      /\ m.pending_withdraw <= m.shares
      /\ has_pending(m) => m.pending_epoch = epoch /\ m.generation = generation
  BY <1>1, <1>3, <1>4 DEF has_pending, Stakes
<1>6. /\ void_old_shares(m) \in Stakes
      /\ void_old_shares(m).pending_epoch = m.pending_epoch
      /\ void_old_shares(m).pending_deposit = m.pending_deposit
      /\ void_old_shares(m).pending_withdraw = m.pending_withdraw
      /\ void_old_shares(m).generation = generation
      /\ void_old_shares(m).pending_withdraw <= void_old_shares(m).shares
  <2> HIDE DEF m
  <2>1. CASE m.generation # generation /\ ~ has_pending(m)
    <3>1. void_old_shares(m) = [m EXCEPT !.shares = 0, !.generation = generation]
      BY <2>1 DEF void_old_shares
    <3>2. m.pending_withdraw = 0
      BY <1>5, <2>1 DEF has_pending, Stakes
    <3>3. void_old_shares(m) =
            [shares |-> 0, pending_withdraw |-> m.pending_withdraw,
             pending_deposit |-> m.pending_deposit, claimable |-> m.claimable,
             pending_epoch |-> m.pending_epoch, generation |-> generation]
      BY <1>5, <3>1 DEF Stakes
    <3> QED
      BY <1>0, <1>5, <3>2, <3>3 DEF Stakes
  <2>2. CASE m.generation = generation \/ has_pending(m)
    BY <1>5, <2>2 DEF void_old_shares
  <2> QED
    BY <2>1, <2>2
<1>7. /\ ~ stale(void_old_shares(m)) /\ Sound(void_old_shares(m))
  <2> DEFINE b == void_old_shares(m)
  <2> HIDE DEF b, m
  <2>1. has_pending(b) => b.pending_epoch = epoch
    BY <1>5, <1>6 DEF has_pending, b
  <2>2. b.pending_epoch <= epoch /\ b.generation <= generation /\ b.pending_withdraw <= b.shares
    BY <1>0, <1>1, <1>5, <1>6 DEF b
  <2>3. ~ stale(b)
    BY <1>0, <2>1, <2>2 DEF stale
  <2> QED
    BY <1>6, <2>2, <2>3 DEF Sound, b
<1> QED
  BY <1>2, <1>3, <1>4, <1>6, <1>7

\* Bringing up to date what is up to date changes nothing.
LEMMA UpToDateAlready ==
  ASSUME NEW s, ~ stale(s), s.generation = generation
  PROVE  book(s) = s
BY DEF book, void_old_shares

-----------------------------------------------------------------------------
(* Steps that touch one stake.                                             *)

held_shares == [o \in Owners |-> booked[o].shares]
held_claims == [o \in Owners |-> booked[o].claimable]

\* What is still queued once a stake is brought up to date.
asked_deposits  == [o \in Owners |-> booked[o].pending_deposit]
asked_withdraws == [o \in Owners |-> booked[o].pending_withdraw]

\* What the invariant says of every stake, in the terms the steps use.
LEMMA Stakes1 ==
  ASSUME Inv
  PROVE  /\ RecordsKnown /\ IsFiniteSet(Owners)
         /\ \A o \in Owners : /\ stake[o] \in Stakes /\ Sound(stake[o])
                              /\ booked[o] = book(stake[o]) /\ booked[o] \in Stakes
         /\ \A o \in Owners : /\ held_shares[o] \in Nat /\ held_claims[o] \in Nat
                              /\ queued_in[o] \in Nat /\ queued_out[o] \in Nat
         /\ SumOver(Owners, held_shares) \in Nat /\ SumOver(Owners, held_claims) \in Nat
         /\ SumOver(Owners, held_shares) <= total_shares
         /\ SumOver(Owners, held_claims) <= claimable
<1>1. RecordsKnown /\ IsFiniteSet(Owners)
  BY HouseConstants DEF Inv, TypeOK, HouseInv, RecordsKnown
<1>2. \A o \in Owners : stake[o] \in Stakes /\ Sound(stake[o])
  BY DEF Inv, TypeOK, HouseInv
<1>3. \A o \in Owners : booked[o] = book(stake[o]) /\ booked[o] \in Stakes
  BY <1>1, <1>2, UpToDate DEF Inv, booked
<1>4. \A o \in Owners : /\ held_shares[o] \in Nat /\ held_claims[o] \in Nat
                        /\ queued_in[o] \in Nat /\ queued_out[o] \in Nat
  BY <1>2, <1>3 DEF held_shares, held_claims, queued_in, queued_out, Stakes
<1>5. SumOver(Owners, held_shares) \in Nat /\ SumOver(Owners, held_claims) \in Nat
  BY <1>1, <1>4, SumNat DEF SumOver
<1>6. StakesBacked
  BY DEF Inv, HouseInv
<1> QED
  BY <1>1, <1>2, <1>3, <1>4, <1>5, <1>6 DEF StakesBacked, held_shares, held_claims

\* A step that leaves one stake up to date and the rest alone moves the sums
\* over stakes by what it changed there.
LEMMA OwnerStep ==
  ASSUME Inv, NEW o \in Owners, NEW s \in Stakes,
         stake' = [stake EXCEPT ![o] = s], UNCHANGED roundVars,
         ~ stale(s), s.generation = generation,
         s.pending_withdraw <= s.shares, s.pending_epoch <= epoch
  PROVE  /\ stake' \in [Owners -> Stakes] /\ \A p \in Owners : Sound(stake[p])'
         /\ RecordsKnown'
         /\ SumOver(Owners, held_shares)' =
              SumOver(Owners, held_shares) + (s.shares - booked[o].shares)
         /\ SumOver(Owners, held_claims)' =
              SumOver(Owners, held_claims) + (s.claimable - booked[o].claimable)
         /\ SumOver(Owners, queued_in)' = SumOver(Owners, queued_in)
              + ((IF s.pending_epoch = epoch THEN s.pending_deposit ELSE 0) - queued_in[o])
         /\ SumOver(Owners, queued_out)' = SumOver(Owners, queued_out)
              + ((IF s.pending_epoch = epoch THEN s.pending_withdraw ELSE 0) - queued_out[o])
<1>0. /\ epoch' = epoch /\ generation' = generation /\ records' = records
      /\ epoch \in Nat /\ generation \in Nat /\ stake \in [Owners -> Stakes]
  BY DEF roundVars, Inv, TypeOK
<1>1. /\ stake' \in [Owners -> Stakes] /\ stake'[o] = s
      /\ \A p \in Owners \ {o} : stake'[p] = stake[p]
  BY <1>0
<1>2. /\ s.shares \in Nat /\ s.claimable \in Nat
      /\ s.pending_deposit \in Nat /\ s.pending_withdraw \in Nat
      /\ s.pending_epoch \in Nat
  BY DEF Stakes
<1>3. Sound(s)
  BY <1>0 DEF Sound
<1>5. \A p \in Owners : Sound(stake[p])'
  <2> SUFFICES ASSUME NEW p \in Owners PROVE Sound(stake[p])'
    OBVIOUS
  <2>1. Sound(stake'[p])
    BY <1>1, <1>3, Stakes1
  <2> QED
    BY <1>0, <2>1 DEF Sound, stale
<1>6. RecordsKnown'
  BY <1>0, Stakes1 DEF RecordsKnown
<1>7. \A p \in Owners : booked'[p] = book(stake'[p])
  BY <1>0 DEF booked, book, can_book, stale, void_old_shares
<1>8. book(s) = s
  BY UpToDateAlready
<1>9. /\ held_shares'[o] = s.shares /\ held_claims'[o] = s.claimable
      /\ \A p \in Owners \ {o} : /\ held_shares'[p] = held_shares[p]
                                 /\ held_claims'[p] = held_claims[p]
  BY <1>1, <1>7, <1>8, Stakes1 DEF held_shares, held_claims
<1>10. /\ queued_in'[o] = IF s.pending_epoch = epoch THEN s.pending_deposit ELSE 0
       /\ queued_out'[o] = IF s.pending_epoch = epoch THEN s.pending_withdraw ELSE 0
       /\ \A p \in Owners \ {o} : /\ queued_in'[p] = queued_in[p]
                                  /\ queued_out'[p] = queued_out[p]
  BY <1>0, <1>1 DEF queued_in, queued_out
<1>11. held_shares[o] = booked[o].shares /\ held_claims[o] = booked[o].claimable
  BY DEF held_shares, held_claims
<1>12. SumFunctionOnSet(held_shares', Owners) =
         SumFunctionOnSet(held_shares, Owners) + (s.shares - booked[o].shares)
  BY <1>2, <1>9, <1>11, Stakes1, SumUpdate
<1>13. SumFunctionOnSet(held_claims', Owners) =
         SumFunctionOnSet(held_claims, Owners) + (s.claimable - booked[o].claimable)
  BY <1>2, <1>9, <1>11, Stakes1, SumUpdate
<1>14. SumFunctionOnSet(queued_in', Owners) = SumFunctionOnSet(queued_in, Owners)
         + ((IF s.pending_epoch = epoch THEN s.pending_deposit ELSE 0) - queued_in[o])
  BY <1>2, <1>10, Stakes1, SumUpdate
<1>15. SumFunctionOnSet(queued_out', Owners) = SumFunctionOnSet(queued_out, Owners)
         + ((IF s.pending_epoch = epoch THEN s.pending_withdraw ELSE 0) - queued_out[o])
  BY <1>2, <1>10, Stakes1, SumUpdate
<1> QED
  BY <1>1, <1>5, <1>6, <1>12, <1>13, <1>14, <1>15 DEF SumOver

\* A stake as its owner's call finds it, once booked.
LEMMA OwnerFinds ==
  ASSUME Inv, NEW o \in Owners
  PROVE  LET b == booked[o]
         IN  /\ can_book(stake[o]) /\ b = book(stake[o])
             /\ b \in Stakes /\ ~ stale(b) /\ b.generation = generation
             /\ b.pending_withdraw <= b.shares /\ b.pending_epoch <= epoch
             /\ b.pending_deposit = queued_in[o] /\ b.pending_withdraw = queued_out[o]
             /\ b.pending_epoch # epoch => queued_in[o] = 0 /\ queued_out[o] = 0
<1>1. /\ stake[o] \in Stakes /\ Sound(stake[o]) /\ RecordsKnown /\ TypeOK
      /\ booked[o] = book(stake[o])
  BY Stakes1 DEF Inv
<1>2. epoch \in Nat /\ stake[o].pending_epoch \in Nat
      /\ stake[o].pending_deposit \in Nat /\ stake[o].pending_withdraw \in Nat
  BY <1>1 DEF TypeOK, Stakes
<1>3. CASE stale(stake[o])
  <2>1. queued_in[o] = 0 /\ queued_out[o] = 0
    BY <1>2, <1>3 DEF queued_in, queued_out, stale
  <2> QED
    BY <1>1, <1>3, <2>1, UpToDate DEF Sound
<1>4. CASE ~ stale(stake[o])
  <2>1. stake[o].pending_epoch # epoch =>
          stake[o].pending_deposit = 0 /\ stake[o].pending_withdraw = 0
    BY <1>1, <1>2, <1>4 DEF Sound, stale, has_pending
  <2>2. /\ queued_in[o] = stake[o].pending_deposit
        /\ queued_out[o] = stake[o].pending_withdraw
    BY <2>1 DEF queued_in, queued_out
  <2> QED
    BY <1>1, <1>4, <2>1, <2>2, UpToDate DEF Sound
<1> QED
  BY <1>3, <1>4

\* An owner's step keeps the invariant if what it changes in the stake is what
\* it changes in the house's books.
LEMMA OwnerKeeps ==
  ASSUME Inv, NEW o \in Owners, NEW s \in Stakes,
         stake' = [stake EXCEPT ![o] = s], UNCHANGED roundVars, UNCHANGED controlVars,
         ~ stale(s), s.generation = generation,
         s.pending_withdraw <= s.shares, s.pending_epoch <= epoch,
         NEW queue_in \in Nat, NEW queue_out \in Nat,
         queue_in = IF s.pending_epoch = epoch THEN s.pending_deposit ELSE 0,
         queue_out = IF s.pending_epoch = epoch THEN s.pending_withdraw ELSE 0,
         pending_deposits' = pending_deposits + (queue_in - queued_in[o]),
         pending_withdraw_shares' = pending_withdraw_shares + (queue_out - queued_out[o]),
         phase = "Idle" => queue_in = queued_in[o] /\ queue_out = queued_out[o],
         assets' \in Nat, total_shares' \in Nat, claimable' \in Nat,
         vault' = assets' + pending_deposits' + claimable',
         s.shares - booked[o].shares <= total_shares' - total_shares,
         s.claimable - booked[o].claimable <= claimable' - claimable
  PROVE  Inv'
<1>1. /\ stake' \in [Owners -> Stakes] /\ \A p \in Owners : Sound(stake[p])'
      /\ RecordsKnown'
      /\ SumOver(Owners, held_shares)' =
           SumOver(Owners, held_shares) + (s.shares - booked[o].shares)
      /\ SumOver(Owners, held_claims)' =
           SumOver(Owners, held_claims) + (s.claimable - booked[o].claimable)
      /\ SumOver(Owners, queued_in)' = SumOver(Owners, queued_in) + (queue_in - queued_in[o])
      /\ SumOver(Owners, queued_out)' = SumOver(Owners, queued_out) + (queue_out - queued_out[o])
  BY OwnerStep
<1>2. /\ s.shares \in Nat /\ s.claimable \in Nat
      /\ booked[o].shares \in Nat /\ booked[o].claimable \in Nat
      /\ total_shares \in Nat /\ claimable \in Nat
      /\ pending_deposits \in Nat /\ pending_withdraw_shares \in Nat
      /\ queued_in[o] \in Nat /\ queued_out[o] \in Nat
  BY Stakes1 DEF Stakes, Inv, TypeOK
<1>3. StakesBacked'
  BY <1>1, <1>2, Stakes1 DEF StakesBacked, held_shares, held_claims
<1>4. QueueExact'
  BY <1>1, <1>2 DEF QueueExact, Inv, HouseInv, roundVars
<1>5. pending_deposits' \in Nat /\ pending_withdraw_shares' \in Nat
  <2>1. \A p \in Owners : queued_in'[p] \in Nat /\ queued_out'[p] \in Nat
    BY <1>1 DEF queued_in, queued_out, Stakes
  <2>2. /\ SumFunctionOnSet(queued_in', Owners) \in Nat
        /\ SumFunctionOnSet(queued_out', Owners) \in Nat
    BY <2>1, Stakes1, SumNat
  <2> QED
    BY <1>4, <2>2 DEF QueueExact, SumOver
<1>6. TypeOK'
  BY <1>1, <1>5 DEF TypeOK, Inv, roundVars, controlVars, RecordsKnown
<1> QED
  BY <1>1, <1>3, <1>4, <1>6 DEF Inv, HouseInv, VaultIsBooks, RecordsKnown

\* A deposit: capital and shares at once while idle, a longer queue otherwise.
LEMMA DepositKeeps ==
  ASSUME Inv, NEW o \in Owners, NEW amount \in Amounts, Deposit(o, amount) PROVE Inv'
<1> DEFINE b      == booked[o]
           minted == shares_for(amount, assets, total_shares)
<1>1. /\ b = book(stake[o]) /\ b \in Stakes /\ ~ stale(b) /\ b.generation = generation
      /\ b.pending_withdraw <= b.shares /\ b.pending_epoch <= epoch
      /\ b.pending_deposit = queued_in[o] /\ b.pending_withdraw = queued_out[o]
      /\ b.pending_epoch # epoch => queued_in[o] = 0 /\ queued_out[o] = 0
  BY OwnerFinds
<1>2. /\ amount \in Nat /\ assets \in Nat /\ total_shares \in Nat /\ claimable \in Nat
      /\ pending_deposits \in Nat /\ vault = assets + pending_deposits + claimable
      /\ epoch \in Nat /\ generation \in Nat /\ pending_withdraw_shares \in Nat
      /\ queued_in[o] \in Nat /\ queued_out[o] \in Nat
  BY HouseConstants, Stakes1 DEF Inv, TypeOK, HouseInv, VaultIsBooks
<1>3. minted \in Nat
  BY <1>2, SharesForNat
<1>4. UNCHANGED roundVars /\ UNCHANGED controlVars /\ vault' = vault + amount
      /\ claimable' = claimable
  BY DEF Deposit
<1> HIDE DEF b, minted
<1>5. CASE phase = "Idle"
  <2> DEFINE s == [b EXCEPT !.shares = @ + minted]
  <2>1. /\ assets' = assets + amount /\ total_shares' = total_shares + minted
        /\ pending_deposits' = pending_deposits
        /\ pending_withdraw_shares' = pending_withdraw_shares
        /\ stake' = [stake EXCEPT ![o] = s]
    BY <1>1, <1>5 DEF Deposit, queueVars, b, minted
  <2>2. /\ s \in Stakes /\ s.shares = b.shares + minted /\ s.claimable = b.claimable
        /\ s.pending_epoch = b.pending_epoch /\ s.generation = generation
        /\ s.pending_deposit = b.pending_deposit /\ s.pending_withdraw = b.pending_withdraw
        /\ b.shares \in Nat /\ b.pending_withdraw \in Nat /\ b.claimable \in Nat
    BY <1>1, <1>3 DEF Stakes
  <2>3. ~ stale(s) /\ s.pending_withdraw <= s.shares
    BY <1>1, <1>3, <2>2 DEF stale, has_pending
  <2> HIDE DEF s
  <2>4. /\ queued_in[o] = IF s.pending_epoch = epoch THEN s.pending_deposit ELSE 0
        /\ queued_out[o] = IF s.pending_epoch = epoch THEN s.pending_withdraw ELSE 0
    BY <1>1, <2>2
  <2>5. s.shares - b.shares <= total_shares' - total_shares
        /\ s.claimable - b.claimable <= claimable' - claimable
    BY <1>2, <1>3, <1>4, <2>1, <2>2
  <2>6. /\ pending_deposits' = pending_deposits + (queued_in[o] - queued_in[o])
        /\ pending_withdraw_shares' = pending_withdraw_shares + (queued_out[o] - queued_out[o])
        /\ assets' \in Nat /\ total_shares' \in Nat /\ claimable' \in Nat
        /\ vault' = assets' + pending_deposits' + claimable'
    BY <1>2, <1>3, <1>4, <2>1
  <2> QED
    BY <1>1, <1>2, <1>4, <2>1, <2>2, <2>3, <2>4, <2>5, <2>6, OwnerKeeps DEF b
<1>6. CASE phase # "Idle"
  <2> DEFINE total == b.pending_deposit + amount
             s == [b EXCEPT !.pending_deposit = total, !.pending_epoch = epoch]
  <2>1. /\ assets' = assets /\ total_shares' = total_shares
        /\ pending_deposits' = pending_deposits + amount
        /\ pending_withdraw_shares' = pending_withdraw_shares
        /\ stake' = [stake EXCEPT ![o] = s]
    BY <1>1, <1>6 DEF Deposit, shareVars, b
  <2>2. /\ total \in Nat /\ b.shares \in Nat /\ b.claimable \in Nat
        /\ s = [b EXCEPT !.pending_deposit = total, !.pending_epoch = epoch]
    BY <1>1, <1>2 DEF Stakes
  <2> HIDE DEF s
  <2>3. /\ s \in Stakes /\ s.shares = b.shares /\ s.claimable = b.claimable
        /\ s.pending_epoch = epoch /\ s.generation = generation
        /\ s.pending_deposit = total /\ s.pending_withdraw = b.pending_withdraw
    <3> HIDE DEF total
    <3>1. b \in Stakes /\ total \in Nat /\ epoch \in Nat
      BY <1>1, <1>2, <2>2
    <3>2. s = [b EXCEPT !.pending_deposit = total, !.pending_epoch = epoch]
      BY <2>2
    <3>3. /\ s \in Stakes /\ s.shares = b.shares /\ s.claimable = b.claimable
          /\ s.pending_epoch = epoch /\ s.generation = b.generation
          /\ s.pending_deposit = total /\ s.pending_withdraw = b.pending_withdraw
      BY <3>1, <3>2 DEF Stakes
    <3> QED
      BY <1>1, <3>3
  <2>4. ~ stale(s) /\ s.pending_withdraw <= s.shares
    BY <1>1, <1>2, <2>3 DEF stale
  <2>5. /\ queued_in[o] + amount = IF s.pending_epoch = epoch THEN s.pending_deposit ELSE 0
        /\ queued_out[o] = IF s.pending_epoch = epoch THEN s.pending_withdraw ELSE 0
        /\ s.shares - b.shares <= total_shares' - total_shares
        /\ s.claimable - b.claimable <= claimable' - claimable
    BY <1>1, <1>2, <1>4, <2>1, <2>2, <2>3
  <2>6. /\ pending_deposits' = pending_deposits + ((queued_in[o] + amount) - queued_in[o])
        /\ pending_withdraw_shares' = pending_withdraw_shares + (queued_out[o] - queued_out[o])
        /\ vault' = assets' + pending_deposits' + claimable'
        /\ queued_in[o] + amount \in Nat /\ epoch <= epoch
    BY <1>2, <1>4, <2>1
  <2> QED
    BY <1>1, <1>2, <1>4, <1>6, <2>1, <2>3, <2>4, <2>5, <2>6, OwnerKeeps DEF b
<1> QED
  BY <1>5, <1>6

\* A withdrawal: shares and money at once while idle, a longer queue otherwise.
LEMMA WithdrawKeeps ==
  ASSUME Inv, NEW o \in Owners, NEW n \in Quantities, Withdraw(o, n) PROVE Inv'
<1> DEFINE b    == booked[o]
           paid == assets_for(n, assets, total_shares)
<1>1. /\ b = book(stake[o]) /\ b \in Stakes /\ ~ stale(b) /\ b.generation = generation
      /\ b.pending_withdraw <= b.shares /\ b.pending_epoch <= epoch
      /\ b.pending_deposit = queued_in[o] /\ b.pending_withdraw = queued_out[o]
      /\ b.pending_epoch # epoch => queued_in[o] = 0 /\ queued_out[o] = 0
  BY OwnerFinds
<1>2. /\ n \in Nat /\ assets \in Nat /\ total_shares \in Nat /\ claimable \in Nat
      /\ pending_deposits \in Nat /\ vault = assets + pending_deposits + claimable
      /\ epoch \in Nat /\ generation \in Nat /\ pending_withdraw_shares \in Nat
      /\ queued_in[o] \in Nat /\ queued_out[o] \in Nat
  BY HouseConstants, Stakes1 DEF Inv, TypeOK, HouseInv, VaultIsBooks
<1>3. paid \in Nat /\ paid <= assets
  BY <1>2, AssetsForNat
<1>4. /\ UNCHANGED roundVars /\ UNCHANGED controlVars /\ claimable' = claimable
      /\ n <= b.shares - b.pending_withdraw
  BY <1>1 DEF Withdraw, free_shares
<1>5. /\ b.shares \in Nat /\ b.pending_withdraw \in Nat /\ b.pending_deposit \in Nat
      /\ b.claimable \in Nat /\ b.pending_epoch \in Nat
  BY <1>1 DEF Stakes
<1> HIDE DEF b, paid
<1>6. CASE phase = "Idle"
  <2> DEFINE left == b.shares - n
             s    == [b EXCEPT !.shares = left]
  <2>1. /\ assets' = assets - paid /\ total_shares' = total_shares - n
        /\ n <= total_shares /\ vault' = vault - paid
        /\ pending_deposits' = pending_deposits
        /\ pending_withdraw_shares' = pending_withdraw_shares
        /\ stake' = [stake EXCEPT ![o] = s]
    BY <1>1, <1>6 DEF Withdraw, queueVars, b, paid
  <2>2. left \in Nat /\ b.pending_withdraw <= left /\ s = [b EXCEPT !.shares = left]
    BY <1>2, <1>4, <1>5
  <2> HIDE DEF s
  <2>3. /\ s \in Stakes /\ s.shares = left /\ s.claimable = b.claimable
        /\ s.pending_epoch = b.pending_epoch /\ s.generation = generation
        /\ s.pending_deposit = b.pending_deposit /\ s.pending_withdraw = b.pending_withdraw
    <3> HIDE DEF left
    <3> QED
      BY <1>1, <2>2 DEF Stakes
  <2>4. ~ stale(s) /\ s.pending_withdraw <= s.shares
    BY <1>1, <2>2, <2>3 DEF stale, has_pending
  <2>5. /\ queued_in[o] = IF s.pending_epoch = epoch THEN s.pending_deposit ELSE 0
        /\ queued_out[o] = IF s.pending_epoch = epoch THEN s.pending_withdraw ELSE 0
    BY <1>1, <2>3
  <2>6. /\ s.shares - b.shares <= total_shares' - total_shares
        /\ s.claimable - b.claimable <= claimable' - claimable
    BY <1>2, <1>4, <1>5, <2>1, <2>3
  <2>7. /\ pending_deposits' = pending_deposits + (queued_in[o] - queued_in[o])
        /\ pending_withdraw_shares' = pending_withdraw_shares + (queued_out[o] - queued_out[o])
        /\ assets' \in Nat /\ total_shares' \in Nat /\ claimable' \in Nat
        /\ vault' = assets' + pending_deposits' + claimable'
    BY <1>2, <1>3, <1>4, <2>1
  <2> QED
    BY <1>1, <1>2, <1>4, <2>1, <2>3, <2>4, <2>5, <2>6, <2>7, OwnerKeeps DEF b
<1>7. CASE phase # "Idle"
  <2> DEFINE total == b.pending_withdraw + n
             s     == [b EXCEPT !.pending_withdraw = total, !.pending_epoch = epoch]
  <2>1. /\ assets' = assets /\ total_shares' = total_shares /\ vault' = vault
        /\ pending_deposits' = pending_deposits
        /\ pending_withdraw_shares' = pending_withdraw_shares + n
        /\ stake' = [stake EXCEPT ![o] = s]
    BY <1>1, <1>7 DEF Withdraw, shareVars, b
  <2>2. /\ total \in Nat /\ total <= b.shares
        /\ s = [b EXCEPT !.pending_withdraw = total, !.pending_epoch = epoch]
    BY <1>2, <1>4, <1>5
  <2> HIDE DEF s
  <2>3. /\ s \in Stakes /\ s.shares = b.shares /\ s.claimable = b.claimable
        /\ s.pending_epoch = epoch /\ s.generation = generation
        /\ s.pending_deposit = b.pending_deposit /\ s.pending_withdraw = total
    <3> HIDE DEF total
    <3>1. b \in Stakes /\ total \in Nat /\ epoch \in Nat
      BY <1>1, <1>2, <2>2
    <3>2. s = [b EXCEPT !.pending_withdraw = total, !.pending_epoch = epoch]
      BY <2>2
    <3>3. /\ s \in Stakes /\ s.shares = b.shares /\ s.claimable = b.claimable
          /\ s.pending_epoch = epoch /\ s.generation = b.generation
          /\ s.pending_deposit = b.pending_deposit /\ s.pending_withdraw = total
      BY <3>1, <3>2 DEF Stakes
    <3> QED
      BY <1>1, <3>3
  <2>4. ~ stale(s) /\ s.pending_withdraw <= s.shares
    BY <1>1, <1>2, <2>2, <2>3 DEF stale
  <2>5. /\ queued_in[o] = IF s.pending_epoch = epoch THEN s.pending_deposit ELSE 0
        /\ queued_out[o] + n = IF s.pending_epoch = epoch THEN s.pending_withdraw ELSE 0
    BY <1>1, <1>2, <2>3
  <2>6. /\ s.shares - b.shares <= total_shares' - total_shares
        /\ s.claimable - b.claimable <= claimable' - claimable
    BY <1>2, <1>4, <1>5, <2>1, <2>3
  <2>7. /\ pending_deposits' = pending_deposits + (queued_in[o] - queued_in[o])
        /\ pending_withdraw_shares' =
             pending_withdraw_shares + ((queued_out[o] + n) - queued_out[o])
        /\ queued_out[o] + n \in Nat /\ epoch <= epoch
        /\ vault' = assets' + pending_deposits' + claimable'
    BY <1>2, <1>4, <2>1
  <2> QED
    BY <1>1, <1>2, <1>4, <1>7, <2>1, <2>3, <2>4, <2>5, <2>6, <2>7, OwnerKeeps DEF b
<1> QED
  BY <1>6, <1>7

\* A queued deposit taken back.  Nothing is booked: the stake's entry is of
\* the epoch in force, so its shares are of the generation in force.
LEMMA CancelKeeps ==
  ASSUME Inv, NEW o \in Owners, CancelDeposit(o) PROVE Inv'
<1> DEFINE b == stake[o]
           s == [b EXCEPT !.pending_deposit = 0]
<1>1. /\ b \in Stakes /\ Sound(b) /\ phase # "Idle"
      /\ b.pending_epoch = epoch /\ b.pending_deposit > 0
      /\ pending_deposits' = pending_deposits - b.pending_deposit
      /\ vault' = vault - b.pending_deposit
      /\ b.pending_deposit <= pending_deposits
      /\ UNCHANGED roundVars /\ UNCHANGED controlVars
      /\ assets' = assets /\ total_shares' = total_shares /\ claimable' = claimable
      /\ pending_withdraw_shares' = pending_withdraw_shares
  BY Stakes1 DEF CancelDeposit, cancellable, shareVars
<1>2. /\ assets \in Nat /\ total_shares \in Nat /\ claimable \in Nat
      /\ pending_deposits \in Nat /\ vault = assets + pending_deposits + claimable
      /\ epoch \in Nat /\ generation \in Nat /\ pending_withdraw_shares \in Nat
  BY DEF Inv, TypeOK, HouseInv, VaultIsBooks
<1>3. stake' = [stake EXCEPT ![o] = s]
  BY DEF CancelDeposit
<1>4. /\ b.shares \in Nat /\ b.pending_withdraw \in Nat /\ b.pending_deposit \in Nat
      /\ b.claimable \in Nat
  BY <1>1 DEF Stakes
<1>5. ~ stale(b) /\ b.generation = generation /\ b.pending_withdraw <= b.shares
  BY <1>1, <1>2 DEF Sound, stale, has_pending
<1>6. booked[o] = b /\ queued_in[o] = b.pending_deposit /\ queued_out[o] = b.pending_withdraw
  BY <1>1, <1>5, UpToDateAlready DEF booked, queued_in, queued_out
<1>7. s = [b EXCEPT !.pending_deposit = 0]
  OBVIOUS
<1> HIDE DEF s, b
<1>8. /\ s \in Stakes /\ s.shares = b.shares /\ s.claimable = b.claimable
      /\ s.pending_epoch = b.pending_epoch /\ s.generation = b.generation
      /\ s.pending_deposit = 0 /\ s.pending_withdraw = b.pending_withdraw
  BY <1>1, <1>7 DEF Stakes
<1>9. /\ ~ stale(s) /\ s.generation = generation
      /\ s.pending_withdraw <= s.shares /\ s.pending_epoch <= epoch
  BY <1>1, <1>2, <1>5, <1>8 DEF stale
<1>10. /\ 0 = IF s.pending_epoch = epoch THEN s.pending_deposit ELSE 0
       /\ queued_out[o] = IF s.pending_epoch = epoch THEN s.pending_withdraw ELSE 0
       /\ pending_deposits' = pending_deposits + (0 - queued_in[o])
       /\ pending_withdraw_shares' = pending_withdraw_shares + (queued_out[o] - queued_out[o])
       /\ 0 \in Nat /\ queued_out[o] \in Nat
       /\ vault' = assets' + pending_deposits' + claimable'
       /\ s.shares - booked[o].shares <= total_shares' - total_shares
       /\ s.claimable - booked[o].claimable <= claimable' - claimable
  BY <1>1, <1>2, <1>4, <1>6, <1>8
<1> QED
  BY <1>1, <1>2, <1>3, <1>8, <1>9, <1>10, OwnerKeeps

\* A claim: what is taken from the stake is at most what was set aside.
LEMMA ClaimKeeps ==
  ASSUME Inv, NEW o \in Owners, Claim(o) PROVE Inv'
<1> DEFINE b == booked[o]
           s == [b EXCEPT !.claimable = 0]
<1>1. /\ b = book(stake[o]) /\ b \in Stakes /\ ~ stale(b) /\ b.generation = generation
      /\ b.pending_withdraw <= b.shares /\ b.pending_epoch <= epoch
      /\ b.pending_deposit = queued_in[o] /\ b.pending_withdraw = queued_out[o]
      /\ b.pending_epoch # epoch => queued_in[o] = 0 /\ queued_out[o] = 0
  BY OwnerFinds
<1>2. /\ assets \in Nat /\ total_shares \in Nat /\ claimable \in Nat
      /\ pending_deposits \in Nat /\ vault = assets + pending_deposits + claimable
      /\ epoch \in Nat /\ generation \in Nat /\ pending_withdraw_shares \in Nat
      /\ queued_in[o] \in Nat /\ queued_out[o] \in Nat
  BY Stakes1 DEF Inv, TypeOK, HouseInv, VaultIsBooks
<1>3. b.shares \in Nat /\ b.claimable \in Nat
  BY <1>1 DEF Stakes
<1>4. b.claimable <= claimable
  <2>1. held_claims[o] <= SumFunctionOnSet(held_claims, Owners)
    BY Stakes1, SumTerm
  <2> QED
    BY <1>2, <1>3, <2>1, Stakes1 DEF SumOver, held_claims
<1>5. /\ UNCHANGED roundVars /\ UNCHANGED controlVars
      /\ assets' = assets /\ total_shares' = total_shares
      /\ pending_deposits' = pending_deposits
      /\ pending_withdraw_shares' = pending_withdraw_shares
      /\ claimable' = claimable - b.claimable /\ vault' = vault - b.claimable
      /\ stake' = [stake EXCEPT ![o] = s]
  BY <1>1, <1>4 DEF Claim, Lower, queueVars, shareVars
<1>6. s = [b EXCEPT !.claimable = 0]
  OBVIOUS
<1> HIDE DEF s, b
<1>7. /\ s \in Stakes /\ s.shares = b.shares /\ s.claimable = 0
      /\ s.pending_epoch = b.pending_epoch /\ s.generation = b.generation
      /\ s.pending_deposit = b.pending_deposit /\ s.pending_withdraw = b.pending_withdraw
  BY <1>1, <1>6 DEF Stakes
<1>8. /\ ~ stale(s) /\ s.generation = generation
      /\ s.pending_withdraw <= s.shares /\ s.pending_epoch <= epoch
  BY <1>1, <1>7 DEF stale, has_pending
<1>9. /\ queued_in[o] = IF s.pending_epoch = epoch THEN s.pending_deposit ELSE 0
      /\ queued_out[o] = IF s.pending_epoch = epoch THEN s.pending_withdraw ELSE 0
      /\ pending_deposits' = pending_deposits + (queued_in[o] - queued_in[o])
      /\ pending_withdraw_shares' = pending_withdraw_shares + (queued_out[o] - queued_out[o])
      /\ claimable' \in Nat /\ vault' = assets' + pending_deposits' + claimable'
      /\ s.shares - b.shares <= total_shares' - total_shares
      /\ s.claimable - b.claimable <= claimable' - claimable
  BY <1>1, <1>2, <1>3, <1>4, <1>5, <1>7
<1> QED
  BY <1>1, <1>2, <1>5, <1>7, <1>8, <1>9, OwnerKeeps DEF b

-----------------------------------------------------------------------------
(* The start, and the steps that touch no stake.                           *)

\* Empty or with a lister's seed, a house starts with the invariant.
LEMMA InitInv ==
  ASSUME Init PROVE Inv
<1> DEFINE none == [o \in Owners |-> 0]
<1>1. /\ paused = FALSE /\ phase = "Idle" /\ in_round = 0
      /\ pending_deposits = 0 /\ claimable = 0 /\ pending_withdraw_shares = 0
      /\ epoch = 0 /\ generation = 0 /\ fee_ema = 0
      /\ DOMAIN records = {} /\ vault = assets /\ IsFiniteSet(Owners)
  BY HouseConstants DEF Init
<1>2. PICK o, seed :
        /\ seed \in Nat /\ assets = seed /\ total_shares \in Nat
        /\ active \in BOOLEAN /\ frozen \subseteq Owners
        /\ \/ o \notin Owners /\ stake = [p \in Owners |-> Blank]
           \/ /\ o \in Owners
              /\ stake = [p \in Owners |-> IF p = o THEN [Blank EXCEPT !.shares = total_shares]
                                                    ELSE Blank]
  <2>1. CASE /\ active \in ActiveValues /\ frozen = {} /\ assets = 0 /\ total_shares = 0
             /\ stake = [p \in Owners |-> Blank]
    <3>1. PICK o : o \notin Owners
      <4>1. {x \in Owners : x \notin x} \notin Owners
        OBVIOUS
      <4> QED
        BY <4>1
    <3> QED
      BY <2>1, <3>1, HouseConstants
  <2>2. CASE \E o \in Owners, seed \in Amounts :
               /\ seed >= ONE_TOKEN /\ active = FALSE /\ frozen = {o}
               /\ assets = seed /\ total_shares = shares_for(seed, 0, 0)
               /\ stake = [p \in Owners |->
                    IF p = o THEN [Blank EXCEPT !.shares = shares_for(seed, 0, 0)] ELSE Blank]
    <3>1. PICK o \in Owners, seed \in Amounts :
               /\ active = FALSE /\ frozen = {o}
               /\ assets = seed /\ total_shares = shares_for(seed, 0, 0)
               /\ stake = [p \in Owners |->
                    IF p = o THEN [Blank EXCEPT !.shares = shares_for(seed, 0, 0)] ELSE Blank]
      BY <2>2
    <3>2. seed \in Nat /\ total_shares \in Nat
      BY <3>1, HouseConstants, SharesForNat
    <3> QED
      BY <3>1, <3>2
  <2> QED
    BY <2>1, <2>2 DEF Init
<1>3. \A p \in Owners : /\ stake[p] \in Stakes /\ stake[p].pending_deposit = 0
                        /\ stake[p].pending_withdraw = 0 /\ stake[p].claimable = 0
                        /\ stake[p].pending_epoch = 0 /\ stake[p].generation = 0
                        /\ stake[p].shares = IF p = o THEN total_shares ELSE 0
  BY <1>2 DEF Blank, Stakes
<1>4. stake \in [Owners -> Stakes]
  BY <1>2, <1>3
<1>5. \A p \in Owners : ~ stale(stake[p]) /\ Sound(stake[p]) /\ booked[p] = stake[p]
  BY <1>1, <1>3, UpToDateAlready DEF stale, has_pending, Sound, booked, Stakes
<1>6. \A p \in Owners : /\ held_claims[p] = 0 /\ queued_in[p] = 0 /\ queued_out[p] = 0
                        /\ held_shares[p] = IF p = o THEN total_shares ELSE 0
  BY <1>3, <1>5 DEF held_claims, queued_in, queued_out, held_shares
<1>7. /\ SumFunctionOnSet(held_claims, Owners) = 0
      /\ SumFunctionOnSet(queued_in, Owners) = 0
      /\ SumFunctionOnSet(queued_out, Owners) = 0
  BY <1>1, <1>6, SumZero
<1>8. SumFunctionOnSet(held_shares, Owners) <= total_shares
  <2>1. SumFunctionOnSet(none, Owners) = 0 /\ \A p \in Owners : none[p] = 0
    BY <1>1, SumZero
  <2> HIDE DEF none
  <2>2. CASE o \in Owners
    <3>1. held_shares[o] \in Int /\ \A p \in Owners \ {o} : held_shares[p] = none[p]
      BY <1>2, <1>6, <2>1, <2>2
    <3>2. \A p \in Owners : none[p] \in Int
      BY <2>1
    <3>3. SumFunctionOnSet(held_shares, Owners) =
            SumFunctionOnSet(none, Owners) + (held_shares[o] - none[o])
      BY <1>1, <2>2, <3>1, <3>2, SumUpdate
    <3> QED
      BY <1>2, <1>6, <2>1, <2>2, <3>3
  <2>3. CASE o \notin Owners
    <3>1. \A p \in Owners : held_shares[p] = 0
      BY <1>6, <2>3
    <3>2. SumFunctionOnSet(held_shares, Owners) = 0
      BY <1>1, <3>1, SumZero
    <3> QED
      BY <1>2, <3>2
  <2> QED
    BY <2>2, <2>3
<1>9. TypeOK
  BY <1>1, <1>2, <1>4 DEF TypeOK
<1>10. VaultIsBooks /\ QueueExact /\ StakesBacked
  BY <1>1, <1>2, <1>7, <1>8
     DEF VaultIsBooks, QueueExact, StakesBacked, SumOver, held_shares, held_claims
<1> QED
  BY <1>1, <1>5, <1>9, <1>10 DEF Inv, HouseInv

\* Steps of the authority and of the round, which leave stakes, queue, shares
\* and records alone.
LEMMA QuietKeeps ==
  ASSUME Inv,
         UNCHANGED <<stake, epoch, generation, records, fee_ema, total_shares, claimable>>,
         UNCHANGED queueVars,
         paused' \in BOOLEAN, active' \in BOOLEAN, frozen' \subseteq Owners,
         phase' \in {"Idle", "Running", "Settled", "Void"}, phase' = "Idle" => phase = "Idle",
         assets' \in Nat, in_round' \in Nat, vault' - vault = assets' - assets, vault' \in Nat
  PROVE  Inv'
<1>1. /\ booked' = booked /\ queued_in' = queued_in /\ queued_out' = queued_out
      /\ \A o \in Owners : Sound(stake[o])'
  BY Stakes1 DEF booked, book, can_book, stale, void_old_shares, queued_in, queued_out, Sound
<1>2. TypeOK'
  BY DEF Inv, TypeOK, queueVars
<1>3. StakesBacked' /\ QueueExact'
  BY <1>1 DEF Inv, HouseInv, StakesBacked, QueueExact, SumOver, queueVars
<1>4. VaultIsBooks'
  BY DEF Inv, HouseInv, TypeOK, VaultIsBooks, queueVars
<1>5. \A e \in DOMAIN records' : records'[e].generation <= generation'
  BY DEF Inv, HouseInv
<1> QED
  BY <1>1, <1>2, <1>3, <1>4, <1>5 DEF Inv, HouseInv

LEMMA AdministerKeeps ==
  ASSUME Inv, Administer PROVE Inv'
<1>1. paused' \in BOOLEAN /\ active' \in BOOLEAN /\ frozen' \subseteq Owners
  BY HouseConstants DEF Administer, Inv, TypeOK
<1>2. /\ UNCHANGED <<stake, epoch, generation, records, fee_ema, total_shares, claimable>>
      /\ UNCHANGED queueVars /\ UNCHANGED <<assets, in_round, vault, phase>>
  BY DEF Administer, roundVars, shareVars
<1>3. /\ assets \in Nat /\ in_round \in Nat /\ vault \in Nat
      /\ phase \in {"Idle", "Running", "Settled", "Void"}
  BY DEF Inv, TypeOK
<1>4. vault' - vault = assets' - assets
  BY <1>2, <1>3
<1> QED
  BY <1>1, <1>2, <1>3, <1>4, QuietKeeps

\* The house lends at most what it has.
LEMMA StartKeeps ==
  ASSUME Inv, Start PROVE Inv'
<1> DEFINE amount == commit_for(assets, fee_ema)
<1>1. /\ assets \in Nat /\ fee_ema \in Nat /\ vault \in Nat /\ claimable \in Nat
      /\ pending_deposits \in Nat /\ vault = assets + pending_deposits + claimable
      /\ paused \in BOOLEAN /\ active \in BOOLEAN /\ frozen \subseteq Owners
  BY DEF Inv, TypeOK, HouseInv, VaultIsBooks
<1>2. amount \in Nat /\ amount <= assets
  BY <1>1, CommitWithin
<1>3. /\ UNCHANGED <<stake, epoch, generation, records, fee_ema, total_shares, claimable>>
      /\ UNCHANGED queueVars /\ UNCHANGED <<paused, active, frozen>>
      /\ phase = "Idle" /\ phase' = "Running" /\ in_round' = amount
      /\ assets' = assets - amount /\ vault' = vault - amount
  BY DEF Start, controlVars
<1> HIDE DEF amount
<1>4. assets' \in Nat /\ in_round' \in Nat /\ vault' - vault = assets' - assets /\ vault' \in Nat
  BY <1>1, <1>2, <1>3
<1> QED
  BY <1>1, <1>3, <1>4, QuietKeeps

LEMMA RoundFinalKeeps ==
  ASSUME Inv, RoundFinal PROVE Inv'
<1>1. /\ UNCHANGED <<stake, epoch, generation, records, fee_ema, total_shares, claimable>>
      /\ UNCHANGED queueVars /\ UNCHANGED <<assets, in_round, vault, paused, active, frozen>>
      /\ phase' \in {"Settled", "Void"}
  BY DEF RoundFinal, shareVars, controlVars
<1>2. /\ assets \in Nat /\ in_round \in Nat /\ vault \in Nat
      /\ paused \in BOOLEAN /\ active \in BOOLEAN /\ frozen \subseteq Owners
  BY DEF Inv, TypeOK
<1>3. vault' - vault = assets' - assets
  BY <1>1, <1>2
<1> QED
  BY <1>1, <1>2, <1>3, QuietKeeps

-----------------------------------------------------------------------------
(* The collection.                                                         *)

\* The record a collection makes of its price, if it is asked to.
Recording(recorded, after, base, wiped) ==
  records' = IF ~recorded THEN records
             ELSE [e \in DOMAIN records \union {epoch} |->
                     IF e # epoch THEN records[e]
                     ELSE [assets |-> after, shares |-> base, wiped |-> wiped,
                           generation |-> generation']]

\* One stake across a collection: if its entry was in the queue it can now be
\* booked, at the queue's price; if not, it is worth what it was, unless the
\* round wiped the shares out.
LEMMA CollectStake ==
  ASSUME Inv, NEW o \in Owners, NEW after \in Nat, NEW base \in Nat,
         NEW wiped \in BOOLEAN, NEW recorded \in BOOLEAN,
         wiped => after = 0 /\ base = 0,
         record_made(recorded), stake' = stake, epoch' = epoch + 1,
         generation' = IF wiped THEN generation + 1 ELSE generation,
         Recording(recorded, after, base, wiped)
  PROVE  /\ Sound(stake[o])'
         /\ held_shares'[o] \in Nat /\ held_claims'[o] \in Nat
         /\ held_shares'[o] = (IF wiped THEN 0 ELSE held_shares[o] - queued_out[o])
                                 + shares_for(queued_in[o], after, base)
         /\ held_claims'[o] = held_claims[o] + (IF wiped THEN 0
                                 ELSE assets_for(queued_out[o], after, base))
         /\ queued_in'[o] = 0 /\ queued_out'[o] = 0
         /\ asked_deposits'[o] = 0 /\ asked_withdraws'[o] = 0
<1> DEFINE s == stake[o]
           b == booked[o]
           m == IF s.pending_epoch \in DOMAIN records'
                THEN book_from_epoch(s, records'[s.pending_epoch]) ELSE s
           v(t) == IF t.generation # generation' /\ ~has_pending(t)
                   THEN [t EXCEPT !.shares = 0, !.generation = generation'] ELSE t
<1>1. /\ s \in Stakes /\ Sound(s) /\ RecordsKnown /\ b = book(s) /\ b \in Stakes
      /\ epoch \in Nat /\ generation \in Nat /\ DOMAIN records \subseteq 0 .. epoch - 1
      /\ queued_in[o] \in Nat /\ queued_out[o] \in Nat
      /\ held_shares[o] = b.shares /\ held_claims[o] = b.claimable
  BY Stakes1 DEF Inv, TypeOK, held_shares, held_claims
<1>2. /\ s.shares \in Nat /\ s.pending_withdraw \in Nat /\ s.pending_deposit \in Nat
      /\ s.claimable \in Nat /\ s.pending_epoch \in Nat /\ s.generation \in Nat
      /\ s.pending_withdraw <= s.shares /\ s.pending_epoch <= epoch
      /\ s.generation <= generation /\ stake'[o] = s
  BY <1>1 DEF Stakes, Sound
<1>3. queued_in'[o] = 0 /\ queued_out'[o] = 0
  BY <1>1, <1>2 DEF queued_in, queued_out
<1>4. /\ shares_for(queued_in[o], after, base) \in Nat
      /\ assets_for(queued_out[o], after, base) \in Nat
  BY <1>1, SharesForNat, AssetsForNat
<1>5. booked'[o] = v(IF has_pending(s) /\ s.pending_epoch < epoch' THEN m ELSE s)
  BY <1>2 DEF booked, book, stale, has_pending, void_old_shares
<1>6. /\ generation' \in Nat /\ generation <= generation'
      /\ wiped => generation < generation'
  BY <1>1
<1>7. /\ held_shares'[o] = booked'[o].shares /\ held_claims'[o] = booked'[o].claimable
      /\ asked_deposits'[o] = booked'[o].pending_deposit
      /\ asked_withdraws'[o] = booked'[o].pending_withdraw
  BY DEF held_shares, held_claims, asked_deposits, asked_withdraws
<1>8. CASE has_pending(s) /\ s.pending_epoch = epoch
  <2> DEFINE e == [assets |-> after, shares |-> base, wiped |-> wiped,
                   generation |-> generation']
  <2>1. queued_in[o] = s.pending_deposit /\ queued_out[o] = s.pending_withdraw
    BY <1>8 DEF queued_in, queued_out
  <2>2. recorded
    <3>1. /\ queued_in[o] <= SumFunctionOnSet(queued_in, Owners)
          /\ queued_out[o] <= SumFunctionOnSet(queued_out, Owners)
      BY Stakes1, SumTerm
    <3>2. /\ pending_deposits = SumFunctionOnSet(queued_in, Owners)
          /\ pending_withdraw_shares = SumFunctionOnSet(queued_out, Owners)
          /\ pending_deposits \in Nat /\ pending_withdraw_shares \in Nat
      BY DEF Inv, TypeOK, HouseInv, QueueExact, SumOver
    <3> QED
      BY <1>2, <1>8, <2>1, <3>1, <3>2 DEF record_made, has_pending
  <2>3. epoch \in DOMAIN records' /\ records'[epoch] = e
    BY <2>2 DEF Recording
  <2>4. e \in Records
    BY <1>6 DEF Records
  <2>5. m = book_from_epoch(s, e)
    BY <1>8, <2>3
  <2>6. /\ m \in Stakes /\ m.generation = generation'
        /\ m.pending_deposit = 0 /\ m.pending_withdraw = 0
        /\ m.shares = (IF wiped THEN 0 ELSE s.shares - s.pending_withdraw)
                        + shares_for(s.pending_deposit, after, base)
        /\ m.claimable = s.claimable
                        + (IF wiped THEN 0 ELSE assets_for(s.pending_withdraw, after, base))
    <3>1. e.wiped \/ s.pending_withdraw <= s.shares
      BY <1>2
    <3>2. /\ m \in Stakes /\ m.generation = e.generation
          /\ m.pending_deposit = 0 /\ m.pending_withdraw = 0
      BY <1>1, <2>4, <2>5, <3>1, BookedEntry
    <3>3. /\ m.shares = (IF wiped THEN 0 ELSE s.shares - s.pending_withdraw)
                          + (IF wiped THEN shares_for(s.pending_deposit, 0, 0)
                                      ELSE shares_for(s.pending_deposit, after, base))
          /\ m.claimable = s.claimable
                          + (IF wiped THEN 0 ELSE assets_for(s.pending_withdraw, after, base))
      <4> DEFINE kept   == IF wiped THEN 0 ELSE s.shares - s.pending_withdraw
                 paid   == IF wiped THEN 0 ELSE assets_for(s.pending_withdraw, after, base)
                 minted == IF wiped THEN shares_for(s.pending_deposit, 0, 0)
                           ELSE shares_for(s.pending_deposit, after, base)
                 held   == kept + minted
                 owed   == s.claimable + paid
      <4>1. m = [s EXCEPT !.shares = held, !.claimable = owed, !.pending_deposit = 0,
                          !.pending_withdraw = 0, !.generation = generation']
        BY <2>5 DEF book_from_epoch
      <4> HIDE DEF held, owed, m
      <4>2. m.shares = held /\ m.claimable = owed
        BY <1>1, <4>1 DEF Stakes
      <4> QED
        BY <4>2 DEF held, owed
    <3> QED
      BY <3>2, <3>3
  <2> HIDE DEF m, e
  <2>7. booked'[o] = m
    BY <1>1, <1>5, <1>8, <2>6
  <2>8. b = s
    BY <1>1, <1>8, UpToDateAlready DEF Sound, stale
  <2>9. Sound(stake[o])'
    BY <1>1, <1>2, <1>6, <1>8, <2>3 DEF Sound, stale
  <2>10. m.shares \in Nat /\ m.claimable \in Nat
    BY <2>6 DEF Stakes
  <2> QED
    BY <1>1, <1>3, <1>4, <1>7, <2>1, <2>6, <2>7, <2>8, <2>9, <2>10
<1>9. CASE ~ (has_pending(s) /\ s.pending_epoch = epoch)
  <2> DEFINE old == IF stale(s) THEN book_from_epoch(s, records[s.pending_epoch]) ELSE s
  <2>1. queued_in[o] = 0 /\ queued_out[o] = 0
    BY <1>2, <1>9 DEF queued_in, queued_out, has_pending
  <2>2. b = void_old_shares(old)
    BY <1>1 DEF book, Sound
  <2>3. has_pending(s) => s.pending_epoch < epoch
    BY <1>1, <1>2, <1>9
  <2>4. stale(s) => /\ s.pending_epoch \in DOMAIN records'
                    /\ records'[s.pending_epoch] = records[s.pending_epoch]
    BY <1>1, <1>2 DEF Sound, stale, Recording
  <2>5. booked'[o] = v(old)
    <3>1. CASE has_pending(s)
      <4>1. stale(s) /\ epoch < epoch' /\ s.pending_epoch < epoch'
        BY <1>1, <1>2, <2>3, <3>1 DEF stale
      <4>2. m = old
        BY <2>4, <4>1
      <4> HIDE DEF m, old, v
      <4> QED
        BY <1>5, <3>1, <4>1, <4>2
    <3>2. CASE ~ has_pending(s)
      <4>1. old = s
        BY <3>2 DEF stale
      <4> HIDE DEF m, old, v
      <4> QED
        BY <1>5, <3>2, <4>1
    <3> QED
      BY <3>1, <3>2
  <2>6. old \in Stakes /\ old.generation <= generation /\ ~ has_pending(old)
    <3>1. CASE stale(s)
      <4>1. /\ records[s.pending_epoch] \in Records
            /\ records[s.pending_epoch].generation <= generation
            /\ old = book_from_epoch(s, records[s.pending_epoch])
        BY <1>1, <3>1 DEF Sound, RecordsKnown
      <4> HIDE DEF old
      <4>2. /\ old \in Stakes /\ old.pending_withdraw = 0 /\ old.pending_deposit = 0
            /\ old.generation = records[s.pending_epoch].generation
        BY <1>1, <1>2, <4>1, BookedEntry
      <4> QED
        BY <4>1, <4>2 DEF has_pending
    <3>2. CASE ~ stale(s)
      BY <1>1, <1>2, <2>3, <3>2 DEF stale
    <3> QED
      BY <3>1, <3>2
  <2>7. Sound(stake[o])'
    BY <1>1, <1>2, <1>6, <2>3, <2>4 DEF Sound, stale
  <2> HIDE DEF old, m
  <2>8. /\ b.claimable = old.claimable
        /\ b.shares = IF old.generation # generation THEN 0 ELSE old.shares
    BY <2>2, <2>6 DEF void_old_shares, Stakes
  <2>9. /\ booked'[o].claimable = old.claimable
        /\ booked'[o].shares = IF old.generation # generation' THEN 0 ELSE old.shares
        /\ booked'[o].pending_deposit = old.pending_deposit
        /\ booked'[o].pending_withdraw = old.pending_withdraw
    BY <2>5, <2>6 DEF Stakes
  <2>10. /\ old.shares \in Nat /\ old.claimable \in Nat /\ old.generation \in Nat
         /\ old.pending_deposit = 0 /\ old.pending_withdraw = 0
    BY <2>6 DEF Stakes, has_pending
  <2>11. booked'[o].shares = (IF wiped THEN 0 ELSE b.shares)
    BY <1>1, <1>6, <2>6, <2>8, <2>9, <2>10
  <2>12. shares_for(0, after, base) = 0 /\ assets_for(0, after, base) = 0
    BY NothingForNothing
  <2> QED
    BY <1>1, <1>3, <1>4, <1>7, <2>1, <2>7, <2>8, <2>9, <2>10, <2>11, <2>12
<1> QED
  BY <1>8, <1>9

\* Minted one by one or as a whole: the parts come to no more.
LEMMA MintedParts ==
  ASSUME Inv, NEW after \in Nat, NEW base \in Nat,
         NEW M, \A o \in Owners : M[o] = shares_for(queued_in[o], after, base)
  PROVE  SumFunctionOnSet(M, Owners) <= shares_for(pending_deposits, after, base)
<1> DEFINE c == base + VIRTUAL_SHARES
           d == after + 1
           scaled == [o \in Owners |-> c * queued_in[o]]
<1>1. c \in Nat /\ d \in Nat \ {0}
  BY HouseRuleConstants
<1>2. \A o \in Owners : queued_in[o] \in Nat /\ scaled[o] = c * queued_in[o] /\ scaled[o] \in Nat
  BY <1>1, Stakes1, ProductNat
<1>3. IsFiniteSet(Owners) /\ pending_deposits = SumFunctionOnSet(queued_in, Owners)
  BY Stakes1 DEF Inv, HouseInv, QueueExact, SumOver
<1>4. \A o \in Owners : queued_in[o] * c = c * queued_in[o]
  BY <1>1, <1>2
<1>5. \A o \in Owners : M[o] = scaled[o] \div d
  BY <1>2, <1>4 DEF shares_for
<1> HIDE DEF scaled
<1>6. SumFunctionOnSet(scaled, Owners) = c * pending_deposits
  BY <1>1, <1>2, <1>3, SumScaled
<1>7. SumFunctionOnSet(M, Owners) <= SumFunctionOnSet(scaled, Owners) \div d
  BY <1>1, <1>2, <1>3, <1>5, SumFloors
<1>8. pending_deposits \in Nat
  BY DEF Inv, TypeOK
<1>9. c * pending_deposits = pending_deposits * c
  BY <1>1, <1>8
<1> QED
  BY <1>6, <1>7, <1>9 DEF shares_for

\* Paid one by one or as a whole: the parts come to no more.
LEMMA PaidParts ==
  ASSUME Inv, NEW after \in Nat, NEW base \in Nat, pending_withdraw_shares <= base,
         NEW P, \A o \in Owners : P[o] = assets_for(queued_out[o], after, base)
  PROVE  SumFunctionOnSet(P, Owners) <= assets_for(pending_withdraw_shares, after, base)
<1> DEFINE c == after + 1
           d == base + VIRTUAL_SHARES
           scaled == [o \in Owners |-> c * queued_out[o]]
<1>1. c \in Nat /\ d \in Nat \ {0}
  BY HouseRuleConstants
<1>2. \A o \in Owners : queued_out[o] \in Nat /\ scaled[o] = c * queued_out[o] /\ scaled[o] \in Nat
  BY <1>1, Stakes1, ProductNat
<1>3. /\ IsFiniteSet(Owners) /\ pending_withdraw_shares \in Nat
      /\ pending_withdraw_shares = SumFunctionOnSet(queued_out, Owners)
  BY Stakes1 DEF Inv, TypeOK, HouseInv, QueueExact, SumOver
<1>4. \A o \in Owners : queued_out[o] <= base
  <2>1. \A o \in Owners : queued_out[o] <= SumFunctionOnSet(queued_out, Owners)
    BY <1>2, <1>3, SumTerm
  <2> QED
    BY <1>2, <1>3, <2>1
<1>5. \A o \in Owners : P[o] = scaled[o] \div d
  <2> SUFFICES ASSUME NEW o \in Owners PROVE P[o] = scaled[o] \div d
    OBVIOUS
  <2>1. P[o] = (queued_out[o] * c) \div d
    <3>1. queued_out[o] \in Nat /\ queued_out[o] <= base /\ P[o] = assets_for(queued_out[o], after, base)
      BY <1>2, <1>4
    <3>2. \A n \in Nat : n <= base =>
            assets_for(n, after, base) = (n * (after + 1)) \div (base + VIRTUAL_SHARES)
      BY AssetsForExact
    <3> QED
      BY <3>1, <3>2
  <2>2. queued_out[o] * c = c * queued_out[o]
    BY <1>1, <1>2
  <2> QED
    BY <1>2, <2>1, <2>2
<1> HIDE DEF scaled
<1>6. SumFunctionOnSet(scaled, Owners) = c * pending_withdraw_shares
  <2>1. c \in Int /\ \A o \in Owners : queued_out[o] \in Int /\ scaled[o] = c * queued_out[o]
    BY <1>1, <1>2
  <2> HIDE DEF c
  <2>2. SumFunctionOnSet(scaled, Owners) = c * SumFunctionOnSet(queued_out, Owners)
    BY <1>3, <2>1, SumScaled
  <2> QED
    BY <1>3, <2>2
<1>7. SumFunctionOnSet(P, Owners) <= SumFunctionOnSet(scaled, Owners) \div d
  BY <1>1, <1>2, <1>3, <1>5, SumFloors
<1>8. c * pending_withdraw_shares = pending_withdraw_shares * c
  BY <1>1, <1>3
<1>9. assets_for(pending_withdraw_shares, after, base) = (pending_withdraw_shares * c) \div d
  BY <1>3, AssetsForExact
<1> QED
  BY <1>6, <1>7, <1>8, <1>9

\* A collection processes the queue at one price and leaves it empty.
LEMMA CollectKeeps ==
  ASSUME Inv, NEW principal \in Nat, NEW fees \in Nat, NEW recorded \in BOOLEAN,
         Collect(principal, fees, recorded)
  PROVE  Inv'
<1> DEFINE after  == assets + principal + fees
           wiped  == after = 0 /\ total_shares > 0
           base   == IF wiped THEN 0 ELSE total_shares
           gone   == IF wiped THEN 0 ELSE pending_withdraw_shares
           paid   == assets_for(gone, after, base)
           minted == shares_for(pending_deposits, after, base)
           K == [o \in Owners |-> IF wiped THEN 0 ELSE held_shares[o] - queued_out[o]]
           M == [o \in Owners |-> shares_for(queued_in[o], after, base)]
           KM == [o \in Owners |-> K[o] + 1 * M[o]]
           P == [o \in Owners |-> IF wiped THEN 0 ELSE assets_for(queued_out[o], after, base)]
           CP == [o \in Owners |-> held_claims[o] + 1 * P[o]]
<1>1. /\ assets \in Nat /\ total_shares \in Nat /\ claimable \in Nat /\ vault \in Nat
      /\ pending_deposits \in Nat /\ pending_withdraw_shares \in Nat
      /\ epoch \in Nat /\ generation \in Nat /\ fee_ema \in Nat
      /\ principal \in Nat /\ fees \in Nat
      /\ vault = assets + pending_deposits + claimable
      /\ stake \in [Owners -> Stakes] /\ DOMAIN records \subseteq 0 .. epoch - 1
  BY HouseConstants DEF Inv, TypeOK, HouseInv, VaultIsBooks
<1>2. /\ record_made(recorded) /\ gone <= base
      /\ epoch' = epoch + 1 /\ phase' = "Idle" /\ in_round' = 0
      /\ fee_ema' = (IF phase = "Settled" THEN next_fee_ema(fee_ema, fees) ELSE fee_ema)
      /\ vault' = vault + principal + fees
      /\ assets' = after - paid + pending_deposits /\ total_shares' = base - gone + minted
      /\ claimable' = claimable + paid
      /\ generation' = (IF wiped THEN generation + 1 ELSE generation)
      /\ pending_deposits' = 0 /\ pending_withdraw_shares' = 0
      /\ UNCHANGED <<paused, active, frozen>> /\ stake' = stake
      /\ Recording(recorded, after, base, wiped)
  BY DEF Collect, process_queue, controlVars, Recording
<1>3. /\ after \in Nat /\ base \in Nat /\ gone \in Nat /\ wiped \in BOOLEAN
      /\ wiped => after = 0 /\ base = 0 /\ gone = 0
      /\ ~ wiped => base = total_shares /\ gone = pending_withdraw_shares
  BY <1>1
<1> HIDE DEF after, wiped, base, gone
<1>4. paid \in Nat /\ paid <= after /\ minted \in Nat
  BY <1>1, <1>3, AssetsForNat, SharesForNat
<1>5. /\ IsFiniteSet(Owners) /\ RecordsKnown
      /\ \A o \in Owners : /\ held_shares[o] \in Nat /\ held_claims[o] \in Nat
                           /\ queued_in[o] \in Nat /\ queued_out[o] \in Nat
      /\ pending_withdraw_shares = SumFunctionOnSet(queued_out, Owners)
      /\ SumFunctionOnSet(held_shares, Owners) \in Nat
      /\ SumFunctionOnSet(held_claims, Owners) \in Nat
      /\ SumFunctionOnSet(held_shares, Owners) <= total_shares
      /\ SumFunctionOnSet(held_claims, Owners) <= claimable
  BY Stakes1 DEF Inv, HouseInv, QueueExact, SumOver
<1>6. \A o \in Owners :
        /\ Sound(stake[o])' /\ held_shares'[o] \in Nat /\ held_claims'[o] \in Nat
        /\ held_shares'[o] <= KM[o] /\ held_claims'[o] <= CP[o]
        /\ queued_in'[o] = 0 /\ queued_out'[o] = 0
        /\ K[o] \in Int /\ M[o] \in Nat /\ P[o] \in Nat /\ KM[o] \in Int /\ CP[o] \in Int
  <2> SUFFICES ASSUME NEW o \in Owners
               PROVE /\ Sound(stake[o])' /\ held_shares'[o] \in Nat /\ held_claims'[o] \in Nat
                     /\ held_shares'[o] <= KM[o] /\ held_claims'[o] <= CP[o]
                     /\ queued_in'[o] = 0 /\ queued_out'[o] = 0
                     /\ K[o] \in Int /\ M[o] \in Nat /\ P[o] \in Nat
                     /\ KM[o] \in Int /\ CP[o] \in Int
    OBVIOUS
  <2>1. /\ Sound(stake[o])'
        /\ held_shares'[o] \in Nat /\ held_claims'[o] \in Nat
        /\ held_shares'[o] = (IF wiped THEN 0 ELSE held_shares[o] - queued_out[o])
                                + shares_for(queued_in[o], after, base)
        /\ held_claims'[o] = held_claims[o] + (IF wiped THEN 0
                                ELSE assets_for(queued_out[o], after, base))
        /\ queued_in'[o] = 0 /\ queued_out'[o] = 0
    BY <1>2, <1>3, CollectStake
  <2>2. /\ shares_for(queued_in[o], after, base) \in Nat
        /\ assets_for(queued_out[o], after, base) \in Nat
    BY <1>3, <1>5, SharesForNat, AssetsForNat
  <2>3. K[o] \in Int /\ M[o] \in Nat /\ P[o] \in Nat
    BY <1>5, <2>2
  <2>4. KM[o] = K[o] + M[o] /\ CP[o] = held_claims[o] + P[o]
    <3>1. KM[o] = K[o] + 1 * M[o] /\ CP[o] = held_claims[o] + 1 * P[o]
      OBVIOUS
    <3> HIDE DEF K, M, P, KM, CP
    <3> QED
      BY <1>5, <2>3, <3>1
  <2> QED
    BY <1>5, <2>1, <2>3, <2>4
<1>7. StakesBacked'
  <2>1. /\ SumFunctionOnSet(held_shares', Owners) <= SumFunctionOnSet(KM, Owners)
        /\ SumFunctionOnSet(held_claims', Owners) <= SumFunctionOnSet(CP, Owners)
    <3> HIDE DEF K, M, P, KM, CP
    <3> QED
      BY <1>5, <1>6, SumMonotone
  <2>2. /\ \A o \in Owners : KM[o] = K[o] + 1 * M[o]
        /\ \A o \in Owners : CP[o] = held_claims[o] + 1 * P[o]
    OBVIOUS
  <2>3. /\ SumFunctionOnSet(KM, Owners) = SumFunctionOnSet(K, Owners)
                                            + 1 * SumFunctionOnSet(M, Owners)
        /\ SumFunctionOnSet(CP, Owners) = SumFunctionOnSet(held_claims, Owners)
                                            + 1 * SumFunctionOnSet(P, Owners)
    <3>1. \A o \in Owners : /\ K[o] \in Int /\ M[o] \in Int
                            /\ held_claims[o] \in Int /\ P[o] \in Int
      BY <1>5, <1>6
    <3> HIDE DEF K, M, P, KM, CP
    <3>2. SumFunctionOnSet(KM, Owners) = SumFunctionOnSet(K, Owners)
                                            + 1 * SumFunctionOnSet(M, Owners)
      <4>1. \A o \in Owners : K[o] \in Int
        BY <3>1
      <4>2. \A o \in Owners : M[o] \in Int
        BY <3>1
      <4>3. \A o \in Owners : KM[o] = K[o] + 1 * M[o]
        BY <2>2
      <4>4. IsFiniteSet(Owners) /\ 1 \in Int
        BY <1>5
      <4> QED
        BY <4>1, <4>2, <4>3, <4>4, SumLinear, ZenonT(30)
    <3>3. SumFunctionOnSet(CP, Owners) = SumFunctionOnSet(held_claims, Owners)
                                            + 1 * SumFunctionOnSet(P, Owners)
      BY <1>5, <2>2, <3>1, SumLinear
    <3> QED
      BY <3>2, <3>3
  <2>4. SumFunctionOnSet(M, Owners) <= minted
    BY <1>3, MintedParts
  <2>5. SumFunctionOnSet(K, Owners) <= base - gone
    <3>1. CASE wiped
      <4>1. \A o \in Owners : K[o] = 0
        BY <3>1
      <4> HIDE DEF K
      <4>2. SumFunctionOnSet(K, Owners) = 0
        BY <1>5, <4>1, SumZero
      <4> QED
        BY <1>3, <3>1, <4>2
    <3>2. CASE ~ wiped
      <4>1. \A o \in Owners : /\ K[o] = held_shares[o] + (-1) * queued_out[o]
                              /\ held_shares[o] \in Int /\ queued_out[o] \in Int
        BY <1>5, <3>2
      <4> HIDE DEF K
      <4>2. IsFiniteSet(Owners) /\ -1 \in Int
        BY <1>5
      <4>3. SumFunctionOnSet(K, Owners) =
              SumFunctionOnSet(held_shares, Owners) + (-1) * SumFunctionOnSet(queued_out, Owners)
        BY ONLY <4>1, <4>2, SumLinear
      <4> QED
        BY <1>1, <1>3, <1>5, <3>2, <4>3
    <3> QED
      BY <3>1, <3>2
  <2>6. SumFunctionOnSet(P, Owners) <= paid
    <3>1. CASE wiped
      <4>1. \A o \in Owners : P[o] = 0
        BY <3>1
      <4> HIDE DEF P
      <4>2. SumFunctionOnSet(P, Owners) = 0
        BY <1>5, <4>1, SumZero
      <4> QED
        BY <1>4, <4>2
    <3>2. CASE ~ wiped
      <4>1. \A o \in Owners : P[o] = assets_for(queued_out[o], after, base)
        BY <3>2
      <4> HIDE DEF P
      <4>2. pending_withdraw_shares <= base
        BY <1>2, <1>3, <3>2
      <4> QED
        BY <1>3, <3>2, <4>1, <4>2, PaidParts
    <3> QED
      BY <3>1, <3>2
  <2>7. /\ SumFunctionOnSet(K, Owners) \in Int /\ SumFunctionOnSet(M, Owners) \in Int
        /\ SumFunctionOnSet(P, Owners) \in Int
        /\ SumFunctionOnSet(held_shares', Owners) \in Int
        /\ SumFunctionOnSet(held_claims', Owners) \in Int
    <3> HIDE DEF K, M, P, KM, CP
    <3> QED
      BY <1>5, <1>6, SumInt
  <2> HIDE DEF K, M, P, KM, CP, paid, minted
  <2>8. SumFunctionOnSet(held_shares', Owners) <= total_shares'
    BY <1>2, <1>3, <1>4, <2>1, <2>3, <2>4, <2>5, <2>7
  <2>9. SumFunctionOnSet(held_claims', Owners) <= claimable'
    BY <1>1, <1>2, <1>4, <1>5, <2>1, <2>3, <2>6, <2>7
  <2> QED
    BY <2>8, <2>9 DEF StakesBacked, SumOver, held_shares, held_claims
<1>8. QueueExact'
  <2>1. /\ SumFunctionOnSet(queued_in', Owners) = 0
        /\ SumFunctionOnSet(queued_out', Owners) = 0
    BY <1>5, <1>6, SumZero
  <2> QED
    BY <1>2, <2>1 DEF QueueExact, SumOver
<1>9. VaultIsBooks' /\ vault' \in Nat
  <2> HIDE DEF paid, minted
  <2> QED
    BY <1>1, <1>2, <1>4 DEF VaultIsBooks, after
<1>10. /\ assets' \in Nat /\ total_shares' \in Nat /\ claimable' \in Nat
       /\ epoch' \in Nat /\ generation' \in Nat /\ generation <= generation'
  <2> HIDE DEF paid, minted
  <2>1. assets' \in Nat /\ claimable' \in Nat
    BY <1>1, <1>2, <1>3, <1>4
  <2>2. total_shares' \in Nat
    BY <1>2, <1>3, <1>4
  <2>3. epoch' \in Nat /\ generation' \in Nat /\ generation <= generation'
    BY <1>1, <1>2
  <2> QED
    BY <2>1, <2>2, <2>3
<1>11. fee_ema' \in Nat
  BY <1>1, <1>2, EmaNat
<1>12. /\ DOMAIN records' \subseteq 0 .. epoch' - 1
       /\ \A e \in DOMAIN records' : records'[e] \in Records
                                     /\ records'[e].generation <= generation'
  <2>1. CASE ~ recorded
    <3>1. records' = records
      BY <1>2, <2>1 DEF Recording
    <3> QED
      BY <1>1, <1>2, <1>5, <1>10, <3>1 DEF RecordsKnown, Records
  <2>2. CASE recorded
    <3> DEFINE new == [assets |-> after, shares |-> base, wiped |-> wiped,
                       generation |-> generation']
    <3>1. new \in Records /\ new.generation = generation'
      BY <1>3, <1>10 DEF Records
    <3>2. /\ DOMAIN records' = DOMAIN records \union {epoch}
          /\ \A e \in DOMAIN records : e # epoch => records'[e] = records[e]
          /\ records'[epoch] = new
      BY <1>2, <2>2 DEF Recording
    <3> HIDE DEF new
    <3> QED
      BY <1>1, <1>2, <1>5, <1>10, <3>1, <3>2 DEF RecordsKnown, Records
  <2> QED
    BY <2>1, <2>2
<1>13. TypeOK'
  <2> HIDE DEF paid, minted
  <2> QED
    BY <1>1, <1>2, <1>9, <1>10, <1>11, <1>12 DEF TypeOK, Inv
<1> QED
  BY <1>6, <1>7, <1>8, <1>9, <1>12, <1>13 DEF Inv, HouseInv

-----------------------------------------------------------------------------
(* The theorems.                                                           *)

\* Every step of the house's Next, and every stutter, keeps the invariant.
LEMMA NextKeeps ==
  ASSUME Inv, [Next]_vars PROVE Inv'
<1>1. CASE Administer
  BY <1>1, AdministerKeeps
<1>2. ASSUME NEW o \in Owners, NEW amount \in Amounts, Deposit(o, amount) PROVE Inv'
  BY <1>2, DepositKeeps
<1>3. ASSUME NEW o \in Owners, NEW n \in Quantities, Withdraw(o, n) PROVE Inv'
  BY <1>3, WithdrawKeeps
<1>4. ASSUME NEW o \in Owners, CancelDeposit(o) PROVE Inv'
  BY <1>4, CancelKeeps
<1>5. ASSUME NEW o \in Owners, Claim(o) PROVE Inv'
  BY <1>5, ClaimKeeps
<1>6. CASE Start
  BY <1>6, StartKeeps
<1>7. CASE RoundFinal
  BY <1>7, RoundFinalKeeps
<1>8. ASSUME NEW principal \in Results, NEW fees \in FeeIncomes, NEW recorded \in BOOLEAN,
             Collect(principal, fees, recorded)
      PROVE  Inv'
  BY <1>8, CollectKeeps, HouseConstants
<1>9. CASE UNCHANGED vars
  <2>1. /\ UNCHANGED <<stake, epoch, generation, records, fee_ema, total_shares, claimable>>
        /\ UNCHANGED queueVars /\ UNCHANGED <<paused, active, frozen>>
        /\ UNCHANGED <<assets, in_round, vault, phase>>
    BY <1>9 DEF vars, controlVars, roundVars, queueVars, shareVars
  <2>2. /\ assets \in Nat /\ in_round \in Nat /\ vault \in Nat
        /\ paused \in BOOLEAN /\ active \in BOOLEAN /\ frozen \subseteq Owners
        /\ phase \in {"Idle", "Running", "Settled", "Void"}
    BY DEF Inv, TypeOK
  <2>3. vault' - vault = assets' - assets
    BY <2>1, <2>2
  <2> QED
    BY <2>1, <2>2, <2>3, QuietKeeps
<1> QED
  BY <1>1, <1>2, <1>3, <1>4, <1>5, <1>6, <1>7, <1>8, <1>9 DEF Next

\* The strengthening is an invariant: every stake is sound, no record is of a
\* generation to come, and the books, the queue and the stakes agree.
THEOREM InvHolds == Spec => []Inv
<1>1. Init => Inv
  BY InitInv
<1>2. Inv /\ [Next]_vars => Inv'
  BY NextKeeps
<1> QED
  BY <1>1, <1>2, PTL DEF Spec

\* Amounts, shares and epochs stay natural numbers: no subtraction in a deposit,
\* a withdrawal, a claim, a start or a collection ever goes below zero.
THEOREM TypeCorrect == Spec => []TypeOK
<1>1. Inv => TypeOK
  BY DEF Inv
<1> QED
  BY <1>1, InvHolds, PTL

\* The part of the invariant beyond the types, on which the rest is proved.
THEOREM HouseInvHolds == Spec => []HouseInv
<1>1. Inv => HouseInv
  BY DEF Inv
<1> QED
  BY <1>1, InvHolds, PTL

\* The house's tokens are its books, whatever is queued, cancelled or claimed.
THEOREM VaultIsBooksHolds == Spec => []VaultIsBooks
<1>1. Inv => VaultIsBooks
  BY DEF Inv, HouseInv
<1> QED
  BY <1>1, InvHolds, PTL

\* The queue a collection processes is what the stakes have queued.
THEOREM QueueExactHolds == Spec => []QueueExact
<1>1. Inv => QueueExact
  BY DEF Inv, HouseInv
<1> QED
  BY <1>1, InvHolds, PTL

\* Depositors together never hold more shares than the house counts, nor are
\* owed more than it set aside, however many they are and however late they call.
THEOREM StakesBackedHolds == Spec => []StakesBacked
<1>1. Inv => StakesBacked
  BY DEF Inv, HouseInv
<1> QED
  BY <1>1, InvHolds, PTL

\* No depositor is shut out, and no collection refused, however many rounds go
\* by between two calls of one of them.
THEOREM NeverShutOutHolds == Spec => []NeverShutOut
<1>1. ASSUME Inv PROVE NeverShutOut
  <2>1. ASSUME NEW o \in Owners
        PROVE  can_book(stake[o]) /\ booked[o].pending_withdraw <= booked[o].shares
    BY <1>1, OwnerFinds
  <2>2. pending_withdraw_shares <= total_shares
    <3>1. \A o \in Owners : /\ queued_out[o] \in Int /\ held_shares[o] \in Int
                            /\ queued_out[o] <= held_shares[o]
      <4> SUFFICES ASSUME NEW o \in Owners
                   PROVE  /\ queued_out[o] \in Int /\ held_shares[o] \in Int
                          /\ queued_out[o] <= held_shares[o]
        OBVIOUS
      <4>1. queued_out[o] \in Nat /\ held_shares[o] \in Nat /\ held_shares[o] = booked[o].shares
        BY <1>1, Stakes1 DEF held_shares
      <4>2. queued_out[o] <= booked[o].shares
        BY <1>1, OwnerFinds
      <4> QED
        BY <4>1, <4>2
    <3>2. SumFunctionOnSet(queued_out, Owners) <= SumFunctionOnSet(held_shares, Owners)
      BY <1>1, <3>1, Stakes1, SumMonotone
    <3>3. /\ pending_withdraw_shares = SumFunctionOnSet(queued_out, Owners)
          /\ SumFunctionOnSet(held_shares, Owners) \in Nat
          /\ SumFunctionOnSet(held_shares, Owners) <= total_shares
          /\ total_shares \in Nat /\ pending_withdraw_shares \in Nat
      BY <1>1, Stakes1 DEF Inv, TypeOK, HouseInv, QueueExact, SumOver
    <3> QED
      BY <3>2, <3>3
  <2> QED
    BY <2>1, <2>2 DEF NeverShutOut
<1>2. Inv => NeverShutOut
  BY <1>1
<1> QED
  BY <1>2, InvHolds, PTL

-----------------------------------------------------------------------------
(* The price of a share.                                                   *)

\* Shares leaving for at most their price and shares made for at least theirs
\* leave the price no lower.
LEMMA PriceKept ==
  ASSUME NEW c \in Nat, NEW d \in Nat, NEW n \in Nat, NEW p \in Nat,
         NEW x \in Nat, NEW m \in Nat, c * m <= x * d, p * d <= n * c
  PROVE  c * (d - n + m) <= (c - p + x) * d
<1>1. c * (d - n + m) = c * d - c * n + c * m
  OBVIOUS
<1>2. (c - p + x) * d = c * d - p * d + x * d
  OBVIOUS
<1>3. c * n = n * c
  OBVIOUS
<1>4. /\ c * d \in Int /\ c * n \in Int /\ c * m \in Int /\ p * d \in Int
      /\ x * d \in Int /\ n * c \in Int
  OBVIOUS
<1> QED
  BY <1>1, <1>2, <1>3, <1>4

\* What a deposit mints is worth at most the deposit, and what a withdrawal pays
\* is at most what its shares are worth.
LEMMA MintWorth ==
  ASSUME NEW x \in Nat, NEW a \in Nat, NEW s \in Nat
  PROVE  (a + 1) * shares_for(x, a, s) <= x * (s + VIRTUAL_SHARES)
<1>1. s + VIRTUAL_SHARES \in Nat /\ a + 1 \in Nat \ {0}
  BY HouseRuleConstants
<1>2. x * (s + VIRTUAL_SHARES) \in Nat
  BY <1>1, ProductNat
<1> QED
  BY <1>1, <1>2, QuotientNat DEF shares_for

LEMMA PaidWorth ==
  ASSUME NEW n \in Nat, NEW a \in Nat, NEW s \in Nat
  PROVE  assets_for(n, a, s) * (s + VIRTUAL_SHARES) <= n * (a + 1)
<1> DEFINE d == s + VIRTUAL_SHARES
           f == (n * (a + 1)) \div d
           p == assets_for(n, a, s)
<1>1. d \in Nat \ {0} /\ n * (a + 1) \in Nat
  BY HouseRuleConstants, ProductNat
<1>2. f \in Nat /\ d * f <= n * (a + 1)
  BY <1>1, QuotientNat
<1>3. p \in Nat /\ p <= f
  BY <1>2, AssetsForNat DEF assets_for, Lower
<1> HIDE DEF d, f, p
<1>4. p * d <= d * f /\ p * d \in Nat /\ d * f \in Nat
  BY <1>1, <1>2, <1>3
<1> QED
  BY <1>1, <1>2, <1>4 DEF p, d

\* Without a round, nothing is in one.
NothingOut == phase = "Idle" => in_round = 0

LEMMA NothingOutHolds == Spec => []NothingOut
<1>1. Init => NothingOut
  BY DEF Init, NothingOut
<1>2. NothingOut /\ [Next]_vars => NothingOut'
  <2> SUFFICES ASSUME NothingOut, [Next]_vars PROVE NothingOut'
    OBVIOUS
  <2>1. ASSUME UNCHANGED roundVars PROVE NothingOut'
    BY <2>1 DEF roundVars, NothingOut
  <2>2. CASE Administer
    BY <2>1, <2>2 DEF Administer
  <2>3. ASSUME NEW o \in Owners, NEW amount \in Amounts, Deposit(o, amount) PROVE NothingOut'
    BY <2>1, <2>3 DEF Deposit
  <2>4. ASSUME NEW o \in Owners, NEW n \in Quantities, Withdraw(o, n) PROVE NothingOut'
    BY <2>1, <2>4 DEF Withdraw
  <2>5. ASSUME NEW o \in Owners, CancelDeposit(o) PROVE NothingOut'
    BY <2>1, <2>5 DEF CancelDeposit
  <2>6. ASSUME NEW o \in Owners, Claim(o) PROVE NothingOut'
    BY <2>1, <2>6 DEF Claim
  <2>7. CASE Start
    BY <2>7 DEF Start, NothingOut
  <2>8. CASE RoundFinal
    BY <2>8 DEF RoundFinal, NothingOut
  <2>9. ASSUME NEW principal \in Results, NEW fees \in FeeIncomes, NEW recorded \in BOOLEAN,
               Collect(principal, fees, recorded)
        PROVE  NothingOut'
    BY <2>9 DEF Collect, NothingOut
  <2>10. CASE UNCHANGED vars
    BY <2>1, <2>10 DEF vars
  <2> QED
    BY <2>2, <2>3, <2>4, <2>5, <2>6, <2>7, <2>8, <2>9, <2>10 DEF Next
<1> QED
  BY <1>1, <1>2, PTL DEF Spec

\* The step PriceNeverFalls allows.
PriceStep ==
  LET left   == IF epoch' = epoch THEN assets + in_round
                ELSE assets' + claimable' - claimable - pending_deposits
      shares == IF generation' = generation THEN total_shares ELSE 0
  IN  (left + 1) * (total_shares' + VIRTUAL_SHARES)
        <= (assets' + in_round' + 1) * (shares + VIRTUAL_SHARES)

LEMMA PriceSteps ==
  ASSUME TypeOK, NothingOut, [Next]_vars PROVE PriceStep
<1> DEFINE A == assets + in_round
           C == A + 1
           D == total_shares + VIRTUAL_SHARES
<1>1. /\ assets \in Nat /\ in_round \in Nat /\ total_shares \in Nat /\ claimable \in Nat
      /\ pending_deposits \in Nat /\ pending_withdraw_shares \in Nat
      /\ fee_ema \in Nat /\ epoch \in Nat /\ generation \in Nat
      /\ VIRTUAL_SHARES \in Nat /\ C \in Nat /\ D \in Nat
  BY HouseRuleConstants DEF TypeOK
\* Steps within an epoch: what comes in, x, and what goes out, p.
<1>2. ASSUME epoch' = epoch, generation' = generation,
             NEW n \in Nat, NEW m \in Nat, NEW p \in Nat, NEW x \in Nat,
             C * m <= x * D, p * D <= n * C,
             total_shares' = total_shares - n + m,
             assets' + in_round' = assets + in_round - p + x
      PROVE  PriceStep
  <2>1. C * (D - n + m) <= (C - p + x) * D
    BY <1>1, <1>2, PriceKept
  <2>2. total_shares' + VIRTUAL_SHARES = D - n + m
    BY <1>1, <1>2
  <2>3. assets' + in_round' + 1 = C - p + x
    BY <1>1, <1>2
  <2> HIDE DEF C, D
  <2>4. PriceStep <=> C * (total_shares' + VIRTUAL_SHARES) <= (assets' + in_round' + 1) * D
    BY <1>2 DEF PriceStep, C, D
  <2> QED
    BY <2>1, <2>2, <2>3, <2>4
<1>3. ASSUME epoch' = epoch, generation' = generation, total_shares' = total_shares,
             assets' + in_round' = assets + in_round
      PROVE  PriceStep
  <2>1. C * 0 <= 0 * D /\ 0 * D <= 0 * C
    BY <1>1
  <2>2. /\ total_shares' = total_shares - 0 + 0
        /\ assets' + in_round' = assets + in_round - 0 + 0
    BY <1>1, <1>3
  <2> HIDE DEF C, D
  <2> QED
    BY <1>2, <1>3, <2>1, <2>2
<1>4. CASE Administer
  BY <1>3, <1>4 DEF Administer, roundVars, shareVars
<1>5. ASSUME NEW o \in Owners, NEW amount \in Amounts, Deposit(o, amount) PROVE PriceStep
  <2>1. /\ epoch' = epoch /\ generation' = generation /\ in_round' = in_round
    BY <1>5 DEF Deposit, roundVars
  <2>2. CASE phase = "Idle"
    <3> DEFINE m == shares_for(amount, assets, total_shares)
    <3>1. /\ in_round = 0 /\ assets' = assets + amount
          /\ total_shares' = total_shares + m /\ amount \in Nat
      BY <1>5, <2>2, HouseConstants DEF Deposit, NothingOut
    <3>2. (assets + 1) * m <= amount * D /\ m \in Nat
      BY <1>1, <3>1, MintWorth, SharesForNat
    <3>3. C = assets + 1
      BY <1>1, <3>1
    <3> HIDE DEF m, C, D
    <3>4. /\ C * m <= amount * D /\ 0 * D <= 0 * C
          /\ total_shares' = total_shares - 0 + m
          /\ assets' + in_round' = assets + in_round - 0 + amount
      BY <1>1, <2>1, <3>1, <3>2, <3>3
    <3> QED
      BY <1>2, <2>1, <3>1, <3>2, <3>4
  <2>3. CASE phase # "Idle"
    BY <1>3, <1>5, <2>1, <2>3 DEF Deposit, shareVars
  <2> QED
    BY <2>2, <2>3
<1>6. ASSUME NEW o \in Owners, NEW n \in Quantities, Withdraw(o, n) PROVE PriceStep
  <2>1. /\ epoch' = epoch /\ generation' = generation /\ in_round' = in_round
    BY <1>6 DEF Withdraw, roundVars
  <2>2. CASE phase = "Idle"
    <3> DEFINE p == assets_for(n, assets, total_shares)
    <3>1. /\ in_round = 0 /\ assets' = assets - p
          /\ total_shares' = total_shares - n /\ n \in Nat
      BY <1>6, <2>2, HouseConstants DEF Withdraw, NothingOut
    <3>2. p * D <= n * (assets + 1) /\ p \in Nat
      BY <1>1, <3>1, PaidWorth, AssetsForNat
    <3>3. C = assets + 1
      BY <1>1, <3>1
    <3> HIDE DEF p, C, D
    <3>4. /\ C * 0 <= 0 * D /\ p * D <= n * C
          /\ total_shares' = total_shares - n + 0
          /\ assets' + in_round' = assets + in_round - p + 0
      BY <1>1, <2>1, <3>1, <3>2, <3>3
    <3> QED
      BY <1>2, <2>1, <3>1, <3>2, <3>4
  <2>3. CASE phase # "Idle"
    BY <1>3, <1>6, <2>1, <2>3 DEF Withdraw, shareVars
  <2> QED
    BY <2>2, <2>3
<1>7. ASSUME NEW o \in Owners, CancelDeposit(o) PROVE PriceStep
  BY <1>3, <1>7 DEF CancelDeposit, roundVars, shareVars
<1>8. ASSUME NEW o \in Owners, Claim(o) PROVE PriceStep
  BY <1>3, <1>8 DEF Claim, roundVars, shareVars
<1>9. CASE Start
  <2>1. /\ epoch' = epoch /\ generation' = generation /\ total_shares' = total_shares
        /\ in_round = 0 /\ in_round' = commit_for(assets, fee_ema)
        /\ assets' = assets - commit_for(assets, fee_ema)
    BY <1>9 DEF Start, NothingOut
  <2>2. commit_for(assets, fee_ema) \in Nat
    BY <1>1, CommitWithin
  <2>3. assets' + in_round' = assets + in_round
    BY <1>1, <2>1, <2>2
  <2> QED
    BY <1>3, <2>1, <2>3
<1>10. CASE RoundFinal
  BY <1>3, <1>10 DEF RoundFinal, shareVars
<1>11. ASSUME NEW principal \in Results, NEW fees \in FeeIncomes, NEW recorded \in BOOLEAN,
              Collect(principal, fees, recorded)
       PROVE  PriceStep
  <2> DEFINE after  == assets + principal + fees
             wiped  == after = 0 /\ total_shares > 0
             base   == IF wiped THEN 0 ELSE total_shares
             gone   == IF wiped THEN 0 ELSE pending_withdraw_shares
             paid   == assets_for(gone, after, base)
             minted == shares_for(pending_deposits, after, base)
             E      == base + VIRTUAL_SHARES
             G      == after + 1
  <2>1. /\ gone <= base /\ epoch' = epoch + 1 /\ in_round' = 0
        /\ assets' = after - paid + pending_deposits /\ total_shares' = base - gone + minted
        /\ claimable' = claimable + paid
        /\ generation' = (IF wiped THEN generation + 1 ELSE generation)
    BY <1>11 DEF Collect, process_queue
  <2>2. /\ after \in Nat /\ base \in Nat /\ gone \in Nat
        /\ E \in Nat /\ G \in Nat
        /\ base = IF generation' = generation THEN total_shares ELSE 0
    BY <1>1, <1>11, <2>1, HouseConstants
  <2> HIDE DEF after, wiped, base, gone
  <2>3. G * minted <= pending_deposits * E /\ minted \in Nat
    BY <1>1, <2>2, MintWorth, SharesForNat
  <2>4. paid * E <= gone * G /\ paid \in Nat
    BY <2>2, PaidWorth, AssetsForNat
  <2> HIDE DEF paid, minted
  <2>5. G * (E - gone + minted) <= (G - paid + pending_deposits) * E
    <3> HIDE DEF G, E
    <3> QED
      BY <1>1, <2>2, <2>3, <2>4, PriceKept
  <2>6. /\ assets' + claimable' - claimable - pending_deposits + 1 = G
        /\ total_shares' + VIRTUAL_SHARES = E - gone + minted
        /\ assets' + in_round' + 1 = G - paid + pending_deposits
    BY <1>1, <2>1, <2>2, <2>3, <2>4
  <2>7. epoch' # epoch
    BY <1>1, <2>1
  <2> HIDE DEF G
  <2>8. PriceStep <=> G * (total_shares' + VIRTUAL_SHARES) <= (assets' + in_round' + 1) * E
    BY <2>2, <2>6, <2>7 DEF PriceStep
  <2> HIDE DEF E
  <2> QED
    BY <2>5, <2>6, <2>8
<1>12. CASE UNCHANGED vars
  BY <1>3, <1>12 DEF vars, roundVars, shareVars
<1> QED
  BY <1>4, <1>5, <1>6, <1>7, <1>8, <1>9, <1>10, <1>11, <1>12 DEF Next

\* No deposit, withdrawal, start, cancellation, claim or processing of a queue
\* lowers the price of a share: only a round's own result does.
THEOREM PriceNeverFallsHolds == Spec => PriceNeverFalls
<1>1. ASSUME TypeOK, NothingOut, [Next]_vars PROVE [PriceStep]_vars
  BY <1>1, PriceSteps
<1>2. TypeOK /\ NothingOut /\ [Next]_vars => [PriceStep]_vars
  BY <1>1
<1>3. Spec => [][PriceStep]_vars
  BY <1>2, TypeCorrect, NothingOutHolds, PTL DEF Spec
<1> QED
  BY <1>3 DEF PriceNeverFalls, PriceStep

-----------------------------------------------------------------------------
(* Booked lazily, the house is the eager one.  The mapping reads a stake   *)
(* as its owner's next call would find it: an owner's call shows as a      *)
(* change of that owner alone, a collection as everybody's at once.        *)

\* The eager house's rules are the same ones, reached through the INSTANCE.
LEMMA EagerRules ==
  /\ \A x, a, s : Eager!shares_for(x, a, s) = shares_for(x, a, s)
  /\ \A n, a, s : Eager!assets_for(n, a, s) = assets_for(n, a, s)
  /\ \A a, e : Eager!commit_for(a, e) = commit_for(a, e)
  /\ \A e, f : Eager!next_fee_ema(e, f) = next_fee_ema(e, f)
BY DEF Eager!shares_for, shares_for, Eager!assets_for, assets_for, Eager!commit_for,
       commit_for, Eager!next_fee_ema, next_fee_ema, Eager!Lower, Lower, Eager!Higher, Higher

LEMMA EagerSum ==
  ASSUME NEW f, NEW S
  PROVE  Eager!SumFunctionOnSet(f, S) = SumFunctionOnSet(f, S)
BY DEF Eager!SumFunctionOnSet, SumFunctionOnSet, Eager!FoldFunctionOnSet, FoldFunctionOnSet,
       Eager!MapThenFoldSet, MapThenFoldSet

\* An owner's step shows in the eager house as a change of that owner alone.
LEMMA OwnerShows ==
  ASSUME Inv, NEW o \in Owners, NEW s \in Stakes,
         stake' = [stake EXCEPT ![o] = s], UNCHANGED roundVars,
         ~ stale(s), s.generation = generation
  PROVE  /\ held_shares' = [held_shares EXCEPT ![o] = s.shares]
         /\ held_claims' = [held_claims EXCEPT ![o] = s.claimable]
         /\ asked_deposits' = [asked_deposits EXCEPT ![o] = s.pending_deposit]
         /\ asked_withdraws' = [asked_withdraws EXCEPT ![o] = s.pending_withdraw]
<1>1. /\ epoch' = epoch /\ generation' = generation /\ records' = records
      /\ stake \in [Owners -> Stakes]
  BY DEF roundVars, Inv, TypeOK
<1>2. stake'[o] = s /\ \A p \in Owners \ {o} : stake'[p] = stake[p]
  BY <1>1
<1>3. \A p \in Owners : booked'[p] = book(stake'[p])
  BY <1>1 DEF booked, book, can_book, stale, void_old_shares
<1>4. booked'[o] = s /\ \A p \in Owners \ {o} : booked'[p] = booked[p]
  BY <1>2, <1>3, UpToDateAlready, Stakes1
<1> QED
  BY <1>4 DEF held_shares, held_claims, asked_deposits, asked_withdraws

\* What the owner's stake, once booked, shows in the eager house.
LEMMA OwnerShown ==
  ASSUME NEW o \in Owners
  PROVE  /\ held_shares[o] = booked[o].shares /\ held_claims[o] = booked[o].claimable
         /\ asked_deposits[o] = booked[o].pending_deposit
         /\ asked_withdraws[o] = booked[o].pending_withdraw
BY DEF held_shares, held_claims, asked_deposits, asked_withdraws

\* All of it is amounts.
LEMMA ShownType ==
  ASSUME Inv
  PROVE  /\ held_shares \in [Owners -> Nat] /\ held_claims \in [Owners -> Nat]
         /\ asked_deposits \in [Owners -> Nat] /\ asked_withdraws \in [Owners -> Nat]
BY Stakes1 DEF held_shares, held_claims, asked_deposits, asked_withdraws, Stakes

\* A value put back where it was.
LEMMA SameAgain ==
  ASSUME NEW f, f \in [Owners -> Nat], NEW o \in Owners
  PROVE  [f EXCEPT ![o] = f[o]] = f
OBVIOUS

\* An owner's part put back as it was booked leaves all that shows alone.
LEMMA PutBack ==
  ASSUME Inv, NEW o \in Owners
  PROVE  /\ [held_shares EXCEPT ![o] = booked[o].shares] = held_shares
         /\ [held_claims EXCEPT ![o] = booked[o].claimable] = held_claims
         /\ [asked_deposits EXCEPT ![o] = booked[o].pending_deposit] = asked_deposits
         /\ [asked_withdraws EXCEPT ![o] = booked[o].pending_withdraw] = asked_withdraws
<1>1. [held_shares EXCEPT ![o] = booked[o].shares] = held_shares
  BY OwnerShown, ShownType, SameAgain
<1>2. [held_claims EXCEPT ![o] = booked[o].claimable] = held_claims
  BY OwnerShown, ShownType, SameAgain
<1>3. [asked_deposits EXCEPT ![o] = booked[o].pending_deposit] = asked_deposits
  BY OwnerShown, ShownType, SameAgain
<1>4. [asked_withdraws EXCEPT ![o] = booked[o].pending_withdraw] = asked_withdraws
  BY OwnerShown, ShownType, SameAgain
<1> QED
  BY <1>1, <1>2, <1>3, <1>4

\* The owner's calls: booking first changes nothing that shows.
LEMMA DepositShows ==
  ASSUME Inv, NEW o \in Owners, NEW amount \in Amounts, Deposit(o, amount)
  PROVE  Eager!EagerDeposit(o, amount)
<1> DEFINE b      == booked[o]
           minted == shares_for(amount, assets, total_shares)
<1>1. /\ b = book(stake[o]) /\ b \in Stakes /\ ~ stale(b) /\ b.generation = generation
      /\ b.pending_epoch <= epoch
  BY OwnerFinds
<1>2. /\ amount \in Nat /\ assets \in Nat /\ total_shares \in Nat
      /\ epoch \in Nat /\ generation \in Nat
      /\ b.shares \in Nat /\ b.pending_deposit \in Nat
  BY <1>1, HouseConstants DEF Inv, TypeOK, Stakes
<1>3. minted \in Nat
  BY <1>2, SharesForNat
<1>4. /\ UNCHANGED roundVars /\ UNCHANGED controlVars /\ claimable' = claimable
      /\ ~ paused /\ amount >= ONE_TOKEN
  BY DEF Deposit
<1> HIDE DEF b, minted
<1>5. CASE phase = "Idle"
  <2> DEFINE held == b.shares + minted
             s    == [b EXCEPT !.shares = held]
  <2>1. /\ assets' = assets + amount /\ total_shares' = total_shares + minted
        /\ stake' = [stake EXCEPT ![o] = s]
    BY <1>1, <1>5 DEF Deposit, b, minted
  <2>2. held \in Nat
    BY <1>2, <1>3
  <2>3. s = [b EXCEPT !.shares = held]
    OBVIOUS
  <2> HIDE DEF s
  <2>4. /\ s \in Stakes /\ s.shares = held /\ s.claimable = b.claimable
        /\ s.generation = generation /\ s.pending_epoch = b.pending_epoch
        /\ s.pending_deposit = b.pending_deposit /\ s.pending_withdraw = b.pending_withdraw
    <3> HIDE DEF held
    <3> QED
      BY <1>1, <2>2, <2>3 DEF Stakes
  <2>5. ~ stale(s)
    BY <1>1, <2>4 DEF stale, has_pending
  <2>6. /\ held_shares' = [held_shares EXCEPT ![o] = s.shares]
        /\ held_claims' = [held_claims EXCEPT ![o] = s.claimable]
        /\ asked_deposits' = [asked_deposits EXCEPT ![o] = s.pending_deposit]
        /\ asked_withdraws' = [asked_withdraws EXCEPT ![o] = s.pending_withdraw]
    BY <1>4, <2>1, <2>4, <2>5, OwnerShows
  <2>7. /\ held_shares' = [held_shares EXCEPT ![o] = @ + minted]
        /\ held_claims' = held_claims /\ asked_deposits' = asked_deposits
        /\ asked_withdraws' = asked_withdraws
    BY <2>4, <2>6, OwnerShown, PutBack DEF b
  <2> QED
    BY <1>4, <1>5, <2>1, <2>7, EagerRules
       DEF Eager!EagerDeposit, minted, held_shares, held_claims, asked_deposits,
           asked_withdraws, roundVars, controlVars
<1>6. CASE phase # "Idle"
  <2> DEFINE total == b.pending_deposit + amount
             s     == [b EXCEPT !.pending_deposit = total, !.pending_epoch = epoch]
  <2>1. /\ assets' = assets /\ total_shares' = total_shares
        /\ stake' = [stake EXCEPT ![o] = s]
    BY <1>1, <1>6 DEF Deposit, shareVars, b
  <2>2. total \in Nat
    BY <1>2
  <2>3. s = [b EXCEPT !.pending_deposit = total, !.pending_epoch = epoch]
    OBVIOUS
  <2> HIDE DEF s
  <2>4. /\ s \in Stakes /\ s.shares = b.shares /\ s.claimable = b.claimable
        /\ s.generation = b.generation /\ s.pending_epoch = epoch
        /\ s.pending_deposit = total /\ s.pending_withdraw = b.pending_withdraw
    <3> HIDE DEF total
    <3> QED
      BY <1>1, <1>2, <2>2, <2>3 DEF Stakes
  <2>5. ~ stale(s)
    BY <1>2, <2>4 DEF stale
  <2>6. /\ held_shares' = [held_shares EXCEPT ![o] = s.shares]
        /\ held_claims' = [held_claims EXCEPT ![o] = s.claimable]
        /\ asked_deposits' = [asked_deposits EXCEPT ![o] = s.pending_deposit]
        /\ asked_withdraws' = [asked_withdraws EXCEPT ![o] = s.pending_withdraw]
    BY <1>1, <1>4, <2>1, <2>4, <2>5, OwnerShows
  <2>7. /\ held_shares' = held_shares
        /\ held_claims' = held_claims /\ asked_deposits' = [asked_deposits EXCEPT ![o] = @ + amount]
        /\ asked_withdraws' = asked_withdraws
    BY <2>4, <2>6, OwnerShown, PutBack DEF b
  <2> QED
    BY <1>4, <1>6, <2>1, <2>7
       DEF Eager!EagerDeposit, held_shares, held_claims, asked_deposits,
           asked_withdraws, roundVars, controlVars
<1> QED
  BY <1>5, <1>6

LEMMA WithdrawShows ==
  ASSUME Inv, NEW o \in Owners, NEW n \in Quantities, Withdraw(o, n)
  PROVE  Eager!EagerWithdraw(o, n)
<1> DEFINE b    == booked[o]
           paid == assets_for(n, assets, total_shares)
<1>1. /\ b = book(stake[o]) /\ b \in Stakes /\ ~ stale(b) /\ b.generation = generation
      /\ b.pending_epoch <= epoch
  BY OwnerFinds
<1>2. /\ n \in Nat /\ epoch \in Nat /\ generation \in Nat
      /\ b.shares \in Nat /\ b.pending_withdraw \in Nat
  BY <1>1, HouseConstants DEF Inv, TypeOK, Stakes
<1>3. /\ UNCHANGED roundVars /\ UNCHANGED controlVars /\ claimable' = claimable
      /\ o \notin frozen /\ n > 0 /\ n <= b.shares - b.pending_withdraw
  BY <1>1 DEF Withdraw, free_shares
<1> HIDE DEF b, paid
<1>4. n <= held_shares[o] - asked_withdraws[o]
  BY <1>3, OwnerShown DEF b
<1>5. CASE phase = "Idle"
  <2> DEFINE left == b.shares - n
             s    == [b EXCEPT !.shares = left]
  <2>1. /\ assets' = assets - paid /\ total_shares' = total_shares - n
        /\ stake' = [stake EXCEPT ![o] = s]
    BY <1>1, <1>5 DEF Withdraw, b, paid
  <2>2. left \in Nat /\ s = [b EXCEPT !.shares = left]
    BY <1>2, <1>3
  <2> HIDE DEF s
  <2>3. /\ s \in Stakes /\ s.shares = left /\ s.claimable = b.claimable
        /\ s.generation = generation /\ s.pending_epoch = b.pending_epoch
        /\ s.pending_deposit = b.pending_deposit /\ s.pending_withdraw = b.pending_withdraw
    <3> HIDE DEF left
    <3> QED
      BY <1>1, <2>2 DEF Stakes
  <2>4. ~ stale(s)
    BY <1>1, <2>3 DEF stale, has_pending
  <2>5. /\ held_shares' = [held_shares EXCEPT ![o] = s.shares]
        /\ held_claims' = [held_claims EXCEPT ![o] = s.claimable]
        /\ asked_deposits' = [asked_deposits EXCEPT ![o] = s.pending_deposit]
        /\ asked_withdraws' = [asked_withdraws EXCEPT ![o] = s.pending_withdraw]
    BY <1>3, <2>1, <2>3, <2>4, OwnerShows
  <2>6. /\ held_shares' = [held_shares EXCEPT ![o] = @ - n]
        /\ held_claims' = held_claims /\ asked_deposits' = asked_deposits
        /\ asked_withdraws' = asked_withdraws
    BY <2>3, <2>5, OwnerShown, PutBack DEF b
  <2> QED
    BY <1>3, <1>4, <1>5, <2>1, <2>6, EagerRules
       DEF Eager!EagerWithdraw, paid, held_shares, held_claims, asked_deposits,
           asked_withdraws, roundVars, controlVars
<1>6. CASE phase # "Idle"
  <2> DEFINE total == b.pending_withdraw + n
             s     == [b EXCEPT !.pending_withdraw = total, !.pending_epoch = epoch]
  <2>1. /\ assets' = assets /\ total_shares' = total_shares
        /\ stake' = [stake EXCEPT ![o] = s]
    BY <1>1, <1>6 DEF Withdraw, shareVars, b
  <2>2. total \in Nat /\ s = [b EXCEPT !.pending_withdraw = total, !.pending_epoch = epoch]
    BY <1>2
  <2> HIDE DEF s
  <2>3. /\ s \in Stakes /\ s.shares = b.shares /\ s.claimable = b.claimable
        /\ s.generation = b.generation /\ s.pending_epoch = epoch
        /\ s.pending_deposit = b.pending_deposit /\ s.pending_withdraw = total
    <3> HIDE DEF total
    <3> QED
      BY <1>1, <1>2, <2>2 DEF Stakes
  <2>4. ~ stale(s)
    BY <1>2, <2>3 DEF stale
  <2>5. /\ held_shares' = [held_shares EXCEPT ![o] = s.shares]
        /\ held_claims' = [held_claims EXCEPT ![o] = s.claimable]
        /\ asked_deposits' = [asked_deposits EXCEPT ![o] = s.pending_deposit]
        /\ asked_withdraws' = [asked_withdraws EXCEPT ![o] = s.pending_withdraw]
    BY <1>1, <1>3, <2>1, <2>3, <2>4, OwnerShows
  <2>6. /\ held_shares' = held_shares /\ held_claims' = held_claims
        /\ asked_deposits' = asked_deposits
        /\ asked_withdraws' = [asked_withdraws EXCEPT ![o] = @ + n]
    BY <2>3, <2>5, OwnerShown, PutBack DEF b
  <2> QED
    BY <1>3, <1>4, <1>6, <2>1, <2>6
       DEF Eager!EagerWithdraw, held_shares, held_claims, asked_deposits,
           asked_withdraws, roundVars, controlVars
<1> QED
  BY <1>5, <1>6

LEMMA CancelShows ==
  ASSUME Inv, NEW o \in Owners, CancelDeposit(o)
  PROVE  Eager!EagerCancel(o)
<1> DEFINE b == stake[o]
           s == [b EXCEPT !.pending_deposit = 0]
<1>1. /\ b \in Stakes /\ Sound(b) /\ b.pending_epoch = epoch /\ b.pending_deposit > 0
      /\ epoch \in Nat /\ UNCHANGED roundVars /\ UNCHANGED controlVars
      /\ UNCHANGED shareVars /\ claimable' = claimable
      /\ stake' = [stake EXCEPT ![o] = s]
  BY Stakes1 DEF CancelDeposit, cancellable, Inv, TypeOK
<1>2. ~ stale(b) /\ b.generation = generation
  BY <1>1 DEF Sound, stale, has_pending
<1>3. booked[o] = b
  BY <1>2, UpToDateAlready DEF booked
<1>4. s = [b EXCEPT !.pending_deposit = 0]
  OBVIOUS
<1> HIDE DEF s, b
<1>5. /\ s \in Stakes /\ s.shares = b.shares /\ s.claimable = b.claimable
      /\ s.generation = b.generation /\ s.pending_epoch = b.pending_epoch
      /\ s.pending_deposit = 0 /\ s.pending_withdraw = b.pending_withdraw
  BY <1>1, <1>4 DEF Stakes
<1>6. ~ stale(s)
  BY <1>1, <1>5 DEF stale
<1>7. /\ held_shares' = [held_shares EXCEPT ![o] = s.shares]
      /\ held_claims' = [held_claims EXCEPT ![o] = s.claimable]
      /\ asked_deposits' = [asked_deposits EXCEPT ![o] = s.pending_deposit]
      /\ asked_withdraws' = [asked_withdraws EXCEPT ![o] = s.pending_withdraw]
  BY <1>1, <1>2, <1>5, <1>6, OwnerShows
<1>8. /\ held_shares' = held_shares /\ held_claims' = held_claims
      /\ asked_deposits' = [asked_deposits EXCEPT ![o] = 0]
      /\ asked_withdraws' = asked_withdraws /\ asked_deposits[o] > 0
  BY <1>1, <1>3, <1>5, <1>7, OwnerShown, ShownType, SameAgain
<1> QED
  BY <1>1, <1>8
     DEF Eager!EagerCancel, held_shares, held_claims, asked_deposits,
         asked_withdraws, roundVars, controlVars, shareVars

LEMMA ClaimShows ==
  ASSUME Inv, NEW o \in Owners, Claim(o)
  PROVE  Eager!EagerClaim(o)
<1> DEFINE b == booked[o]
           s == [b EXCEPT !.claimable = 0]
<1>1. /\ b = book(stake[o]) /\ b \in Stakes /\ ~ stale(b) /\ b.generation = generation
  BY OwnerFinds
<1>2. b.claimable \in Nat /\ claimable \in Nat
  BY <1>1 DEF Inv, TypeOK, Stakes
<1>3. b.claimable <= claimable
  <2>1. held_claims[o] <= SumFunctionOnSet(held_claims, Owners)
    BY Stakes1, SumTerm
  <2> QED
    BY <1>2, <2>1, Stakes1 DEF SumOver, held_claims
<1>4. /\ UNCHANGED roundVars /\ UNCHANGED controlVars /\ UNCHANGED shareVars
      /\ claimable' = claimable - b.claimable /\ stake' = [stake EXCEPT ![o] = s]
  BY <1>1, <1>3 DEF Claim, Lower
<1>5. s = [b EXCEPT !.claimable = 0]
  OBVIOUS
<1> HIDE DEF s, b
<1>6. /\ s \in Stakes /\ s.shares = b.shares /\ s.claimable = 0
      /\ s.generation = b.generation /\ s.pending_epoch = b.pending_epoch
      /\ s.pending_deposit = b.pending_deposit /\ s.pending_withdraw = b.pending_withdraw
  BY <1>1, <1>5 DEF Stakes
<1>7. ~ stale(s)
  BY <1>1, <1>6 DEF stale, has_pending
<1>8. /\ held_shares' = [held_shares EXCEPT ![o] = s.shares]
      /\ held_claims' = [held_claims EXCEPT ![o] = s.claimable]
      /\ asked_deposits' = [asked_deposits EXCEPT ![o] = s.pending_deposit]
      /\ asked_withdraws' = [asked_withdraws EXCEPT ![o] = s.pending_withdraw]
  BY <1>1, <1>4, <1>6, <1>7, OwnerShows
<1>9. /\ held_shares' = held_shares /\ held_claims' = [held_claims EXCEPT ![o] = 0]
      /\ asked_deposits' = asked_deposits /\ asked_withdraws' = asked_withdraws
      /\ claimable' = claimable - held_claims[o]
  BY <1>4, <1>6, <1>8, OwnerShown, PutBack DEF b
<1> QED
  BY <1>4, <1>9
     DEF Eager!EagerClaim, held_shares, held_claims, asked_deposits,
         asked_withdraws, roundVars, controlVars, shareVars

\* A step that touches neither the stakes nor what books them shows nothing there.
LEMMA QuietShows ==
  ASSUME UNCHANGED <<stake, epoch, generation, records>>
  PROVE  /\ held_shares' = held_shares /\ held_claims' = held_claims
         /\ asked_deposits' = asked_deposits /\ asked_withdraws' = asked_withdraws
<1>1. booked' = booked
  BY DEF booked, book, can_book, stale, void_old_shares
<1> QED
  BY <1>1 DEF held_shares, held_claims, asked_deposits, asked_withdraws

LEMMA AdministerShows ==
  ASSUME Administer PROVE Eager!EagerAdminister
BY QuietShows DEF Administer, Eager!EagerAdminister, held_shares, held_claims,
   asked_deposits, asked_withdraws, roundVars, shareVars

LEMMA StartShows ==
  ASSUME Start PROVE Eager!EagerStart
BY QuietShows, EagerRules DEF Start, Eager!EagerStart, held_shares, held_claims,
   asked_deposits, asked_withdraws, controlVars

LEMMA RoundFinalShows ==
  ASSUME RoundFinal PROVE Eager!EagerFinish
BY QuietShows DEF RoundFinal, Eager!EagerFinish, held_shares, held_claims,
   asked_deposits, asked_withdraws, controlVars, shareVars

\* What is queued is what the stakes, brought up to date, still have queued.
LEMMA QueueShown ==
  ASSUME Inv
  PROVE  /\ asked_deposits = queued_in /\ asked_withdraws = queued_out
         /\ Eager!SumFunctionOnSet(asked_deposits, Owners) = pending_deposits
         /\ Eager!SumFunctionOnSet(asked_withdraws, Owners) = pending_withdraw_shares
<1>1. \A o \in Owners : /\ asked_deposits[o] = queued_in[o]
                        /\ asked_withdraws[o] = queued_out[o]
  BY OwnerFinds, OwnerShown
<1>2. asked_deposits = queued_in /\ asked_withdraws = queued_out
  BY <1>1 DEF asked_deposits, asked_withdraws, queued_in, queued_out
<1>3. QueueExact
  BY DEF Inv, HouseInv
<1> QED
  BY <1>2, <1>3, EagerSum DEF QueueExact, SumOver

\* A collection, which touches no stake, settles everybody in the eager house.
LEMMA CollectShows ==
  ASSUME Inv, NEW principal \in Nat, NEW fees \in Nat, NEW recorded \in BOOLEAN,
         Collect(principal, fees, recorded)
  PROVE  Eager!EagerCollect(principal, fees,
                            Eager!SumFunctionOnSet(asked_deposits, Owners),
                            Eager!SumFunctionOnSet(asked_withdraws, Owners))
<1> DEFINE after  == assets + principal + fees
           wiped  == after = 0 /\ total_shares > 0
           base   == IF wiped THEN 0 ELSE total_shares
           gone   == IF wiped THEN 0 ELSE pending_withdraw_shares
           paid   == assets_for(gone, after, base)
           minted == shares_for(pending_deposits, after, base)
<1>1. /\ record_made(recorded) /\ phase \in {"Settled", "Void"}
      /\ epoch' = epoch + 1 /\ phase' = "Idle" /\ in_round' = 0
      /\ fee_ema' = (IF phase = "Settled" THEN next_fee_ema(fee_ema, fees) ELSE fee_ema)
      /\ assets' = after - paid + pending_deposits /\ total_shares' = base - gone + minted
      /\ claimable' = claimable + paid
      /\ generation' = (IF wiped THEN generation + 1 ELSE generation)
      /\ UNCHANGED <<paused, active, frozen>> /\ stake' = stake
      /\ Recording(recorded, after, base, wiped)
  BY DEF Collect, process_queue, controlVars, Recording
<1>2. /\ after \in Nat /\ base \in Nat /\ wiped \in BOOLEAN
      /\ wiped => after = 0 /\ base = 0
  BY DEF Inv, TypeOK
<1>3. /\ \A o \in Owners : queued_in[o] \in Nat /\ queued_out[o] \in Nat
      /\ asked_deposits = queued_in /\ asked_withdraws = queued_out
      /\ Eager!SumFunctionOnSet(asked_deposits, Owners) = pending_deposits
      /\ Eager!SumFunctionOnSet(asked_withdraws, Owners) = pending_withdraw_shares
  BY Stakes1, QueueShown
<1> HIDE DEF after, wiped, base, gone, paid, minted
<1>4. \A o \in Owners :
        /\ held_shares'[o] = (IF wiped THEN 0 ELSE held_shares[o] - asked_withdraws[o])
                               + shares_for(asked_deposits[o], after, base)
        /\ held_claims'[o] = held_claims[o]
             + (IF wiped THEN 0 ELSE assets_for(asked_withdraws[o], after, base))
        /\ asked_deposits'[o] = 0 /\ asked_withdraws'[o] = 0
  BY <1>1, <1>2, <1>3, CollectStake
<1>5. /\ held_shares' = [o \in Owners |->
                           (IF wiped THEN 0 ELSE held_shares[o] - asked_withdraws[o])
                             + shares_for(asked_deposits[o], after, base)]
      /\ held_claims' = [o \in Owners |-> held_claims[o]
             + (IF wiped THEN 0 ELSE assets_for(asked_withdraws[o], after, base))]
      /\ asked_deposits' = [o \in Owners |-> 0] /\ asked_withdraws' = [o \in Owners |-> 0]
  BY <1>4 DEF held_shares, held_claims, asked_deposits, asked_withdraws
<1> QED
  BY <1>1, <1>3, <1>5, EagerRules
     DEF Eager!EagerCollect, Eager!Nobody, after, wiped, base, gone, paid, minted,
         held_shares, held_claims, asked_deposits, asked_withdraws

\* Every step of the house is one of the eager house, or none.
LEMMA StepShows ==
  ASSUME Inv, [Next]_vars
  PROVE  [Eager!EagerNext]_(Eager!eagerVars)
<1>1. CASE Administer
  BY <1>1, AdministerShows DEF Eager!EagerNext
<1>2. ASSUME NEW o \in Owners, NEW amount \in Amounts, Deposit(o, amount)
      PROVE  Eager!EagerNext
  BY <1>2, DepositShows DEF Eager!EagerNext
<1>3. ASSUME NEW o \in Owners, NEW n \in Quantities, Withdraw(o, n) PROVE Eager!EagerNext
  BY <1>3, WithdrawShows DEF Eager!EagerNext
<1>4. ASSUME NEW o \in Owners, CancelDeposit(o) PROVE Eager!EagerNext
  BY <1>4, CancelShows DEF Eager!EagerNext
<1>5. ASSUME NEW o \in Owners, Claim(o) PROVE Eager!EagerNext
  BY <1>5, ClaimShows DEF Eager!EagerNext
<1>6. CASE Start
  BY <1>6, StartShows DEF Eager!EagerNext
<1>7. CASE RoundFinal
  BY <1>7, RoundFinalShows DEF Eager!EagerNext
<1>8. ASSUME NEW principal \in Results, NEW fees \in FeeIncomes, NEW recorded \in BOOLEAN,
             Collect(principal, fees, recorded)
      PROVE  Eager!EagerNext
  <2>1. principal \in Nat /\ fees \in Nat
    BY HouseConstants
  <2>2. Eager!EagerCollect(principal, fees,
                           Eager!SumFunctionOnSet(asked_deposits, Owners),
                           Eager!SumFunctionOnSet(asked_withdraws, Owners))
    BY <1>8, <2>1, CollectShows
  <2> QED
    BY <2>2 DEF Eager!EagerNext, asked_deposits, asked_withdraws
<1>9. CASE UNCHANGED vars
  BY <1>9, QuietShows
     DEF vars, controlVars, roundVars, shareVars, Eager!eagerVars, held_shares,
         held_claims, asked_deposits, asked_withdraws
<1> QED
  BY <1>1, <1>2, <1>3, <1>4, <1>5, <1>6, <1>7, <1>8, <1>9 DEF Next

\* A new house is a new eager one.
LEMMA InitShows ==
  ASSUME Init PROVE Eager!EagerInit
<1>1. \A p \in Owners :
        /\ stake[p].pending_deposit = 0 /\ stake[p].pending_withdraw = 0
        /\ stake[p].claimable = 0 /\ stake[p].generation = 0
  BY DEF Init, Blank
<1>2. \A p \in Owners : booked[p] = stake[p]
  BY <1>1, UpToDateAlready DEF Init, booked, stale, has_pending
<1>3. /\ held_claims = [o \in Owners |-> 0] /\ asked_deposits = [o \in Owners |-> 0]
      /\ asked_withdraws = [o \in Owners |-> 0]
  BY <1>1, <1>2 DEF held_claims, asked_deposits, asked_withdraws
<1>4. CASE /\ active \in ActiveValues /\ frozen = {} /\ assets = 0 /\ total_shares = 0
           /\ stake = [o \in Owners |-> Blank]
  <2>1. held_shares = [o \in Owners |-> 0]
    BY <1>2, <1>4 DEF held_shares, Blank
  <2> QED
    BY <1>3, <1>4, <2>1 DEF Init, Eager!EagerInit, Eager!Nobody, held_shares, held_claims,
       asked_deposits, asked_withdraws
<1>5. ASSUME NEW o \in Owners, NEW seed \in Amounts,
             active = FALSE, frozen = {o}, assets = seed,
             total_shares = shares_for(seed, 0, 0),
             stake = [p \in Owners |->
               IF p = o THEN [Blank EXCEPT !.shares = shares_for(seed, 0, 0)] ELSE Blank]
      PROVE  Eager!EagerInit
  <2>1. held_shares = [[p \in Owners |-> 0] EXCEPT ![o] = shares_for(seed, 0, 0)]
    BY <1>2, <1>5 DEF held_shares, Blank
  <2> QED
    BY <1>3, <1>5, <2>1, EagerRules DEF Init, Eager!EagerInit, Eager!Nobody, held_shares,
       held_claims, asked_deposits, asked_withdraws
<1> QED
  BY <1>4, <1>5 DEF Init

\* Lazily booked, a house settles everybody at the collect: over any number of
\* rounds and depositors, however late each of them calls.
THEOREM LazyIsEagerHolds == Spec => LazyIsEager
<1>1. Init => Eager!EagerInit
  BY InitShows
<1>2. Inv /\ [Next]_vars => [Eager!EagerNext]_(Eager!eagerVars)
  BY StepShows
<1> QED
  BY <1>1, <1>2, InvHolds, PTL DEF Spec, LazyIsEager, Eager!EagerSpec

-----------------------------------------------------------------------------
(* The house as its depositors see it.                                     *)

\* A stake that still waits to be booked is of the generation its round began
\* with: the record it is booked from is of that one, unless the round wiped it
\* out.
Aged(s) ==
  stale(s) => LET e == records[s.pending_epoch]
              IN  /\ s.generation <= e.generation
                  /\ e.wiped => s.generation < e.generation
AllAged == \A o \in Owners : Aged(stake[o])

\* A step of one owner leaves that owner's stake with nothing stale.
LEMMA OwnerAged ==
  ASSUME AllAged, NEW o \in Owners, NEW s, ~ stale(s),
         stake \in [Owners -> Stakes], stake' = [stake EXCEPT ![o] = s], UNCHANGED roundVars
  PROVE  AllAged'
<1>1. stake'[o] = s /\ \A p \in Owners \ {o} : stake'[p] = stake[p]
  OBVIOUS
<1>2. \A p \in Owners : Aged(stake[p])'
  BY <1>1 DEF AllAged, Aged, stale, roundVars
<1> QED
  BY <1>2 DEF AllAged

\* What an owner's step starts from.
LEMMA OwnerBooked ==
  ASSUME Inv, NEW o \in Owners
  PROVE  /\ book(stake[o]) \in Stakes /\ ~ stale(book(stake[o]))
         /\ epoch \in Nat /\ stake \in [Owners -> Stakes] /\ stake[o] \in Stakes
BY Stakes1, UpToDate DEF Inv, TypeOK

LEMMA DepositAged ==
  ASSUME Inv, AllAged, NEW o \in Owners, NEW amount \in Amounts, Deposit(o, amount)
  PROVE  AllAged'
<1> DEFINE s == book(stake[o])
           minted == shares_for(amount, assets, total_shares)
<1>1. s \in Stakes /\ ~ stale(s) /\ epoch \in Nat /\ stake \in [Owners -> Stakes]
  BY OwnerBooked
<1> HIDE DEF minted
<1>2. UNCHANGED roundVars
  BY DEF Deposit
<1>3. CASE phase = "Idle"
  <2>1. stake' = [stake EXCEPT ![o] = [s EXCEPT !.shares = @ + minted]]
    BY <1>3 DEF Deposit, minted
  <2> HIDE DEF s
  <2>2. ~ stale([s EXCEPT !.shares = @ + minted])
    BY <1>1 DEF stale, has_pending, Stakes
  <2> QED
    BY <1>1, <1>2, <2>1, <2>2, OwnerAged
<1>4. CASE phase # "Idle"
  <2>1. stake' = [stake EXCEPT ![o] =
          [s EXCEPT !.pending_deposit = @ + amount, !.pending_epoch = epoch]]
    BY <1>4 DEF Deposit
  <2> HIDE DEF s
  <2>2. ~ stale([s EXCEPT !.pending_deposit = @ + amount, !.pending_epoch = epoch])
    BY <1>1 DEF stale, Stakes
  <2> QED
    BY <1>1, <1>2, <2>1, <2>2, OwnerAged
<1> QED
  BY <1>3, <1>4

LEMMA WithdrawAged ==
  ASSUME Inv, AllAged, NEW o \in Owners, NEW n \in Quantities, Withdraw(o, n)
  PROVE  AllAged'
<1> DEFINE s == book(stake[o])
<1>1. s \in Stakes /\ ~ stale(s) /\ epoch \in Nat /\ stake \in [Owners -> Stakes]
  BY OwnerBooked
<1>2. UNCHANGED roundVars
  BY DEF Withdraw
<1>3. CASE phase = "Idle"
  <2>1. stake' = [stake EXCEPT ![o] = [s EXCEPT !.shares = @ - n]]
    BY <1>3 DEF Withdraw
  <2> HIDE DEF s
  <2>2. ~ stale([s EXCEPT !.shares = @ - n])
    BY <1>1 DEF stale, has_pending, Stakes
  <2> QED
    BY <1>1, <1>2, <2>1, <2>2, OwnerAged
<1>4. CASE phase # "Idle"
  <2>1. stake' = [stake EXCEPT ![o] =
          [s EXCEPT !.pending_withdraw = @ + n, !.pending_epoch = epoch]]
    BY <1>4 DEF Withdraw
  <2> HIDE DEF s
  <2>2. ~ stale([s EXCEPT !.pending_withdraw = @ + n, !.pending_epoch = epoch])
    BY <1>1 DEF stale, Stakes
  <2> QED
    BY <1>1, <1>2, <2>1, <2>2, OwnerAged
<1> QED
  BY <1>3, <1>4

LEMMA CancelAged ==
  ASSUME Inv, AllAged, NEW o \in Owners, CancelDeposit(o)
  PROVE  AllAged'
<1>1. epoch \in Nat /\ stake \in [Owners -> Stakes] /\ stake[o] \in Stakes
  BY OwnerBooked
<1>2. /\ UNCHANGED roundVars /\ stake[o].pending_epoch = epoch
      /\ stake' = [stake EXCEPT ![o] = [stake[o] EXCEPT !.pending_deposit = 0]]
  BY DEF CancelDeposit, cancellable
<1>3. ~ stale([stake[o] EXCEPT !.pending_deposit = 0])
  BY <1>1, <1>2 DEF stale, Stakes
<1> QED
  BY <1>1, <1>2, <1>3, OwnerAged

LEMMA ClaimAged ==
  ASSUME Inv, AllAged, NEW o \in Owners, Claim(o)
  PROVE  AllAged'
<1> DEFINE s == book(stake[o])
<1>1. s \in Stakes /\ ~ stale(s) /\ stake \in [Owners -> Stakes]
  BY OwnerBooked
<1>2. UNCHANGED roundVars /\ stake' = [stake EXCEPT ![o] = [s EXCEPT !.claimable = 0]]
  BY DEF Claim
<1> HIDE DEF s
<1>3. ~ stale([s EXCEPT !.claimable = 0])
  BY <1>1 DEF stale, has_pending, Stakes
<1> QED
  BY <1>1, <1>2, <1>3, OwnerAged

\* A collection makes the entries of its epoch stale, and their record is of
\* their generation or, wiped out, of the next.
LEMMA CollectAged ==
  ASSUME Inv, Inv', AllAged, NEW principal, NEW fees, NEW recorded \in BOOLEAN,
         Collect(principal, fees, recorded)
  PROVE  AllAged'
<1> DEFINE after == assets + principal + fees
           wiped == after = 0 /\ total_shares > 0
           base  == IF wiped THEN 0 ELSE total_shares
<1>1. /\ stake' = stake /\ epoch' = epoch + 1
      /\ generation' = (IF wiped THEN generation + 1 ELSE generation)
      /\ records' = IF ~recorded THEN records
                    ELSE [e \in DOMAIN records \union {epoch} |->
                            IF e # epoch THEN records[e]
                            ELSE [assets |-> after, shares |-> base, wiped |-> wiped,
                                  generation |-> generation']]
  BY DEF Collect, process_queue
<1> HIDE DEF after, wiped, base
<1>2. /\ epoch \in Nat /\ generation \in Nat /\ DOMAIN records \subseteq 0 .. epoch - 1
      /\ stake \in [Owners -> Stakes]
  BY DEF Inv, TypeOK
<1>3. ASSUME NEW o \in Owners, stale(stake[o])' PROVE Aged(stake[o])'
  <2> DEFINE at == stake[o].pending_epoch
  <2>1. /\ stake[o] \in Stakes /\ at \in Nat /\ has_pending(stake[o])
        /\ stake[o].generation \in Nat /\ at < epoch + 1
    BY <1>1, <1>2, <1>3 DEF stale, has_pending, Stakes
  <2>2. at \in DOMAIN records'
    BY <1>1, <1>3 DEF Inv, HouseInv, Sound
  <2>3. CASE at < epoch
    <3>1. stale(stake[o]) /\ Aged(stake[o])
      BY <2>1, <2>3 DEF stale, AllAged
    <3>2. records'[at] = records[at]
      BY <1>1, <1>2, <2>1, <2>2, <2>3
    <3> QED
      BY <1>1, <3>1, <3>2 DEF Aged
  <2>4. CASE at = epoch
    <3>1. stake[o].generation = generation
      BY <2>1, <2>4 DEF Inv, HouseInv, Sound
    <3>2. epoch \notin DOMAIN records
      BY <1>2
    <3>3. recorded
      BY <1>1, <2>2, <2>4, <3>2
    <3>4. records'[at] = [assets |-> after, shares |-> base, wiped |-> wiped,
                          generation |-> generation']
      BY <1>1, <2>4, <3>3
    <3>5. generation <= generation' /\ (wiped => generation < generation')
      BY <1>1, <1>2
    <3>6. /\ stake[o].generation <= records'[at].generation
          /\ records'[at].wiped => stake[o].generation < records'[at].generation
      BY <3>1, <3>4, <3>5
    <3> QED
      BY <1>1, <3>6 DEF Aged
  <2> QED
    BY <1>2, <2>1, <2>3, <2>4
<1>4. \A o \in Owners : Aged(stake[o])'
  BY <1>3 DEF Aged
<1> QED
  BY <1>4 DEF AllAged

LEMMA AgedHolds == Spec => []AllAged
<1>1. Init => AllAged
  BY DEF Init, AllAged, Aged, stale, has_pending, Blank
<1>2. Inv /\ Inv' /\ AllAged /\ [Next]_vars => AllAged'
  <2> SUFFICES ASSUME Inv, Inv', AllAged, [Next]_vars PROVE AllAged'
    OBVIOUS
  <2>1. ASSUME UNCHANGED <<roundVars, stake>> PROVE AllAged'
    BY <2>1 DEF roundVars, AllAged, Aged, stale
  <2>2. ASSUME UNCHANGED <<epoch, records, stake>> PROVE AllAged'
    BY <2>2 DEF AllAged, Aged, stale
  <2>3. CASE Administer \/ Start \/ RoundFinal
    BY <2>2, <2>3 DEF Administer, Start, RoundFinal, roundVars
  <2>4. ASSUME NEW o \in Owners, NEW amount \in Amounts, Deposit(o, amount) PROVE AllAged'
    BY <2>4, DepositAged
  <2>5. ASSUME NEW o \in Owners, NEW n \in Quantities, Withdraw(o, n) PROVE AllAged'
    BY <2>5, WithdrawAged
  <2>6. ASSUME NEW o \in Owners, CancelDeposit(o) PROVE AllAged'
    BY <2>6, CancelAged
  <2>7. ASSUME NEW o \in Owners, Claim(o) PROVE AllAged'
    BY <2>7, ClaimAged
  <2>8. ASSUME NEW principal \in Results, NEW fees \in FeeIncomes, NEW recorded \in BOOLEAN,
               Collect(principal, fees, recorded)
        PROVE  AllAged'
    BY <2>8, CollectAged
  <2>9. CASE UNCHANGED vars
    BY <2>1, <2>9 DEF vars
  <2> QED
    BY <2>3, <2>4, <2>5, <2>6, <2>7, <2>8, <2>9 DEF Next
<1> QED
  BY <1>1, <1>2, InvHolds, PTL DEF Spec

\* What the next call makes of a stake whose generation the SDK shows: nothing
\* of it is voided, and its free shares are at least those shown.
LEMMA ShownAreFree ==
  ASSUME Inv, AllAged, NEW o \in Owners, stake[o].generation = generation
  PROVE  stake[o].shares - stake[o].pending_withdraw <= free_shares(booked[o])
<1> DEFINE s == stake[o]
           e == records[s.pending_epoch]
<1>1. /\ s \in Stakes /\ Sound(s) /\ booked[o] = book(s)
      /\ s.shares \in Nat /\ s.pending_withdraw \in Nat /\ s.pending_withdraw <= s.shares
      /\ s.pending_deposit \in Nat /\ generation \in Nat /\ RecordsKnown
  BY Stakes1 DEF Stakes, Sound, Inv, TypeOK
<1>2. CASE ~ stale(s)
  <2>1. booked[o] = s
    BY <1>1, <1>2, UpToDateAlready
  <2> QED
    BY <1>1, <2>1 DEF free_shares
<1>3. CASE stale(s)
  <2>1. s.pending_epoch \in DOMAIN records /\ e \in Records /\ e.generation <= generation
    BY <1>1, <1>3 DEF Sound, RecordsKnown
  <2>2. s.generation <= e.generation /\ (e.wiped => s.generation < e.generation)
    BY <1>3 DEF AllAged, Aged
  <2>3. e.generation \in Nat /\ e.assets \in Nat /\ e.shares \in Nat
    BY <2>1 DEF Records
  <2>4. e.generation = generation /\ ~ e.wiped
    BY <1>1, <2>1, <2>2, <2>3
  <2> DEFINE b == book_from_epoch(s, e)
             minted == shares_for(s.pending_deposit, e.assets, e.shares)
  <2>5. book(s) = void_old_shares(b)
    BY <1>3, <2>1 DEF book
  <2> HIDE DEF e
  <2>6. b \in Stakes /\ b.generation = generation /\ b.pending_withdraw = 0
    BY <1>1, <2>1, <2>4, BookedEntry
  <2>7. book(s) = b
    BY <2>5, <2>6 DEF void_old_shares
  <2>8. minted \in Nat
    BY <1>1, <2>3, SharesForNat
  <2>9. b.shares = s.shares - s.pending_withdraw + minted
    BY <1>1, <2>4 DEF book_from_epoch, Stakes
  <2> HIDE DEF b, minted, s
  <2> QED
    BY <1>1, <2>6, <2>7, <2>8, <2>9 DEF free_shares, s
<1> QED
  BY <1>2, <1>3

\* A part of what shares are shown to be worth is no more than that part of the
\* shares redeems for: both round down, the part of a part a second time.
LEMMA PartWorth ==
  ASSUME NEW a \in Nat, NEW total \in Nat, NEW shares \in Nat, NEW n \in Nat,
         shares > 0, n <= shares
  PROVE  (assets_for(shares, a, total) * n) \div shares <= assets_for(n, a, total)
<1> DEFINE t == total + VIRTUAL_SHARES
           v == assets_for(shares, a, total)
           w == (shares * (a + 1)) \div t
           q == (v * n) \div shares
           x == n * (a + 1)
<1>1. t \in Nat \ {0} /\ a + 1 \in Nat
  BY HouseRuleConstants
<1>2. v \in Nat /\ v <= a
  BY AssetsForNat
<1>3. w \in Nat /\ t * w <= shares * (a + 1)
  <2> HIDE DEF t
  <2> QED
    BY <1>1, ProductNat, QuotientNat
<1>4. v <= w
  BY <1>2, <1>3 DEF assets_for, Lower
<1> HIDE DEF t, v, w
<1>5. v * n \in Nat /\ q \in Nat /\ shares * q <= v * n
  BY <1>2, ProductNat, QuotientNat
<1>6. q <= a
  <2>1. \A i, j, k, m \in Nat : i > 0 /\ i * j <= k * m /\ m <= i => j <= k
    OBVIOUS
  <2> HIDE DEF q
  <2> QED
    BY <1>2, <1>5, <2>1
<1>7. x \in Nat /\ x \div t \in Nat
  BY <1>1, ProductNat, QuotientNat
<1>8. t * q <= x
  <2>1. \A i, j \in Nat, k \in Nat : i <= j => i * k <= j * k
    OBVIOUS
  <2>2. v * t <= shares * (a + 1)
    <3>1. v * t <= w * t
      BY <1>1, <1>2, <1>3, <1>4, <2>1
    <3> QED
      BY <1>1, <1>2, <1>3, <3>1
  <2>3. (v * t) * n <= (shares * (a + 1)) * n
    BY <1>1, <1>2, <2>1, <2>2, ProductNat
  <2>4. (shares * q) * t <= (v * n) * t
    BY <1>1, <1>5, <2>1, ProductNat
  <2> HIDE DEF q, x
  <2>5. (v * n) * t = (v * t) * n /\ (shares * (a + 1)) * n = shares * x
    BY <1>1, <1>2 DEF x
  <2>6. (shares * q) * t = shares * (t * q)
    BY <1>1, <1>5
  <2>7. shares * (t * q) <= shares * x
    <3>1. /\ (v * n) * t \in Int /\ (shares * q) * t \in Int
          /\ shares * (t * q) \in Int /\ shares * x \in Int
      BY <1>1, <1>2, <1>5, <1>7
    <3> QED
      BY <2>3, <2>4, <2>5, <2>6, <3>1
  <2>8. \A i, j, k \in Nat : i > 0 /\ i * j <= i * k => j <= k
    OBVIOUS
  <2>9. t * q \in Nat
    BY <1>1, <1>5, ProductNat
  <2> QED
    BY <1>7, <2>7, <2>8, <2>9
<1>9. q <= x \div t
  <2> HIDE DEF q, x
  <2>1. \A i \in Nat \ {0}, j, k \in Nat : i * j <= k => j <= k \div i
    OBVIOUS
  <2> QED
    BY <1>1, <1>5, <1>7, <1>8, <2>1
<1> HIDE DEF q, x
<1> QED
  <2>1. assets_for(n, a, total) = Lower(x \div t, a)
    BY DEF assets_for, t, x
  <2>2. q <= assets_for(n, a, total)
    BY <1>2, <1>5, <1>6, <1>7, <1>9, <2>1 DEF Lower
  <2> QED
    BY <2>2 DEF q, v

\* Bringing a stake up to date takes nothing from what is put aside for it.
LEMMA ClaimableKept ==
  ASSUME Inv, NEW o \in Owners
  PROVE  stake[o].claimable <= booked[o].claimable
<1> DEFINE s == stake[o]
           e == records[s.pending_epoch]
           m == IF stale(s) THEN book_from_epoch(s, e) ELSE s
<1>1. s \in Stakes /\ Sound(s) /\ booked[o] = book(s) /\ RecordsKnown /\ s.claimable \in Nat
  BY Stakes1 DEF Stakes
<1>2. booked[o] = void_old_shares(m)
  BY <1>1 DEF book, Sound
<1>3. m \in Stakes /\ s.claimable <= m.claimable
  <2>1. CASE ~ stale(s)
    BY <1>1, <2>1
  <2>2. CASE stale(s)
    <3> DEFINE paid == IF e.wiped THEN 0
                       ELSE assets_for(s.pending_withdraw, e.assets, e.shares)
    <3>1. e \in Records
      BY <1>1, <2>2 DEF Sound, RecordsKnown
    <3>2. paid \in Nat
      BY <1>1, <3>1, AssetsForNat DEF Records, Stakes
    <3> HIDE DEF e
    <3>3. book_from_epoch(s, e) \in Stakes
      BY <1>1, <3>1, BookedEntry DEF Sound
    <3>4. book_from_epoch(s, e).claimable = s.claimable + paid
      BY <1>1 DEF book_from_epoch, Stakes
    <3> HIDE DEF paid
    <3>5. s.claimable <= book_from_epoch(s, e).claimable
      BY <1>1, <3>2, <3>4
    <3> QED
      BY <2>2, <3>3, <3>5
  <2> QED
    BY <2>1, <2>2
<1> HIDE DEF m
<1>4. void_old_shares(m).claimable = m.claimable
  BY <1>3 DEF void_old_shares, Stakes
<1> QED
  BY <1>2, <1>3, <1>4

\* What the SDK makes of a stake.
LEMMA Shown ==
  ASSUME Inv, NEW o \in Owners
  PROVE  LET s    == stake[o]
             mine == stakeValue(s)
         IN  /\ s \in Stakes
             /\ mine.shares = (IF s.generation = generation THEN s.shares ELSE 0)
             /\ mine.value = assets_for(mine.shares, assets + in_round, total_shares)
             /\ mine.queuedDeposit = s.pending_deposit
             /\ mine.queuedShares = s.pending_withdraw
             /\ mine.claimable = s.claimable
             /\ stale(s) => epochFor(s) = {s.pending_epoch}
             /\ ~ stale(s) => epochFor(s) = {}
<1>1. stake[o] \in Stakes /\ epoch \in Nat
  BY Stakes1 DEF Inv, TypeOK
<1>2. stale(stake[o]) <=> ~ ((stake[o].pending_deposit = 0 /\ stake[o].pending_withdraw = 0)
                               \/ stake[o].pending_epoch >= epoch)
  BY <1>1 DEF stale, has_pending, Stakes
<1> QED
  BY <1>1, <1>2 DEF stakeValue, houseCapital, assetsFor, assets_for, epochFor

\* The shares a button names are some, of the generation in force, and free.
LEMMA OfferedShares ==
  ASSUME Inv, NEW o \in Owners, NEW n \in Nat, offersWithdraw(o, n)
  PROVE  /\ n > 0 /\ stake[o].generation = generation
         /\ n <= stake[o].shares - stake[o].pending_withdraw
<1> DEFINE mine == stakeValue(stake[o])
<1>1. /\ stake[o].shares \in Nat /\ stake[o].pending_withdraw \in Nat
      /\ stake[o].pending_withdraw <= stake[o].shares
  BY Stakes1 DEF Stakes, Sound
<1>2. /\ mine.shares = (IF stake[o].generation = generation THEN stake[o].shares ELSE 0)
      /\ mine.queuedShares = stake[o].pending_withdraw
  BY Shown
<1>3. PICK pct \in PCTS : n = ((mine.shares - mine.queuedShares) * pct) \div 100 /\ n > 0
  BY DEF offersWithdraw, outShares, free
<1>4. pct \in 0 .. 100
  BY PartsOfAHundred
<1> HIDE DEF mine
<1>5. \A f \in Int, p \in 0 .. 100 :
        (f * p) \div 100 > 0 => f > 0 /\ (f * p) \div 100 <= f
  OBVIOUS
<1>6. mine.shares - mine.queuedShares \in Int
  BY <1>1, <1>2
<1>7. mine.shares - mine.queuedShares > 0 /\ n <= mine.shares - mine.queuedShares
  BY <1>3, <1>4, <1>5, <1>6
<1>8. stake[o].generation = generation
  BY <1>1, <1>2, <1>7
<1> QED
  BY <1>2, <1>3, <1>7, <1>8

LEMMA WordKept ==
  ASSUME Inv, AllAged, NothingOut
  PROVE  ClientKeepsItsWord
<1>1. record_made(houseCollectWritesEpoch)
  BY DEF record_made, houseCollectWritesEpoch
<1>2. ASSUME NEW o \in Owners
      PROVE  LET mine == stakeValue(stake[o])
             IN  /\ epochFor(stake[o]) \subseteq DOMAIN records
                 /\ stale(stake[o]) <=> epochFor(stake[o]) # {}
                 /\ \A n \in 1 .. total_shares : offersWithdraw(o, n) =>
                      /\ n <= free_shares(booked[o])
                      /\ phase = "Idle" /\ ~stale(stake[o])
                           => outWorth(mine, n) <= assets_for(n, assets, total_shares)
                 /\ offersClaim(o) => booked[o].claimable >= mine.claimable
                 /\ booked[o].pending_deposit > 0 =>
                      /\ offersCancel(o) /\ cancellable(stake[o])
                      /\ mine.queuedDeposit <= pending_deposits
  <2> DEFINE s == stake[o]
             mine == stakeValue(s)
  <2>1. /\ s \in Stakes /\ Sound(s) /\ booked[o] \in Stakes
        /\ epoch \in Nat /\ assets \in Nat /\ total_shares \in Nat /\ in_round \in Nat
    BY Stakes1 DEF Inv, TypeOK
  <2>2. /\ s.shares \in Nat /\ s.pending_withdraw \in Nat /\ s.pending_deposit \in Nat
        /\ s.claimable \in Nat /\ s.pending_epoch \in Nat
        /\ booked[o].shares \in Nat /\ booked[o].pending_withdraw \in Nat
        /\ booked[o].claimable \in Nat
    BY <2>1 DEF Stakes
  <2>3. /\ mine.value = assets_for(mine.shares, assets + in_round, total_shares)
        /\ mine.shares = (IF s.generation = generation THEN s.shares ELSE 0)
        /\ mine.queuedDeposit = s.pending_deposit /\ mine.claimable = s.claimable
        /\ (stale(s) => epochFor(s) = {s.pending_epoch})
        /\ (~ stale(s) => epochFor(s) = {})
    BY Shown
  <2> HIDE DEF mine
  <2>4. epochFor(s) \subseteq DOMAIN records
    BY <2>1, <2>3 DEF Sound
  <2>5. stale(s) <=> epochFor(s) # {}
    BY <2>3
  <2>6. ASSUME NEW n \in 1 .. total_shares, offersWithdraw(o, n)
        PROVE  /\ n <= free_shares(booked[o])
               /\ phase = "Idle" /\ ~stale(s)
                    => outWorth(mine, n) <= assets_for(n, assets, total_shares)
    <3>1. /\ n \in Nat /\ n > 0 /\ s.generation = generation
          /\ n <= s.shares - s.pending_withdraw
      BY <2>1, <2>6, OfferedShares
    <3>2. s.shares - s.pending_withdraw <= free_shares(booked[o])
      BY <3>1, ShownAreFree
    <3>3. n <= free_shares(booked[o])
      <4>1. free_shares(booked[o]) \in Int
        BY <2>2 DEF free_shares
      <4> QED
        BY <2>2, <3>1, <3>2, <4>1
    <3>4. ASSUME phase = "Idle"
          PROVE  outWorth(mine, n) <= assets_for(n, assets, total_shares)
      <4>1. mine.shares = s.shares /\ s.shares > 0 /\ n <= s.shares
        BY <2>2, <2>3, <3>1
      <4>2. assets + in_round = assets
        BY <2>1, <3>4 DEF NothingOut
      <4>3. mine.value = assets_for(s.shares, assets, total_shares)
        BY <2>3, <4>1, <4>2
      <4>4. outWorth(mine, n)
              = (assets_for(s.shares, assets, total_shares) * n) \div s.shares
        BY <4>1, <4>3 DEF outWorth
      <4> QED
        BY <2>1, <2>2, <3>1, <4>1, <4>4, PartWorth
    <3> QED
      BY <3>3, <3>4
  <2>7. booked[o].claimable >= mine.claimable
    BY <2>2, <2>3, ClaimableKept
  <2>8. ASSUME booked[o].pending_deposit > 0
        PROVE  /\ offersCancel(o) /\ cancellable(s)
               /\ mine.queuedDeposit <= pending_deposits
    <3>1. booked[o].pending_deposit = queued_in[o]
      BY OwnerFinds
    <3>2. s.pending_epoch = epoch /\ queued_in[o] = s.pending_deposit /\ s.pending_deposit > 0
      BY <2>2, <2>8, <3>1 DEF queued_in
    <3>3. queued_in[o] <= pending_deposits
      <4>1. queued_in[o] <= SumFunctionOnSet(queued_in, Owners)
        BY Stakes1, SumTerm
      <4> QED
        BY <4>1 DEF Inv, HouseInv, QueueExact, SumOver
    <3>4. phase # "Idle"
      <4>1. phase = "Idle" => pending_deposits = 0
        BY DEF Inv, HouseInv, QueueExact
      <4> QED
        BY <2>2, <3>2, <3>3, <4>1
    <3> QED
      BY <2>3, <3>2, <3>3, <3>4 DEF offersCancel, cancellable, mine
  <2> QED
    BY <2>4, <2>5, <2>6, <2>7, <2>8 DEF mine
<1> QED
  BY <1>1, <1>2 DEF ClientKeepsItsWord

\* The app's withdrawals and claims, the taking back of a deposit that waits and
\* the keeper's collection are what the program takes, at every reachable state:
\* however old the stake the SDK reads, whatever rounds have wiped out since, and
\* at any price.
THEOREM ClientKeepsItsWordHolds == Spec => []ClientKeepsItsWord
<1>1. Inv /\ AllAged /\ NothingOut => ClientKeepsItsWord
  BY WordKept
<1> QED
  BY <1>1, InvHolds, AgedHolds, NothingOutHolds, PTL

-----------------------------------------------------------------------------
(* The street: a house and its rounds on one token account.                *)

Accounts == Days \union {Shared}

Statuses == {"None", "Seeding", "Open", "Settled", "Void"}
Rounds ==
  [status : Statuses, shared : BOOLEAN, trades : Nat,
   cash : Nat, payout : Nat, deposit : Nat, basis : Nat,
   fees_lp : Nat, fees_protocol : Nat, hit : BOOLEAN,
   lp_pool : Nat, lp_pot : Nat, trader_pot : Nat, tranche : BOOLEAN,
   live : SUBSET Traders, held : [Traders -> Nat], paid : [Traders -> Nat]]

StreetTypeOK ==
  /\ today \in Nat /\ current \in Days \union {NoDay}
  /\ round \in [Days -> Rounds] /\ tokens \in [Accounts -> Nat]

\* While a round runs, what a void would split by and what a win would pay is
\* what its holders have; nobody else has anything.
RoundBooks(r) ==
  /\ r.status = "None" => ~r.shared
  /\ \A u \in Traders \ r.live : r.held[u] = 0 /\ r.paid[u] = 0
  /\ r.status \in {"Seeding", "Open"} =>
       r.payout = SumOver(r.live, r.held) /\ r.basis = SumOver(r.live, r.paid)

\* The round the house waits for is one of its own and still has its tranche.
CurrentIsOurs ==
  current # NoDay => round[current].shared /\ round[current].tranche

StreetInv ==
  /\ Inv /\ StreetTypeOK
  /\ \A d \in Days : RoundBooks(round[d])
  /\ CurrentIsOurs /\ EveryoneCovered

-----------------------------------------------------------------------------
LEMMA DaysFinite == IsFiniteSet(Days) /\ Days \subseteq Nat /\ Shared \notin Days
<1>1. MAX_DAY \in Nat
  BY StreetConstants
<1>2. 0 .. MAX_DAY - 1 \subseteq Nat /\ -1 \notin 0 .. MAX_DAY - 1
  BY <1>1
<1>3. IsFiniteSet(0 .. MAX_DAY - 1)
  BY <1>1, FS_Interval
<1> QED
  BY <1>2, <1>3 DEF Days, Shared

LEMMA LiveFinite ==
  ASSUME NEW S \in SUBSET Traders
  PROVE  IsFiniteSet(S)
BY StreetConstants, FS_Subset

LEMMA RedemptionNat ==
  ASSUME NEW r \in Rounds, NEW u \in Traders
  PROVE  redemption(r, u) \in Nat
<1>1. r.paid[u] \in Nat /\ r.held[u] \in Nat /\ r.trader_pot \in Nat /\ r.basis \in Nat
  BY DEF Rounds
<1> QED
  BY <1>1, VoidShare DEF redemption

\* What is still to be paid to traders.
to_traders(r) == SumOver(r.live, [u \in r.live |-> redemption(r, u)])

LEMMA ToTradersNat ==
  ASSUME NEW r \in Rounds
  PROVE  to_traders(r) \in Nat
<1>1. r.live \in SUBSET Traders
  BY DEF Rounds
<1>2. \A u \in r.live : [w \in r.live |-> redemption(r, w)][u] \in Nat
  BY <1>1, RedemptionNat
<1> QED
  BY <1>1, <1>2, LiveFinite, SumNat DEF to_traders, SumOver

LEMMA OwedNat ==
  ASSUME NEW r \in Rounds
  PROVE  owed_by_round(r) \in Nat
<1>1. /\ r.cash \in Nat /\ r.fees_lp \in Nat /\ r.fees_protocol \in Nat
      /\ r.lp_pool \in Nat /\ r.lp_pot \in Nat /\ r.deposit \in Nat
  BY DEF Rounds
<1>2. void_share(r.deposit, r.lp_pot, r.deposit) \in Nat
  BY <1>1, VoidShare
<1>3. to_traders(r) \in Nat
  BY ToTradersNat
<1> QED
  BY <1>1, <1>2, <1>3 DEF owed_by_round, to_traders

\* One round's books moved, by no more than the account they are kept in.
LEMMA DayStep ==
  ASSUME StreetTypeOK, EveryoneCovered, vault \in Nat, vault' \in Nat,
         NEW d \in Days, NEW r \in Rounds, round' = [round EXCEPT ![d] = r],
         tokens' \in [Accounts -> Nat],
         \A v \in Accounts :
           owed_from(v)'[d] - owed_from(v)[d]
             <= tokens'[v] - tokens[v] - (IF v = Shared THEN vault' - vault ELSE 0)
  PROVE  EveryoneCovered'
<1> SUFFICES ASSUME NEW v \in Accounts
             PROVE  tokens'[v] >= SumOver(Days, owed_from(v)')
                                    + (IF v = Shared THEN vault' ELSE 0)
  BY DEF EveryoneCovered, Accounts, SumOver
<1> DEFINE f == owed_from(v)
           g == owed_from(v)'
<1>1. \A e \in Days : round[e] \in Rounds /\ round'[e] \in Rounds
  BY DEF StreetTypeOK
<1>2. \A e \in Days : f[e] \in Nat /\ g[e] \in Nat
  BY <1>1, OwedNat DEF owed_from
<1>3. \A e \in Days \ {d} : g[e] = f[e]
  BY DEF owed_from, vault_of, StreetTypeOK
<1>4. tokens[v] >= SumOver(Days, f) + (IF v = Shared THEN vault ELSE 0)
  BY DEF EveryoneCovered, Accounts
<1>5. g[d] - f[d] <= tokens'[v] - tokens[v] - (IF v = Shared THEN vault' - vault ELSE 0)
  OBVIOUS
<1>6. tokens[v] \in Nat /\ tokens'[v] \in Nat
  BY DEF StreetTypeOK
<1> HIDE DEF f, g
<1>7. SumFunctionOnSet(g, Days) = SumFunctionOnSet(f, Days) + (g[d] - f[d])
  <2>1. IsFiniteSet(Days) /\ g[d] \in Int /\ \A e \in Days : f[e] \in Int
    BY <1>2, DaysFinite
  <2> HIDE <1>5
  <2> QED
    BY ONLY <2>1, <1>3, d \in Days, SumUpdate
<1>8. SumFunctionOnSet(f, Days) \in Nat
  BY <1>2, DaysFinite, SumNat
<1>9. tokens'[v] >= SumFunctionOnSet(g, Days) + (IF v = Shared THEN vault' ELSE 0)
  BY <1>2, <1>4, <1>5, <1>6, <1>7, <1>8 DEF SumOver
<1> QED
  BY <1>9 DEF SumOver, g

\* The same, where the step's amounts are known: x more in the account the
\* round's money is in, y more of it the house's.
LEMMA RoundStep ==
  ASSUME StreetTypeOK, EveryoneCovered, vault \in Nat, vault' \in Nat,
         NEW d \in Days, NEW r \in Rounds, round' = [round EXCEPT ![d] = r],
         NEW x \in Int, NEW y \in Int, vault' = vault + y, r.shared \/ y = 0,
         NEW w, w = (IF r.shared THEN Shared ELSE d),
         r.shared = round[d].shared \/ owed_by_round(round[d]) = 0,
         tokens' = [tokens EXCEPT ![w] = @ + x], tokens[w] + x >= 0,
         owed_by_round(r) - owed_by_round(round[d]) <= x - y
  PROVE  EveryoneCovered' /\ tokens' \in [Accounts -> Nat]
<1>1. w \in Accounts /\ d # Shared
  BY DaysFinite DEF Accounts
<1>2. \A v \in Accounts : tokens[v] \in Nat
  BY DEF StreetTypeOK
<1>3. tokens' \in [Accounts -> Nat]
  BY <1>1, <1>2 DEF StreetTypeOK
<1>4. \A v \in Accounts : tokens'[v] = IF v = w THEN tokens[v] + x ELSE tokens[v]
  BY <1>1 DEF StreetTypeOK
<1>5. round[d] \in Rounds /\ round'[d] = r
  BY DEF StreetTypeOK
<1>6. owed_by_round(r) \in Nat /\ owed_by_round(round[d]) \in Nat
  BY <1>5, OwedNat
<1>7. \A v \in Accounts :
        /\ owed_from(v)'[d] = IF v = w THEN owed_by_round(r) ELSE 0
        /\ owed_from(v)[d] = IF vault_of(d) = v THEN owed_by_round(round[d]) ELSE 0
  BY <1>1, <1>5 DEF owed_from, vault_of
<1>8. \A v \in Accounts :
        owed_from(v)[d] = IF v = w THEN owed_by_round(round[d]) ELSE 0
  BY <1>1, <1>7 DEF vault_of
<1>9. ASSUME NEW v \in Accounts
      PROVE  owed_from(v)'[d] - owed_from(v)[d]
               <= tokens'[v] - tokens[v] - (IF v = Shared THEN vault' - vault ELSE 0)
  <2>1. CASE v = w
    <3>1. /\ owed_from(v)'[d] = owed_by_round(r) /\ owed_from(v)[d] = owed_by_round(round[d])
          /\ tokens'[v] = tokens[v] + x /\ tokens[v] \in Nat
      BY <2>1, <1>2, <1>4, <1>7, <1>8
    <3>2. (IF v = Shared THEN vault' - vault ELSE 0) = y
      BY <2>1, <1>1
    <3> QED
      BY <3>1, <3>2, <1>6
  <2>2. CASE v # w
    <3>1. /\ owed_from(v)'[d] = 0 /\ owed_from(v)[d] = 0
          /\ tokens'[v] = tokens[v] /\ tokens[v] \in Nat
      BY <2>2, <1>2, <1>4, <1>7, <1>8
    <3>2. (IF v = Shared THEN vault' - vault ELSE 0) = 0
      BY <2>2, <1>1
    <3> QED
      BY <3>1, <3>2
  <2> QED
    BY <2>1, <2>2
<1> QED
  BY <1>3, <1>9, DayStep

\* The other days, and who waits for what, where the step makes no new wait.
LEMMA OthersKept ==
  ASSUME StreetTypeOK, \A e \in Days : RoundBooks(round[e]), CurrentIsOurs,
         NEW d \in Days, NEW r \in Rounds, round' = [round EXCEPT ![d] = r],
         RoundBooks(r), current' = current,
         d = current => r.shared /\ r.tranche
  PROVE  /\ round' \in [Days -> Rounds]
         /\ \A e \in Days : RoundBooks(round'[e])
         /\ CurrentIsOurs'
<1>1. round' \in [Days -> Rounds] /\ round'[d] = r /\ \A e \in Days \ {d} : round'[e] = round[e]
  BY DEF StreetTypeOK
<1> QED
  BY <1>1 DEF CurrentIsOurs, StreetTypeOK

-----------------------------------------------------------------------------
(* The house's own moves, and its start.                                   *)

LEMMA HouseMovesKeep ==
  ASSUME StreetInv, HouseMoves PROVE StreetInv'
<1>1. Inv'
  BY NextKeeps DEF StreetInv, HouseMoves, Next
<1>2. vault \in Nat /\ vault' \in Nat
  BY <1>1 DEF StreetInv, Inv, TypeOK
<1>3. /\ UNCHANGED <<today, round, current>>
      /\ tokens[Shared] + vault' - vault >= 0
      /\ tokens' = [tokens EXCEPT ![Shared] = @ + vault' - vault]
  BY DEF HouseMoves
<1>4. \A v \in Accounts : tokens[v] \in Nat
  BY DEF StreetInv, StreetTypeOK
<1>5. /\ \A v \in Accounts :
            tokens'[v] = IF v = Shared THEN tokens[v] + vault' - vault ELSE tokens[v]
      /\ DOMAIN tokens' = Accounts /\ tokens' = [v \in Accounts |-> tokens'[v]]
  BY <1>3 DEF StreetInv, StreetTypeOK, Accounts
<1>6. StreetTypeOK'
  <2>1. \A v \in Accounts : tokens'[v] \in Nat
    BY <1>2, <1>3, <1>4, <1>5 DEF Accounts
  <2>2. tokens' \in [Accounts -> Nat]
    BY <1>5, <2>1
  <2> QED
    BY <1>3, <2>2 DEF StreetInv, StreetTypeOK
<1>7. EveryoneCovered'
  <2> SUFFICES ASSUME NEW v \in Accounts
               PROVE  tokens'[v] >= SumOver(Days, owed_from(v)')
                                      + (IF v = Shared THEN vault' ELSE 0)
    BY DEF EveryoneCovered, Accounts, SumOver
  <2>1. owed_from(v)' = owed_from(v)
    BY <1>3 DEF owed_from, vault_of
  <2>2. tokens[v] >= SumOver(Days, owed_from(v)) + (IF v = Shared THEN vault ELSE 0)
    BY DEF StreetInv, EveryoneCovered, Accounts
  <2>3. SumOver(Days, owed_from(v)) \in Nat
    <3>1. \A e \in Days : owed_from(v)[e] \in Nat
      BY OwedNat DEF owed_from, StreetInv, StreetTypeOK
    <3> QED
      BY <3>1, DaysFinite, SumNat DEF SumOver
  <2> QED
    BY <1>2, <1>4, <1>5, <2>1, <2>2, <2>3
<1> QED
  BY <1>1, <1>3, <1>6, <1>7 DEF StreetInv, CurrentIsOurs

\* A round of the house's is funded: what it owes is what left the house.
LEMMA FundedRound ==
  ASSUME NEW shared \in BOOLEAN, NEW amount \in Nat
  PROVE  LET r == Funded(shared, amount)
         IN  /\ r \in Rounds /\ RoundBooks(r) /\ r.shared = shared /\ r.tranche
             /\ owed_by_round(r) = amount
<1> DEFINE r == Funded(shared, amount)
<1>1. /\ r.status = "Seeding" /\ r.shared = shared /\ r.tranche
      /\ r.cash = amount /\ r.fees_lp = 0 /\ r.fees_protocol = 0
      /\ r.payout = 0 /\ r.basis = 0 /\ r.live = {}
      /\ r.held = [u \in Traders |-> 0] /\ r.paid = [u \in Traders |-> 0]
  BY DEF Funded, NoRound
<1>2. r \in Rounds
  BY DEF Funded, NoRound, Rounds, Statuses
<1>3. RoundBooks(r)
  BY <1>1, SumEmpty DEF RoundBooks, SumOver
<1>4. owed_by_round(r) = amount
  BY <1>1 DEF owed_by_round
<1> QED
  BY <1>1, <1>2, <1>3, <1>4

LEMMA HouseStartKeeps ==
  ASSUME StreetInv, NEW d \in Days, HouseStart(d) PROVE StreetInv'
<1>1. Inv'
  BY NextKeeps DEF StreetInv, HouseStart, Next
<1>2. vault \in Nat /\ vault' \in Nat /\ in_round' \in Nat
  BY <1>1 DEF StreetInv, Inv, TypeOK
<1>3. PICK amount : amount \in Nat /\ amount = in_round' /\ vault' = vault - amount
  BY <1>2 DEF HouseStart, Start
<1>4. /\ round' = [round EXCEPT ![d] = Funded(TRUE, amount)] /\ current' = d
      /\ UNCHANGED <<today, tokens>> /\ round[d].status = "None"
  BY <1>3 DEF HouseStart, Startable
<1>5. PICK r : /\ r \in Rounds /\ r = Funded(TRUE, amount) /\ RoundBooks(r)
               /\ r.shared /\ r.tranche /\ owed_by_round(r) = amount
  BY <1>3, FundedRound
<1>6. owed_by_round(round[d]) = 0
  BY <1>4 DEF owed_by_round
<1>7. EveryoneCovered' /\ tokens' \in [Accounts -> Nat]
  <2>1. tokens' = [tokens EXCEPT ![Shared] = @ + 0] /\ tokens[Shared] + 0 >= 0
    BY <1>4 DEF StreetInv, StreetTypeOK, Accounts
  <2>2. PICK y : y \in Int /\ y = -amount /\ vault' = vault + y
    BY <1>2, <1>3
  <2>3. owed_by_round(r) - owed_by_round(round[d]) <= 0 - y
    <3>1. amount \in Nat
      BY <1>3
    <3>2. y = -amount
      BY <2>2
    <3>3. amount - 0 <= 0 - y
      BY ONLY <3>1, <3>2
    <3> QED
      BY <1>5, <1>6, <3>3
  <2>4. /\ StreetTypeOK /\ EveryoneCovered /\ round' = [round EXCEPT ![d] = r]
        /\ Shared = IF r.shared THEN Shared ELSE d
    BY <1>4, <1>5 DEF StreetInv
  <2> QED
    <3>1. vault \in Nat /\ vault' \in Nat /\ 0 \in Int
      BY <1>2
    <3> QED
      BY ONLY <1>5, <1>6, <2>1, <2>2, <2>3, <2>4, <3>1, d \in Days, RoundStep, Zenon
<1>8. /\ round' \in [Days -> Rounds] /\ round'[d] = r
      /\ \A e \in Days : RoundBooks(round'[e])
  BY <1>4, <1>5 DEF StreetInv, StreetTypeOK
<1> QED
  BY <1>1, <1>4, <1>5, <1>7, <1>8 DEF StreetInv, StreetTypeOK, CurrentIsOurs

-----------------------------------------------------------------------------
(* A round's own moves.                                                    *)

\* A move of one round that leaves the house's books and its wait alone.
LEMMA RoundMove ==
  ASSUME StreetInv, Inv', vault' = vault, today' = today, current' = current,
         NEW d \in Days, NEW r \in Rounds, round' = [round EXCEPT ![d] = r],
         RoundBooks(r), d = current => r.shared /\ r.tranche,
         r.shared = round[d].shared \/ owed_by_round(round[d]) = 0,
         NEW x \in Int, NEW w, w = (IF r.shared THEN Shared ELSE d),
         tokens' = [tokens EXCEPT ![w] = @ + x], tokens[w] + x >= 0,
         owed_by_round(r) - owed_by_round(round[d]) <= x
  PROVE  StreetInv'
<1>1. StreetTypeOK /\ EveryoneCovered /\ vault \in Nat /\ vault' \in Nat
  BY DEF StreetInv, Inv, TypeOK
<1>2. /\ vault' = vault + 0 /\ 0 \in Int /\ (r.shared \/ 0 = 0)
  BY <1>1
<1>3. owed_by_round(r) - owed_by_round(round[d]) <= x - 0
  <2>1. owed_by_round(r) \in Nat /\ owed_by_round(round[d]) \in Nat
    BY <1>1, OwedNat DEF StreetTypeOK
  <2> QED
    BY ONLY <2>1, x \in Int, owed_by_round(r) - owed_by_round(round[d]) <= x
<1>4. EveryoneCovered' /\ tokens' \in [Accounts -> Nat]
  BY <1>1, <1>2, <1>3, RoundStep, Zenon
<1>5. /\ round' \in [Days -> Rounds] /\ \A e \in Days : RoundBooks(round'[e])
      /\ CurrentIsOurs'
  BY <1>1, OthersKept DEF StreetInv
<1> QED
  BY <1>1, <1>4, <1>5 DEF StreetInv, StreetTypeOK

LEMMA VaultOf ==
  ASSUME NEW d \in Days
  PROVE  vault_of(d) \in Accounts /\ vault_of(d) = (IF round[d].shared THEN Shared ELSE d)
BY DEF vault_of, Accounts

\* A payment, as a change of the account.
LEMMA Paid ==
  ASSUME StreetTypeOK, NEW v \in Accounts, NEW amount \in Nat, Pay(v, amount)
  PROVE  /\ -amount \in Int
         /\ tokens' = [tokens EXCEPT ![v] = @ + (-amount)] /\ tokens[v] + (-amount) >= 0
<1>1. tokens[v] \in Nat /\ amount <= tokens[v] /\ tokens' = [tokens EXCEPT ![v] = @ - amount]
  BY DEF StreetTypeOK, Pay
<1>2. tokens[v] - amount = tokens[v] + (-amount) /\ tokens[v] - amount >= 0
  BY ONLY amount \in Nat, <1>1
<1>3. -amount \in Int
  OBVIOUS
<1> QED
  BY ONLY <1>1, <1>2, <1>3

LEMMA Untouched ==
  ASSUME StreetTypeOK, NEW v \in Accounts, tokens' = tokens
  PROVE  tokens' = [tokens EXCEPT ![v] = @ + 0] /\ tokens[v] + 0 >= 0
BY DEF StreetTypeOK

LEMMA HouseStill ==
  ASSUME Inv, UNCHANGED vars PROVE Inv' /\ vault' = vault
<1>1. vault' = vault
  BY DEF vars
<1> QED
  BY <1>1, NextKeeps

LEMMA TickKeeps ==
  ASSUME StreetInv, Tick PROVE StreetInv'
<1>1. Inv' /\ vault' = vault
  BY HouseStill DEF StreetInv, Tick
<1>2. today' \in Nat /\ UNCHANGED <<round, current, tokens>>
  BY DEF Tick, StreetInv, StreetTypeOK
<1>3. EveryoneCovered'
  BY <1>1, <1>2 DEF StreetInv, EveryoneCovered, owed_from, vault_of
<1> QED
  BY <1>1, <1>2, <1>3 DEF StreetInv, StreetTypeOK, CurrentIsOurs

LEMMA CreateKeeps ==
  ASSUME StreetInv, NEW d \in Days, NEW amount \in Amounts, Create(d, amount)
  PROVE  StreetInv'
<1>1. amount \in Nat /\ StreetTypeOK
  BY HouseConstants DEF StreetInv
<1>2. /\ round' = [round EXCEPT ![d] = Funded(FALSE, amount)] /\ round[d].status = "None"
      /\ tokens' = [tokens EXCEPT ![d] = @ + amount] /\ UNCHANGED <<vars, today, current>>
  BY DEF Create, Startable, Take
<1>3. PICK r : /\ r \in Rounds /\ r = Funded(FALSE, amount) /\ RoundBooks(r)
               /\ ~r.shared /\ owed_by_round(r) = amount
  BY <1>1, FundedRound
<1>4. owed_by_round(round[d]) = 0
  BY <1>2 DEF owed_by_round
<1>5. d # current
  BY <1>2, DaysFinite DEF StreetInv, CurrentIsOurs, RoundBooks, NoDay, Shared
<1>6. owed_by_round(r) - owed_by_round(round[d]) <= amount
  <2>1. owed_by_round(r) = amount /\ amount \in Nat
    BY <1>1, <1>3
  <2> QED
    BY ONLY <2>1, <1>4
<1>7. tokens[d] + amount >= 0
  BY <1>1 DEF StreetTypeOK, Accounts
<1>8. Inv' /\ vault' = vault
  BY <1>2, HouseStill DEF StreetInv
<1>9. amount \in Int /\ d = (IF r.shared THEN Shared ELSE d)
  BY <1>1, <1>3
<1>10. round' = [round EXCEPT ![d] = r] /\ today' = today /\ current' = current
  BY <1>2, <1>3
<1> QED
  BY <1>2, <1>3, <1>4, <1>5, <1>6, <1>7, <1>8, <1>9, <1>10, RoundMove, Zenon

LEMMA OpenKeeps ==
  ASSUME StreetInv, NEW d \in Days, Open(d) PROVE StreetInv'
<1> DEFINE r == [round[d] EXCEPT !.status = "Open"]
<1>1. /\ round' = [round EXCEPT ![d] = r] /\ round[d].status = "Seeding"
      /\ UNCHANGED <<vars, today, current, tokens>>
  BY DEF Open
<1>2. StreetTypeOK /\ round[d] \in Rounds /\ RoundBooks(round[d])
  BY DEF StreetInv, StreetTypeOK
<1>3. r \in Rounds /\ r.shared = round[d].shared /\ r.tranche = round[d].tranche
  BY <1>2 DEF Rounds, Statuses
<1>4. RoundBooks(r)
  BY <1>1, <1>2 DEF RoundBooks, Rounds
<1>5. owed_by_round(r) = owed_by_round(round[d])
  BY <1>1, <1>2 DEF owed_by_round, Rounds
<1>6. owed_by_round(round[d]) \in Nat
  BY <1>2, OwedNat
<1>7. d = current => r.shared /\ r.tranche
  BY <1>3, DaysFinite DEF StreetInv, CurrentIsOurs, NoDay, Shared
<1>8. Inv' /\ vault' = vault
  BY <1>1, HouseStill DEF StreetInv
<1>9. vault_of(d) \in Accounts /\ vault_of(d) = (IF r.shared THEN Shared ELSE d)
  BY <1>3, VaultOf
<1> HIDE DEF r
<1>10. owed_by_round(r) - owed_by_round(round[d]) <= 0 /\ 0 \in Int
  BY <1>5, <1>6
<1>11. /\ tokens' = [tokens EXCEPT ![vault_of(d)] = @ + 0] /\ tokens[vault_of(d)] + 0 >= 0
       /\ today' = today /\ current' = current
  BY <1>1, <1>2, <1>9, Untouched
<1> QED
  BY <1>1, <1>3, <1>4, <1>7, <1>8, <1>9, <1>10, <1>11, RoundMove, Zenon

-----------------------------------------------------------------------------
(* Trades.                                                                 *)

\* One holder's entry set: the sum over the holders moves with it, a new one
\* among them or not.
LEMMA HolderSet ==
  ASSUME NEW live \in SUBSET Traders, NEW u \in Traders,
         NEW f \in [Traders -> Nat], \A w \in Traders \ live : f[w] = 0,
         NEW g \in [Traders -> Nat], \A w \in Traders \ {u} : g[w] = f[w]
  PROVE  /\ SumOver(live \union {u}, g) = SumOver(live, f) + (g[u] - f[u])
         /\ SumOver(live, f) \in Nat /\ (u \in live => f[u] <= SumOver(live, f))
<1>1. IsFiniteSet(live)
  BY LiveFinite
<1>2. /\ \A w \in live : f[w] \in Nat /\ f[w] \in Int
      /\ g[u] \in Nat /\ g[u] \in Int /\ f[u] \in Nat /\ \A w \in live \ {u} : g[w] = f[w]
  OBVIOUS
<1>3. SumFunctionOnSet(f, live) \in Nat
  BY <1>1, <1>2, SumNat
<1>4. CASE u \in live
  <2>1. live \union {u} = live
    BY <1>4
  <2>2. SumFunctionOnSet(g, live) = SumFunctionOnSet(f, live) + (g[u] - f[u])
    BY <1>1, <1>2, <1>4, SumUpdate
  <2>3. f[u] <= SumFunctionOnSet(f, live)
    BY <1>1, <1>2, <1>4, SumTerm
  <2> QED
    BY <1>3, <2>1, <2>2, <2>3 DEF SumOver
<1>5. CASE u \notin live
  <2>1. f[u] = 0 /\ \A w \in live : g[w] = f[w]
    BY <1>2, <1>5
  <2>2. SumFunctionOnSet(g, live \union {u}) = SumFunctionOnSet(f, live) + g[u]
    <3>1. /\ u \notin live /\ g[u] \in Int
          /\ \A w \in live : f[w] \in Int
          /\ \A w \in live : g[w] = f[w]
      BY <1>2, <1>5, <2>1
    <3> QED
      BY ONLY <1>1, <3>1, SumCreated
  <2>3. g[u] - f[u] = g[u]
    BY <1>2, <2>1
  <2> QED
    BY <1>3, <1>5, <2>2, <2>3 DEF SumOver
<1> QED
  BY <1>4, <1>5

\* A trade moves the totals by what it moves its holder's.
LEMMA TradedBooks ==
  ASSUME NEW r0 \in Rounds, NEW r \in Rounds, RoundBooks(r0), NEW u \in Traders,
         r0.status = "Open", r.status = "Open", r.live = r0.live \union {u},
         \A w \in Traders \ {u} : r.held[w] = r0.held[w] /\ r.paid[w] = r0.paid[w],
         r.payout = r0.payout + (r.held[u] - r0.held[u]),
         r.basis = r0.basis + (r.paid[u] - r0.paid[u])
  PROVE  RoundBooks(r)
<1>1. /\ r0.live \in SUBSET Traders
      /\ r0.held \in [Traders -> Nat] /\ r0.paid \in [Traders -> Nat]
      /\ r.held \in [Traders -> Nat] /\ r.paid \in [Traders -> Nat]
  BY DEF Rounds
<1>2. /\ \A w \in Traders \ r0.live : r0.held[w] = 0 /\ r0.paid[w] = 0
      /\ r0.payout = SumOver(r0.live, r0.held) /\ r0.basis = SumOver(r0.live, r0.paid)
  BY DEF RoundBooks
<1>3. \A f, g \in [Traders -> Nat] :
        /\ \A w \in Traders \ r0.live : f[w] = 0
        /\ \A w \in Traders \ {u} : g[w] = f[w]
        => SumOver(r0.live \union {u}, g) = SumOver(r0.live, f) + (g[u] - f[u])
  <2>1. r0.live \in SUBSET Traders
    BY <1>1
  <2> QED
    BY ONLY <2>1, u \in Traders, HolderSet
<1>4. SumOver(r.live, r.held) = r.payout
  <2>1. SumOver(r0.live \union {u}, r.held) = SumOver(r0.live, r0.held) + (r.held[u] - r0.held[u])
    BY ONLY <1>1, <1>2, <1>3, \A w \in Traders \ {u} : r.held[w] = r0.held[w]
  <2> QED
    BY <1>2, <2>1
<1>5. SumOver(r.live, r.paid) = r.basis
  <2>1. SumOver(r0.live \union {u}, r.paid) = SumOver(r0.live, r0.paid) + (r.paid[u] - r0.paid[u])
    BY ONLY <1>1, <1>2, <1>3, \A w \in Traders \ {u} : r.paid[w] = r0.paid[w]
  <2> QED
    BY <1>2, <2>1
<1>6. \A w \in Traders \ r.live : r.held[w] = 0 /\ r.paid[w] = 0
  BY <1>2
<1> QED
  BY <1>4, <1>5, <1>6 DEF RoundBooks

LEMMA BuyKeeps ==
  ASSUME StreetInv, NEW d \in Days, NEW u \in Traders, NEW n \in Sizes,
         NEW cost \in Costs, Buy(d, u, n, cost)
  PROVE  StreetInv'
<1> DEFINE r0  == round[d]
           pay == cost + 1
           fee == fee_on(pay, LADDER_FEE_BPS)
           r   == [BookFee(r0, fee) EXCEPT
                     !.cash = @ + pay, !.payout = @ + n, !.basis = @ + pay + fee,
                     !.live = @ \union {u}, !.held[u] = @ + n, !.paid[u] = @ + pay + fee]
<1>1. /\ round' = [round EXCEPT ![d] = r] /\ r0.status = "Open"
      /\ tokens' = [tokens EXCEPT ![vault_of(d)] = @ + (pay + fee)]
      /\ UNCHANGED <<vars, today, current>>
  BY DEF Buy, Tradeable, Take
<1>2. StreetTypeOK /\ r0 \in Rounds /\ RoundBooks(r0)
  BY DEF StreetInv, StreetTypeOK
<1>3. /\ n \in Nat /\ pay \in Nat /\ fee \in Nat
      /\ lp_part(fee) \in Nat /\ protocol_part(fee) \in Nat
      /\ lp_part(fee) + protocol_part(fee) = fee
  <2>1. n \in Nat /\ pay \in Nat /\ LADDER_FEE_BPS \in Nat
    BY StreetConstants, RuleConstants
  <2>2. fee \in Nat
    BY <2>1, FeeOn
  <2> HIDE DEF pay, fee
  <2> QED
    BY <2>1, <2>2, FeeSplit
<1> HIDE DEF pay, fee
<1>4. /\ r0.live \in SUBSET Traders /\ r0.held \in [Traders -> Nat] /\ r0.paid \in [Traders -> Nat]
      /\ r0.cash \in Nat /\ r0.fees_lp \in Nat /\ r0.fees_protocol \in Nat
      /\ r0.payout \in Nat /\ r0.basis \in Nat /\ r0.trades \in Nat
  BY <1>2 DEF Rounds
<1>5. /\ r.status = "Open" /\ r.shared = r0.shared /\ r.tranche = r0.tranche
      /\ r.live = r0.live \union {u} /\ r.cash = r0.cash + pay
      /\ r.payout = r0.payout + n /\ r.basis = r0.basis + pay + fee
      /\ r.fees_lp = r0.fees_lp + lp_part(fee)
      /\ r.fees_protocol = r0.fees_protocol + protocol_part(fee)
      /\ r.held = [r0.held EXCEPT ![u] = r0.held[u] + n]
      /\ r.paid = [r0.paid EXCEPT ![u] = r0.paid[u] + pay + fee]
  BY <1>1, <1>2 DEF BookFee, Rounds
<1>6. r \in Rounds
  <2> DEFINE b == BookFee(r0, fee)
  <2>1. r0.trades + 1 \in Nat /\ r0.fees_lp + lp_part(fee) \in Nat
        /\ r0.fees_protocol + protocol_part(fee) \in Nat
    BY <1>3, <1>4
  <2>2. /\ b \in Rounds /\ b.cash = r0.cash /\ b.payout = r0.payout /\ b.basis = r0.basis
        /\ b.live = r0.live /\ b.held = r0.held /\ b.paid = r0.paid
    BY <1>2, <2>1 DEF BookFee, Rounds
  <2> HIDE DEF b
  <2>3. /\ b.cash + pay \in Nat /\ b.payout + n \in Nat /\ b.basis + pay + fee \in Nat
        /\ b.live \union {u} \in SUBSET Traders
        /\ [b.held EXCEPT ![u] = @ + n] \in [Traders -> Nat]
        /\ [b.paid EXCEPT ![u] = @ + pay + fee] \in [Traders -> Nat]
    BY <1>3, <1>4, <2>2
  <2>4. r = [b EXCEPT !.cash = @ + pay, !.payout = @ + n, !.basis = @ + pay + fee,
                      !.live = @ \union {u}, !.held[u] = @ + n, !.paid[u] = @ + pay + fee]
    BY DEF b
  <2> HIDE DEF r
  <2> QED
    BY <2>2, <2>3, <2>4 DEF Rounds
<1> HIDE DEF r
<1>7. RoundBooks(r)
  <2>1. /\ r0.held[u] \in Nat /\ r0.paid[u] \in Nat
    BY <1>4
  <2>2. /\ r.held[u] = r0.held[u] + n /\ r.paid[u] = r0.paid[u] + pay + fee
        /\ \A w \in Traders \ {u} : r.held[w] = r0.held[w] /\ r.paid[w] = r0.paid[w]
    BY <1>4, <1>5
  <2>3. r.payout = r0.payout + (r.held[u] - r0.held[u])
    BY <1>3, <1>4, <1>5, <2>1, <2>2
  <2>4. r.basis = r0.basis + (r.paid[u] - r0.paid[u])
    <3>1. r.basis = r0.basis + pay + fee /\ r.paid[u] = r0.paid[u] + pay + fee
      BY <1>5, <2>2
    <3> QED
      BY <1>3, <1>4, <2>1, <3>1
  <2> QED
    BY <1>1, <1>2, <1>5, <1>6, <2>2, <2>3, <2>4, TradedBooks
<1>8. owed_by_round(r) - owed_by_round(round[d]) <= pay + fee
  <2>1. /\ owed_by_round(r) = r0.cash + pay + (r0.fees_lp + lp_part(fee))
                                 + (r0.fees_protocol + protocol_part(fee))
        /\ owed_by_round(r0) = r0.cash + r0.fees_lp + r0.fees_protocol
    BY <1>1, <1>5 DEF owed_by_round
  <2> QED
    BY <1>3, <1>4, <2>1
<1>9. d = current => r.shared /\ r.tranche
  BY <1>5, DaysFinite DEF StreetInv, CurrentIsOurs, NoDay, Shared
<1>10. Inv' /\ vault' = vault
  BY <1>1, HouseStill DEF StreetInv
<1>11. vault_of(d) \in Accounts /\ vault_of(d) = (IF r.shared THEN Shared ELSE d)
  BY <1>5, VaultOf
<1>12. pay + fee \in Int /\ tokens[vault_of(d)] + (pay + fee) >= 0
  BY <1>2, <1>3, <1>11 DEF StreetTypeOK
<1>13. today' = today /\ current' = current
  BY <1>1
<1> QED
  BY <1>1, <1>5, <1>6, <1>7, <1>8, <1>9, <1>10, <1>11, <1>12, <1>13, RoundMove, Zenon

LEMMA SellKeeps ==
  ASSUME StreetInv, NEW d \in Days, NEW u \in Traders, NEW n \in Sizes,
         NEW cost \in Costs, Sell(d, u, n, cost)
  PROVE  StreetInv'
<1> DEFINE r0   == round[d]
           got  == sale_proceeds(cost)
           fee  == fee_on(got, LADDER_FEE_BPS)
           spare == basis_released(r0.paid[u], n, r0.held[u])
           r    == [BookFee(r0, fee) EXCEPT
                      !.cash = @ - got, !.payout = @ - n, !.basis = @ - spare,
                      !.held[u] = @ - n, !.paid[u] = @ - spare]
<1>1. /\ round' = [round EXCEPT ![d] = r] /\ r0.status = "Open"
      /\ n <= r0.held[u] /\ got <= r0.cash
      /\ Pay(vault_of(d), got - fee) /\ UNCHANGED <<vars, today, current>>
  BY DEF Sell, Tradeable
<1>2. StreetTypeOK /\ r0 \in Rounds /\ RoundBooks(r0)
  BY DEF StreetInv, StreetTypeOK
<1>3. /\ r0.live \in SUBSET Traders /\ r0.held \in [Traders -> Nat] /\ r0.paid \in [Traders -> Nat]
      /\ r0.cash \in Nat /\ r0.fees_lp \in Nat /\ r0.fees_protocol \in Nat
      /\ r0.payout \in Nat /\ r0.basis \in Nat /\ r0.trades \in Nat
  BY <1>2 DEF Rounds
<1>4. /\ n \in Nat \ {0} /\ got \in Nat /\ fee \in Nat /\ fee <= got
      /\ lp_part(fee) \in Nat /\ protocol_part(fee) \in Nat
      /\ lp_part(fee) + protocol_part(fee) = fee
  <2>1. n \in Nat \ {0} /\ got \in Nat /\ LADDER_FEE_BPS \in Nat
    BY StreetConstants, RuleConstants DEF sale_proceeds, SatSub, Most
  <2> HIDE DEF got
  <2>2. fee \in Nat /\ fee <= got
    BY <2>1, FeeOn
  <2> HIDE DEF fee
  <2> QED
    BY <2>1, <2>2, FeeSplit
<1>5. u \in r0.live
  BY <1>1, <1>2, <1>3, <1>4 DEF RoundBooks
<1>6. r0.held[u] <= r0.payout /\ r0.paid[u] <= r0.basis
  <2>1. /\ \A w \in Traders \ r0.live : r0.held[w] = 0 /\ r0.paid[w] = 0
        /\ r0.payout = SumOver(r0.live, r0.held) /\ r0.basis = SumOver(r0.live, r0.paid)
    BY <1>1, <1>2 DEF RoundBooks
  <2>2. IsFiniteSet(r0.live) /\ \A w \in r0.live : r0.held[w] \in Nat /\ r0.paid[w] \in Nat
    BY <1>3, LiveFinite
  <2>3. r0.held[u] <= SumFunctionOnSet(r0.held, r0.live)
    BY <1>5, <2>2, SumTerm
  <2>4. r0.paid[u] <= SumFunctionOnSet(r0.paid, r0.live)
    BY <1>5, <2>2, SumTerm
  <2> QED
    BY <2>1, <2>3, <2>4 DEF SumOver
<1>7. spare \in Nat /\ spare <= r0.paid[u]
  <2>1. r0.paid[u] \in Nat /\ r0.held[u] \in Nat /\ r0.held[u] # 0 /\ n \in Nat
    BY <1>1, <1>3, <1>4
  <2> QED
    BY <1>1, <2>1, BasisReleased
<1> HIDE DEF got, fee, spare
<1>8. /\ r.status = "Open" /\ r.shared = r0.shared /\ r.tranche = r0.tranche
      /\ r.live = r0.live /\ r.cash = r0.cash - got
      /\ r.payout = r0.payout - n /\ r.basis = r0.basis - spare
      /\ r.fees_lp = r0.fees_lp + lp_part(fee)
      /\ r.fees_protocol = r0.fees_protocol + protocol_part(fee)
      /\ r.held = [r0.held EXCEPT ![u] = r0.held[u] - n]
      /\ r.paid = [r0.paid EXCEPT ![u] = r0.paid[u] - spare]
  BY <1>1, <1>2 DEF BookFee, Rounds
<1>9. r \in Rounds
  <2> DEFINE b == BookFee(r0, fee)
  <2>1. r0.trades + 1 \in Nat /\ r0.fees_lp + lp_part(fee) \in Nat
        /\ r0.fees_protocol + protocol_part(fee) \in Nat
    BY <1>3, <1>4
  <2>2. /\ b \in Rounds /\ b.cash = r0.cash /\ b.payout = r0.payout /\ b.basis = r0.basis
        /\ b.live = r0.live /\ b.held = r0.held /\ b.paid = r0.paid
    BY <1>2, <2>1 DEF BookFee, Rounds
  <2>3. r0.held[u] \in Nat /\ r0.paid[u] \in Nat
    BY <1>3
  <2> HIDE DEF b
  <2>4. /\ b.cash - got \in Nat /\ b.payout - n \in Nat /\ b.basis - spare \in Nat
        /\ b.held[u] - n \in Nat /\ b.paid[u] - spare \in Nat
    BY <1>1, <1>3, <1>4, <1>6, <1>7, <2>2, <2>3
  <2>5. /\ [b.held EXCEPT ![u] = @ - n] \in [Traders -> Nat]
        /\ [b.paid EXCEPT ![u] = @ - spare] \in [Traders -> Nat]
    BY <1>3, <2>2, <2>4
  <2>6. r = [b EXCEPT !.cash = @ - got, !.payout = @ - n, !.basis = @ - spare,
                      !.held[u] = @ - n, !.paid[u] = @ - spare]
    BY DEF b
  <2> HIDE DEF r
  <2> QED
    BY <2>2, <2>4, <2>5, <2>6 DEF Rounds
<1> HIDE DEF r
<1>10. RoundBooks(r)
  <2>1. r0.held[u] \in Nat /\ r0.paid[u] \in Nat
    BY <1>3
  <2>2. /\ r.held[u] = r0.held[u] - n /\ r.paid[u] = r0.paid[u] - spare
        /\ \A w \in Traders \ {u} : r.held[w] = r0.held[w] /\ r.paid[w] = r0.paid[w]
    BY <1>3, <1>8
  <2>3. /\ r.payout = r0.payout + (r.held[u] - r0.held[u])
        /\ r.basis = r0.basis + (r.paid[u] - r0.paid[u])
    BY <1>3, <1>4, <1>7, <1>8, <2>1, <2>2
  <2>4. r.live = r0.live \union {u}
    BY <1>5, <1>8
  <2> QED
    BY <1>1, <1>2, <1>8, <1>9, <2>2, <2>3, <2>4, TradedBooks
<1>11. owed_by_round(r) - owed_by_round(round[d]) <= -(got - fee)
  <2>1. /\ owed_by_round(r) = r0.cash - got + (r0.fees_lp + lp_part(fee))
                                 + (r0.fees_protocol + protocol_part(fee))
        /\ owed_by_round(r0) = r0.cash + r0.fees_lp + r0.fees_protocol
    BY <1>1, <1>8 DEF owed_by_round
  <2> QED
    BY <1>3, <1>4, <2>1
<1>12. d = current => r.shared /\ r.tranche
  BY <1>8, DaysFinite DEF StreetInv, CurrentIsOurs, NoDay, Shared
<1>13. Inv' /\ vault' = vault /\ today' = today /\ current' = current
  BY <1>1, HouseStill DEF StreetInv
<1>14. vault_of(d) \in Accounts /\ vault_of(d) = (IF r.shared THEN Shared ELSE d)
  BY <1>8, VaultOf
<1>15. got - fee \in Nat
  BY <1>4
<1>16. /\ -(got - fee) \in Int
       /\ tokens' = [tokens EXCEPT ![vault_of(d)] = @ + (-(got - fee))]
       /\ tokens[vault_of(d)] + (-(got - fee)) >= 0
  BY <1>1, <1>2, <1>14, <1>15, Paid, Zenon
<1> QED
  BY <1>1, <1>8, <1>9, <1>10, <1>11, <1>12, <1>13, <1>14, <1>16, RoundMove, Zenon

-----------------------------------------------------------------------------
(* The endings.                                                            *)

\* The house's phase may follow its round's; its money does not move.
LEMMA EndsKeep ==
  ASSUME Inv, NEW d \in Days, Ends(d)
  PROVE  Inv' /\ vault' = vault
<1>1. CASE d = current
  <2>1. RoundFinal
    BY <1>1 DEF Ends
  <2> QED
    BY <2>1, NextKeeps DEF RoundFinal, Next
<1>2. CASE d # current
  BY <1>2, HouseStill DEF Ends
<1> QED
  BY <1>1, <1>2

\* What a settled round's winners are to get is what it owes them.
LEMMA Winnings ==
  ASSUME NEW r \in Rounds, r.status = "Settled"
  PROVE  to_traders(r) = IF r.hit THEN SumOver(r.live, r.held) ELSE 0
<1> DEFINE f == [u \in r.live |-> redemption(r, u)]
<1>1. /\ r.live \in SUBSET Traders /\ r.held \in [Traders -> Nat] /\ r.hit \in BOOLEAN
  BY DEF Rounds
<1>2. IsFiniteSet(r.live)
  BY <1>1, LiveFinite
<1>3. \A u \in r.live : f[u] = IF r.hit THEN r.held[u] ELSE 0
  BY DEF redemption
<1> HIDE DEF f
<1>4. CASE r.hit
  <2>1. /\ \A u \in r.live : r.held[u] \in Int
        /\ \A u \in r.live : f[u] = r.held[u]
    BY <1>1, <1>3, <1>4
  <2>2. SumFunctionOnSet(r.held, r.live) = SumFunctionOnSet(f, r.live)
    BY ONLY <1>2, <2>1, SumSame
  <2> QED
    BY <1>4, <2>2 DEF to_traders, SumOver, f
<1>5. CASE ~r.hit
  <2>1. \A u \in r.live : f[u] = 0
    BY <1>3, <1>5
  <2>2. SumFunctionOnSet(f, r.live) = 0
    BY ONLY <1>2, <2>1, SumZero
  <2> QED
    BY <1>5, <2>2 DEF to_traders, SumOver, f
<1> QED
  BY <1>1, <1>4, <1>5

\* The floored refunds of a void never come to more than the pot.
LEMMA Refunds ==
  ASSUME NEW r \in Rounds, r.status = "Void", r.basis = SumOver(r.live, r.paid)
  PROVE  to_traders(r) <= r.trader_pot
<1> DEFINE g == [u \in r.live |-> redemption(r, u)]
           f == [u \in r.live |-> r.trader_pot * r.paid[u]]
<1>1. /\ r.live \in SUBSET Traders /\ r.paid \in [Traders -> Nat]
      /\ r.basis \in Nat /\ r.trader_pot \in Nat
  BY DEF Rounds
<1>2. IsFiniteSet(r.live)
  BY <1>1, LiveFinite
<1>3. \A u \in r.live : g[u] = void_share(r.paid[u], r.trader_pot, r.basis)
  BY DEF redemption
<1>4. CASE r.basis = 0
  <2>1. \A u \in r.live : g[u] = 0
    BY <1>3, <1>4 DEF void_share
  <2> HIDE DEF g
  <2>2. SumFunctionOnSet(g, r.live) = 0
    BY ONLY <1>2, <2>1, SumZero
  <2> QED
    BY <1>1, <2>2 DEF to_traders, SumOver, g
<1>5. CASE r.basis # 0
  <2>1. \A u \in r.live : r.paid[u] \in Nat /\ r.paid[u] * r.trader_pot = r.trader_pot * r.paid[u]
    BY <1>1
  <2>2. /\ \A u \in r.live : r.paid[u] \in Int
        /\ \A u \in r.live : f[u] = r.trader_pot * r.paid[u]
        /\ r.trader_pot \in Int
    BY <1>1
  <2>3. \A u \in r.live : f[u] \in Int
    BY <1>1, <2>2, MulNat
  <2>4. \A u \in r.live : g[u] = f[u] \div r.basis
    BY <1>3, <1>5, <2>1 DEF void_share
  <2> HIDE DEF f, g
  <2>5. SumFunctionOnSet(f, r.live) = r.trader_pot * SumFunctionOnSet(r.paid, r.live)
    BY ONLY <1>2, <2>2, SumScaled
  <2>6. r.basis \in Nat \ {0}
    BY <1>1, <1>5
  <2>7. SumFunctionOnSet(g, r.live) <= SumFunctionOnSet(f, r.live) \div r.basis
    BY ONLY <1>2, <2>3, <2>4, <2>6, SumFloors
  <2>8. (r.trader_pot * r.basis) \div r.basis = r.trader_pot
    BY <1>1, <2>6, DivExact
  <2>9. SumFunctionOnSet(g, r.live) <= r.trader_pot
    BY <2>5, <2>7, <2>8 DEF SumOver
  <2> QED
    BY <2>9 DEF to_traders, SumOver, g
<1> QED
  BY <1>4, <1>5

\* A depositor alone in a void gets at most its pot.
LEMMA LoneShare ==
  ASSUME NEW deposit \in Nat, NEW pot \in Nat
  PROVE  void_share(deposit, pot, deposit) \in Nat /\ void_share(deposit, pot, deposit) <= pot
<1>1. CASE deposit = 0
  BY <1>1 DEF void_share
<1>2. CASE deposit # 0
  <2>1. (pot * deposit) \div deposit = pot /\ deposit * pot = pot * deposit
    BY <1>2, DivExact
  <2> QED
    BY <1>2, <2>1 DEF void_share
<1> QED
  BY <1>1, <1>2

LEMMA SettleKeeps ==
  ASSUME StreetInv, NEW d \in Days, NEW hit \in BOOLEAN, Settle(d, hit)
  PROVE  StreetInv'
<1> DEFINE r0     == round[d]
           owed   == IF hit THEN r0.payout ELSE 0
           bounty == settle_bounty(r0.fees_protocol)
           r      == [r0 EXCEPT !.status = "Settled", !.hit = hit, !.lp_pool = r0.cash - owed,
                                !.cash = owed, !.fees_protocol = @ - bounty]
<1>1. /\ round' = [round EXCEPT ![d] = r] /\ r0.status = "Open" /\ owed <= r0.cash
      /\ Pay(vault_of(d), bounty) /\ Ends(d) /\ today' = today /\ current' = current
  BY DEF Settle
<1>2. StreetTypeOK /\ r0 \in Rounds /\ RoundBooks(r0)
  BY DEF StreetInv, StreetTypeOK
<1>3. /\ r0.cash \in Nat /\ r0.fees_lp \in Nat /\ r0.fees_protocol \in Nat /\ r0.payout \in Nat
      /\ r0.held \in [Traders -> Nat] /\ r0.live \in SUBSET Traders /\ r0.tranche \in BOOLEAN
  BY <1>2 DEF Rounds
<1>4. owed \in Nat /\ bounty \in Nat /\ bounty <= r0.fees_protocol
  BY <1>3, BountyBounds
<1> HIDE DEF bounty
<1>5. /\ r.status = "Settled" /\ r.shared = r0.shared /\ r.tranche = r0.tranche
      /\ r.hit = hit /\ r.live = r0.live /\ r.held = r0.held /\ r.paid = r0.paid
      /\ r.lp_pool = r0.cash - owed /\ r.fees_lp = r0.fees_lp
      /\ r.fees_protocol = r0.fees_protocol - bounty
  BY <1>2 DEF Rounds
<1>6. r \in Rounds
  <2>1. r0.cash - owed \in Nat /\ r0.fees_protocol - bounty \in Nat
    BY <1>1, <1>3, <1>4
  <2> HIDE DEF owed
  <2> QED
    BY <1>2, <1>4, <2>1 DEF Rounds, Statuses
<1>7. to_traders(r) = owed
  <2>1. to_traders(r) = IF r.hit THEN SumOver(r.live, r.held) ELSE 0
    BY <1>5, <1>6, Winnings
  <2>2. r0.payout = SumOver(r0.live, r0.held)
    BY <1>1, <1>2 DEF RoundBooks
  <2> QED
    BY <1>5, <2>1, <2>2
<1> HIDE DEF r, owed
<1>8. RoundBooks(r)
  BY <1>2, <1>5 DEF RoundBooks
<1>9. owed_by_round(r) - owed_by_round(round[d]) <= -bounty
  <2>1. /\ owed_by_round(r) = owed + (r0.fees_protocol - bounty)
                                + (IF r0.tranche THEN r0.cash - owed + r0.fees_lp ELSE 0)
        /\ owed_by_round(r0) = r0.cash + r0.fees_lp + r0.fees_protocol
    BY <1>1, <1>5, <1>7 DEF owed_by_round, to_traders
  <2> QED
    BY <1>1, <1>3, <1>4, <2>1
<1>10. d = current => r.shared /\ r.tranche
  BY <1>5, DaysFinite DEF StreetInv, CurrentIsOurs, NoDay, Shared
<1>11. Inv' /\ vault' = vault
  BY <1>1, EndsKeep DEF StreetInv
<1>12. vault_of(d) \in Accounts /\ vault_of(d) = (IF r.shared THEN Shared ELSE d)
  BY <1>5, VaultOf
<1>13. /\ -bounty \in Int
       /\ tokens' = [tokens EXCEPT ![vault_of(d)] = @ + (-bounty)]
       /\ tokens[vault_of(d)] + (-bounty) >= 0
  BY <1>1, <1>2, <1>4, <1>12, Paid, Zenon
<1> QED
  BY <1>1, <1>5, <1>6, <1>8, <1>9, <1>10, <1>11, <1>12, <1>13, RoundMove, Zenon

LEMMA VoidKeeps ==
  ASSUME StreetInv, NEW d \in Days, Void(d)
  PROVE  StreetInv'
<1> DEFINE r0  == round[d]
           all == refundable(d)
           pot == void_lp_part(all, r0.deposit, r0.basis)
           r   == [r0 EXCEPT !.status = "Void", !.lp_pot = pot, !.trader_pot = all - pot,
                             !.fees_lp = 0, !.fees_protocol = 0]
<1>1. /\ round' = [round EXCEPT ![d] = r] /\ r0.status \in {"Seeding", "Open"}
      /\ Ends(d) /\ today' = today /\ current' = current /\ tokens' = tokens
  BY DEF Void
<1>2. StreetTypeOK /\ r0 \in Rounds /\ RoundBooks(r0)
  BY DEF StreetInv, StreetTypeOK
<1>3. /\ r0.cash \in Nat /\ r0.fees_lp \in Nat /\ r0.fees_protocol \in Nat
      /\ r0.deposit \in Nat /\ r0.basis \in Nat
  BY <1>2 DEF Rounds
<1>4. all \in Nat /\ all = r0.cash + r0.fees_lp + r0.fees_protocol
  BY <1>3 DEF refundable
<1> HIDE DEF all
<1>5. pot \in Nat /\ pot <= all
  BY <1>3, <1>4, VoidSplit
<1> HIDE DEF pot
<1>6. /\ r.status = "Void" /\ r.shared = r0.shared /\ r.tranche = r0.tranche
      /\ r.live = r0.live /\ r.held = r0.held /\ r.paid = r0.paid /\ r.basis = r0.basis
      /\ r.deposit = r0.deposit /\ r.lp_pot = pot /\ r.trader_pot = all - pot
  BY <1>2 DEF Rounds
<1>7. r \in Rounds
  <2>1. all - pot \in Nat
    BY <1>4, <1>5
  <2> QED
    BY <1>2, <1>5, <2>1 DEF Rounds, Statuses
<1> HIDE DEF r
<1>8. RoundBooks(r)
  BY <1>2, <1>6 DEF RoundBooks
<1>9. owed_by_round(r) - owed_by_round(round[d]) <= 0
  <2>1. r.basis = SumOver(r.live, r.paid)
    BY <1>1, <1>2, <1>6 DEF RoundBooks
  <2>2. to_traders(r) <= all - pot /\ to_traders(r) \in Nat
    BY <1>6, <1>7, <2>1, Refunds, ToTradersNat
  <2>3. void_share(r0.deposit, pot, r0.deposit) \in Nat
        /\ void_share(r0.deposit, pot, r0.deposit) <= pot
    BY <1>3, <1>5, LoneShare
  <2>4. /\ owed_by_round(r) = to_traders(r) + (IF r.tranche THEN void_share(r0.deposit, pot, r0.deposit) ELSE 0)
        /\ owed_by_round(r0) = r0.cash + r0.fees_lp + r0.fees_protocol
    BY <1>1, <1>6 DEF owed_by_round, to_traders
  <2> QED
    BY <1>4, <1>5, <2>2, <2>3, <2>4
<1>10. d = current => r.shared /\ r.tranche
  BY <1>6, DaysFinite DEF StreetInv, CurrentIsOurs, NoDay, Shared
<1>11. Inv' /\ vault' = vault
  BY <1>1, EndsKeep DEF StreetInv
<1>12. vault_of(d) \in Accounts /\ vault_of(d) = (IF r.shared THEN Shared ELSE d)
  BY <1>6, VaultOf
<1>13. /\ 0 \in Int /\ tokens' = [tokens EXCEPT ![vault_of(d)] = @ + 0]
       /\ tokens[vault_of(d)] + 0 >= 0
  BY <1>1, <1>2, <1>12, Untouched
<1> QED
  BY <1>1, <1>6, <1>7, <1>8, <1>9, <1>10, <1>11, <1>12, <1>13, RoundMove, Zenon

-----------------------------------------------------------------------------
(* Paying out.                                                             *)

\* Paying one holder takes its part, and only its, off what holders are owed.
LEMMA RedeemKeeps ==
  ASSUME StreetInv, NEW d \in Days, NEW u \in Traders, Redeem(d, u)
  PROVE  StreetInv'
<1> DEFINE r0   == round[d]
           owed == redemption(r0, u)
           r    == [r0 EXCEPT !.cash = IF r0.status = "Settled" THEN @ - owed ELSE @,
                              !.live = @ \ {u}, !.held[u] = 0, !.paid[u] = 0]
<1>1. /\ round' = [round EXCEPT ![d] = r] /\ r0.status \in {"Settled", "Void"}
      /\ u \in r0.live /\ (r0.status = "Settled" => owed <= r0.cash)
      /\ Pay(vault_of(d), owed) /\ UNCHANGED <<vars, today, current>>
  BY DEF Redeem, IsFinal
<1>2. StreetTypeOK /\ r0 \in Rounds /\ RoundBooks(r0)
  BY DEF StreetInv, StreetTypeOK
<1>3. /\ r0.cash \in Nat /\ r0.live \in SUBSET Traders
      /\ r0.held \in [Traders -> Nat] /\ r0.paid \in [Traders -> Nat]
  BY <1>2 DEF Rounds
<1>4. owed \in Nat
  BY <1>2, RedemptionNat
<1> HIDE DEF owed
<1>5. /\ r.status = r0.status /\ r.shared = r0.shared /\ r.tranche = r0.tranche
      /\ r.live = r0.live \ {u} /\ r.hit = r0.hit /\ r.basis = r0.basis
      /\ r.deposit = r0.deposit /\ r.lp_pot = r0.lp_pot /\ r.trader_pot = r0.trader_pot
      /\ r.lp_pool = r0.lp_pool /\ r.fees_lp = r0.fees_lp /\ r.fees_protocol = r0.fees_protocol
      /\ r.held = [r0.held EXCEPT ![u] = 0] /\ r.paid = [r0.paid EXCEPT ![u] = 0]
  BY <1>2 DEF Rounds
<1>6. r \in Rounds
  <2>1. /\ (IF r0.status = "Settled" THEN r0.cash - owed ELSE r0.cash) \in Nat
        /\ r0.live \ {u} \in SUBSET Traders
        /\ [r0.held EXCEPT ![u] = 0] \in [Traders -> Nat]
        /\ [r0.paid EXCEPT ![u] = 0] \in [Traders -> Nat]
    BY <1>1, <1>3, <1>4
  <2> QED
    BY <1>2, <2>1 DEF Rounds
<1> HIDE DEF r
<1>7. RoundBooks(r)
  BY <1>1, <1>2, <1>3, <1>5 DEF RoundBooks
<1>8. to_traders(r) = to_traders(r0) - owed
  <2> DEFINE f == [w \in r0.live |-> redemption(r0, w)]
             g == [w \in r.live |-> redemption(r, w)]
  <2>1. IsFiniteSet(r0.live) /\ r.live = r0.live \ {u} /\ u \in r0.live
    BY <1>1, <1>3, <1>5, LiveFinite
  <2>2. \A w \in r0.live : f[w] \in Int
    BY <1>2, <1>3, RedemptionNat
  <2>3. \A w \in r0.live \ {u} : g[w] = f[w]
    BY <1>3, <1>5 DEF redemption
  <2>4. f[u] = owed
    BY <2>1 DEF owed
  <2> HIDE DEF f, g
  <2>5. SumFunctionOnSet(g, r0.live \ {u}) = SumFunctionOnSet(f, r0.live) - f[u]
    BY ONLY <2>1, <2>2, <2>3, SumClosed
  <2> QED
    BY <2>1, <2>4, <2>5 DEF to_traders, SumOver, f, g
<1>9. owed_by_round(r) - owed_by_round(round[d]) <= -owed
  <2>1. to_traders(r0) \in Nat /\ owed_by_round(r0) \in Nat
    BY <1>2, ToTradersNat, OwedNat
  <2>2. owed_by_round(r) = owed_by_round(r0) - owed
    <3> DEFINE rest == IF r0.status = "Settled"
                       THEN r0.fees_protocol + (IF r0.tranche THEN r0.lp_pool + r0.fees_lp ELSE 0)
                       ELSE IF r0.tranche THEN void_share(r0.deposit, r0.lp_pot, r0.deposit) ELSE 0
    <3>1. rest \in Nat
      <4>1. /\ r0.fees_protocol \in Nat /\ r0.lp_pool \in Nat /\ r0.fees_lp \in Nat
            /\ r0.deposit \in Nat /\ r0.lp_pot \in Nat
        BY <1>2 DEF Rounds
      <4>2. void_share(r0.deposit, r0.lp_pot, r0.deposit) \in Nat
        BY <4>1, VoidShare
      <4> QED
        BY <4>1, <4>2
    <3>2. owed_by_round(r0) = to_traders(r0) + rest /\ owed_by_round(r) = to_traders(r) + rest
      <4>1. CASE r0.status = "Settled"
        <5>1. /\ owed_by_round(r0) = to_traders(r0) + r0.fees_protocol
                                       + (IF r0.tranche THEN r0.lp_pool + r0.fees_lp ELSE 0)
              /\ owed_by_round(r) = to_traders(r) + r0.fees_protocol
                                       + (IF r0.tranche THEN r0.lp_pool + r0.fees_lp ELSE 0)
          BY <1>5, <4>1 DEF owed_by_round, to_traders
        <5>2. /\ r0.fees_protocol \in Nat /\ r0.lp_pool \in Nat /\ r0.fees_lp \in Nat
          BY <1>2 DEF Rounds
        <5> QED
          BY <1>4, <1>8, <2>1, <4>1, <5>1, <5>2
      <4>2. CASE r0.status = "Void"
        BY <1>5, <4>2 DEF owed_by_round, to_traders
      <4> QED
        BY <1>1, <4>1, <4>2
    <3> QED
      BY <1>4, <1>8, <2>1, <3>1, <3>2
  <2> QED
    BY <1>4, <2>1, <2>2
<1>10. d = current => r.shared /\ r.tranche
  BY <1>5, DaysFinite DEF StreetInv, CurrentIsOurs, NoDay, Shared
<1>11. Inv' /\ vault' = vault /\ today' = today /\ current' = current
  BY <1>1, HouseStill DEF StreetInv
<1>12. vault_of(d) \in Accounts /\ vault_of(d) = (IF r.shared THEN Shared ELSE d)
  BY <1>5, VaultOf
<1>13. /\ -owed \in Int
       /\ tokens' = [tokens EXCEPT ![vault_of(d)] = @ + (-owed)]
       /\ tokens[vault_of(d)] + (-owed) >= 0
  BY <1>1, <1>2, <1>4, <1>12, Paid, Zenon
<1> QED
  BY <1>1, <1>5, <1>6, <1>7, <1>9, <1>10, <1>11, <1>12, <1>13, RoundMove, Zenon

\* What a tranche is paid, and that the round then owes that much less.
LEMMA TrancheTaken ==
  ASSUME NEW r0 \in Rounds, RoundBooks(r0), IsFinal(r0), r0.tranche,
         NEW result \in Results, NEW earned \in FeeIncomes
  PROVE  LET r == tranche_taken(r0, result, earned)
             p == principal_of(r0, result)
             f == fees_of(r0, earned)
         IN  /\ r \in Rounds /\ RoundBooks(r) /\ r.shared = r0.shared /\ ~r.tranche
             /\ p \in Nat /\ f \in Nat /\ (r0.status = "Void" => f = 0)
             /\ owed_by_round(r) - owed_by_round(r0) <= -(p + f)
<1> DEFINE r == tranche_taken(r0, result, earned)
           p == principal_of(r0, result)
           f == fees_of(r0, earned)
<1>1. /\ r0.lp_pool \in Nat /\ r0.fees_lp \in Nat /\ r0.fees_protocol \in Nat
      /\ r0.deposit \in Nat /\ r0.lp_pot \in Nat /\ result \in Nat /\ earned \in Nat
  BY HouseConstants DEF Rounds
<1>2. to_traders(r0) \in Nat
  BY ToTradersNat
<1>3. CASE r0.status = "Settled"
  <2>1. p \in Nat /\ p <= r0.lp_pool /\ f \in Nat /\ f <= r0.fees_lp
    BY <1>1, <1>3 DEF principal_of, fees_of, Least
  <2> HIDE DEF p, f
  <2>2. r = [r0 EXCEPT !.lp_pool = @ - p, !.fees_lp = @ - f, !.tranche = FALSE]
    BY <1>3 DEF tranche_taken, p, f
  <2> HIDE DEF r
  <2>3. r0.lp_pool - p \in Nat /\ r0.fees_lp - f \in Nat
    BY <1>1, <2>1
  <2>4. r \in Rounds
    BY <2>2, <2>3 DEF Rounds
  <2>5. /\ r.status = "Settled" /\ r.shared = r0.shared /\ ~r.tranche
        /\ r.live = r0.live /\ r.held = r0.held /\ r.paid = r0.paid /\ r.hit = r0.hit
        /\ r.fees_protocol = r0.fees_protocol
    BY <1>3, <2>2 DEF Rounds
  <2>6. RoundBooks(r)
    BY <2>5 DEF RoundBooks
  <2>7. to_traders(r) = to_traders(r0)
    <3>1. /\ to_traders(r) = IF r.hit THEN SumOver(r.live, r.held) ELSE 0
          /\ to_traders(r0) = IF r0.hit THEN SumOver(r0.live, r0.held) ELSE 0
      BY <1>3, <2>4, <2>5, Winnings
    <3> QED
      BY <2>5, <3>1
  <2>8. /\ owed_by_round(r0) = to_traders(r0) + r0.fees_protocol + (r0.lp_pool + r0.fees_lp)
        /\ owed_by_round(r) = to_traders(r0) + r0.fees_protocol + 0
    BY <1>3, <2>5, <2>7 DEF owed_by_round, to_traders
  <2>9. owed_by_round(r) - owed_by_round(r0) <= -(p + f)
    BY <1>1, <1>2, <2>1, <2>8
  <2> QED
    BY <1>3, <2>1, <2>4, <2>5, <2>6, <2>9 DEF r, p, f
<1>4. CASE r0.status = "Void"
  <2>1. p = void_share(r0.deposit, r0.lp_pot, r0.deposit) /\ p \in Nat /\ f = 0
    BY <1>1, <1>4, LoneShare DEF principal_of, fees_of
  <2> HIDE DEF p, f
  <2>2. r = [r0 EXCEPT !.tranche = FALSE]
    BY <1>4 DEF tranche_taken
  <2> HIDE DEF r
  <2>3. r \in Rounds
    BY <2>2 DEF Rounds
  <2>4. /\ r.status = "Void" /\ r.shared = r0.shared /\ ~r.tranche
        /\ r.live = r0.live /\ r.held = r0.held /\ r.paid = r0.paid
        /\ r.trader_pot = r0.trader_pot /\ r.basis = r0.basis
    BY <1>4, <2>2 DEF Rounds
  <2>5. RoundBooks(r)
    BY <2>4 DEF RoundBooks
  <2>6. to_traders(r) = to_traders(r0)
    BY <1>4, <2>4 DEF to_traders, redemption
  <2>7. owed_by_round(r0) = to_traders(r0) + p /\ owed_by_round(r) = to_traders(r0) + 0
    BY <1>4, <2>1, <2>4, <2>6 DEF owed_by_round, to_traders
  <2>8. owed_by_round(r) - owed_by_round(r0) <= -(p + f)
    BY <1>2, <2>1, <2>7
  <2> QED
    BY <2>1, <2>3, <2>4, <2>5, <2>8 DEF r, p, f
<1> QED
  BY <1>3, <1>4 DEF IsFinal

\* The tranche comes home: what the round owes the house is what the house books.
LEMMA HouseCollectKeeps ==
  ASSUME StreetInv, NEW result \in Results, NEW earned \in FeeIncomes,
         HouseCollect(result, earned)
  PROVE  StreetInv'
<1> DEFINE d == current
           p == principal_of(round[d], result)
           f == fees_of(round[d], earned)
           recorded == pending_deposits > 0 \/ pending_withdraw_shares > 0
<1>1. /\ d # NoDay /\ IsFinal(round[d]) /\ round[d].tranche
      /\ Collect(p, f, recorded)
      /\ round' = [round EXCEPT ![d] = tranche_taken(round[d], result, earned)]
      /\ current' = NoDay /\ today' = today /\ tokens' = tokens
  BY DEF HouseCollect
<1>2. StreetTypeOK /\ EveryoneCovered /\ d \in Days /\ round[d] \in Rounds /\ RoundBooks(round[d])
  BY <1>1 DEF StreetInv, StreetTypeOK
<1>3. round[d].shared
  BY <1>1 DEF StreetInv, CurrentIsOurs
<1>4. PICK r : /\ r \in Rounds /\ r = tranche_taken(round[d], result, earned)
               /\ RoundBooks(r) /\ r.shared = round[d].shared
               /\ owed_by_round(r) - owed_by_round(round[d]) <= -(p + f)
  BY <1>1, <1>2, TrancheTaken, Zenon
<1>5. p \in Nat /\ f \in Nat
  BY <1>1, <1>2, TrancheTaken, Zenon
<1> HIDE DEF p, f
<1>6. Inv'
  <2>1. recorded \in BOOLEAN
    OBVIOUS
  <2> HIDE DEF recorded
  <2> QED
    BY <1>1, <1>5, <2>1, CollectKeeps, Zenon DEF StreetInv
<1>7. vault \in Nat /\ vault' \in Nat /\ vault' = vault + p + f
  BY <1>1, <1>6 DEF StreetInv, Inv, TypeOK, Collect
<1> HIDE DEF d, recorded
<1>8. PICK y : y \in Int /\ y = p + f /\ vault' = vault + y
  BY <1>5, <1>7
<1>9. owed_by_round(r) - owed_by_round(round[d]) <= 0 - y
  <2>1. owed_by_round(r) \in Nat /\ owed_by_round(round[d]) \in Nat
    BY <1>2, <1>4, OwedNat
  <2> QED
    BY ONLY <1>4, <1>5, <1>8, <2>1
<1>10. /\ tokens' = [tokens EXCEPT ![Shared] = @ + 0] /\ tokens[Shared] + 0 >= 0
       /\ Shared = (IF r.shared THEN Shared ELSE d) /\ (r.shared \/ y = 0)
       /\ 0 \in Int /\ round' = [round EXCEPT ![d] = r]
  <2>1. Shared \in Accounts
    BY DEF Accounts
  <2>2. round' = [round EXCEPT ![d] = r] /\ r.shared
    BY <1>1, <1>3, <1>4
  <2>3. tokens' = [tokens EXCEPT ![Shared] = @ + 0] /\ tokens[Shared] + 0 >= 0
    BY <1>1, <1>2, <2>1, Untouched
  <2> QED
    BY <2>2, <2>3
<1>11. r.shared = round[d].shared \/ owed_by_round(round[d]) = 0
  BY <1>4
<1>12. EveryoneCovered' /\ tokens' \in [Accounts -> Nat]
  BY <1>2, <1>4, <1>7, <1>8, <1>9, <1>10, <1>11, RoundStep, Zenon
<1>13. /\ round' \in [Days -> Rounds] /\ \A e \in Days : RoundBooks(round'[e])
  BY <1>2, <1>4, <1>10 DEF StreetInv, StreetTypeOK
<1> QED
  BY <1>1, <1>6, <1>12, <1>13 DEF StreetInv, StreetTypeOK, CurrentIsOurs

\* A stranger's tranche is paid out of its own round's account.
LEMMA ClaimLpKeeps ==
  ASSUME StreetInv, NEW d \in Days, NEW result \in Results, NEW earned \in FeeIncomes,
         ClaimLp(d, result, earned)
  PROVE  StreetInv'
<1> DEFINE p == principal_of(round[d], result)
           f == fees_of(round[d], earned)
<1>1. /\ ~round[d].shared /\ IsFinal(round[d]) /\ round[d].tranche
      /\ round' = [round EXCEPT ![d] = tranche_taken(round[d], result, earned)]
      /\ Pay(d, p + f) /\ UNCHANGED <<vars, today, current>>
  BY DEF ClaimLp, not_a_houses
<1>2. StreetTypeOK /\ round[d] \in Rounds /\ RoundBooks(round[d]) /\ d \in Accounts
  BY DEF StreetInv, StreetTypeOK, Accounts
<1>3. PICK r : /\ r \in Rounds /\ r = tranche_taken(round[d], result, earned)
               /\ RoundBooks(r) /\ r.shared = round[d].shared
               /\ owed_by_round(r) - owed_by_round(round[d]) <= -(p + f)
  BY <1>1, <1>2, TrancheTaken, Zenon
<1>4. p \in Nat /\ f \in Nat
  BY <1>1, <1>2, TrancheTaken, Zenon
<1> HIDE DEF p, f
<1>5. p + f \in Nat
  BY <1>4
<1>6. /\ -(p + f) \in Int /\ tokens' = [tokens EXCEPT ![d] = @ + (-(p + f))]
      /\ tokens[d] + (-(p + f)) >= 0
  BY <1>1, <1>2, <1>5, Paid, Zenon
<1>7. d # current
  BY <1>1, DaysFinite DEF StreetInv, CurrentIsOurs, NoDay, Shared
<1>8. Inv' /\ vault' = vault /\ today' = today /\ current' = current
  BY <1>1, HouseStill DEF StreetInv
<1>9. d = (IF r.shared THEN Shared ELSE d) /\ round' = [round EXCEPT ![d] = r]
  BY <1>1, <1>3
<1> QED
  BY <1>3, <1>6, <1>7, <1>8, <1>9, RoundMove, Zenon

LEMMA CollectFeesKeeps ==
  ASSUME StreetInv, NEW d \in Days, CollectFees(d)
  PROVE  StreetInv'
<1> DEFINE r0  == round[d]
           fee == r0.fees_protocol
           r   == [r0 EXCEPT !.fees_protocol = 0]
<1>1. /\ round' = [round EXCEPT ![d] = r] /\ r0.status = "Settled"
      /\ Pay(vault_of(d), fee) /\ UNCHANGED <<vars, today, current>>
  BY DEF CollectFees
<1>2. StreetTypeOK /\ r0 \in Rounds /\ RoundBooks(r0)
  BY DEF StreetInv, StreetTypeOK
<1>3. /\ fee \in Nat /\ r0.lp_pool \in Nat /\ r0.fees_lp \in Nat /\ r0.tranche \in BOOLEAN
  BY <1>2 DEF Rounds
<1>4. /\ r.status = "Settled" /\ r.shared = r0.shared /\ r.tranche = r0.tranche
      /\ r.hit = r0.hit /\ r.live = r0.live /\ r.held = r0.held /\ r.paid = r0.paid
      /\ r.lp_pool = r0.lp_pool /\ r.fees_lp = r0.fees_lp /\ r.fees_protocol = 0
  BY <1>1, <1>2 DEF Rounds
<1>5. r \in Rounds
  BY <1>2 DEF Rounds
<1> HIDE DEF r
<1>6. RoundBooks(r)
  BY <1>1, <1>2, <1>4 DEF RoundBooks
<1>7. owed_by_round(r) - owed_by_round(round[d]) <= -fee
  <2>1. to_traders(r) = to_traders(r0) /\ to_traders(r0) \in Nat
    <3>1. /\ to_traders(r) = IF r.hit THEN SumOver(r.live, r.held) ELSE 0
          /\ to_traders(r0) = IF r0.hit THEN SumOver(r0.live, r0.held) ELSE 0
      BY <1>1, <1>2, <1>4, <1>5, Winnings
    <3> QED
      BY <1>2, <1>4, <3>1, ToTradersNat
  <2>2. /\ owed_by_round(r0) = to_traders(r0) + fee
                                 + (IF r0.tranche THEN r0.lp_pool + r0.fees_lp ELSE 0)
        /\ owed_by_round(r) = to_traders(r) + 0
                                 + (IF r0.tranche THEN r0.lp_pool + r0.fees_lp ELSE 0)
    BY <1>1, <1>4 DEF owed_by_round, to_traders
  <2> QED
    BY <1>3, <2>1, <2>2
<1>8. d = current => r.shared /\ r.tranche
  BY <1>4, DaysFinite DEF StreetInv, CurrentIsOurs, NoDay, Shared
<1>9. Inv' /\ vault' = vault /\ today' = today /\ current' = current
  BY <1>1, HouseStill DEF StreetInv
<1>10. vault_of(d) \in Accounts /\ vault_of(d) = (IF r.shared THEN Shared ELSE d)
  BY <1>4, VaultOf
<1>11. /\ -fee \in Int /\ tokens' = [tokens EXCEPT ![vault_of(d)] = @ + (-fee)]
       /\ tokens[vault_of(d)] + (-fee) >= 0
  BY <1>1, <1>2, <1>3, <1>10, Paid, Zenon
<1>12. r.shared = round[d].shared \/ owed_by_round(round[d]) = 0
  BY <1>4
<1> QED
  BY <1>1, <1>5, <1>6, <1>7, <1>8, <1>9, <1>10, <1>11, <1>12, RoundMove, Zenon

-----------------------------------------------------------------------------
(* Clearing up.                                                            *)

LEMMA NoRoundFacts ==
  NoRound \in Rounds /\ RoundBooks(NoRound) /\ owed_by_round(NoRound) = 0
<1>1. NoRound \in Rounds
  BY DEF NoRound, Rounds, Statuses
<1>2. RoundBooks(NoRound)
  BY DEF NoRound, RoundBooks
<1>3. owed_by_round(NoRound) = 0
  BY DEF NoRound, owed_by_round
<1> QED
  BY <1>1, <1>2, <1>3

\* A round that is closed owes nobody: its own account's dust is nobody's, and
\* dust in the house's stays there.
LEMMA CloseKeeps ==
  ASSUME StreetInv, NEW d \in Days, Close(d)
  PROVE  StreetInv'
<1> DEFINE r0 == round[d]
<1>1. /\ round' = [round EXCEPT ![d] = NoRound] /\ IsFinal(r0)
      /\ r0.live = {} /\ ~r0.tranche /\ r0.fees_protocol = 0
      /\ Pay(vault_of(d), dust_of(d)) /\ UNCHANGED <<vars, today, current>>
  BY DEF Close
<1>2. StreetTypeOK /\ EveryoneCovered /\ r0 \in Rounds
  BY DEF StreetInv, StreetTypeOK
<1>3. owed_by_round(r0) = 0
  <2>1. SumFunctionOnSet([u \in {} |-> redemption(r0, u)], {}) = 0
    BY SumEmpty, Zenon
  <2>2. SumOver(r0.live, [u \in r0.live |-> redemption(r0, u)]) = 0
    BY <1>1, <2>1 DEF SumOver
  <2> QED
    BY <1>1, <2>2 DEF owed_by_round, IsFinal
<1>4. Inv' /\ vault' = vault
  BY <1>1, HouseStill DEF StreetInv
<1>5. /\ round' \in [Days -> Rounds] /\ round'[d] = NoRound
      /\ \A e \in Days \ {d} : round'[e] = round[e]
      /\ \A e \in Days : RoundBooks(round'[e])
  BY <1>1, <1>2, NoRoundFacts DEF StreetInv, StreetTypeOK
<1>6. CurrentIsOurs'
  <2>1. d # current
    BY <1>1, DaysFinite DEF StreetInv, CurrentIsOurs, NoDay, Shared
  <2> QED
    BY <1>1, <1>5, <2>1 DEF StreetInv, StreetTypeOK, CurrentIsOurs
<1>7. /\ \A v \in Accounts : tokens[v] \in Nat
      /\ \A v \in Accounts : tokens'[v] = tokens[v] \/ (v = d /\ tokens'[v] = 0)
      /\ tokens' \in [Accounts -> Nat]
  <2>1. \A v \in Accounts : tokens[v] \in Nat
    BY <1>2 DEF StreetTypeOK
  <2>2. CASE r0.shared
    <3>1. tokens' = [tokens EXCEPT ![Shared] = @ - 0]
      BY <1>1, <2>2 DEF Pay, dust_of, vault_of
    <3> QED
      BY <1>2, <2>1, <3>1 DEF StreetTypeOK, Accounts
  <2>3. CASE ~r0.shared
    <3>1. tokens' = [tokens EXCEPT ![d] = @ - tokens[d]] /\ d \in Accounts
      BY <1>1, <2>3 DEF Pay, dust_of, vault_of, Accounts
    <3>2. tokens[d] - tokens[d] = 0
      BY <2>1, <3>1
    <3> QED
      BY <1>2, <2>1, <3>1, <3>2 DEF StreetTypeOK
  <2> QED
    BY <2>1, <2>2, <2>3
<1>8. ASSUME NEW v \in Accounts, NEW e \in Days
      PROVE  owed_from(v)'[e] = owed_from(v)[e] /\ (v = d => owed_from(v)'[e] = 0)
  <2>1. CASE e = d
    BY <1>3, <1>5, <2>1, NoRoundFacts DEF owed_from
  <2>2. CASE e # d
    <3>1. /\ owed_from(v)'[e] = IF vault_of(e)' = v THEN owed_by_round(round'[e]) ELSE 0
          /\ owed_from(v)[e] = IF vault_of(e) = v THEN owed_by_round(round[e]) ELSE 0
      BY DEF owed_from
    <3>2. vault_of(e)' = vault_of(e) /\ round'[e] = round[e]
      BY <1>5, <2>2 DEF vault_of
    <3>3. vault_of(e) # d
      BY <2>2, DaysFinite DEF vault_of
    <3> QED
      BY <3>1, <3>2, <3>3
  <2> QED
    BY <2>1, <2>2
<1>9. EveryoneCovered'
  <2> SUFFICES ASSUME NEW v \in Accounts
               PROVE  tokens'[v] >= SumOver(Days, owed_from(v)')
                                      + (IF v = Shared THEN vault' ELSE 0)
    BY DEF EveryoneCovered, Accounts, SumOver
  <2> DEFINE f == owed_from(v)
             g == owed_from(v)'
  <2>1. \A e \in Days : f[e] \in Int
    BY <1>2, OwedNat DEF owed_from, StreetTypeOK
  <2>2. \A e \in Days : g[e] = f[e] /\ (v = d => g[e] = 0)
    BY <1>8
  <2>3. tokens[v] >= SumOver(Days, f) + (IF v = Shared THEN vault ELSE 0)
    BY <1>2 DEF EveryoneCovered, Accounts
  <2> HIDE DEF f, g
  <2>4. SumFunctionOnSet(g, Days) = SumFunctionOnSet(f, Days)
    BY <2>1, <2>2, DaysFinite, SumSame
  <2>5. v = d => SumFunctionOnSet(g, Days) = 0
    BY <2>2, DaysFinite, SumZero
  <2>6. tokens'[v] >= SumFunctionOnSet(g, Days) + (IF v = Shared THEN vault' ELSE 0)
    <3>1. CASE tokens'[v] = tokens[v]
      BY <1>4, <2>3, <2>4, <3>1 DEF SumOver
    <3>2. CASE v = d /\ tokens'[v] = 0
      BY <2>5, <3>2, DaysFinite
    <3> QED
      BY <1>7, <3>1, <3>2
  <2> QED
    BY <2>6 DEF SumOver, g
<1> QED
  BY <1>1, <1>2, <1>4, <1>5, <1>6, <1>7, <1>9 DEF StreetInv, StreetTypeOK

LEMMA InitCovered ==
  ASSUME StreetInit PROVE StreetInv
<1>1. /\ today = 0 /\ current = NoDay /\ round = [d \in Days |-> NoRound]
      /\ tokens = [v \in Accounts |-> IF v = Shared THEN vault ELSE 0]
  BY DEF StreetInit, Accounts
<1>2. Inv /\ vault \in Nat
  BY InitInv DEF StreetInit, Inv, TypeOK
<1>3. StreetTypeOK /\ CurrentIsOurs /\ \A d \in Days : RoundBooks(round[d])
  BY <1>1, <1>2, NoRoundFacts DEF StreetTypeOK, CurrentIsOurs
<1>4. ASSUME NEW v \in Accounts
      PROVE  tokens[v] >= SumOver(Days, owed_from(v)) + (IF v = Shared THEN vault ELSE 0)
  <2> DEFINE f == owed_from(v)
  <2>1. \A e \in Days : f[e] = 0
    BY <1>1, NoRoundFacts DEF owed_from
  <2> HIDE DEF f
  <2>2. SumFunctionOnSet(f, Days) = 0
    BY <2>1, DaysFinite, SumZero
  <2>3. tokens[v] = IF v = Shared THEN vault ELSE 0
    BY <1>1
  <2> QED
    BY <1>2, <2>2, <2>3 DEF SumOver, f
<1> QED
  BY <1>2, <1>3, <1>4 DEF StreetInv, EveryoneCovered, Accounts

-----------------------------------------------------------------------------
LEMMA StreetNextKeeps ==
  ASSUME StreetInv, [StreetNext]_<<vars, streetVars>> PROVE StreetInv'
<1>1. CASE Tick
  BY <1>1, TickKeeps
<1>2. CASE HouseMoves
  BY <1>2, HouseMovesKeep
<1>3. ASSUME NEW d \in Days, HouseStart(d) PROVE StreetInv'
  BY <1>3, HouseStartKeeps
<1>4. ASSUME NEW d \in Days, NEW amount \in Amounts, Create(d, amount) PROVE StreetInv'
  BY <1>4, CreateKeeps
<1>5. ASSUME NEW d \in Days, Open(d) PROVE StreetInv'
  BY <1>5, OpenKeeps
<1>6. ASSUME NEW d \in Days, NEW u \in Traders, NEW n \in Sizes, NEW cost \in Costs,
             Buy(d, u, n, cost) \/ Sell(d, u, n, cost)
      PROVE  StreetInv'
  BY <1>6, BuyKeeps, SellKeeps
<1>7. ASSUME NEW d \in Days, NEW hit \in BOOLEAN, Settle(d, hit) PROVE StreetInv'
  BY <1>7, SettleKeeps
<1>8. ASSUME NEW d \in Days, Void(d) PROVE StreetInv'
  BY <1>8, VoidKeeps
<1>9. ASSUME NEW d \in Days, NEW u \in Traders, Redeem(d, u) PROVE StreetInv'
  BY <1>9, RedeemKeeps
<1>10. ASSUME NEW result \in Results, NEW earned \in FeeIncomes, HouseCollect(result, earned)
       PROVE  StreetInv'
  BY <1>10, HouseCollectKeeps
<1>11. ASSUME NEW d \in Days, NEW result \in Results, NEW earned \in FeeIncomes,
              ClaimLp(d, result, earned)
       PROVE  StreetInv'
  BY <1>11, ClaimLpKeeps
<1>12. ASSUME NEW d \in Days, CollectFees(d) PROVE StreetInv'
  BY <1>12, CollectFeesKeeps
<1>13. ASSUME NEW d \in Days, Close(d) PROVE StreetInv'
  BY <1>13, CloseKeeps
<1>14. CASE UNCHANGED <<vars, streetVars>>
  <2>1. Inv' /\ vault' = vault
    BY <1>14, HouseStill DEF StreetInv
  <2>2. UNCHANGED <<today, round, current, tokens>>
    BY <1>14 DEF streetVars
  <2>3. EveryoneCovered'
    BY <2>1, <2>2 DEF StreetInv, EveryoneCovered, owed_from, vault_of
  <2> QED
    BY <2>1, <2>2, <2>3 DEF StreetInv, StreetTypeOK, CurrentIsOurs
<1> QED
  BY <1>1, <1>2, <1>3, <1>4, <1>5, <1>6, <1>7, <1>8, <1>9, <1>10, <1>11, <1>12, <1>13,
     <1>14 DEF StreetNext

\* Whatever house, strangers, traders and keeper do, in any order: the street's
\* books hold together.
THEOREM StreetInvHolds == StreetSpec => []StreetInv
<1>1. StreetInit => StreetInv
  BY InitCovered
<1>2. StreetInv /\ [StreetNext]_<<vars, streetVars>> => StreetInv'
  BY StreetNextKeeps
<1> QED
  BY <1>1, <1>2, PTL DEF StreetSpec

\* Every token account covers all the books behind it at once, for any number
\* of rounds, traders and depositors: nobody's payment is made of another's
\* money, though no instruction of the program checks it.
THEOREM EveryoneCoveredHolds == StreetSpec => []EveryoneCovered
<1>1. StreetInv => EveryoneCovered
  BY DEF StreetInv
<1> QED
  BY <1>1, StreetInvHolds, PTL

\* What a house promises with its rounds left to their outcomes it promises
\* with the rounds as they are: paid, voided, claimed and closed around it.
THEOREM HouseInvInStreet == StreetSpec => []HouseInv
<1>1. StreetInv => HouseInv
  BY DEF StreetInv, Inv
<1> QED
  BY <1>1, StreetInvHolds, PTL
=============================================================================
