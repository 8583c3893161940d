---------------------------- MODULE PricesProofs ----------------------------
(***************************************************************************)
(* For any feed and any schedule: posted updates leave a caller one way to *)
(* open a round on time and one way to end it, it stays that one, and the  *)
(* keeper sends what reaches it and nothing the program would refuse.      *)
(***************************************************************************)
EXTENDS PricesClient, TLAPS

\* Only printing touches the feed, and it appends one update stamped no earlier
\* than the last, and at most so far ahead of the chain's clock.
LEMMA FeedSteps ==
  ASSUME [Next]_vars, FeedOrdered
  PROVE  \/ feed' = feed /\ now' \in Nat /\ now <= now'
         \/ /\ now' = now
            /\ \E u \in Update :
                 /\ feed' = Append(feed, u) /\ u.at <= now + CLOCK_SKEW
                 /\ u.prev = last_at /\ u.prev <= u.at
<1>1. CASE Tick
  BY <1>1 DEF Tick, FeedOrdered
<1>2. ASSUME NEW print \in Prints, NEW at \in now .. now + CLOCK_SKEW, Publish(print, at)
      PROVE  now' = now /\ \E u \in Update :
                 /\ feed' = Append(feed, u) /\ u.at <= now + CLOCK_SKEW
                 /\ u.prev = last_at /\ u.prev <= u.at
  <2> DEFINE u    == [at |-> at, prev |-> last_at, price |-> print.price,
                      conf |-> print.conf, expo |-> print.expo]
  <2>1. last_at \in Int
    <3>1. CASE feed = <<>>
      BY <3>1 DEF last_at
    <3>2. CASE feed # <<>>
      <4>1. Len(feed) \in 1 .. Len(feed) /\ \A i \in 1 .. Len(feed) : feed[i] \in Update
        BY <3>2 DEF FeedOrdered
      <4>2. feed[Len(feed)].at \in Nat
        BY <4>1 DEF Update
      <4> QED
        BY <3>2, <4>2 DEF last_at
    <3> QED
      BY <3>1, <3>2
  <2>2. at \in Nat /\ at <= now + CLOCK_SKEW
    BY PriceConstants DEF FeedOrdered
  <2>3. u \in Update
    BY <2>1, <2>2, PriceConstants DEF Update
  <2>4. feed' = Append(feed, u) /\ now' = now /\ last_at <= at
    BY <1>2 DEF Publish
  <2>5. u.at = at /\ u.prev = last_at
    OBVIOUS
  <2> HIDE DEF u
  <2> QED
    BY <2>2, <2>3, <2>4, <2>5
<1>3. ASSUME NEW i \in 1 .. Len(feed), Push(i) PROVE feed' = feed /\ now' = now
  BY <1>3 DEF Push
<1>4. ASSUME NEW s \in sources, Open(s) PROVE feed' = feed /\ now' = now
  BY <1>4 DEF Open
<1>5. ASSUME NEW s \in sources, Settle(s) PROVE feed' = feed /\ now' = now
  BY <1>5 DEF Settle
<1>6. CASE VoidUnopened \/ VoidFallback \/ \E s \in sources : VoidProven(s)
  BY <1>6 DEF VoidUnopened, VoidFallback, VoidProven, FeedOrdered
<1>7. CASE UNCHANGED vars
  BY <1>7 DEF vars, FeedOrdered
<1> QED
  BY <1>1, <1>2, <1>3, <1>4, <1>5, <1>6, <1>7 DEF Next, FeedOrdered

LEMMA FeedStaysOrdered ==
  ASSUME FeedOrdered, [Next]_vars PROVE FeedOrdered'
<1>1. CASE feed' = feed /\ now' \in Nat /\ now <= now'
  <2>1. \A i \in 1 .. Len(feed) : feed[i].at \in Nat /\ feed[i].at <= now + CLOCK_SKEW
    <3>1. \A i \in 1 .. Len(feed) : feed[i] \in Update
      BY DEF FeedOrdered
    <3> QED
      BY <3>1 DEF FeedOrdered, Update
  <2>2. \A i \in 1 .. Len(feed) : feed[i].at <= now' + CLOCK_SKEW
    BY <1>1, <2>1, PriceConstants DEF FeedOrdered
  <2> QED
    BY <1>1, <2>2 DEF FeedOrdered
<1>2. ASSUME NEW u \in Update, now' = now, feed' = Append(feed, u),
             u.at <= now + CLOCK_SKEW, u.prev = last_at, u.prev <= u.at
      PROVE  FeedOrdered'
  <2>1. /\ feed' \in Seq(Update) /\ Len(feed') = Len(feed) + 1
        /\ \A i \in 1 .. Len(feed) : feed'[i] = feed[i]
        /\ feed'[Len(feed) + 1] = u
    BY <1>2 DEF FeedOrdered
  <2>2. now \in Nat /\ CLOCK_SKEW \in Nat /\ Len(feed) \in Nat /\ u.prev \in Int /\ u.at \in Nat
    BY <1>2, PriceConstants DEF FeedOrdered, Update
  <2>3. \A i \in 1 .. Len(feed) :
          /\ feed[i].at \in Nat /\ feed[i].prev \in Int
          /\ feed[i].at <= now + CLOCK_SKEW /\ feed[i].at <= u.prev
    <3> SUFFICES ASSUME NEW i \in 1 .. Len(feed)
                 PROVE  /\ feed[i].at \in Nat /\ feed[i].prev \in Int
                        /\ feed[i].at <= now + CLOCK_SKEW /\ feed[i].at <= u.prev
      OBVIOUS
    <3>1. feed[i] \in Update /\ feed[Len(feed)] \in Update
      BY DEF FeedOrdered
    <3>2. feed[i].at \in Nat /\ feed[i].prev \in Int /\ feed[i].at <= now + CLOCK_SKEW
      BY <3>1 DEF FeedOrdered, Update
    <3>3. u.prev = feed[Len(feed)].at
      BY <1>2, <2>2 DEF last_at
    <3>4. CASE i = Len(feed)
      BY <3>2, <3>3, <3>4
    <3>5. CASE i < Len(feed)
      <4>1. feed[i].at <= feed[Len(feed)].prev /\ feed[Len(feed)].prev <= feed[Len(feed)].at
        BY <3>5, <2>2 DEF FeedOrdered
      <4> QED
        BY <4>1, <3>1, <3>2, <3>3, SMTT(30) DEF Update
    <3> QED
      BY <3>2, <3>4, <3>5, <2>2
  <2>4. u.prev <= u.at
    BY <1>2
  <2>5. \A i \in 1 .. Len(feed') : feed'[i].prev <= feed'[i].at /\ feed'[i].at <= now' + CLOCK_SKEW
    <3> SUFFICES ASSUME NEW i \in 1 .. Len(feed) + 1
                 PROVE  feed'[i].prev <= feed'[i].at /\ feed'[i].at <= now + CLOCK_SKEW
      BY <2>1, <1>2
    <3>1. CASE i = Len(feed) + 1
      BY <3>1, <2>1, <2>2, <2>4, <1>2
    <3>2. CASE i # Len(feed) + 1
      BY <3>2, <2>1, <2>2 DEF FeedOrdered
    <3> QED
      BY <3>1, <3>2
  <2>6. \A i, j \in 1 .. Len(feed') : i < j => feed'[i].at <= feed'[j].prev
    <3> SUFFICES ASSUME NEW i \in 1 .. Len(feed) + 1, NEW j \in 1 .. Len(feed) + 1, i < j
                 PROVE  feed'[i].at <= feed'[j].prev
      BY <2>1
    <3>1. i \in 1 .. Len(feed) /\ feed'[i] = feed[i]
      BY <2>1, <2>2
    <3>2. CASE j = Len(feed) + 1
      BY <3>1, <3>2, <2>1, <2>3
    <3>3. CASE j # Len(feed) + 1
      <4>1. j \in 1 .. Len(feed)
        BY <3>3, <2>2
      <4> QED
        BY <4>1, <3>1, <2>1 DEF FeedOrdered
    <3> QED
      BY <3>2, <3>3
  <2> QED
    BY <2>1, <2>2, <2>5, <2>6, <1>2 DEF FeedOrdered
<1> QED
  BY <1>1, <1>2, FeedSteps

\* Time and the feed only move forward (Pyth's stream, and the cluster clock).
THEOREM FeedIsOrdered == Spec => []FeedOrdered
<1>1. Init => FeedOrdered
  BY DEF Init, FeedOrdered
<1>2. FeedOrdered /\ [Next]_vars => FeedOrdered'
  BY FeedStaysOrdered
<1> QED
  BY <1>1, <1>2, PTL DEF Spec

-----------------------------------------------------------------------------
\* Of a whole feed at most one update is THE update for an instant.
LEMMA TheOne ==
  ASSUME FeedOrdered, NEW t \in Int,
         NEW i \in 1 .. Len(feed), NEW j \in 1 .. Len(feed),
         the_update(feed[i], t), the_update(feed[j], t)
  PROVE  i = j
<1>1. feed[i] \in Update /\ feed[j] \in Update
  BY DEF FeedOrdered
<1>2. CASE i < j
  <2>1. feed[i].at <= feed[j].prev
    BY <1>2 DEF FeedOrdered
  <2> QED
    BY <2>1, <1>1, SMTT(30) DEF the_update, Update
<1>3. CASE j < i
  <2>1. feed[j].at <= feed[i].prev
    BY <1>3 DEF FeedOrdered
  <2> QED
    BY <2>1, <1>1 DEF the_update, Update
<1> QED
  BY <1>2, <1>3 DEF FeedOrdered

LEMMA OneEndingNow == ASSUME FeedOrdered PROVE OneEnding
<1> DEFINE Settled(i) == settles_on([u |-> feed[i], push |-> FALSE])
           Voided(i)  == proves_no_settle(feed[i])
<1>1. ASSUME NEW e \in endings(posted)
      PROVE  \E i \in 1 .. Len(feed) :
               \/ Settled(i) /\ e = [status |-> "Settled", price |-> feed[i].price]
               \/ Voided(i) /\ e = [status |-> "Void", price |-> NoPrice]
  <2>1. CASE \E s \in posted : settles_on(s) /\ e = [status |-> "Settled", price |-> s.u.price]
    <3>1. PICK i \in 1 .. Len(feed) :
            LET s == [u |-> feed[i], push |-> FALSE]
            IN  settles_on(s) /\ e = [status |-> "Settled", price |-> s.u.price]
      BY <2>1 DEF posted
    <3> QED
      BY <3>1
  <2>2. CASE \E s \in posted : proves_no_settle(s.u) /\ e = [status |-> "Void", price |-> NoPrice]
    <3>1. PICK i \in 1 .. Len(feed) :
            LET s == [u |-> feed[i], push |-> FALSE]
            IN  proves_no_settle(s.u) /\ e = [status |-> "Void", price |-> NoPrice]
      BY <2>2 DEF posted
    <3> QED
      BY <3>1
  <2> QED
    BY <1>1, <2>1, <2>2 DEF endings
<1>2. \A i \in 1 .. Len(feed) :
        Settled(i) => the_update(feed[i], SETTLES) /\ settleable(feed[i])
  BY DEF settles_on, settleable, check_settlement_instant
<1>3. \A i \in 1 .. Len(feed) :
        Voided(i) => the_update(feed[i], SETTLES) /\ ~settleable(feed[i])
  BY DEF proves_no_settle
<1>4. \A i, j \in 1 .. Len(feed) :
        the_update(feed[i], SETTLES) /\ the_update(feed[j], SETTLES) => i = j
  BY TheOne, PriceConstants
<1> SUFFICES ASSUME NEW a \in endings(posted), NEW b \in endings(posted) PROVE a = b
  BY DEF OneEnding
<1>5. PICK i \in 1 .. Len(feed) :
        \/ Settled(i) /\ a = [status |-> "Settled", price |-> feed[i].price]
        \/ Voided(i) /\ a = [status |-> "Void", price |-> NoPrice]
  BY <1>1
<1>6. PICK j \in 1 .. Len(feed) :
        \/ Settled(j) /\ b = [status |-> "Settled", price |-> feed[j].price]
        \/ Voided(j) /\ b = [status |-> "Void", price |-> NoPrice]
  BY <1>1
<1> HIDE DEF Settled, Voided
<1> QED
  BY <1>2, <1>3, <1>4, <1>5, <1>6

\* Whatever the feed prints, and however many updates in the second of the
\* close, posted updates leave one ending (settle_handler, void_handler).
THEOREM EndingIsOne == Spec => []OneEnding
<1>1. FeedOrdered => OneEnding
  BY OneEndingNow
<1> QED
  BY <1>1, FeedIsOrdered, PTL

\* Whoever opens a round on time, from posted updates, opens it on one price
\* (open_handler).
THEOREM OpeningIsOne == Spec => []OneOpening
<1>1. ASSUME FeedOrdered, opens_at \in Int PROVE OneOpening
  <2> SUFFICES ASSUME on_time, NEW a \in openings(posted), NEW b \in openings(posted)
               PROVE  a = b
    BY DEF OneOpening
  <2>1. ASSUME NEW e \in openings(posted)
        PROVE  \E i \in 1 .. Len(feed) :
                 /\ the_update(feed[i], opens_at)
                 /\ e = [price |-> feed[i].price, expo |-> feed[i].expo]
    BY <2>1 DEF openings, posted, opens_on, check_settlement_instant
  <2>2. PICK i \in 1 .. Len(feed) : /\ the_update(feed[i], opens_at)
                                    /\ a = [price |-> feed[i].price, expo |-> feed[i].expo]
    BY <2>1
  <2>3. PICK j \in 1 .. Len(feed) : /\ the_update(feed[j], opens_at)
                                    /\ b = [price |-> feed[j].price, expo |-> feed[j].expo]
    BY <2>1
  <2>4. i = j
    BY <2>2, <2>3, <1>1, TheOne
  <2> QED
    BY <2>2, <2>3, <2>4
<1>2. Init => opens_at \in Int
  BY PriceConstants DEF Init
<1>3. opens_at \in Int /\ FeedOrdered /\ [Next]_vars => (opens_at \in Int)'
  <2> SUFFICES ASSUME opens_at \in Int, FeedOrdered, [Next]_vars PROVE opens_at' \in Int
    OBVIOUS
  <2>1. ASSUME NEW s \in sources, Open(s) PROVE opens_at' \in Int
    BY <2>1 DEF Open, FeedOrdered
  <2> QED
    BY <2>1 DEF Next, vars, Tick, Publish, Push, Settle, VoidUnopened, VoidProven,
                VoidFallback
<1>4. FeedOrdered /\ opens_at \in Int => OneOpening
  BY <1>1
<1> QED
  BY <1>2, <1>3, <1>4, FeedIsOrdered, PTL DEF Spec

-----------------------------------------------------------------------------
\* An ending once available stays available, and no other joins it, as long as
\* the round is open: nothing is gained by waiting.
THEOREM EndingIsForGood == Spec => EndingStays
<1> DEFINE A == status = "Open" /\ status' = "Open" /\ endings(posted) # {}
                  => endings(posted)' = endings(posted)
<1>1. ASSUME FeedOrdered, FeedOrdered', [Next]_vars PROVE A
  <2> SUFFICES ASSUME status = "Open", status' = "Open", endings(posted) # {}
               PROVE  endings(posted)' = endings(posted)
    OBVIOUS
  <2>1. p0_expo' = p0_expo
    BY <1>1 DEF Next, vars, Tick, Publish, Push, Open, opens_on, InOpenWindow, Settle,
                VoidUnopened, VoidProven, VoidFallback
  <2>2. /\ Len(feed) \in Nat /\ Len(feed') \in Nat /\ Len(feed) <= Len(feed')
        /\ \A i \in 1 .. Len(feed) : feed'[i] = feed[i]
    BY <1>1, FeedSteps DEF FeedOrdered
  <2>3. now \in Nat /\ now' \in Nat /\ now <= now'
    BY <1>1, FeedSteps DEF FeedOrdered
  <2>4. PICK k \in 1 .. Len(feed) : the_update(feed[k], SETTLES) /\ now >= SETTLES
    <3>1. ASSUME NEW e \in endings(posted)
          PROVE  \E i \in 1 .. Len(feed) : the_update(feed[i], SETTLES) /\ now >= SETTLES
      BY <3>1 DEF endings, posted, settles_on, check_settlement_instant, proves_no_settle
    <3> QED
      BY <3>1
  <2>5. now' >= SETTLES
    BY <2>3, <2>4, PriceConstants
  <2>6. k \in 1 .. Len(feed') /\ feed'[k] = feed[k]
    BY <2>2
  <2>7. \A i \in 1 .. Len(feed) : the_update(feed[i], SETTLES) => i = k
    BY <1>1, <2>4, TheOne, PriceConstants
  <2>8. \A i \in 1 .. Len(feed') : the_update(feed'[i], SETTLES) => i = k
    <3>1. \A i, j \in 1 .. Len(feed') :
            i < j => feed'[i].at <= feed'[j].prev
      BY <1>1 DEF FeedOrdered
    <3>2. \A i \in 1 .. Len(feed') : feed'[i] \in Update
      BY <1>1 DEF FeedOrdered
    <3> SUFFICES ASSUME NEW i \in 1 .. Len(feed'), the_update(feed'[i], SETTLES)
                 PROVE  i = k
      OBVIOUS
    <3>3. the_update(feed'[k], SETTLES)
      BY <2>4, <2>6
    <3>4. /\ feed'[i].prev < SETTLES /\ SETTLES <= feed'[i].at
          /\ feed'[k].prev < SETTLES /\ SETTLES <= feed'[k].at
      BY <3>3 DEF the_update
    <3>5. /\ feed'[i].at \in Int /\ feed'[i].prev \in Int
          /\ feed'[k].at \in Int /\ feed'[k].prev \in Int /\ SETTLES \in Int
      BY <3>2, <2>6, PriceConstants, SMTT(30) DEF Update
    <3>6. ~(i < k)
      <4> SUFFICES ASSUME i < k PROVE FALSE
        OBVIOUS
      <4>1. feed'[i].at <= feed'[k].prev
        BY <2>6, <3>1
      <4> QED
        BY <4>1, <3>4, <3>5
    <3>7. ~(k < i)
      <4> SUFFICES ASSUME k < i PROVE FALSE
        OBVIOUS
      <4>1. feed'[k].at <= feed'[i].prev
        BY <2>6, <3>1
      <4> QED
        BY <4>1, <3>4, <3>5
    <3> QED
      BY <3>6, <3>7, <2>2
  <2> DEFINE one == [u |-> feed[k], push |-> FALSE]
             E   == {[status |-> "Settled", price |-> s.u.price] :
                       s \in {r \in {one} : settleable(r.u)}}
                      \union {[status |-> "Void", price |-> NoPrice] :
                       s \in {r \in {one} : ~settleable(r.u)}}
  <2>9. endings(posted) = E
    <3>1. \A s \in posted : the_update(s.u, SETTLES) => s = one
      BY <2>7 DEF posted
    <3>2. one \in posted
      BY DEF posted
    <3>3. \A s \in posted : settles_on(s) <=> s = one /\ settleable(one.u)
      <4>1. \A s \in posted : s.push = FALSE /\ s = [u |-> s.u, push |-> FALSE]
        BY DEF posted
      <4> QED
        BY <2>4, <3>1, <3>2, <4>1 DEF settles_on, settleable, check_settlement_instant
    <3>4. \A s \in posted : proves_no_settle(s.u) <=> s = one /\ ~settleable(one.u)
      BY <2>4, <3>1, <3>2 DEF proves_no_settle
    <3>5. {r \in posted : settles_on(r)} = {r \in {one} : settleable(r.u)}
      BY <3>2, <3>3
    <3>6. {r \in posted : status = "Open" /\ now >= SETTLES /\ proves_no_settle(r.u)}
            = {r \in {one} : ~settleable(r.u)}
      BY <2>4, <3>2, <3>4
    <3> HIDE DEF one
    <3> QED
      BY <3>5, <3>6 DEF endings
  <2>10. endings(posted)' = E
    BY <2>1, <2>4, <2>5, <2>6, <2>8 DEF endings, posted, settles_on, settleable,
         proves_no_settle, check_settlement_instant, gap_allowed
  <2> QED
    BY <2>9, <2>10
<1>2. FeedOrdered /\ FeedOrdered' /\ [Next]_vars => [A]_vars
  BY <1>1
<1>3. Spec => [][A]_vars
  BY <1>2, FeedIsOrdered, PTL DEF Spec
<1> QED
  BY <1>3 DEF EndingStays

-----------------------------------------------------------------------------
(* The keeper in front of it.                                              *)

\* What the keeper is given is printed, and the opening is an instant.
PricesInv == FeedOrdered /\ opens_at \in Int /\ pushed \in 0 .. Len(feed)

LEMMA PricesInvKept == PricesInv /\ [Next]_vars => PricesInv'
<1> SUFFICES ASSUME PricesInv, [Next]_vars PROVE PricesInv'
  OBVIOUS
<1>1. FeedOrdered'
  BY FeedStaysOrdered DEF PricesInv
<1>2. opens_at' \in Int
  <2>1. ASSUME NEW s \in sources, Open(s) PROVE opens_at' \in Int
    BY <2>1 DEF Open, FeedOrdered, PricesInv
  <2> QED BY <2>1 DEF PricesInv, Next, vars, Tick, Publish, Push, Settle, VoidUnopened,
                      VoidProven, VoidFallback
<1>3. pushed' \in 0 .. Len(feed')
  <2>1. Len(feed) \in Nat /\ Len(feed') \in Nat /\ Len(feed) <= Len(feed')
    BY <1>1, FeedSteps DEF FeedOrdered, PricesInv
  <2>2. pushed' = pushed \/ pushed' \in 1 .. Len(feed)
    BY DEF Next, vars, Tick, Publish, Push, Open, Settle, VoidUnopened, VoidProven, VoidFallback
  <2> QED BY <2>1, <2>2 DEF PricesInv
<1> QED BY <1>1, <1>2, <1>3 DEF PricesInv

LEMMA Sources ==
  ASSUME PricesInv
  PROVE  /\ now \in Nat /\ opens_at \in Int
         /\ \A i \in 1 .. Len(feed) : feed[i] \in Update /\ feed[i].at <= now + CLOCK_SKEW
         /\ \A s \in posted : \E i \in 1 .. Len(feed) : s = [u |-> feed[i], push |-> FALSE]
         /\ \A s \in pushPrices : \E i \in 1 .. Len(feed) : s = [u |-> feed[i], push |-> TRUE]
         /\ sources = posted \union pushPrices
<1>1. \A i \in 1 .. Len(feed) : feed[i] \in Update /\ feed[i].at <= now + CLOCK_SKEW
  BY DEF PricesInv, FeedOrdered
<1>2. \A s \in pushPrices : \E i \in 1 .. Len(feed) : s = [u |-> feed[i], push |-> TRUE]
  BY DEF pushPrices, PricesInv, FeedOrdered
<1>3. now \in Nat /\ opens_at \in Int
  BY DEF PricesInv, FeedOrdered
<1> QED BY <1>1, <1>2, <1>3 DEF posted, sources, pushPrices

LEMMA CloseIsInstant == SETTLES \in Int /\ STEP_CONF \in Nat
BY PriceConstants

\* The SDK's reading of an update is the program's.
LEMMA SameRule ==
  ASSUME NEW u \in Update, NEW push \in BOOLEAN, NEW t \in Int, NEW conf \in Nat, NEW expo
  PROVE  settlementProblem([u |-> u, push |-> push], t, conf, expo)
         <=> ~(check_settlement_instant([u |-> u, push |-> push], t, conf) /\ u.expo = expo)
<1>1. CASE push = TRUE
  BY <1>1, PriceConstants DEF settlementProblem, check_settlement_instant, gap_allowed, Update
<1>2. CASE push = FALSE
  BY <1>2, PriceConstants
     DEF settlementProblem, check_settlement_instant, gap_allowed, the_update, Update
<1> QED BY <1>1, <1>2

\* And so is its reading of the round.
LEMMA SameStep ==
  ASSUME PricesInv
  PROVE  /\ nextStep = "open" <=> InOpenWindow
         /\ nextStep = "settle" <=> status = "Open" /\ now >= SETTLES /\ ~may_void_fallback
         /\ nextStep = "void" <=> may_void_unopened \/ may_void_fallback
         /\ opensLate <=> ~on_time
<1>1. now \in Nat /\ opens_at \in Int
  BY Sources
<1> QED BY <1>1, PriceConstants
        DEF nextStep, InOpenWindow, may_void_unopened, may_void_fallback, opensLate, on_time

LEMMA SendsOpen ==
  ASSUME PricesInv, NEW i \in 1 .. Len(feed), NEW push \in BOOLEAN
  PROVE  LET s == [u |-> feed[i], push |-> push] IN sends(s) = "open" <=> opens_on(s)
<1> DEFINE s == [u |-> feed[i], push |-> push]
<1>1. feed[i] \in Update /\ feed[i].at <= now + CLOCK_SKEW /\ now \in Nat /\ opens_at \in Int
  BY Sources
<1>2. InOpenWindow => (~openProblem(s) <=> opens_on(s))
  <2>1. CASE on_time
    <3>1. settlementProblem(s, opens_at, OPEN_CONF, feed[i].expo)
          <=> ~check_settlement_instant(s, opens_at, OPEN_CONF)
      BY <1>1, SameRule, PriceConstants
    <3> QED BY <2>1, <3>1, SameStep DEF openProblem, opens_on
  <2>2. CASE ~on_time
    <3>1. openProblem(s) <=> ~check_live_price(s, OPEN_CONF)
      BY <1>1, <2>2, SameStep, PriceConstants, SMTT(30)
         DEF openProblem, check_live_price, gap_allowed, Update
    <3> QED BY <2>2, <3>1 DEF opens_on
  <2> QED BY <2>1, <2>2
<1>3. sends(s) = "open" <=> nextStep = "open" /\ ~openProblem(s)
  BY DEF sends
<1> QED BY <1>2, <1>3, SameStep DEF opens_on

LEMMA SendsSettle ==
  ASSUME PricesInv, NEW i \in 1 .. Len(feed), NEW push \in BOOLEAN
  PROVE  LET s == [u |-> feed[i], push |-> push]
         IN  sends(s) = "settle" <=> settles_on(s) /\ nextStep # "void"
<1> DEFINE s == [u |-> feed[i], push |-> push]
<1>1. feed[i] \in Update /\ SETTLES \in Int /\ STEP_CONF \in Nat
  BY Sources, CloseIsInstant
<1>2. settlementProblem(s, SETTLES, STEP_CONF, p0_expo)
      <=> ~(check_settlement_instant(s, SETTLES, STEP_CONF) /\ feed[i].expo = p0_expo)
  BY <1>1, SameRule
<1>3. sends(s) = "settle" <=> nextStep = "settle" /\ ~settlementProblem(s, SETTLES, STEP_CONF, p0_expo)
  BY DEF sends
<1>4. nextStep = "settle" <=> status = "Open" /\ now >= SETTLES /\ nextStep # "void"
  BY SameStep DEF may_void_unopened
<1> QED BY <1>2, <1>3, <1>4 DEF settles_on

\* A void is sent with THE update for the close, which cannot settle; no other can.
LEMMA SendsVoid ==
  ASSUME PricesInv, NEW i \in 1 .. Len(feed), NEW push \in BOOLEAN,
         sends([u |-> feed[i], push |-> push]) = "void with proof"
  PROVE  /\ proves_no_settle(feed[i]) /\ push = FALSE
         /\ \A r \in posted : ~settles_on(r)
<1> DEFINE s == [u |-> feed[i], push |-> push]
<1>1. feed[i] \in Update /\ push = FALSE /\ the_update(feed[i], SETTLES)
      /\ settlementProblem(s, SETTLES, STEP_CONF, p0_expo)
  BY Sources DEF sends, voidProof, the_update
<1>2. ~settleable(feed[i])
  <2>1. SETTLES \in Int /\ STEP_CONF \in Nat
    BY CloseIsInstant
  <2>2. settlementProblem([u |-> feed[i], push |-> FALSE], SETTLES, STEP_CONF, p0_expo)
        <=> ~(check_settlement_instant([u |-> feed[i], push |-> FALSE], SETTLES, STEP_CONF)
               /\ feed[i].expo = p0_expo)
    BY <1>1, <2>1, SameRule
  <2> QED BY <1>1, <2>2 DEF settleable
<1>3. ASSUME NEW r \in posted, settles_on(r) PROVE FALSE
  <2>1. PICK j \in 1 .. Len(feed) : r = [u |-> feed[j], push |-> FALSE]
    BY Sources
  <2>2. the_update(feed[j], SETTLES) /\ settleable(feed[j])
    BY <1>3, <2>1 DEF settles_on, settleable, check_settlement_instant
  <2>3. i = j
    <3>1. SETTLES \in Int /\ FeedOrdered
      BY CloseIsInstant DEF PricesInv
    <3> QED BY <1>1, <2>2, <3>1, TheOne
  <2> QED BY <1>2, <2>2, <2>3
<1> QED BY <1>1, <1>2, <1>3 DEF proves_no_settle

\* THE update for an instant is what the price service answers for it.
LEMMA Fetched ==
  ASSUME PricesInv, NEW t \in Int, NEW i \in 1 .. Len(feed), the_update(feed[i], t)
  PROVE  [u |-> feed[i], push |-> FALSE] \in hermes(t)
<1> DEFINE after == {j \in 1 .. Len(feed) : feed[j].at >= t}
<1>1. \A j \in 1 .. Len(feed) : feed[j] \in Update
  BY Sources
<1>2. i \in after
  BY <1>1 DEF the_update, Update
<1>3. \A j \in after : i <= j
  <2> SUFFICES ASSUME NEW j \in after, j < i PROVE FALSE
    BY DEF PricesInv, FeedOrdered
  <2>1. feed[j].at <= feed[i].prev
    BY DEF PricesInv, FeedOrdered
  <2> QED BY <1>1, <2>1, SMTT(30) DEF the_update, Update
<1> QED BY <1>2, <1>3 DEF hermes

LEMMA EndingFetched ==
  ASSUME PricesInv, nextStep = "settle", endings(posted) # {}
  PROVE  \E s \in hermes(asked) : sends(s) \in {"settle", "void with proof"}
<1>1. PICK i \in 1 .. Len(feed) : the_update(feed[i], SETTLES)
  BY DEF endings, posted, settles_on, check_settlement_instant, proves_no_settle
<1> DEFINE s == [u |-> feed[i], push |-> FALSE]
<1>2. asked = SETTLES /\ SETTLES \in Int
  BY PriceConstants DEF asked
<1>3. s \in hermes(asked)
  BY <1>1, <1>2, Fetched
<1>4. settlementProblem(s, SETTLES, STEP_CONF, p0_expo) => voidProof(s)
  BY <1>1 DEF voidProof, the_update
<1>5. sends(s) \in {"settle", "void with proof"}
  BY <1>4 DEF sends
<1> QED BY <1>3, <1>5

LEMMA OpeningFetched ==
  ASSUME PricesInv, nextStep = "open", on_time, openings(posted) # {}
  PROVE  \E s \in hermes(asked) : sends(s) = "open"
<1>1. PICK i \in 1 .. Len(feed) : opens_on([u |-> feed[i], push |-> FALSE])
  BY DEF openings, posted
<1> DEFINE s == [u |-> feed[i], push |-> FALSE]
<1>2. the_update(feed[i], opens_at)
  BY <1>1 DEF opens_on, check_settlement_instant
<1>3. asked = opens_at /\ opens_at \in Int
  BY SameStep, Sources DEF asked
<1>4. s \in hermes(asked)
  BY <1>2, <1>3, Fetched
<1>5. sends(s) = "open"
  BY <1>1, SendsOpen
<1> QED BY <1>4, <1>5

LEMMA LateIsFresh ==
  ASSUME PricesInv, nextStep = "open", opensLate, NEW s \in hermes(asked)
  PROVE  sends(s) = "open" \/ s.u.price <= 0 \/ s.u.conf > OPEN_CONF
<1>1. asked = now - LIVE_LAG
  BY DEF asked
<1>2. PICK i \in 1 .. Len(feed) : s = [u |-> feed[i], push |-> FALSE] /\ feed[i].at >= now - LIVE_LAG
  BY <1>1 DEF hermes
<1>3. feed[i] \in Update /\ feed[i].at <= now + CLOCK_SKEW /\ now \in Nat
  BY Sources
<1>4. openProblem(s) => s.u.price <= 0 \/ s.u.conf > OPEN_CONF
  BY <1>2, <1>3, FetchConstants, PriceConstants DEF openProblem, Update
<1> QED BY <1>4 DEF sends

LEMMA KeeperPosts == PricesInv => KeeperPostsWhatCounts
<1> SUFFICES ASSUME PricesInv PROVE KeeperPostsWhatCounts
  OBVIOUS
<1>1. ASSUME NEW s \in sources
      PROVE  /\ sends(s) = "open" <=> opens_on(s)
             /\ sends(s) = "settle" <=> settles_on(s) /\ nextStep # "void"
             /\ sends(s) = "void with proof" =>
                  proves_no_settle(s.u) /\ \A r \in posted : ~settles_on(r)
  <2>1. PICK i \in 1 .. Len(feed), push \in BOOLEAN : s = [u |-> feed[i], push |-> push]
    BY Sources
  <2>2. sends(s) = "open" <=> opens_on(s)
    BY <2>1, SendsOpen
  <2>3. sends(s) = "settle" <=> settles_on(s) /\ nextStep # "void"
    BY <2>1, SendsSettle
  <2>4. sends(s) = "void with proof" =>
          proves_no_settle(s.u) /\ \A r \in posted : ~settles_on(r)
    BY <2>1, SendsVoid
  <2> QED BY <2>2, <2>3, <2>4
<1>2. ASSUME NEW s \in pushPrices PROVE sends(s) # "void with proof"
  <2>1. PICK i \in 1 .. Len(feed) : s = [u |-> feed[i], push |-> TRUE]
    BY Sources
  <2> QED BY <2>1, SendsVoid
<1> QED BY <1>1, <1>2, SameStep, EndingFetched, OpeningFetched, LateIsFresh DEF KeeperPostsWhatCounts

\* Of any feed, whatever a fetch brings, the keeper sends exactly what the program
\* takes, and the fetch for an instant brings what reaches the ending or the opening
\* there is.
THEOREM KeeperPostsHolds == Spec => []KeeperPostsWhatCounts
<1>1. Init => PricesInv
  BY PriceConstants DEF Init, PricesInv, FeedOrdered
<1> QED BY <1>1, PricesInvKept, KeeperPosts, PTL DEF Spec
=============================================================================
