---------------------------- MODULE PricesClient ----------------------------
(***************************************************************************)
(* The keeper in front of a price: what a fetch brings back, why the       *)
(* program would refuse it, and what the pass then sends.  A refused       *)
(* instruction costs a posted price account and the step's backoff; a void *)
(* sent with proof ends the round.                                         *)
(***************************************************************************)
EXTENDS Prices

CONSTANT LIVE_LAG      \* a late opening asks for an update from this long ago

ASSUME FetchConstants == LIVE_LAG \in Nat /\ LIVE_LAG <= SETTLE_MAX_GAP

-----------------------------------------------------------------------------
(* The SDK's mirror of the program's rules.                                *)

nextStep ==
  IF status = "Seeding"
  THEN IF now >= opens_at + OPEN_WINDOW \/ now >= LOCKS THEN "void"
       ELSE IF now >= opens_at THEN "open" ELSE "none"
  ELSE IF status # "Open" THEN "none"
  ELSE IF now >= SETTLES + VOID_FALLBACK THEN "void"
  ELSE IF now >= SETTLES THEN "settle" ELSE "none"

opensLate == now >= opens_at + OPEN_ON_TIME

settlementProblem_same_second(s, t, conf, expo) ==
  \/ IF s.push THEN s.u.at < t \/ s.u.at - t > PUSH_MAX_GAP
     ELSE ~(s.u.prev <= t /\ t <= s.u.at) \/ s.u.at - t > SETTLE_MAX_GAP
  \/ s.u.price <= 0 \/ s.u.conf > conf \/ s.u.expo # expo
\* Why the program would refuse s as the price for t; here, whether.
settlementProblem(s, t, conf, expo) ==
  \/ IF s.push THEN s.u.at < t \/ s.u.at - t > PUSH_MAX_GAP
     ELSE ~(s.u.prev < t /\ t <= s.u.at) \/ s.u.at - t > SETTLE_MAX_GAP
  \/ s.u.price <= 0 \/ s.u.conf > conf \/ s.u.expo # expo

openProblem(s) ==
  IF ~opensLate THEN settlementProblem(s, opens_at, OPEN_CONF, s.u.expo)
  ELSE LET age    == now - s.u.at
           maxAge == IF s.push THEN PUSH_MAX_GAP ELSE SETTLE_MAX_GAP
       IN  age > maxAge \/ age < -CLOCK_SKEW \/ s.u.price <= 0 \/ s.u.conf > OPEN_CONF

voidProof(s) ==
  /\ ~s.push
  /\ s.u.prev < SETTLES /\ SETTLES <= s.u.at
  /\ settlementProblem(s, SETTLES, STEP_CONF, p0_expo)

-----------------------------------------------------------------------------
(* The keeper's pass over one round.                                       *)

\* What the price service answers for an instant: the first update at or after
\* it, if it has been printed; and what the push account answers.
hermes(at) ==
  LET after == {i \in 1 .. Len(feed) : feed[i].at >= at}
      first == {i \in after : \A j \in after : i <= j}
  IN  {[u |-> feed[i], push |-> FALSE] : i \in first}
pushPrices == IF pushed = 0 THEN {} ELSE {[u |-> feed[pushed], push |-> TRUE]}

asked == IF nextStep # "open" THEN SETTLES ELSE IF opensLate THEN now - LIVE_LAG ELSE opens_at

\* What is sent on a fetched update: the instruction, a void with the update as
\* proof, or nothing yet.
sends(s) ==
  IF nextStep = "open" THEN IF openProblem(s) THEN "nothing" ELSE "open"
  ELSE IF nextStep # "settle" THEN "nothing"
  ELSE IF ~settlementProblem(s, SETTLES, STEP_CONF, p0_expo) THEN "settle"
  ELSE IF voidProof(s) THEN "void with proof" ELSE "nothing"

-----------------------------------------------------------------------------
\* Whatever a fetch brings back, fresh, late or from the push account, the
\* keeper sends exactly what the program takes: it pays for no refusal, and it
\* voids no round that any posted update could still settle.  And when there is
\* an ending to be had from posted updates, or an opening on time, the one
\* update a fetch of that instant brings is enough to reach it; a late opening is
\* never asked for with an update already too old.
KeeperPostsWhatCounts ==
  /\ \A s \in sources :
       /\ sends(s) = "open" <=> opens_on(s)
       /\ sends(s) = "settle" <=> settles_on(s) /\ nextStep # "void"
       /\ sends(s) = "void with proof" =>
            proves_no_settle(s.u) /\ \A r \in posted : ~settles_on(r)
  /\ nextStep = "void" <=> may_void_unopened \/ may_void_fallback
  /\ nextStep = "settle" /\ endings(posted) # {} =>
       \E s \in hermes(asked) : sends(s) \in {"settle", "void with proof"}
  /\ nextStep = "open" /\ on_time /\ openings(posted) # {} =>
       \E s \in hermes(asked) : sends(s) = "open"
  /\ nextStep = "open" /\ opensLate =>
       \A s \in hermes(asked) : sends(s) = "open" \/ s.u.price <= 0 \/ s.u.conf > OPEN_CONF
  /\ \A s \in pushPrices : sends(s) # "void with proof"
=============================================================================
