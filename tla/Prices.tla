------------------------------- MODULE Prices -------------------------------
(***************************************************************************)
(* Which price opens a round, and which one ends it.  A feed prints        *)
(* updates, several in one second; anybody may post any printed update,    *)
(* at any time after, to any instruction; and Pyth's push account holds    *)
(* one of them, moved forward by anyone.  The round's money is Ladder's.   *)
(*                                                                         *)
(* All updates here are of the round's feed and fully verified: others are *)
(* refused before anything else is looked at.  A series that is not yet    *)
(* warmed up or caught up only makes an opening fail.                      *)
(***************************************************************************)
EXTENDS Integers, Sequences

CONSTANTS
  Prints,             \* what an update may say: records [price, conf, expo]
  OPENS, LOCKS, SETTLES,         \* the round's schedule as it was started
  OPEN_ON_TIME, OPEN_WINDOW,     \* from opens_at: on time, and openable at all
  SETTLE_MAX_GAP,     \* how late the update for an instant may be
  PUSH_MAX_GAP,       \* the same for the push account's
  VOID_FALLBACK,      \* voidable without proof this long after the close
  OPEN_CONF, STEP_CONF,          \* the confidence asked at the opening, the close
  CLOCK_SKEW,         \* how far ahead of the chain's clock a live update may be
  MAX_UPDATES, MAX_NOW           \* bounds on the feed and the clock

ASSUME PriceConstants ==
  /\ Prints \subseteq [price : Int, conf : Nat, expo : Int]
  /\ OPENS \in Nat /\ LOCKS \in Nat /\ SETTLES \in Nat
  /\ OPENS < LOCKS /\ LOCKS < SETTLES
  /\ OPEN_ON_TIME \in Nat /\ OPEN_WINDOW \in Nat
  /\ SETTLE_MAX_GAP \in Nat /\ PUSH_MAX_GAP \in Nat /\ SETTLE_MAX_GAP <= PUSH_MAX_GAP
  /\ VOID_FALLBACK \in Nat /\ OPEN_CONF \in Nat /\ STEP_CONF \in Nat
  /\ CLOCK_SKEW \in Nat
  /\ MAX_UPDATES \in Nat /\ MAX_NOW \in Nat

VARIABLES
  now,
  feed,               \* everything printed so far, in order
  pushed,             \* index of the update the push account holds; 0 for none
  status, opens_at,
  p0, p0_expo,        \* the price the grid is centred on
  final               \* the price the round settled at

vars == <<now, feed, pushed, status, opens_at, p0, p0_expo, final>>

Update == [at : Nat, prev : Int, price : Int, conf : Nat, expo : Int]

Init ==
  /\ now = 0 /\ feed = <<>> /\ pushed = 0
  /\ status = "Seeding" /\ opens_at = OPENS
  /\ p0 = 0 /\ p0_expo = 0 /\ final = 0

Tick ==
  /\ now < MAX_NOW /\ now' = now + 1
  /\ UNCHANGED <<feed, pushed, status, opens_at, p0, p0_expo, final>>

last_at == IF feed = <<>> THEN -1 ELSE feed[Len(feed)].at

\* Each update carries the time of the one before it.  The feed's clock may be
\* ahead of the chain's.
Publish(print, at) ==
  /\ Len(feed) < MAX_UPDATES
  /\ last_at <= at /\ now <= at /\ at <= now + CLOCK_SKEW
  /\ feed' = Append(feed, [at |-> at, prev |-> last_at, price |-> print.price,
                           conf |-> print.conf, expo |-> print.expo])
  /\ UNCHANGED <<now, pushed, status, opens_at, p0, p0_expo, final>>

held_at == IF pushed = 0 THEN -1 ELSE feed[pushed].at

\* The push oracle takes only an update newer than the one it holds.
Push(i) ==
  /\ held_at < feed[i].at
  /\ pushed' = i
  /\ UNCHANGED <<now, feed, status, opens_at, p0, p0_expo, final>>

posted == {[u |-> feed[i], push |-> FALSE] : i \in 1 .. Len(feed)}
sources ==
  posted \union (IF pushed = 0 THEN {} ELSE {[u |-> feed[pushed], push |-> TRUE]})

-----------------------------------------------------------------------------
(* The price for an instant.                                               *)

the_update_or_same_second(u, t) == u.prev <= t /\ t <= u.at
\* The first update at or after t: one of several in that second.
the_update(u, t) == u.prev < t /\ t <= u.at

gap_allowed(push) == IF push THEN PUSH_MAX_GAP ELSE SETTLE_MAX_GAP

check_settlement_instant(s, t, conf) ==
  /\ IF s.push THEN t <= s.u.at ELSE the_update(s.u, t)
  /\ s.u.at - t <= gap_allowed(s.push)
  /\ s.u.price > 0 /\ s.u.conf <= conf

check_live_price(s, conf) ==
  /\ now - s.u.at >= -CLOCK_SKEW /\ now - s.u.at <= gap_allowed(s.push)
  /\ s.u.price > 0 /\ s.u.conf <= conf

-----------------------------------------------------------------------------
(* Opening.                                                                *)

on_time == now < opens_at + OPEN_ON_TIME
InOpenWindow ==
  /\ status = "Seeding"
  /\ opens_at <= now /\ now < opens_at + OPEN_WINDOW /\ now < LOCKS

opens_on(s) ==
  /\ InOpenWindow
  /\ IF on_time THEN check_settlement_instant(s, opens_at, OPEN_CONF)
                ELSE check_live_price(s, OPEN_CONF)

\* On time the round opens on the price for opens_at; late, on a live price,
\* and then it starts now.
Open(s) ==
  /\ opens_on(s)
  /\ opens_at' = IF on_time THEN opens_at ELSE now
  /\ p0' = s.u.price /\ p0_expo' = s.u.expo /\ status' = "Open"
  /\ UNCHANGED <<now, feed, pushed, final>>

-----------------------------------------------------------------------------
(* Ending.                                                                 *)

settles_on(s) ==
  /\ status = "Open" /\ now >= SETTLES
  /\ check_settlement_instant(s, SETTLES, STEP_CONF) /\ s.u.expo = p0_expo

Settle(s) ==
  /\ settles_on(s)
  /\ status' = "Settled" /\ final' = s.u.price
  /\ UNCHANGED <<now, feed, pushed, opens_at, p0, p0_expo>>

\* The proof that a round cannot settle is THE update for its close, failing
\* the rule for a posted one, whichever account it is read from.
settleable(u) ==
  check_settlement_instant([u |-> u, push |-> FALSE], SETTLES, STEP_CONF) /\ u.expo = p0_expo
proves_no_settle(u) == the_update(u, SETTLES) /\ ~settleable(u)

may_void_unopened == status = "Seeding" /\ (now >= opens_at + OPEN_WINDOW \/ now >= LOCKS)
may_void_fallback == status = "Open" /\ now >= SETTLES + VOID_FALLBACK

VoidUnopened ==
  /\ may_void_unopened
  /\ status' = "Void" /\ UNCHANGED <<now, feed, pushed, opens_at, p0, p0_expo, final>>
VoidProven(s) ==
  /\ status = "Open" /\ now >= SETTLES /\ proves_no_settle(s.u)
  /\ status' = "Void" /\ UNCHANGED <<now, feed, pushed, opens_at, p0, p0_expo, final>>
VoidFallback ==
  /\ may_void_fallback
  /\ status' = "Void" /\ UNCHANGED <<now, feed, pushed, opens_at, p0, p0_expo, final>>

-----------------------------------------------------------------------------
Next ==
  \/ Tick
  \/ \E print \in Prints, at \in now .. now + CLOCK_SKEW : Publish(print, at)
  \/ \E i \in 1 .. Len(feed) : Push(i)
  \/ \E s \in sources : Open(s)
  \/ \E s \in sources : Settle(s)
  \/ VoidUnopened
  \/ \E s \in sources : VoidProven(s)
  \/ VoidFallback

Spec == Init /\ [][Next]_vars

-----------------------------------------------------------------------------
(* What a caller may choose.                                               *)

openings(S) == {[price |-> s.u.price, expo |-> s.u.expo] : s \in {r \in S : opens_on(r)}}

\* The endings within a caller's choice: settling at a price, and voiding.
NoPrice == 0
endings(S) ==
  {[status |-> "Settled", price |-> s.u.price] : s \in {r \in S : settles_on(r)}}
    \union
  {[status |-> "Void", price |-> NoPrice] :
     s \in {r \in S : status = "Open" /\ now >= SETTLES /\ proves_no_settle(r.u)}}

\* Whoever opens a round on time from posted updates, and whenever in those
\* minutes, it opens on the same price.
OneOpening == on_time => \A a, b \in openings(posted) : a = b

\* Of all the updates a feed prints, however many in the second of the close,
\* the posted ones leave a caller one ending: settle at one price, or void.
OneEnding == \A a, b \in endings(posted) : a = b

\* And once there is one it stays the one for as long as the round is open,
\* whatever is printed afterwards: waiting buys nothing.
EndingStays ==
  [][status = "Open" /\ status' = "Open" /\ endings(posted) # {}
       => endings(posted)' = endings(posted)]_vars

\* The documents' claim of all updates: "While a valid update exists, only
\* settling is possible, so a losing trader can never void a round that could
\* settle" (void_handler), before the week-long fallback.
OnlySettling ==
  (\E s \in sources : settles_on(s)) =>
    ~ \E s \in sources : status = "Open" /\ now >= SETTLES /\ proves_no_settle(s.u)

-----------------------------------------------------------------------------
\* What the promises rest on: time and the feed only move forward, and each
\* update but the first starts where the one before it stopped.
FeedOrdered ==
  /\ now \in Nat /\ feed \in Seq(Update)
  /\ \A i \in 1 .. Len(feed) : feed[i].prev <= feed[i].at /\ feed[i].at <= now + CLOCK_SKEW
  /\ \A i, j \in 1 .. Len(feed) : i < j => feed[i].at <= feed[j].prev
=============================================================================
