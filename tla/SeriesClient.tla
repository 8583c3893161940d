---------------------------- MODULE SeriesClient ----------------------------
(***************************************************************************)
(* What everyone outside the program believes of a series: the SDK's       *)
(* mirror of its rules, from which the keeper picks the closes it posts    *)
(* and the app says why a round cannot open.  The mirror is written apart  *)
(* from the program, searches differently, and must come to the same       *)
(* answers in every state a series can get into.                           *)
(***************************************************************************)
EXTENDS Series

CONSTANTS
  SETTLE_LAG,         \* how old a close is before the SDK calls it pending
  BACKFILL            \* how many closes back it starts a new series

ASSUME ClientConstants ==
  /\ SETTLE_LAG \in 0 .. SKIP_AFTER /\ BACKFILL \in Nat \ {0}
  /\ Returns # {}

\* The program's search finds a close also where the clock was when the closes
\* now old enough to pass over were new.
ASSUME MirrorReaches ==
  \A t \in START_NOW - SKIP_AFTER .. MAX_NOW :
    has_round(index_at_or_before(t)) /\ close_of(index_at_or_before(t)) <= t

-----------------------------------------------------------------------------
(* The calendar, by searches of its own.                                   *)

hasRound(i) == i \notin NoRound
\* Local time, less the offset of the day.
closeOf(i) ==
  LET newYorkOffset == IF i \in Winter THEN -SHIFT ELSE 0
  IN  i * SPAN + CLOSE_SECS - newYorkOffset

\* Down from the guess to the first close at or before t, with no limit to
\* the search: it may go below the first index.
indexAtOrBefore(t) ==
  LET guess == (t - CLOSE_SECS) \div SPAN + 1
  IN  Max({i \in guess - LOOK_BACK - Cardinality(NoRound) .. guess :
             closeOf(i) <= t /\ hasRound(i)})

indexOfClose(at) ==
  LET guess == (at - CLOSE_SECS) \div SPAN
  IN  {i \in {guess, guess + 1, guess - 1} : i >= 0 /\ closeOf(i) = at}

roundAfter(i)  == Min({j \in i + 1 .. i + 1 + Cardinality(NoRound) : hasRound(j)})
roundBefore(last, i) == Max({last} \union {j \in last + 1 .. i - 1 : hasRound(j)})

\* n rounds back, stopping at zero.
roundsBack(i, n) ==
  LET rounds(j) == Cardinality({k \in j .. i - 1 : hasRound(k)})
  IN  IF i <= 0 \/ rounds(0) < n THEN Min({i, 0})
      ELSE Max({j \in 0 .. i : rounds(j) = n})

seriesFrontier == roundsBack(indexAtOrBefore(now), WARMUP)
restartTarget ==
  Min({seriesFrontier, roundAfter(indexAtOrBefore(now - SKIP_AFTER))})

-----------------------------------------------------------------------------
(* The rules.                                                              *)

warmedUp == series.observations >= WARMUP /\ series.var_wad > 0
mayStart(i) == closeOf(i) >= now - BACKFILL_WINDOW /\ i <= seriesFrontier

\* Nothing learned yet, and no jump to keep to: an earlier close may be taken.
unlearned == series.observations = 0
cold == series.observations = 0 /\ series.var_wad >= 0

mayJump_if_old(l, i) ==
  /\ closeOf(roundBefore(l, i)) <= now - SKIP_AFTER
  /\ warmedUp \/ closeOf(i) >= now - BACKFILL_WINDOW
mayJump(l, i) ==
  /\ closeOf(roundBefore(l, i)) <= now - SKIP_AFTER
  /\ warmedUp \/ (closeOf(i) >= now - BACKFILL_WINDOW /\ i = restartTarget)

mayObserve(i) ==
  /\ hasRound(i) /\ closeOf(i) <= now
  /\ LET last == IF series.last_at > 0 THEN indexOfClose(series.last_at) ELSE {}
     IN  IF last = {} THEN mayStart(i)
         ELSE \E l \in last : \/ i < l /\ cold /\ mayStart(i)
                              \/ i > l /\ (i = roundAfter(l) \/ mayJump(l, i))

\* The closes still to be learned, as a set; the SDK lists them oldest first,
\* so many at a time.  A series that has learned nothing starts BACKFILL rounds
\* and a day back, past a close it may already be anchored on.
pendingObservations ==
  LET latest == indexAtOrBefore(now - SETTLE_LAG)
      floor  == latest - 3 * BACKFILL
      last_n == {j \in floor + 1 .. latest :
                   hasRound(j) /\ Cardinality({k \in j + 1 .. latest : hasRound(k)}) < BACKFILL}
      from   == IF Cardinality(last_n) = BACKFILL THEN Min(last_n) - 1 ELSE floor
      due    == IF cold THEN {i \in from .. latest : hasRound(i)}
                ELSE {i \in indexAtOrBefore(series.last_at) + 1 .. latest :
                        hasRound(i) /\ closeOf(i) > series.last_at}
  IN  IF cold /\ due # {} /\ closeOf(Min(due)) = series.last_at
      THEN due \ {Min(due)} ELSE due

behind_always(opensAt, late) == series.last_at < closeOf(indexAtOrBefore(now))
\* Has it missed the latest close, other than the one an opening on time
\* teaches it?
behind(opensAt, late) ==
  LET prev == closeOf(indexAtOrBefore(now))
  IN  series.last_at < prev /\ (late \/ prev # opensAt)

\* Why the program would refuse an opening for its series' sake.
openBlocked(opensAt, late) == ~warmedUp \/ (DAILY /\ behind(opensAt, late))

-----------------------------------------------------------------------------
\* The SDK and the program agree on every close anyone could post: the keeper
\* neither pays for a refused observation nor leaves one out that it could
\* post, in whatever order and however late a series was taught.
MirrorObserves ==
  \A i \in Indices : mayObserve(i) <=> may_observe(i)

\* What the SDK says of an opening on time is what the program does, but for
\* two states it does not look into: a series one return short that this very
\* opening would warm up, and one behind by an earlier close than the one the
\* opening teaches.  In the first a keeper waits in vain, in the second it
\* pays for a refusal.
BlockerIsRefusal ==
  \A i \in Indices \intersect Teaching :
    closeOf(i) <= now /\ now < closeOf(i) + OPEN_ON_TIME =>
      LET after == IF may_observe(i) THEN taught(i) \union moved(i) ELSE {series}
          opens == \E s \in after : may_open(s)
          warms == may_observe(i) /\ series.observations = WARMUP - 1
          missed == \E j \in Indices : hasRound(j) /\ j < i /\ series.last_at < closeOf(j)
      IN  IF openBlocked(closeOf(i), FALSE) THEN opens => warms ELSE opens \/ missed

\* Posting the oldest pending close is always progress: for a series that has
\* been started it is the close it is due next, and one it may take.
PendingIsDue ==
  Anchored /\ ~may_go_back(series) /\ pendingObservations # {}
    => LET i == Min(pendingObservations)
       IN  i = next_round(Max(taken)) /\ may_observe(i)

\* The mirror can be relied on in every state a series gets into.
MirrorAgrees == MirrorObserves /\ BlockerIsRefusal /\ PendingIsDue
=============================================================================
