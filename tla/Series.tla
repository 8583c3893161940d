------------------------------- MODULE Series -------------------------------
(***************************************************************************)
(* What a series knows of how its anchor moves, and who may teach it what. *)
(* Anyone may bring the price of any past close; the series takes closes   *)
(* in order, learns a return from each good one, and needs WARMUP returns  *)
(* before its rounds may open.  Some closes can never be posted, so a      *)
(* series may jump over old ones: warm, it learns on; cold, its warm-up    *)
(* starts again where it lands.                                            *)
(*                                                                         *)
(* Rounds appear only as the openings and settlements that teach a series  *)
(* or lean on it; their money is Ladder's, their prices are Prices'.       *)
(***************************************************************************)
EXTENDS Integers, Sequences, FiniteSets, FiniteSetsExt

CONSTANTS
  SPAN,               \* a day, or the period of a series on a fast clock
  CLOSE_SECS,         \* the close, from local midnight or into the period
  Winter, SHIFT,      \* the days closing an hour later on the UTC clock
  NoRound,            \* weekends and holidays: indices without a round
  LOOK_BACK,          \* how many indices the search for the latest close tries
  WARMUP,             \* returns to learn before the first round
  SKIP_AFTER,         \* a close this old may be passed over
  BACKFILL_WINDOW,    \* how far back a series may start
  OPEN_ON_TIME,       \* an opening this soon teaches the close it opens at
  DAILY,              \* one round a day, rather than a period
  POOL_FED,           \* fed by a pool rather than by Pyth
  VAR_MIN, VAR_MAX, VAR_KEEP_NUM, VAR_KEEP_DEN,
  Returns,            \* squared daily returns a close may show
  Teaching,           \* closes a good price can be posted for
  Moving,             \* and a poor one, or a good one on another exponent
  START_NOW, MAX_NOW  \* bounds on the clock

ASSUME SeriesConstants ==
  /\ SPAN \in Nat \ {0} /\ CLOSE_SECS \in Nat \ {0} /\ SHIFT \in Nat /\ SHIFT < SPAN
  /\ Winter \subseteq Nat /\ NoRound \subseteq Nat /\ IsFiniteSet(NoRound)
  /\ LOOK_BACK \in Nat \ {0, 1} /\ WARMUP \in Nat \ {0}
  /\ SKIP_AFTER \in Nat \ {0} /\ BACKFILL_WINDOW \in Nat /\ OPEN_ON_TIME \in Nat
  /\ DAILY \in BOOLEAN /\ POOL_FED \in BOOLEAN
  /\ VAR_MIN \in Nat \ {0} /\ VAR_MAX \in Nat /\ VAR_MIN <= VAR_MAX
  /\ VAR_KEEP_DEN \in Nat \ {0} /\ VAR_KEEP_NUM \in 0 .. VAR_KEEP_DEN
  /\ Returns \subseteq Nat /\ Teaching \subseteq Nat /\ Moving \subseteq Nat
  /\ START_NOW \in Nat /\ MAX_NOW \in Nat /\ START_NOW <= MAX_NOW

VARIABLES
  now,
  series,             \* [last_at, observations, var_wad], as the account has it
  opened,             \* has a round opened in this second?
  taken,              \* closes taken since the series started, or restarted
  restarts            \* when its warm-up was started again

vars == <<now, series, opened, taken, restarts>>

-----------------------------------------------------------------------------
(* The calendar.                                                           *)

has_round(i) == i \notin NoRound
close_of(i)  == i * SPAN + CLOSE_SECS + (IF i \in Winter THEN SHIFT ELSE 0)

guess_of(t) == (t - CLOSE_SECS) \div SPAN

\* The index that closes at `at`, as a set of at most one.
index_of(at) ==
  {i \in guess_of(at) - 1 .. guess_of(at) + 1 : i >= 0 /\ close_of(i) = at}

Lesser(a, b) == IF a <= b THEN a ELSE b

\* The latest index with a round whose close is at or before t, or where the
\* search gives up.
index_at_or_before(t) ==
  LET from == IF guess_of(t) + 1 > 0 THEN guess_of(t) + 1 ELSE 0
      last == IF from > LOOK_BACK THEN from - LOOK_BACK ELSE 0
  IN  Max({last} \union {i \in last .. from : close_of(i) <= t /\ has_round(i)})

next_round(i) ==
  Min({j \in i + 1 .. i + 1 + Cardinality(NoRound) : has_round(j)})

\* The index n rounds before i, or the first of all.
rounds_back(i, n) ==
  LET before == {j \in 0 .. i - 1 : has_round(j)}
  IN  IF Cardinality(before) < n THEN 0
      ELSE CHOOSE j \in before : Cardinality({k \in before : k >= j}) = n

\* Where a new series would start now: WARMUP rounds back.
frontier == rounds_back(index_at_or_before(now), WARMUP)

\* The one close a series still warming up may jump to: no later than the
\* frontier, just past a close old enough to pass over.
restart_target ==
  Lesser(frontier, next_round(index_at_or_before(now - SKIP_AFTER)))

\* At any time of this clock the search finds a close, with a warm-up before it.
ASSUME CalendarReaches ==
  \A t \in START_NOW .. MAX_NOW :
    LET latest == index_at_or_before(t)
    IN  /\ has_round(latest) /\ close_of(latest) <= t
        /\ WARMUP <= Cardinality({j \in 0 .. latest - 1 : has_round(j)})

-----------------------------------------------------------------------------
(* The account.                                                            *)

RESTARTED == -1
restarted(s) == s.var_wad < 0
variance(s)  == IF s.var_wad > 0 THEN s.var_wad ELSE 0
warmed_up(s) == s.observations >= WARMUP /\ s.var_wad > 0

\* A jump by a series still warming up, past the close it was due.
restarts_at(s, at) ==
  /\ ~warmed_up(s) /\ s.last_at > 0 /\ at > s.last_at
  /\ \E last \in index_of(s.last_at), i \in index_of(at) : i # next_round(last)

restart_unmarked(s, at) == [last_at |-> at, observations |-> 0, var_wad |-> 0]
restart(s, at) == [last_at |-> at, observations |-> 0, var_wad |-> RESTARTED]

\* Only until the first return, and never after a restart, may an earlier
\* close take the place of the last.
may_go_back(s) == s.observations = 0 /\ ~restarted(s)

rebase(s, at) ==
  IF restarts_at(s, at) THEN restart(s, at)
  ELSE IF at > s.last_at \/ may_go_back(s) THEN [s EXCEPT !.last_at = at]
  ELSE s

clamp_above(v) == IF v > VAR_MAX THEN VAR_MAX ELSE v
clamp(v) == IF v < VAR_MIN THEN VAR_MIN ELSE IF v > VAR_MAX THEN VAR_MAX ELSE v

\* The variance with one more return: a plain average while warming up, then
\* weighted.
learned(s, ret) ==
  LET n  == s.observations
      r2 == Lesser(ret, VAR_MAX)
  IN  clamp(IF n < WARMUP THEN (variance(s) * n + r2) \div (n + 1)
            ELSE (VAR_KEEP_NUM * variance(s) + (VAR_KEEP_DEN - VAR_KEEP_NUM) * r2)
                   \div VAR_KEEP_DEN)

\* A good price for the close at `at`, on the exponent of the last.  (On another
\* it moves the series on, as rebase does.)
observe(s, at, ret) ==
  IF at = s.last_at THEN s
  ELSE IF at < s.last_at
    THEN IF may_go_back(s) THEN [s EXCEPT !.last_at = at] ELSE s
  ELSE IF restarts_at(s, at) THEN restart(s, at)
  ELSE IF s.last_at = 0 THEN [s EXCEPT !.last_at = at]
  ELSE [last_at |-> at, observations |-> s.observations + 1, var_wad |-> learned(s, ret)]

-----------------------------------------------------------------------------
(* Which close may be taken now.                                           *)

last_index == IF series.last_at > 0 THEN index_of(series.last_at) ELSE {}

may_start_late(i) == close_of(i) >= now - BACKFILL_WINDOW
may_start(i) == close_of(i) >= now - BACKFILL_WINDOW /\ i <= frontier

round_before(last, i) == Max({last} \union {j \in last + 1 .. i - 1 : has_round(j)})

may_jump_timely(last, i) ==
  warmed_up(series) \/ (close_of(i) >= now - BACKFILL_WINDOW /\ i = restart_target)
may_jump_anywhere(last, i) ==
  /\ close_of(round_before(last, i)) <= now - SKIP_AFTER
  /\ warmed_up(series) \/ may_start(i)
may_jump_if_warm(last, i) ==
  close_of(round_before(last, i)) <= now - SKIP_AFTER /\ warmed_up(series)
\* A jump, only over closes so old that they may not be postable any more; and
\* cold, only to the one close.
may_jump(last, i) ==
  /\ close_of(round_before(last, i)) <= now - SKIP_AFTER
  /\ \/ warmed_up(series)
     \/ close_of(i) >= now - BACKFILL_WINDOW /\ i = restart_target

may_observe(i) ==
  /\ has_round(i) /\ close_of(i) <= now
  /\ IF last_index = {} THEN may_start(i)
     ELSE \E last \in last_index :
            \/ i < last /\ may_go_back(series) /\ may_start(i)
            \/ i > last /\ (i = next_round(last) \/ may_jump(last, i))

-----------------------------------------------------------------------------
Init ==
  /\ now = START_NOW
  /\ series = [last_at |-> 0, observations |-> 0, var_wad |-> 0]
  /\ opened = FALSE /\ taken = {} /\ restarts = <<>>

Tick ==
  /\ now < MAX_NOW /\ now' = now + 1 /\ opened' = FALSE
  /\ UNCHANGED <<series, taken, restarts>>

\* What taking close i makes of the series, with the prices there are for it.
taught(i) ==
  IF i \in Teaching THEN {observe(series, close_of(i), ret) : ret \in Returns} ELSE {}
moved(i) ==
  IF i \in Moving THEN {rebase(series, close_of(i))} ELSE {}

\* History only: the closes since the series' start.
Remember(i) ==
  IF restarts_at(series, close_of(i))
  THEN taken' = {i} /\ restarts' = Append(restarts, now)
  ELSE /\ restarts' = restarts
       /\ taken' = IF close_of(i) < series.last_at THEN {i} ELSE taken \union {i}

\* Anyone's close, from its Pyth update.
SeriesObserve(i) ==
  /\ may_observe(i)
  /\ series' \in taught(i) \union moved(i) /\ Remember(i)
  /\ UNCHANGED <<now, opened>>

\* The settlement of round i teaches its close, if that may be taken; it
\* settles either way.
Settle(i) ==
  /\ has_round(i) /\ close_of(i) <= now /\ i \in Teaching \union Moving
  /\ IF may_observe(i)
     THEN series' \in taught(i) \union moved(i) /\ Remember(i)
     ELSE UNCHANGED <<series, taken, restarts>>
  /\ UNCHANGED <<now, opened>>

caught_up_always(s) == TRUE
\* Has it taken the latest close before now?
caught_up(s) == DAILY => s.last_at >= close_of(index_at_or_before(now))
\* Is the series fit to size a round's bands?
may_open(s) == warmed_up(s) /\ caught_up(s)

\* A round whose opening is not a close, or late: it teaches nothing.
Open ==
  /\ may_open(series) /\ opened' = TRUE
  /\ UNCHANGED <<now, series, taken, restarts>>

\* A round opening on time at close i, on a good price, teaches it, if that may
\* be taken, and then leans on what it taught; on another exponent the price
\* only moves the series on.
OpenAtClose(i) ==
  /\ i \in Teaching /\ close_of(i) <= now /\ now < close_of(i) + OPEN_ON_TIME
  /\ IF may_observe(i)
     THEN series' \in taught(i) \union moved(i) /\ Remember(i)
     ELSE UNCHANGED <<series, taken, restarts>>
  /\ may_open(series') /\ opened' = TRUE
  /\ UNCHANGED now

\* The authority's one measurement for a pool, whose history is too short to
\* learn from: from the latest close, warm at once.
SeriesSeed(var_wad) ==
  LET i == index_at_or_before(now)
  IN  /\ POOL_FED /\ ~warmed_up(series)
      /\ series' = [last_at |-> close_of(i), observations |-> WARMUP,
                    var_wad |-> clamp(var_wad)]
      /\ taken' = {i}
      /\ UNCHANGED <<now, opened, restarts>>

Indices == 0 .. MAX_NOW \div SPAN

Next ==
  \/ Tick
  \/ \E i \in Indices : SeriesObserve(i)
  \/ \E i \in Indices : Settle(i)
  \/ Open
  \/ \E i \in Indices : OpenAtClose(i)
  \/ \E ret \in Returns : SeriesSeed(ret)

Spec == Init /\ [][Next]_vars

\* What the keeper may post and the program would take: the closes after where
\* the series stands, and only failing them an earlier start.
learnCandidates ==
  LET open_to_it == {i \in (Teaching \union Moving) \intersect Indices : may_observe(i)}
      walk       == {i \in open_to_it : close_of(i) > series.last_at}
  IN  IF walk # {} THEN walk ELSE open_to_it

\* Always the oldest of them.
KeeperLearns ==
  \E i \in learnCandidates : (\A j \in learnCandidates : i <= j) /\ SeriesObserve(i)

\* A pass posts many closes in a row: nobody takes a series back between two of
\* them for ever, so what it could teach it teaches in the end.
Fairness ==
  /\ WF_vars(Tick) /\ WF_vars(KeeperLearns)
  /\ SF_vars(KeeperLearns /\ series'.observations > series.observations)
LiveSpec == Spec /\ Fairness

-----------------------------------------------------------------------------
Anchored == series.last_at > 0
Cold == ~warmed_up(series)
RoundsIn(a, b) == {i \in a .. b : has_round(i)}

\* A variance is a real one, none yet, or the mark of a restart; and the last
\* close is one that has a round and is past.
TypeOK ==
  /\ now \in START_NOW .. MAX_NOW /\ opened \in BOOLEAN
  /\ series.observations \in Nat
  /\ series.var_wad \in {RESTARTED, 0} \union VAR_MIN .. VAR_MAX
  /\ series.observations > 0 <=> series.var_wad > 0
  /\ taken \subseteq Indices
  /\ IF Anchored
     THEN /\ series.last_at <= now
          /\ \E i \in index_of(series.last_at) : has_round(i) /\ i = Max(taken)
     ELSE taken = {}
  /\ \A k \in DOMAIN restarts : restarts[k] \in START_NOW .. now

\* "Nobody chooses which days a series learns from": since its start a series
\* still warming up has taken every close, each counted once at most; and a
\* warm one has passed over nothing that was not SKIP_AFTER old.
NoHoles ==
  LET passed == RoundsIn(Min(taken), Max(taken)) \ taken
  IN  Anchored =>
        /\ Cold => passed = {} /\ series.observations < Cardinality(taken)
        /\ \A i \in passed : close_of(i) <= now - SKIP_AFTER

\* A start, or a restart, is never too late to be warm by now: a cold series
\* always has WARMUP closes after its first, taken or ready to take.
WarmByNow ==
  Anchored /\ Cold =>
    Cardinality({i \in Indices : i > Min(taken) /\ has_round(i) /\ close_of(i) <= now})
      >= WARMUP

\* What is learned is not unlearned: once it has a return, or was restarted,
\* a series never goes back to an earlier close, and warm it stays warm.
NeverBack ==
  [][/\ series.observations > 0 \/ restarts # <<>> => series'.last_at >= series.last_at
     /\ warmed_up(series) => warmed_up(series')]_vars

\* Nobody holds a series cold by restarting it: between two restarts at least
\* a day goes by in which nobody takes it forward.
RestartsApart ==
  \A k \in 2 .. Len(restarts) : restarts[k] - restarts[k - 1] > SPAN - SHIFT

\* A daily round opens on a volatility that counts the move of every close of
\* the past week since the series' start, the latest one included.
OpensInformed ==
  opened /\ DAILY =>
    \A i \in Indices :
      has_round(i) /\ i >= Min(taken) /\ now - SKIP_AFTER < close_of(i) /\ close_of(i) <= now
        => i \in taken

\* However many closes can never be posted, a series whose later closes can
\* be is warm in the end.
WarmsUp == <>(warmed_up(series))
=============================================================================
