---------------------------- MODULE SeriesProofs ----------------------------
(***************************************************************************)
(* For any calendar, warm-up and windows, and whatever closes anyone       *)
(* brings: what a series has learned is not unlearned, no close is passed  *)
(* over that could be taken, and the SDK's mirror answers as the program.  *)
(*                                                                         *)
(* Only the last section, on the mirror, uses the assumptions of           *)
(* SeriesClient, ClientConstants and MirrorReaches.                        *)
(***************************************************************************)
EXTENDS SeriesClient, BookLemmas, SequenceTheorems, TLAPS

\* One thing or the other marks where a series stands for good: returns
\* learned come with a real variance, a restart without any with its mark.
\* And a cold series stands at the close of a round, not after now.
SeriesSound ==
  /\ now \in Nat
  /\ series \in [last_at : Nat, observations : Nat,
                 var_wad : {RESTARTED, 0} \union VAR_MIN .. VAR_MAX]
  /\ series.observations > 0 <=> series.var_wad > 0
  /\ series.last_at = 0 => series.observations = 0
  /\ restarts \in Seq(Int)
  /\ restarts # <<>> /\ series.observations = 0 => restarted(series)
  /\ ~warmed_up(series) /\ series.last_at > 0 =>
       \E i \in Nat : has_round(i) /\ close_of(i) = series.last_at /\ close_of(i) <= now

\* What NeverBack says of one step.
KeepsLearned ==
  /\ series.observations > 0 \/ restarts # <<>> => series'.last_at >= series.last_at
  /\ warmed_up(series) => warmed_up(series')

-----------------------------------------------------------------------------
(* The calendar.                                                           *)

LEMMA CloseType == ASSUME NEW i \in Nat PROVE close_of(i) \in Nat /\ close_of(i) > 0
<1>1. i * SPAN \in Nat
  BY SeriesConstants
<1> QED
  BY <1>1, SeriesConstants DEF close_of

LEMMA ClosesInOrder ==
  ASSUME NEW i \in Nat, NEW j \in Nat, i < j PROVE close_of(i) < close_of(j)
<1>1. PICK k \in Nat : j = i + 1 + k
  <2>1. j - i - 1 \in Nat /\ j = i + 1 + (j - i - 1)
    OBVIOUS
  <2> QED BY <2>1
<1>2. j * SPAN = i * SPAN + SPAN + k * SPAN
      /\ j * SPAN \in Nat /\ k * SPAN \in Nat /\ i * SPAN \in Nat
  BY <1>1, SeriesConstants
<1> QED
  BY <1>2, SeriesConstants DEF close_of

\* A set of indices with an upper end has a latest.
LEMMA LatestExists ==
  ASSUME NEW top \in Nat, NEW S \in SUBSET (0 .. top), S # {}
  PROVE  Max(S) \in S /\ \A j \in S : j <= Max(S)
<1> DEFINE Down == {d \in Nat : top - d \in S}
<1>1. Down # {}
  <2>1. PICK j \in S : TRUE
    OBVIOUS
  <2>2. top - j \in Down
    BY <2>1, top - (top - j) = j
  <2> QED BY <2>2
<1>2. PICK d \in Down : \A e \in Down : d <= e
  BY <1>1, NatLeast
<1>3. \A j \in S : j <= top - d
  <2> TAKE j \in S
  <2>1. top - j \in Down
    BY top - (top - j) = j
  <2> QED BY <2>1, <1>2
<1>4. top - d \in S /\ \A j \in S : top - d >= j
  BY <1>2, <1>3
<1>5. \E x \in S : \A j \in S : x >= j
  BY <1>4
<1> QED
  BY <1>5 DEF Max

LEMMA SomeLatest == ASSUME NEW t \in Int PROVE index_at_or_before(t) \in Nat
<1> DEFINE q == guess_of(t)
           from == IF q + 1 > 0 THEN q + 1 ELSE 0
           last == IF from > LOOK_BACK THEN from - LOOK_BACK ELSE 0
           S == {last} \union {k \in last .. from : close_of(k) <= t /\ has_round(k)}
<1>1. q \in Int
  BY SeriesConstants DEF guess_of
<1>2. from \in Nat /\ last \in Nat /\ last <= from
  BY <1>1, SeriesConstants
<1> HIDE DEF q, from, last
<1>3. S \in SUBSET (0 .. from) /\ S # {}
  BY <1>2
<1>4. Max(S) \in 0 .. from
  BY <1>2, <1>3, LatestExists
<1> QED BY <1>2, <1>4 DEF index_at_or_before, q, from, last

\* The latest close is no earlier than any close of a round there has been.
LEMMA LatestIsNoEarlier ==
  ASSUME NEW t \in Int, NEW i \in Nat, has_round(i), close_of(i) <= t
  PROVE  /\ index_at_or_before(t) \in Nat
         /\ close_of(i) <= close_of(index_at_or_before(t))
<1> DEFINE q == guess_of(t)
           from == IF q + 1 > 0 THEN q + 1 ELSE 0
           last == IF from > LOOK_BACK THEN from - LOOK_BACK ELSE 0
           S == {last} \union {k \in last .. from : close_of(k) <= t /\ has_round(k)}
<1>1. q \in Int /\ i <= q
  <2>1. i * SPAN \in Int /\ i * SPAN <= t - CLOSE_SECS
    BY SeriesConstants DEF close_of
  <2>2. q \in Int /\ t - CLOSE_SECS < (q + 1) * SPAN
    BY SeriesConstants DEF guess_of
  <2>3. CASE i > q
    <3>1. i - (q + 1) \in Nat
      BY <2>2, <2>3
    <3>2. (i - (q + 1)) * SPAN \in Nat
      BY <3>1, SeriesConstants
    <3>3. i * SPAN = (i - (q + 1)) * SPAN + (q + 1) * SPAN
      BY <2>2, SeriesConstants
    <3> QED BY <2>1, <2>2, <3>2, <3>3, SeriesConstants
  <2> QED BY <2>2, <2>3
<1>2. from \in Nat /\ last \in Nat /\ last <= from /\ i <= from
  BY <1>1, SeriesConstants
<1> HIDE DEF q, from, last
<1>3. S \in SUBSET (0 .. from) /\ S # {}
  BY <1>2
<1>4. Max(S) \in S /\ \A j \in S : j <= Max(S)
  BY <1>2, <1>3, LatestExists
<1>5. index_at_or_before(t) = Max(S)
  BY DEF index_at_or_before, q, from, last
<1>6. Max(S) \in Nat
  BY <1>2, <1>3, <1>4
<1>7. i <= Max(S)
  <2>1. CASE i < last
    BY <2>1, <1>2, <1>4, <1>6
  <2>2. CASE i >= last
    BY <2>2, <1>2, <1>4
  <2> QED BY <2>1, <2>2, <1>2
<1>8. close_of(i) <= close_of(Max(S))
  BY <1>6, <1>7, ClosesInOrder, CloseType
<1> QED
  BY <1>5, <1>6, <1>8

-----------------------------------------------------------------------------
(* The account.                                                            *)

LEMMA VarianceReal ==
  ASSUME NEW v \in Int PROVE clamp(v) \in VAR_MIN .. VAR_MAX /\ clamp(v) > 0
BY SeriesConstants DEF clamp

LEMMA LearnedReal ==
  ASSUME SeriesSound, NEW ret \in Returns
  PROVE  learned(series, ret) \in VAR_MIN .. VAR_MAX /\ learned(series, ret) > 0
<1> DEFINE n == series.observations
           r2 == Lesser(ret, VAR_MAX)
           v == variance(series)
<1>1. n \in Nat /\ r2 \in Nat /\ v \in Nat
  BY SeriesConstants DEF SeriesSound, variance, Lesser, RESTARTED
<1> HIDE DEF n, r2, v
<1>2. (v * n + r2) \div (n + 1) \in Int
  <2>1. v * n + r2 \in Int /\ n + 1 \in Nat \ {0}
    BY <1>1
  <2> QED BY <2>1
<1>3. (VAR_KEEP_NUM * v + (VAR_KEEP_DEN - VAR_KEEP_NUM) * r2) \div VAR_KEEP_DEN \in Int
  <2>1. VAR_KEEP_NUM * v + (VAR_KEEP_DEN - VAR_KEEP_NUM) * r2 \in Int
    BY <1>1, SeriesConstants
  <2> QED BY <2>1, SeriesConstants
<1> QED
  BY <1>2, <1>3, VarianceReal DEF learned, n, r2, v

\* Taking a close the program lets anyone take: the whole of what an
\* observation, a settlement or an opening does to a series.
LEMMA TakeKeeps ==
  ASSUME SeriesSound, NEW i \in Nat, may_observe(i),
         series' \in taught(i) \union moved(i), Remember(i), now' = now
  PROVE  SeriesSound' /\ KeepsLearned
<1> DEFINE at == close_of(i)
<1>1. at \in Nat /\ at > 0 /\ has_round(i) /\ at <= now
  BY CloseType DEF may_observe
<1>2. \/ \E ret \in Returns : series' = observe(series, at, ret)
      \/ series' = rebase(series, at)
  BY DEF taught, moved
<1> HIDE DEF at
<1>3. restarts' \in Seq(Int) /\ (restarts # <<>> => restarts' # <<>>)
  <2>1. restarts \in Seq(Int) /\ now \in Int
    BY DEF SeriesSound
  <2>2. Append(restarts, now) \in Seq(Int) /\ Append(restarts, now) # <<>>
    BY <2>1, AppendProperties
  <2>3. restarts' = restarts \/ restarts' = Append(restarts, now)
    BY DEF Remember
  <2> QED BY <2>1, <2>2, <2>3
<1>4. ~restarts_at(series, at) => restarts' = restarts
  BY DEF Remember, at
<1>5. CASE restarts_at(series, at)
  <2>1. at > series.last_at /\ ~warmed_up(series) /\ series.last_at \in Nat
    BY <1>5 DEF restarts_at, SeriesSound
  <2>2. series' = restart(series, at)
    BY <2>1, <1>1, <1>2, <1>5 DEF observe, rebase
  <2> QED
    BY <2>1, <2>2, <1>1, <1>3 DEF SeriesSound, KeepsLearned, restart, restarted, RESTARTED, at, warmed_up
<1>6. CASE ~restarts_at(series, at) /\ series'.last_at = at
           /\ series' = [series EXCEPT !.last_at = at]
           /\ (at > series.last_at \/ may_go_back(series))
  <2>1. /\ series' \in [last_at : Nat, observations : Nat,
                        var_wad : {RESTARTED, 0} \union VAR_MIN .. VAR_MAX]
        /\ series'.observations = series.observations /\ series'.var_wad = series.var_wad
    BY <1>6, <1>1 DEF SeriesSound
  <2>2. KeepsLearned
    BY <2>1, <1>6, <1>1 DEF SeriesSound, KeepsLearned, warmed_up, may_go_back
  <2>3. SeriesSound'
    <3>1. ~warmed_up(series') /\ series'.last_at > 0 =>
            has_round(i) /\ close_of(i) = series'.last_at /\ close_of(i) <= now'
      BY <1>1, <1>6 DEF at
    <3>2. (series'.observations > 0 <=> series'.var_wad > 0) /\ series'.last_at # 0
      BY <2>1, <1>1, <1>6 DEF SeriesSound
    <3>3. restarts' # <<>> /\ series'.observations = 0 => restarted(series')
      BY <2>1, <1>4, <1>6 DEF SeriesSound, restarted
    <3>4. now' \in Nat
      BY DEF SeriesSound
    <3> QED
      BY <2>1, <3>1, <3>2, <3>3, <3>4, <1>3 DEF SeriesSound, warmed_up, restarted, has_round, close_of
  <2> QED BY <2>2, <2>3
<1>7. CASE series' = series /\ ~restarts_at(series, at)
  BY <1>7, <1>4 DEF SeriesSound, KeepsLearned, warmed_up, restarted, has_round, close_of
<1>8. CASE ~restarts_at(series, at) /\ at > series.last_at /\ \E ret \in Returns :
             series' = [last_at |-> at, observations |-> series.observations + 1,
                        var_wad |-> learned(series, ret)]
  <2>1. PICK ret \in Returns :
          series' = [last_at |-> at, observations |-> series.observations + 1,
                     var_wad |-> learned(series, ret)]
    BY <1>8
  <2>2. learned(series, ret) \in VAR_MIN .. VAR_MAX /\ learned(series, ret) > 0
    BY LearnedReal
  <2>3. series.observations \in Nat /\ series.last_at \in Nat
    BY DEF SeriesSound
  <2>4. KeepsLearned
    BY <2>1, <2>2, <2>3, <1>1, <1>8, SeriesConstants DEF KeepsLearned, warmed_up
  <2>5. SeriesSound'
    BY <2>1, <2>2, <2>3, <1>1, <1>3, <1>8, SMTT(30) DEF SeriesSound, at, has_round, close_of
  <2> QED BY <2>4, <2>5
<1>9. CASE ~restarts_at(series, at)
  <2>0. series.last_at \in Nat /\ series = [series EXCEPT !.last_at = series.last_at]
        /\ [series EXCEPT !.last_at = at].last_at = at
    BY DEF SeriesSound
  <2>1. CASE series' = rebase(series, at)
    BY <2>0, <2>1, <1>1, <1>6, <1>7, <1>9 DEF rebase
  <2>2. ASSUME NEW ret \in Returns, series' = observe(series, at, ret)
        PROVE  SeriesSound' /\ KeepsLearned
    BY <2>0, <2>2, <1>1, <1>6, <1>7, <1>8, <1>9 DEF observe
  <2> QED BY <2>1, <2>2, <1>2
<1> QED
  BY <1>5, <1>9

\* A seed starts from the latest close, so never from an earlier one.
LEMMA SeedKeeps ==
  ASSUME SeriesSound, NEW ret \in Returns, SeriesSeed(ret) PROVE SeriesSound' /\ KeepsLearned
<1> DEFINE i == index_at_or_before(now)
<1>1. /\ now' = now /\ restarts' = restarts /\ ~warmed_up(series)
      /\ series' = [last_at |-> close_of(i), observations |-> WARMUP, var_wad |-> clamp(ret)]
  BY DEF SeriesSeed
<1>2. clamp(ret) \in VAR_MIN .. VAR_MAX /\ clamp(ret) > 0
  BY VarianceReal, SeriesConstants
<1>3. i \in Nat
  <2>1. now \in Int
    BY DEF SeriesSound
  <2> QED BY <2>1, SomeLatest
<1>4. close_of(i) \in Nat /\ close_of(i) > 0
  BY <1>3, CloseType
<1>5. series.last_at <= close_of(i)
  <2>1. CASE series.last_at = 0
    BY <2>1, <1>4
  <2>2. CASE series.last_at > 0
    <3>1. PICK k \in Nat : has_round(k) /\ close_of(k) = series.last_at /\ close_of(k) <= now
      BY <1>1, <2>2 DEF SeriesSound
    <3>2. now \in Int
      BY DEF SeriesSound
    <3> QED BY <3>1, <3>2, LatestIsNoEarlier
  <2> QED BY <2>1, <2>2 DEF SeriesSound
<1> HIDE DEF i
<1>6. warmed_up(series')
  BY <1>1, <1>2, SeriesConstants DEF warmed_up
<1>7. KeepsLearned
  BY <1>1, <1>4, <1>5, <1>6 DEF KeepsLearned, SeriesSound
<1>8. SeriesSound'
  BY <1>1, <1>2, <1>4, <1>6, SeriesConstants DEF SeriesSound
<1> QED BY <1>7, <1>8

LEMMA Steps == SeriesSound /\ [Next]_vars => SeriesSound' /\ (KeepsLearned \/ UNCHANGED vars)
<1> SUFFICES ASSUME SeriesSound, [Next]_vars
             PROVE  SeriesSound' /\ (KeepsLearned \/ UNCHANGED vars)
  OBVIOUS
<1>0. Indices \subseteq Nat
  BY DEF Indices
<1>1. ASSUME series' = series, restarts' = restarts, now' \in Nat, now <= now'
      PROVE  SeriesSound' /\ KeepsLearned
  <2>1. ASSUME NEW k \in Nat PROVE close_of(k) \in Nat
    BY CloseType
  <2>2. ASSUME NEW k \in Nat, close_of(k) <= now PROVE close_of(k) <= now'
    BY <1>1, <2>1, <2>2 DEF SeriesSound
  <2>3. ~warmed_up(series) /\ series.last_at > 0 =>
          \E k \in Nat : has_round(k) /\ close_of(k) = series.last_at /\ close_of(k) <= now'
    BY <2>2 DEF SeriesSound
  <2> QED
    BY <1>1, <2>3 DEF SeriesSound, KeepsLearned, warmed_up, restarted, has_round, close_of
<1>2. CASE Tick
  BY <1>1, <1>2 DEF Tick, SeriesSound
<1>3. ASSUME NEW i \in Indices, SeriesObserve(i) PROVE SeriesSound' /\ KeepsLearned
  BY <1>0, <1>3, TakeKeeps DEF SeriesObserve
<1>4. ASSUME NEW i \in Indices, Settle(i) PROVE SeriesSound' /\ KeepsLearned
  <2>1. CASE may_observe(i)
    BY <1>0, <1>4, <2>1, TakeKeeps DEF Settle
  <2>2. CASE ~may_observe(i)
    BY <1>1, <1>4, <2>2 DEF Settle, SeriesSound
  <2> QED BY <2>1, <2>2
<1>5. CASE Open
  BY <1>1, <1>5 DEF Open, SeriesSound
<1>6. ASSUME NEW i \in Indices, OpenAtClose(i) PROVE SeriesSound' /\ KeepsLearned
  <2>1. CASE may_observe(i)
    BY <1>0, <1>6, <2>1, TakeKeeps DEF OpenAtClose
  <2>2. CASE ~may_observe(i)
    BY <1>1, <1>6, <2>2 DEF OpenAtClose, SeriesSound
  <2> QED BY <2>1, <2>2
<1>7. ASSUME NEW ret \in Returns, SeriesSeed(ret) PROVE SeriesSound' /\ KeepsLearned
  BY <1>7, SeedKeeps
<1>8. CASE UNCHANGED vars
  BY <1>1, <1>8 DEF vars, SeriesSound
<1> QED
  BY <1>2, <1>3, <1>4, <1>5, <1>6, <1>7, <1>8 DEF Next

-----------------------------------------------------------------------------
(* The closes a series has taken.                                          *)

\* Reaching NoHoles: the closes taken end at the last one, what was passed
\* over on the way is old and was passed over warm, and each close taken but
\* the first taught at most one return.
TakenSound ==
  /\ taken \in SUBSET Nat /\ IsFiniteSet(taken)
  /\ series.last_at = 0 => taken = {}
  /\ series.last_at > 0 => \E last \in Nat :
       /\ close_of(last) = series.last_at
       /\ last \in taken /\ \A j \in taken : j <= last
       /\ \A i \in Nat : has_round(i) /\ i < last /\ i \notin taken /\ (\E j \in taken : j < i)
                           => warmed_up(series) /\ close_of(i) <= now - SKIP_AFTER
       /\ ~warmed_up(series) => series.observations < Cardinality(taken)

LEMMA IndexIsOne == ASSUME NEW i \in Nat PROVE index_of(close_of(i)) = {i}
<1> DEFINE extra == IF i \in Winter THEN SHIFT ELSE 0
<1>1. guess_of(close_of(i)) = i
  <2>1. extra \in Nat /\ extra < SPAN /\ i * SPAN \in Nat /\ SPAN \in Nat \ {0}
    BY SeriesConstants
  <2>2. close_of(i) - CLOSE_SECS = i * SPAN + extra
    BY <2>1, SeriesConstants DEF close_of
  <2> HIDE DEF extra
  <2>3. (i * SPAN + extra) \div SPAN = i
    BY <2>1
  <2> QED BY <2>2, <2>3 DEF guess_of
<1>2. ASSUME NEW j \in i - 1 .. i + 1, j >= 0, close_of(j) = close_of(i) PROVE j = i
  <2>1. j \in Nat /\ close_of(i) \in Nat
    BY <1>2, CloseType
  <2>2. CASE j < i
    BY <2>1, <2>2, <1>2, ClosesInOrder
  <2>3. CASE i < j
    BY <2>1, <2>3, <1>2, ClosesInOrder
  <2> QED BY <2>1, <2>2, <2>3
<1> QED
  BY <1>1, <1>2 DEF index_of

\* Between a round's index and the next there is none with a round.
LEMMA NextIsNext ==
  ASSUME NEW i \in Nat
  PROVE  /\ next_round(i) \in Nat /\ i < next_round(i) /\ has_round(next_round(i))
         /\ \A j \in Nat : i < j /\ j < next_round(i) => ~has_round(j)
<1> DEFINE c == Cardinality(NoRound)
           top == i + 1 + c
           S == {j \in i + 1 .. top : has_round(j)}
<1>1. IsFiniteSet(NoRound) /\ c \in Nat
  BY SeriesConstants, FS_CardinalityType
<1> HIDE DEF c
<1>2. S # {}
  <2> SUFFICES ASSUME S = {} PROVE FALSE
    OBVIOUS
  <2>1. i + 1 .. top \subseteq NoRound
    BY DEF has_round
  <2>2. Cardinality(i + 1 .. top) = c + 1
    BY <1>1, FS_Interval
  <2>3. Cardinality(i + 1 .. top) <= c
    BY <1>1, <2>1, FS_Subset DEF c
  <2> QED BY <1>1, <2>2, <2>3
<1>3. PICK x \in S : \A y \in S : x <= y
  <2>1. S \subseteq Nat
    BY <1>1
  <2> HIDE DEF S
  <2> QED BY <1>2, <2>1, NatLeast
<1>4. Min(S) \in S /\ \A y \in S : Min(S) <= y
  BY <1>3 DEF Min
<1>5. next_round(i) = Min(S)
  BY DEF next_round, c
<1>6. ASSUME NEW j \in Nat, i < j, j < Min(S) PROVE ~has_round(j)
  BY <1>1, <1>4, <1>6
<1> QED
  BY <1>1, <1>4, <1>5, <1>6

\* A jump passes over nothing younger than SKIP_AFTER.
LEMMA JumpPassesOld ==
  ASSUME NEW last \in Nat, NEW i \in Nat, last < i, may_jump(last, i), now \in Nat,
         NEW j \in Nat, last < j, j < i, has_round(j)
  PROVE  close_of(j) <= now - SKIP_AFTER
<1> DEFINE S == {last} \union {k \in last + 1 .. i - 1 : has_round(k)}
<1>1. S \in SUBSET (0 .. i) /\ S # {}
  OBVIOUS
<1>2. Max(S) \in S /\ \A k \in S : k <= Max(S)
  BY <1>1, LatestExists
<1>3. Max(S) \in Nat /\ j \in S
  BY <1>1, <1>2
<1>4. close_of(j) <= close_of(Max(S))
  BY <1>2, <1>3, ClosesInOrder, CloseType
<1>5. close_of(Max(S)) <= now - SKIP_AFTER
  BY DEF may_jump, round_before
<1> QED
  BY <1>3, <1>4, <1>5, CloseType, SeriesConstants

\* The two ways of taking a close: to start from it, with nothing learned; or
\* to go on to it, over nothing that was timely and, cold, over nothing.
LEMMA TakeIsStartOrGoOn ==
  ASSUME SeriesSound, TakenSound, NEW i \in Nat, may_observe(i),
         series' \in taught(i) \union moved(i), Remember(i)
  PROVE  /\ series'.last_at = close_of(i)
         /\ \/ taken' = {i} /\ series'.observations = 0
            \/ /\ series.last_at > 0 /\ taken' = taken \union {i}
               /\ series'.observations \in {series.observations, series.observations + 1}
               /\ \A last \in Nat : close_of(last) = series.last_at =>
                    /\ last < i
                    /\ \A j \in Nat : last < j /\ j < i /\ has_round(j)
                         => warmed_up(series) /\ close_of(j) <= now - SKIP_AFTER
<1> DEFINE at == close_of(i)
<1>0. at \in Nat /\ at > 0 /\ series.last_at \in Nat /\ now \in Nat
      /\ series.observations \in Nat
      /\ series = [series EXCEPT !.last_at = series.last_at]
      /\ [series EXCEPT !.last_at = at].last_at = at
      /\ [series EXCEPT !.last_at = at].observations = series.observations
  BY CloseType DEF SeriesSound
<1>1. \/ \E ret \in Returns : series' = observe(series, at, ret)
      \/ series' = rebase(series, at)
  BY DEF taught, moved
<1>2. CASE series.last_at = 0
  <2>1. ~restarts_at(series, at) /\ taken' = taken \union {i} /\ taken = {}
    BY <1>0, <1>2 DEF restarts_at, Remember, TakenSound
  <2>2. series.observations = 0
    BY <1>2 DEF SeriesSound
  <2>3. series' = [series EXCEPT !.last_at = at]
    BY <1>0, <1>1, <1>2, <2>1 DEF observe, rebase
  <2> QED BY <1>0, <2>1, <2>2, <2>3
<1>3. CASE series.last_at > 0
  <2>1. PICK last \in Nat : close_of(last) = series.last_at
    BY <1>3 DEF TakenSound
  <2>2. index_of(series.last_at) = {last} /\ index_of(at) = {i}
    BY <2>1, IndexIsOne
  <2>3. \/ i < last /\ may_go_back(series)
        \/ i > last /\ (i = next_round(last) \/ may_jump(last, i))
    BY <1>3, <2>2 DEF may_observe, last_index
  <2>4. restarts_at(series, at) <=>
          ~warmed_up(series) /\ at > series.last_at /\ i # next_round(last)
    BY <1>3, <2>2 DEF restarts_at
  <2> HIDE DEF at
  <2>5. CASE i < last
    <3>1. at < series.last_at
      BY <2>1, <2>5, ClosesInOrder DEF at
    <3>2. ~restarts_at(series, at) /\ may_go_back(series)
      BY <1>0, <2>3, <2>4, <2>5, <3>1
    <3>3. series' = [series EXCEPT !.last_at = at] /\ taken' = {i}
      BY <1>0, <1>1, <3>1, <3>2 DEF observe, rebase, Remember, at
    <3> QED BY <1>0, <3>2, <3>3 DEF may_go_back, at
  <2>6. CASE i > last
    <3>1. at > series.last_at
      BY <2>1, <2>6, ClosesInOrder DEF at
    <3>2. CASE restarts_at(series, at)
      <4>1. series' = restart(series, at) /\ taken' = {i}
        BY <1>0, <1>1, <3>1, <3>2 DEF observe, rebase, Remember, at
      <4> QED BY <4>1 DEF restart, at
    <3>3. CASE ~restarts_at(series, at)
      <4>1. taken' = taken \union {i}
        BY <1>0, <3>1, <3>3 DEF Remember, at
      <4>2. series'.last_at = at
            /\ series'.observations \in {series.observations, series.observations + 1}
        <5>1. CASE series' = rebase(series, at)
          BY <1>0, <3>1, <3>3, <5>1 DEF rebase
        <5>2. ASSUME NEW ret \in Returns, series' = observe(series, at, ret)
              PROVE  series'.last_at = at
                     /\ series'.observations \in {series.observations, series.observations + 1}
          BY <1>0, <1>3, <3>1, <3>3, <5>2 DEF observe
        <5> QED BY <1>1, <5>1, <5>2
      <4>3. ASSUME NEW j \in Nat, last < j, j < i, has_round(j)
            PROVE  warmed_up(series) /\ close_of(j) <= now - SKIP_AFTER
        <5>1. i # next_round(last)
          BY <4>3, NextIsNext
        <5>2. warmed_up(series) /\ may_jump(last, i)
          BY <2>3, <2>4, <2>6, <3>1, <3>3, <5>1
        <5> QED BY <1>0, <2>6, <4>3, <5>2, JumpPassesOld
      <4>4. ASSUME NEW k \in Nat, close_of(k) = series.last_at PROVE k = last
        BY <2>1, <2>2, <4>4, IndexIsOne
      <4> QED BY <1>3, <2>6, <4>1, <4>2, <4>3, <4>4 DEF at
    <3> QED BY <3>2, <3>3
  <2> QED BY <2>3, <2>5, <2>6
<1> QED BY <1>0, <1>2, <1>3

LEMMA TakeKeepsTaken ==
  ASSUME SeriesSound, TakenSound, NEW i \in Nat, may_observe(i),
         series' \in taught(i) \union moved(i), Remember(i), now' = now
  PROVE  TakenSound'
<1>1. SeriesSound' /\ KeepsLearned
  BY TakeKeeps
<1>2. close_of(i) \in Nat /\ close_of(i) > 0 /\ series'.last_at = close_of(i)
  BY CloseType, TakeIsStartOrGoOn
<1>3. CASE taken' = {i} /\ series'.observations = 0
  <2>1. IsFiniteSet({i}) /\ Cardinality({i}) = 1
    BY FS_Singleton
  <2>2. \A k \in Nat : ~(k < i /\ \E j \in {i} : j < k)
    OBVIOUS
  <2>3. series'.last_at > 0 /\ taken' \in SUBSET Nat /\ IsFiniteSet(taken')
    BY <1>2, <1>3, <2>1
  <2>4. i \in taken' /\ \A j \in taken' : j <= i
    BY <1>3
  <2>5. series'.observations < Cardinality(taken')
    BY <1>3, <2>1
  <2>6. \A k \in Nat : ~(k < i /\ \E j \in taken' : j < k)
    BY <1>3, <2>2
  <2> QED
    BY <1>2, <2>3, <2>4, <2>5, <2>6 DEF TakenSound, close_of, has_round
<1>4. CASE /\ series.last_at > 0 /\ taken' = taken \union {i}
           /\ series'.observations \in {series.observations, series.observations + 1}
           /\ \A last \in Nat : close_of(last) = series.last_at =>
                /\ last < i
                /\ \A j \in Nat : last < j /\ j < i /\ has_round(j)
                     => warmed_up(series) /\ close_of(j) <= now - SKIP_AFTER
  <2>1. PICK last \in Nat :
          /\ close_of(last) = series.last_at
          /\ last \in taken /\ \A j \in taken : j <= last
          /\ \A k \in Nat : has_round(k) /\ k < last /\ k \notin taken /\ (\E j \in taken : j < k)
                              => warmed_up(series) /\ close_of(k) <= now - SKIP_AFTER
          /\ ~warmed_up(series) => series.observations < Cardinality(taken)
    BY <1>4 DEF TakenSound
  <2>2. last < i /\ i \notin taken /\ \A j \in taken : j <= i
    BY <1>4, <2>1 DEF TakenSound
  <2>3. IsFiniteSet(taken') /\ Cardinality(taken') = Cardinality(taken) + 1
        /\ Cardinality(taken) \in Nat /\ taken' \in SUBSET Nat
    BY <1>4, <2>2, FS_AddElement, FS_CardinalityType DEF TakenSound
  <2>4. ASSUME NEW k \in Nat, has_round(k), k < i, k \notin taken, \E j \in taken : j < k
        PROVE  warmed_up(series') /\ close_of(k) <= now - SKIP_AFTER
    <3>1. warmed_up(series) => warmed_up(series')
      BY <1>1 DEF KeepsLearned
    <3>2. CASE k < last
      BY <2>1, <2>4, <3>1, <3>2
    <3>3. CASE last < k
      BY <1>4, <2>1, <2>4, <3>1, <3>3
    <3>4. CASE k = last
      BY <2>1, <2>4, <3>4
    <3> QED BY <3>2, <3>3, <3>4
  <2>5. ~warmed_up(series') => series'.observations < Cardinality(taken')
    BY <1>1, <1>4, <2>1, <2>3 DEF KeepsLearned, SeriesSound
  <2>6. ASSUME NEW k \in Nat, has_round(k), k < i, k \notin taken', \E j \in taken' : j < k
        PROVE  warmed_up(series') /\ close_of(k) <= now - SKIP_AFTER
    BY <1>4, <2>4, <2>6
  <2>7. i \in taken' /\ \A j \in taken' : j <= i
    BY <1>4, <2>2
  <2> QED
    BY <1>2, <2>3, <2>5, <2>6, <2>7 DEF TakenSound, warmed_up, close_of, has_round
<1> QED
  BY <1>3, <1>4, TakeIsStartOrGoOn

LEMMA StepsTaken == SeriesSound /\ TakenSound /\ [Next]_vars => TakenSound'
<1> SUFFICES ASSUME SeriesSound, TakenSound, [Next]_vars PROVE TakenSound'
  OBVIOUS
<1>0. Indices \subseteq Nat /\ now \in Nat
  BY DEF Indices, SeriesSound
<1>1. ASSUME series' = series, taken' = taken, now' \in Nat, now <= now' PROVE TakenSound'
  <2>1. ASSUME NEW k \in Nat, close_of(k) <= now - SKIP_AFTER
        PROVE  close_of(k) <= now' - SKIP_AFTER
    BY <1>0, <1>1, <2>1, CloseType, SeriesConstants
  <2>2. CASE series.last_at = 0
    BY <1>1, <2>2 DEF TakenSound
  <2>3. CASE series.last_at > 0
    <3>1. PICK last \in Nat :
            /\ close_of(last) = series.last_at
            /\ last \in taken /\ \A j \in taken : j <= last
            /\ \A k \in Nat : has_round(k) /\ k < last /\ k \notin taken /\ (\E j \in taken : j < k)
                                => warmed_up(series) /\ close_of(k) <= now - SKIP_AFTER
            /\ ~warmed_up(series) => series.observations < Cardinality(taken)
      BY <2>3 DEF TakenSound
    <3>2. \A k \in Nat : has_round(k) /\ k < last /\ k \notin taken /\ (\E j \in taken : j < k)
                           => warmed_up(series) /\ close_of(k) <= now' - SKIP_AFTER
      BY <2>1, <3>1
    <3> QED BY <1>1, <2>3, <3>1, <3>2 DEF TakenSound, warmed_up, close_of, has_round
  <2> QED BY <2>2, <2>3 DEF SeriesSound
<1>2. CASE Tick
  BY <1>0, <1>1, <1>2 DEF Tick
<1>3. ASSUME NEW i \in Indices, SeriesObserve(i) PROVE TakenSound'
  BY <1>0, <1>3, TakeKeepsTaken DEF SeriesObserve
<1>4. ASSUME NEW i \in Indices, Settle(i) PROVE TakenSound'
  <2>1. CASE may_observe(i)
    BY <1>0, <1>4, <2>1, TakeKeepsTaken DEF Settle
  <2>2. CASE ~may_observe(i)
    BY <1>0, <1>1, <1>4, <2>2 DEF Settle
  <2> QED BY <2>1, <2>2
<1>5. CASE Open
  BY <1>0, <1>1, <1>5 DEF Open
<1>6. ASSUME NEW i \in Indices, OpenAtClose(i) PROVE TakenSound'
  <2>1. CASE may_observe(i)
    BY <1>0, <1>6, <2>1, TakeKeepsTaken DEF OpenAtClose
  <2>2. CASE ~may_observe(i)
    BY <1>0, <1>1, <1>6, <2>2 DEF OpenAtClose
  <2> QED BY <2>1, <2>2
<1>7. ASSUME NEW ret \in Returns, SeriesSeed(ret) PROVE TakenSound'
  <2> DEFINE i == index_at_or_before(now)
  <2>1. i \in Nat /\ close_of(i) \in Nat /\ close_of(i) > 0
    <3>1. i \in Nat
      BY <1>0, SomeLatest
    <3> QED BY <3>1, CloseType
  <2>2. taken' = {i} /\ series'.last_at = close_of(i) /\ warmed_up(series')
    BY <1>7, VarianceReal, SeriesConstants DEF SeriesSeed, warmed_up
  <2> HIDE DEF i
  <2>3. IsFiniteSet({i})
    BY FS_Singleton
  <2>4. \A k \in Nat : ~(k < i /\ \E j \in {i} : j < k)
    BY <2>1
  <2> QED BY <2>1, <2>2, <2>3, <2>4 DEF TakenSound, close_of, has_round, warmed_up
<1>8. CASE UNCHANGED vars
  BY <1>0, <1>1, <1>8 DEF vars
<1> QED
  BY <1>2, <1>3, <1>4, <1>5, <1>6, <1>7, <1>8 DEF Next

LEMMA TakenHasNoHoles == SeriesSound /\ TakenSound => NoHoles
<1> SUFFICES ASSUME SeriesSound, TakenSound, series.last_at > 0 PROVE NoHoles
  BY DEF NoHoles, Anchored
<1>1. PICK last \in Nat :
        /\ last \in taken /\ \A j \in taken : j <= last
        /\ \A k \in Nat : has_round(k) /\ k < last /\ k \notin taken /\ (\E j \in taken : j < k)
                            => warmed_up(series) /\ close_of(k) <= now - SKIP_AFTER
        /\ ~warmed_up(series) => series.observations < Cardinality(taken)
  BY DEF TakenSound
<1>2. taken \in SUBSET (0 .. last) /\ taken # {} /\ taken \subseteq Nat
  BY <1>1 DEF TakenSound
<1>3. Max(taken) \in taken /\ \A j \in taken : j <= Max(taken)
  BY <1>2, LatestExists
<1>4. Max(taken) = last
  <2>1. Max(taken) \in Nat /\ Max(taken) <= last /\ last <= Max(taken)
    BY <1>1, <1>2, <1>3
  <2> QED BY <2>1
<1>5. Min(taken) \in taken
  <2>1. PICK x \in taken : \A y \in taken : x <= y
    BY <1>2, NatLeast
  <2> QED BY <2>1 DEF Min
<1>6. ASSUME NEW i \in RoundsIn(Min(taken), Max(taken)) \ taken
      PROVE  warmed_up(series) /\ close_of(i) <= now - SKIP_AFTER
  <2>0. Min(taken) \in Nat
    BY <1>2, <1>5
  <2>1. i \in Min(taken) .. last /\ has_round(i) /\ i \notin taken
    BY <1>4 DEF RoundsIn
  <2>2. i # last /\ i # Min(taken)
    BY <1>1, <1>5, <2>1
  <2>3. i \in Nat /\ Min(taken) < i /\ i < last
    BY <2>0, <2>1, <2>2
  <2> QED BY <1>1, <1>5, <2>1, <2>3
<1> QED
  BY <1>1, <1>6 DEF NoHoles, Cold

\* A variance is a real one, none yet or the mark of a restart, and the mark
\* or a return learned outlasts everything but the next return.
THEOREM SeriesSoundHolds == Spec => []SeriesSound
<1>1. Init => SeriesSound
  BY SeriesConstants DEF Init, SeriesSound, restarted, RESTARTED
<1>2. SeriesSound /\ [Next]_vars => SeriesSound'
  BY Steps
<1> QED
  BY <1>1, <1>2, PTL DEF Spec

\* What is learned is not unlearned: no observation, settlement, opening or
\* seed takes a series that has a return, or was restarted, to an earlier
\* close, and none takes a warm one back to warming up.
THEOREM NeverBackHolds == Spec => NeverBack
<1>1. SeriesSound /\ [Next]_vars =>
        [/\ series.observations > 0 \/ restarts # <<>> => series'.last_at >= series.last_at
         /\ warmed_up(series) => warmed_up(series')]_vars
  BY Steps DEF KeepsLearned
<1> QED
  BY <1>1, SeriesSoundHolds, PTL DEF Spec, NeverBack

\* Nobody chooses which days a series learns from: cold, it has taken every
\* close since its start, each counted once at most; warm, it has passed over
\* none that was not old.
THEOREM NoHolesHolds == Spec => []NoHoles
<1>1. Init => TakenSound
  <2>1. IsFiniteSet({})
    BY FS_EmptySet
  <2> QED BY <2>1 DEF Init, TakenSound
<1>2. SeriesSound /\ TakenSound /\ [Next]_vars => TakenSound'
  BY StepsTaken
<1>3. SeriesSound /\ TakenSound => NoHoles
  BY TakenHasNoHoles
<1> QED
  BY <1>1, <1>2, <1>3, SeriesSoundHolds, PTL DEF Spec

-----------------------------------------------------------------------------
(* What a round opens on.                                                  *)

\* As long as the second of an opening lasts, the series stays caught up.
OpenSound == opened /\ DAILY => warmed_up(series) /\ caught_up(series)

LEMMA StepsOpen == SeriesSound /\ OpenSound /\ [Next]_vars => OpenSound'
<1> SUFFICES ASSUME SeriesSound, OpenSound, [Next]_vars, opened', DAILY
             PROVE  warmed_up(series') /\ caught_up(series)'
  BY DEF OpenSound
<1>1. CASE Tick
  BY <1>1 DEF Tick
<1>2. CASE Open
  BY <1>2 DEF Open, may_open, caught_up, index_at_or_before, guess_of, close_of, has_round
<1>3. CASE \E i \in Indices : OpenAtClose(i)
  BY <1>3 DEF OpenAtClose, may_open, caught_up, index_at_or_before, guess_of, close_of, has_round
<1>4. ASSUME opened' = opened, now' = now PROVE warmed_up(series') /\ caught_up(series)'
  <2> DEFINE latest == close_of(index_at_or_before(now))
  <2>1. warmed_up(series) /\ latest <= series.last_at
    BY <1>4 DEF OpenSound, caught_up
  <2>2. latest' = latest
    BY <1>4 DEF index_at_or_before, guess_of, close_of, has_round
  <2>3. warmed_up(series') /\ series'.last_at >= series.last_at
        /\ series'.last_at \in Nat /\ series.last_at \in Nat
    <3>1. series.observations > 0
      BY <2>1, SeriesConstants DEF warmed_up, SeriesSound
    <3>2. CASE KeepsLearned
      BY <2>1, <3>1, <3>2, Steps DEF KeepsLearned, SeriesSound
    <3>3. CASE UNCHANGED vars
      BY <2>1, <3>3 DEF vars, SeriesSound
    <3> QED BY <3>2, <3>3, Steps
  <2>4. latest \in Nat
    <3>1. now \in Int
      BY DEF SeriesSound
    <3>2. index_at_or_before(now) \in Nat
      BY <3>1, SomeLatest
    <3> QED BY <3>2, CloseType
  <2> HIDE DEF latest
  <2>5. latest' <= series'.last_at
    BY <2>1, <2>2, <2>3, <2>4
  <2> QED BY <2>3, <2>5 DEF caught_up, latest
<1>5. CASE \E i \in Indices : SeriesObserve(i)
  BY <1>4, <1>5 DEF SeriesObserve
<1>6. CASE \E i \in Indices : Settle(i)
  BY <1>4, <1>6 DEF Settle
<1>7. CASE \E ret \in Returns : SeriesSeed(ret)
  BY <1>4, <1>7 DEF SeriesSeed
<1>8. CASE UNCHANGED vars
  BY <1>4, <1>8 DEF vars
<1> QED
  BY <1>1, <1>2, <1>3, <1>5, <1>6, <1>7, <1>8 DEF Next

LEMMA CaughtUpIsInformed == SeriesSound /\ TakenSound /\ OpenSound => OpensInformed
<1> SUFFICES ASSUME SeriesSound, TakenSound, OpenSound, opened, DAILY,
                    NEW i \in Indices, has_round(i), i >= Min(taken),
                    now - SKIP_AFTER < close_of(i), close_of(i) <= now, i \notin taken
             PROVE  FALSE
  BY DEF OpensInformed
<1>1. i \in Nat /\ now \in Nat /\ SKIP_AFTER \in Nat /\ close_of(i) \in Nat
  BY SeriesConstants, CloseType DEF Indices, SeriesSound
<1>2. close_of(i) <= series.last_at /\ series.last_at \in Nat
  <2>1. index_at_or_before(now) \in Nat
        /\ close_of(i) <= close_of(index_at_or_before(now))
    BY <1>1, LatestIsNoEarlier
  <2>2. close_of(index_at_or_before(now)) <= series.last_at
    BY DEF OpenSound, caught_up
  <2> QED BY <1>1, <2>1, <2>2, CloseType, SMTT(30) DEF SeriesSound
<1>3. series.last_at > 0
  BY <1>1, <1>2, CloseType
<1>4. PICK last \in Nat :
        /\ close_of(last) = series.last_at /\ last \in taken
        /\ \A k \in Nat : has_round(k) /\ k < last /\ k \notin taken /\ (\E j \in taken : j < k)
                            => warmed_up(series) /\ close_of(k) <= now - SKIP_AFTER
  BY <1>3 DEF TakenSound
<1>5. i < last
  <2>1. CASE last < i
    BY <1>1, <1>2, <1>4, <2>1, ClosesInOrder, CloseType
  <2> QED BY <1>1, <1>4, <2>1
<1>6. Min(taken) \in taken /\ Min(taken) \in Nat
  <2>1. PICK x \in taken : \A y \in taken : x <= y
    BY <1>4, NatLeast DEF TakenSound
  <2> QED BY <2>1 DEF Min, TakenSound
<1>7. Min(taken) < i
  <2>1. Min(taken) # i
    BY <1>6
  <2> QED BY <1>1, <1>6, <2>1
<1>8. close_of(i) <= now - SKIP_AFTER
  BY <1>1, <1>4, <1>5, <1>6, <1>7
<1> QED
  BY <1>1, <1>8

\* A daily round opens on a volatility that counts every close of the past
\* week since the series' start, the latest one included.
THEOREM OpensInformedHolds == Spec => []OpensInformed
<1>1. Init => TakenSound /\ OpenSound
  <2>1. IsFiniteSet({})
    BY FS_EmptySet
  <2> QED BY <2>1 DEF Init, TakenSound, OpenSound
<1>2. SeriesSound /\ TakenSound /\ OpenSound /\ [Next]_vars => TakenSound' /\ OpenSound'
  BY StepsTaken, StepsOpen
<1>3. SeriesSound /\ TakenSound /\ OpenSound => OpensInformed
  BY CaughtUpIsInformed
<1> QED
  BY <1>1, <1>2, <1>3, SeriesSoundHolds, PTL DEF Spec

-----------------------------------------------------------------------------
(* The frontier, and the one close a cold series may jump to.              *)

LEMMA ClosesApart ==
  ASSUME NEW i \in Nat, NEW j \in Nat, i < j PROVE close_of(j) >= close_of(i) + (SPAN - SHIFT)
<1>1. PICK k \in Nat : j = i + 1 + k
  <2>1. j - i - 1 \in Nat /\ j = i + 1 + (j - i - 1)
    OBVIOUS
  <2> QED BY <2>1
<1>2. j * SPAN = i * SPAN + SPAN + k * SPAN
      /\ j * SPAN \in Nat /\ k * SPAN \in Nat /\ i * SPAN \in Nat
  BY <1>1, SeriesConstants
<1> QED
  BY <1>2, SeriesConstants DEF close_of

\* A round after the latest close is still to close.
LEMMA LaterIsToCome ==
  ASSUME NEW t \in Int, NEW r \in Nat, has_round(r), index_at_or_before(t) < r
  PROVE  t < close_of(r)
<1>1. index_at_or_before(t) \in Nat /\ close_of(r) \in Nat
  BY SomeLatest, CloseType
<1>2. CASE close_of(r) <= t
  <2>1. close_of(r) <= close_of(index_at_or_before(t))
    BY <1>2, LatestIsNoEarlier
  <2>2. close_of(index_at_or_before(t)) < close_of(r) /\ close_of(index_at_or_before(t)) \in Nat
    BY <1>1, ClosesInOrder, CloseType
  <2> QED BY <1>1, <2>1, <2>2
<1> QED BY <1>1, <1>2

\* The latest close is past, also where the search gives up.
LEMMA LatestIsPast ==
  ASSUME NEW t \in Int, index_at_or_before(t) > 0
  PROVE  close_of(index_at_or_before(t)) <= t
<1> DEFINE q == guess_of(t)
           from == IF q + 1 > 0 THEN q + 1 ELSE 0
           last == IF from > LOOK_BACK THEN from - LOOK_BACK ELSE 0
           S == {last} \union {k \in last .. from : close_of(k) <= t /\ has_round(k)}
<1>1. q \in Int
  BY SeriesConstants DEF guess_of
<1>2. from \in Nat /\ last \in Nat /\ last <= from
  BY <1>1, SeriesConstants
<1>3. ASSUME last > 0 PROVE close_of(last) <= t
  <2>1. last <= q - 1 /\ q - 1 \in Nat
    BY <1>1, <1>3, SeriesConstants
  <2>2. close_of(last) <= close_of(q - 1)
    BY <1>2, <2>1, ClosesInOrder, CloseType
  <2>3. q * SPAN <= t - CLOSE_SECS
    BY SeriesConstants DEF guess_of
  <2>4. (q - 1) * SPAN = q * SPAN - SPAN /\ q * SPAN \in Int
    BY <1>1, SeriesConstants
  <2> HIDE DEF q, last
  <2>5. close_of(q - 1) <= q * SPAN - SPAN + CLOSE_SECS + SHIFT
    BY <2>4, SeriesConstants DEF close_of
  <2> QED BY <1>2, <2>1, <2>2, <2>3, <2>4, <2>5, CloseType, SeriesConstants
<1> HIDE DEF q, from, last
<1>4. S \in SUBSET (0 .. from) /\ S # {}
  BY <1>2
<1>5. Max(S) \in S
  BY <1>2, <1>4, LatestExists
<1>6. index_at_or_before(t) = Max(S)
  BY DEF index_at_or_before, q, from, last
<1> QED
  BY <1>3, <1>5, <1>6

Before(i) == {j \in 0 .. i - 1 : has_round(j)}
Since(i, j) == {k \in Before(i) : k >= j}

LEMMA BeforeFinite ==
  ASSUME NEW i \in Nat, NEW S \in SUBSET Before(i)
  PROVE  IsFiniteSet(S) /\ Cardinality(S) \in Nat
<1>1. IsFiniteSet(0 .. i - 1)
  BY FS_Interval
<1>2. S \subseteq 0 .. i - 1
  BY DEF Before
<1> QED
  BY <1>1, <1>2, FS_Subset, FS_CardinalityType

\* The index n rounds back is a round with n - 1 others from there on; or the
\* calendar has no n rounds before.
LEMMA RoundsBack ==
  ASSUME NEW i \in Nat, NEW n \in Nat \ {0}
  PROVE  /\ rounds_back(i, n) \in Nat
         /\ \/ Cardinality(Before(i)) < n /\ rounds_back(i, n) = 0
            \/ /\ rounds_back(i, n) \in Before(i)
               /\ Cardinality(Since(i, rounds_back(i, n))) = n
<1>0. rounds_back(i, n) =
        IF Cardinality(Before(i)) < n THEN 0
        ELSE CHOOSE j \in Before(i) : Cardinality(Since(i, j)) = n
  BY DEF rounds_back, Before, Since
<1>1. CASE Cardinality(Before(i)) < n
  BY <1>0, <1>1
<1>2. CASE ~(Cardinality(Before(i)) < n)
  <2> DEFINE Far == {d \in Nat : d <= i /\ Cardinality(Since(i, i - d)) >= n}
  <2>1. i \in Far
    <3>1. Since(i, i - i) = Before(i)
      BY DEF Since, Before
    <3> QED BY <3>1, <1>2, BeforeFinite
  <2>2. PICK d \in Far : \A e \in Far : d <= e
    BY <2>1, NatLeast
  <2>3. d # 0
    <3>1. Since(i, i - 0) = {}
      BY DEF Since, Before
    <3>2. Cardinality(Since(i, i - 0)) = 0
      BY <3>1, FS_EmptySet
    <3> QED BY <2>2, <3>2
  <2> DEFINE j == i - d
  <2>4. j \in Nat /\ j < i /\ d \in Nat
    BY <2>2, <2>3
  <2>5. Cardinality(Since(i, j + 1)) < n
    <3>1. d - 1 \in Nat /\ d - 1 <= i /\ d - 1 \notin Far /\ i - (d - 1) = j + 1
      BY <2>2, <2>3, <2>4
    <3>2. Cardinality(Since(i, j + 1)) \in Nat
      BY BeforeFinite DEF Since
    <3> QED BY <3>1, <3>2
  <2>6. Cardinality(Since(i, j)) >= n
    BY <2>2
  <2> HIDE DEF j
  <2>7. j \in Before(i) /\ Since(i, j) = Since(i, j + 1) \union {j}
    <3>1. CASE j \notin Before(i)
      <4>1. Since(i, j) = Since(i, j + 1)
        BY <2>4, <3>1 DEF Since, Before
      <4> QED BY <4>1, <2>5, <2>6, BeforeFinite DEF Since
    <3>2. CASE j \in Before(i)
      BY <2>4, <3>2 DEF Since, Before
    <3> QED BY <3>1, <3>2
  <2>8. Cardinality(Since(i, j)) = Cardinality(Since(i, j + 1)) + 1
    <3>1. j \notin Since(i, j + 1) /\ IsFiniteSet(Since(i, j + 1))
      BY <2>4, BeforeFinite DEF Since
    <3> QED BY <2>7, <3>1, FS_AddElement
  <2>9. Cardinality(Since(i, j)) = n
    <3>1. Cardinality(Since(i, j + 1)) \in Nat
      BY BeforeFinite DEF Since
    <3> QED BY <2>5, <2>6, <2>8, <3>1
  <2>10. rounds_back(i, n) \in Before(i) /\ Cardinality(Since(i, rounds_back(i, n))) = n
    BY <1>0, <1>2, <2>7, <2>9
  <2> QED BY <2>10 DEF Before
<1> QED BY <1>1, <1>2

\* From one latest close to the next, the frontier moves one round at most.
LEMMA FrontierMoves ==
  ASSUME NEW a \in Nat, NEW b \in Nat, NEW n \in Nat \ {0}, b <= next_round(a)
  PROVE  rounds_back(b, n) <= next_round(rounds_back(a, n))
<1> DEFINE f == rounds_back(a, n)
           g == rounds_back(b, n)
           r == next_round(f)
<1>1. f \in Nat /\ g \in Nat
  BY RoundsBack
<1>2. r \in Nat /\ f < r /\ has_round(r)
  BY <1>1, NextIsNext
<1> SUFFICES ASSUME r < g PROVE FALSE
  BY <1>1, <1>2
<1>3. g \in Before(b) /\ Cardinality(Since(b, g)) = n
  BY <1>1, <1>2, RoundsBack
<1>4. \/ Cardinality(Before(a)) < n /\ f = 0
      \/ f \in Before(a) /\ Cardinality(Since(a, f)) = n
  BY RoundsBack
<1> HIDE DEF f, g, r
<1>5. ASSUME NEW k \in Before(b) PROVE k \in Before(a) \union {a}
  <2>1. k \in Nat /\ k < b /\ has_round(k)
    BY <1>5 DEF Before
  <2>2. ~(a < k /\ k < next_round(a))
    BY <2>1, NextIsNext
  <2>3. next_round(a) \in Nat /\ k <= a
    BY <2>1, <2>2, NextIsNext
  <2> QED BY <2>1, <2>3 DEF Before
<1>6. r \in Before(b) /\ r \notin Since(b, g)
  BY <1>1, <1>2, <1>3 DEF Before, Since
<1>7. IsFiniteSet(Since(b, g)) /\ IsFiniteSet(Before(a)) /\ Cardinality(Before(a)) \in Nat
  BY BeforeFinite DEF Since
<1>8. /\ IsFiniteSet(Since(b, g) \union {r})
      /\ Cardinality(Since(b, g) \union {r}) = n + 1
  BY <1>3, <1>6, <1>7, FS_AddElement
<1>9. a \notin Before(a)
  BY DEF Before
<1>10. CASE Cardinality(Before(a)) < n
  <2>1. Since(b, g) \union {r} \subseteq Before(a) \union {a}
    BY <1>5, <1>6 DEF Since
  <2>2. IsFiniteSet(Before(a) \union {a})
        /\ Cardinality(Before(a) \union {a}) = Cardinality(Before(a)) + 1
    BY <1>7, <1>9, FS_AddElement
  <2>3. n + 1 <= Cardinality(Before(a)) + 1
    BY <1>8, <2>1, <2>2, FS_Subset
  <2> QED BY <1>7, <1>10, <2>3
<1>11. CASE f \in Before(a) /\ Cardinality(Since(a, f)) = n
  <2>1. f \notin Since(b, g) \union {r}
    BY <1>1, <1>2 DEF Since
  <2>2. /\ IsFiniteSet(Since(b, g) \union {r} \union {f})
        /\ Cardinality(Since(b, g) \union {r} \union {f}) = n + 2
    BY <1>8, <2>1, FS_AddElement
  <2>3. Since(b, g) \union {r} \union {f} \subseteq Since(a, f) \union {a}
    <3>1. ASSUME NEW k \in Since(b, g) PROVE k \in Since(a, f) \union {a}
      <4>1. k \in Before(b) /\ k \in Nat /\ k >= f
        BY <1>1, <1>2, <3>1 DEF Since, Before
      <4> QED BY <1>5, <4>1 DEF Since
    <3>2. r \in Since(a, f) \union {a}
      BY <1>1, <1>2, <1>5, <1>6 DEF Since
    <3>3. f \in Since(a, f)
      BY <1>1, <1>11 DEF Since
    <3> QED BY <3>1, <3>2, <3>3
  <2>4. IsFiniteSet(Since(a, f)) /\ a \notin Since(a, f)
    BY <1>9, BeforeFinite DEF Since
  <2>5. IsFiniteSet(Since(a, f) \union {a}) /\ Cardinality(Since(a, f) \union {a}) = n + 1
    BY <1>11, <2>4, FS_AddElement
  <2>6. n + 2 <= n + 1
    BY <2>2, <2>3, <2>5, FS_Subset
  <2> QED BY <2>6
<1> QED BY <1>4, <1>10, <1>11

\* What makes the next restart wait: the close restarted at was not old yet, or
\* was the frontier.
Mark(t, i) ==
  close_of(i) > t - SKIP_AFTER \/ i = rounds_back(index_at_or_before(t), WARMUP)

\* From a restart to the next jump past a round, more than a short day.
LEMMA NextRestartWaits ==
  ASSUME NEW t \in Nat, now \in Nat, NEW first \in Nat, Mark(t, first),
         NEW last \in Nat, first <= last, NEW i \in Nat, next_round(last) < i,
         may_jump(last, i), i <= frontier
  PROVE  now - t > SPAN - SHIFT
<1> DEFINE r == next_round(last)
<1>1. r \in Nat /\ last < r /\ has_round(r)
  BY NextIsNext
<1>2. CASE close_of(first) > t - SKIP_AFTER
  <2>1. close_of(r) <= now - SKIP_AFTER
    BY <1>1, JumpPassesOld
  <2>2. close_of(r) >= close_of(first) + (SPAN - SHIFT)
    BY <1>1, ClosesApart
  <2>3. close_of(r) \in Nat /\ close_of(first) \in Nat
    BY <1>1, CloseType
  <2> QED BY <1>2, <2>1, <2>2, <2>3, SeriesConstants
<1>3. CASE first = rounds_back(index_at_or_before(t), WARMUP)
  <2> DEFINE a == index_at_or_before(t)
             b == index_at_or_before(now)
  <2>1. a \in Nat /\ b \in Nat /\ WARMUP \in Nat \ {0}
    BY SomeLatest, SeriesConstants
  <2>2. next_round(a) \in Nat /\ a < next_round(a) /\ has_round(next_round(a))
    BY <2>1, NextIsNext
  <2>3. next_round(first) <= r
    <3>1. ~(first < r /\ r < next_round(first))
      BY <1>1, NextIsNext
    <3> QED BY <1>1, <3>1, NextIsNext
  <2>4. next_round(first) < rounds_back(b, WARMUP)
    <3>1. rounds_back(b, WARMUP) \in Nat
      BY <2>1, RoundsBack
    <3>2. next_round(first) \in Nat
      BY NextIsNext
    <3>3. i <= rounds_back(b, WARMUP)
      BY DEF frontier
    <3> QED BY <1>1, <2>3, <3>1, <3>2, <3>3
  <2> HIDE DEF b
  <2>5. next_round(a) < b
    <3>1. CASE b <= next_round(a)
      <4>1. rounds_back(b, WARMUP) <= next_round(first)
        BY <1>3, <2>1, <3>1, FrontierMoves
      <4>2. rounds_back(b, WARMUP) \in Nat /\ next_round(first) \in Nat
        BY <2>1, RoundsBack, NextIsNext
      <4> QED BY <2>4, <4>1, <4>2
    <3> QED BY <2>1, <2>2, <3>1
  <2>6. t < close_of(next_round(a))
    BY <2>2, LaterIsToCome
  <2>7. close_of(b) >= close_of(next_round(a)) + (SPAN - SHIFT)
    BY <2>1, <2>2, <2>5, ClosesApart
  <2>8. close_of(b) <= now
    BY <2>1, <2>2, <2>5, LatestIsPast DEF b
  <2>9. close_of(b) \in Nat /\ close_of(next_round(a)) \in Nat
    BY <2>1, <2>2, CloseType
  <2> QED BY <2>6, <2>7, <2>8, <2>9, SeriesConstants
<1> QED BY <1>2, <1>3 DEF Mark

-----------------------------------------------------------------------------
(* Steps, by what they do to the series.                                   *)

Takes(i) ==
  /\ may_observe(i) /\ series' \in taught(i) \union moved(i) /\ Remember(i)
  /\ now' = now
Stays ==
  /\ series' = series /\ taken' = taken /\ restarts' = restarts
  /\ now' \in Nat /\ now <= now' /\ (now' = now \/ now' <= MAX_NOW)

LEMMA StepIs ==
  ASSUME SeriesSound, [Next]_vars
  PROVE  Stays \/ (\E i \in Indices : Takes(i)) \/ (\E ret \in Returns : SeriesSeed(ret))
<1>0. now \in Nat /\ MAX_NOW \in Nat
  BY SeriesConstants DEF SeriesSound
<1>1. CASE Tick
  BY <1>0, <1>1 DEF Tick, Stays
<1>2. CASE Open
  BY <1>0, <1>2 DEF Open, Stays
<1>3. CASE UNCHANGED vars
  BY <1>0, <1>3 DEF vars, Stays
<1>4. ASSUME NEW i \in Indices, SeriesObserve(i) PROVE Takes(i)
  BY <1>4 DEF SeriesObserve, Takes
<1>5. ASSUME NEW i \in Indices, Settle(i) PROVE Takes(i) \/ Stays
  BY <1>0, <1>5 DEF Settle, Takes, Stays
<1>6. ASSUME NEW i \in Indices, OpenAtClose(i) PROVE Takes(i) \/ Stays
  BY <1>0, <1>6 DEF OpenAtClose, Takes, Stays
<1> QED
  BY <1>1, <1>2, <1>3, <1>4, <1>5, <1>6 DEF Next

-----------------------------------------------------------------------------
(* Restarts.                                                               *)

\* Reaching RestartsApart: a cold series that was restarted stands at the close
\* it was restarted at, or later.
RestartSound ==
  /\ RestartsApart
  /\ restarts # <<>> =>
       LET t == restarts[Len(restarts)]
       IN  /\ t \in Nat /\ t <= now
           /\ ~warmed_up(series) =>
                \E first \in Nat : Mark(t, first) /\ close_of(first) <= series.last_at

LEMMA NoNewRestart ==
  ASSUME SeriesSound, RestartSound, restarts' = restarts, now' \in Nat, now <= now',
         KeepsLearned \/ UNCHANGED vars, SeriesSound'
  PROVE  RestartSound'
<1>1. RestartsApart'
  BY DEF RestartSound, RestartsApart
<1>2. ASSUME restarts # <<>>
      PROVE  LET t == restarts[Len(restarts)]
             IN  /\ t \in Nat /\ t <= now'
                 /\ ~warmed_up(series') =>
                      \E first \in Nat : Mark(t, first) /\ close_of(first) <= series'.last_at
  <2> DEFINE t == restarts[Len(restarts)]
  <2>1. t \in Nat /\ t <= now /\ now \in Nat
    BY <1>2 DEF RestartSound, SeriesSound
  <2>2. series.last_at <= series'.last_at /\ (warmed_up(series) => warmed_up(series'))
    <3>1. CASE KeepsLearned
      BY <1>2, <3>1 DEF KeepsLearned
    <3>2. CASE UNCHANGED vars
      BY <3>2 DEF vars, SeriesSound
    <3> QED BY <3>1, <3>2
  <2>3. series.last_at \in Nat /\ series'.last_at \in Nat
    BY DEF SeriesSound
  <2>4. ASSUME ~warmed_up(series')
        PROVE  \E first \in Nat : Mark(t, first) /\ close_of(first) <= series'.last_at
    <3>1. PICK first \in Nat : Mark(t, first) /\ close_of(first) <= series.last_at
      BY <1>2, <2>2, <2>4 DEF RestartSound
    <3>2. close_of(first) \in Nat
      BY CloseType
    <3> QED BY <2>2, <2>3, <3>1, <3>2
  <2> QED BY <2>1, <2>4
<1> QED
  BY <1>1, <1>2, ZenonT(40) DEF RestartSound, Mark, warmed_up, close_of, rounds_back, index_at_or_before,
                    guess_of, has_round

\* A restart goes past the next round, as far as the frontier at most.
LEMMA RestartGoes ==
  ASSUME SeriesSound, TakenSound, NEW i \in Nat, Takes(i), restarts_at(series, close_of(i))
  PROVE  /\ i <= frontier /\ Mark(now, i)
         /\ \E last \in Nat :
              close_of(last) = series.last_at /\ next_round(last) < i /\ may_jump(last, i)
<1>0. now \in Nat /\ series.last_at \in Nat
  BY DEF SeriesSound
<1>2. series.last_at > 0 /\ close_of(i) > series.last_at /\ ~warmed_up(series)
  BY DEF restarts_at
<1>3. PICK last \in Nat : close_of(last) = series.last_at
  BY <1>2 DEF TakenSound
<1>4. index_of(series.last_at) = {last} /\ index_of(close_of(i)) = {i}
  BY <1>3, IndexIsOne
<1>5. i # next_round(last)
  BY <1>4 DEF restarts_at
<1>6. last < i
  <2>1. CASE i < last
    BY <1>2, <1>3, <2>1, ClosesInOrder, CloseType
  <2> QED BY <1>2, <1>3, <2>1, CloseType
<1>7. may_jump(last, i) /\ has_round(i)
  BY <1>2, <1>4, <1>5, <1>6 DEF Takes, may_observe, last_index
<1>8. i = restart_target
  BY <1>2, <1>7 DEF may_jump
<1>9. frontier \in Nat /\ next_round(index_at_or_before(now - SKIP_AFTER)) \in Nat
  <2>1. now - SKIP_AFTER \in Int /\ now \in Int
    BY <1>0, SeriesConstants
  <2>2. index_at_or_before(now - SKIP_AFTER) \in Nat /\ index_at_or_before(now) \in Nat
    BY <2>1, SomeLatest
  <2> QED BY <2>2, NextIsNext, RoundsBack, SeriesConstants DEF frontier
<1>10. i <= frontier /\ Mark(now, i)
  <2>1. CASE i = frontier
    BY <1>9, <2>1 DEF Mark, frontier
  <2>2. CASE i = next_round(index_at_or_before(now - SKIP_AFTER)) /\ i <= frontier
    <3>1. now - SKIP_AFTER \in Int
      BY <1>0, SeriesConstants
    <3>2. index_at_or_before(now - SKIP_AFTER) < i
      BY <2>2, <3>1, SomeLatest, NextIsNext
    <3>3. now - SKIP_AFTER < close_of(i)
      BY <1>7, <3>1, <3>2, LaterIsToCome
    <3> QED BY <2>2, <3>1, <3>3, CloseType DEF Mark
  <2> QED BY <1>8, <1>9, <2>1, <2>2 DEF restart_target, Lesser
<1>11. next_round(last) < i
  <2>1. ~(last < i /\ i < next_round(last))
    BY <1>7, NextIsNext
  <2> QED BY <1>5, <1>6, <2>1, NextIsNext
<1> QED BY <1>3, <1>7, <1>10, <1>11

LEMMA NewRestart ==
  ASSUME SeriesSound, TakenSound, RestartSound, NEW i \in Nat, Takes(i),
         restarts_at(series, close_of(i))
  PROVE  RestartSound'
<1>0. now \in Nat /\ now' = now /\ restarts \in Seq(Int) /\ series.last_at \in Nat
  BY DEF SeriesSound, Takes
<1>1. restarts' = Append(restarts, now) /\ series'.last_at = close_of(i)
  BY TakeIsStartOrGoOn DEF Takes, Remember
<1>2. ~warmed_up(series)
  BY DEF restarts_at
<1>3. PICK last \in Nat :
        close_of(last) = series.last_at /\ next_round(last) < i /\ may_jump(last, i)
  BY RestartGoes
<1>10. i <= frontier /\ Mark(now, i)
  BY RestartGoes
<1>12. ASSUME restarts # <<>>
       PROVE  now - restarts[Len(restarts)] > SPAN - SHIFT
  <2> DEFINE t == restarts[Len(restarts)]
  <2>1. t \in Nat
    BY <1>12 DEF RestartSound
  <2>2. PICK first \in Nat : Mark(t, first) /\ close_of(first) <= series.last_at
    BY <1>2, <1>12 DEF RestartSound
  <2>3. first <= last
    <3>1. CASE last < first
      <4>1. close_of(last) < close_of(first) /\ close_of(last) \in Nat /\ close_of(first) \in Nat
        BY <3>1, ClosesInOrder, CloseType
      <4> QED BY <1>3, <2>2, <4>1
    <3> QED BY <3>1
  <2> HIDE DEF t
  <2>4. now - t > SPAN - SHIFT
    BY <1>0, <1>3, <1>10, <2>1, <2>2, <2>3, NextRestartWaits
  <2> QED BY <2>4 DEF t
<1>13. /\ Len(restarts') = Len(restarts) + 1 /\ Len(restarts) \in Nat
       /\ restarts'[Len(restarts) + 1] = now
       /\ \A k \in 1 .. Len(restarts) : restarts'[k] = restarts[k]
  BY <1>0, <1>1, AppendProperties, LenProperties
<1>14. RestartsApart'
  <2> SUFFICES ASSUME NEW k \in 2 .. Len(restarts')
               PROVE  restarts'[k] - restarts'[k - 1] > SPAN - SHIFT
    BY DEF RestartsApart
  <2>1. CASE k = Len(restarts')
    <3>1. restarts # <<>> /\ k - 1 = Len(restarts) /\ k - 1 \in 1 .. Len(restarts)
      BY <1>13, <2>1
    <3> QED BY <1>12, <1>13, <2>1, <3>1
  <2>2. CASE k # Len(restarts')
    <3>1. k \in 2 .. Len(restarts) /\ k - 1 \in 1 .. Len(restarts) /\ k \in 1 .. Len(restarts)
      BY <1>13, <2>2
    <3> QED BY <1>13, <3>1 DEF RestartSound, RestartsApart
  <2> QED BY <2>1, <2>2
<1>15. Mark(now, i) /\ close_of(i) <= series'.last_at
  BY <1>1, <1>10, CloseType
<1>16. restarts'[Len(restarts')] = now
  BY <1>13
<1>17. LET t == restarts'[Len(restarts')]
       IN  /\ t \in Nat /\ t <= now'
           /\ \E first \in Nat : Mark(t, first) /\ close_of(first) <= series'.last_at
  BY <1>0, <1>15, <1>16
<1> QED
  BY <1>14, <1>17
  DEF RestartSound, Mark, warmed_up, close_of, rounds_back, index_at_or_before, guess_of, has_round

LEMMA StepsRestart ==
  SeriesSound /\ TakenSound /\ RestartSound /\ [Next]_vars => RestartSound'
<1> SUFFICES ASSUME SeriesSound, TakenSound, RestartSound, [Next]_vars PROVE RestartSound'
  OBVIOUS
<1>1. SeriesSound' /\ (KeepsLearned \/ UNCHANGED vars)
  BY Steps
<1>2. now \in Nat
  BY DEF SeriesSound
<1>3. CASE Stays
  BY <1>1, <1>3, NoNewRestart DEF Stays
<1>4. ASSUME NEW i \in Indices, Takes(i) PROVE RestartSound'
  <2>1. i \in Nat
    BY DEF Indices
  <2>2. CASE restarts_at(series, close_of(i))
    BY <1>4, <2>1, <2>2, NewRestart
  <2>3. CASE ~restarts_at(series, close_of(i))
    BY <1>1, <1>2, <1>4, <2>3, NoNewRestart DEF Takes, Remember
  <2> QED BY <2>2, <2>3
<1>5. ASSUME NEW ret \in Returns, SeriesSeed(ret) PROVE RestartSound'
  BY <1>1, <1>2, <1>5, NoNewRestart DEF SeriesSeed
<1> QED BY <1>3, <1>4, <1>5, StepIs

\* Nobody holds a series cold by restarting it: from one restart to the next
\* more than a short day goes by.
THEOREM RestartsApartHolds == Spec => []RestartsApart
<1>1. Init => TakenSound /\ RestartSound
  <2>1. IsFiniteSet({})
    BY FS_EmptySet
  <2> QED BY <2>1 DEF Init, TakenSound, RestartSound, RestartsApart
<1>2. SeriesSound /\ TakenSound /\ RestartSound /\ [Next]_vars => TakenSound' /\ RestartSound'
  BY StepsTaken, StepsRestart
<1>3. RestartSound => RestartsApart
  BY DEF RestartSound
<1> QED
  BY <1>1, <1>2, <1>3, SeriesSoundHolds, PTL DEF Spec

-----------------------------------------------------------------------------
(* Time to warm up.                                                        *)

Later(first, t) == {i \in Indices : i > first /\ has_round(i) /\ close_of(i) <= t}

LEMMA LaterFinite ==
  ASSUME NEW first, NEW t, NEW S \in SUBSET Later(first, t)
  PROVE  IsFiniteSet(S) /\ Cardinality(S) \in Nat
<1>1. MAX_NOW \div SPAN \in Int
  BY SeriesConstants
<1>2. IsFiniteSet(0 .. MAX_NOW \div SPAN)
  BY <1>1, FS_Interval
<1>3. S \subseteq 0 .. MAX_NOW \div SPAN
  BY DEF Later, Indices
<1> QED BY <1>2, <1>3, FS_Subset, FS_CardinalityType

LEMMA PastIsIndex ==
  ASSUME NEW i \in Nat, close_of(i) <= MAX_NOW
  PROVE  i \in Indices
<1>1. i * SPAN \in Nat /\ i * SPAN <= close_of(i) /\ MAX_NOW \in Nat /\ SPAN \in Nat \ {0}
  BY SeriesConstants DEF close_of
<1>2. MAX_NOW \div SPAN \in Nat /\ MAX_NOW < (MAX_NOW \div SPAN + 1) * SPAN
  BY <1>1
<1> DEFINE q == MAX_NOW \div SPAN
<1> HIDE DEF q
<1>3. CASE i > q
  <2>1. q \in Nat /\ i - (q + 1) \in Nat
    BY <1>2, <1>3 DEF q
  <2>2. (i - (q + 1)) * SPAN \in Nat /\ i * SPAN = (i - (q + 1)) * SPAN + (q + 1) * SPAN
    BY <1>1, <2>1
  <2>3. MAX_NOW < (q + 1) * SPAN /\ (q + 1) * SPAN \in Nat
    BY <1>1, <1>2, <2>1 DEF q
  <2>4. i * SPAN <= MAX_NOW
    BY <1>1, CloseType
  <2> QED BY <1>1, <2>2, <2>3, <2>4
<1>4. q \in Nat
  BY <1>2 DEF q
<1> QED BY <1>3, <1>4 DEF Indices, q

\* From the frontier or before, a warm-up has closed since.
LEMMA FrontierLeavesEnough ==
  ASSUME now \in START_NOW .. MAX_NOW, NEW first \in Nat, first <= frontier
  PROVE  Cardinality(Later(first, now)) >= WARMUP
<1> DEFINE a == index_at_or_before(now)
           f == rounds_back(a, WARMUP)
<1>1. now \in Int /\ WARMUP \in Nat \ {0} /\ a \in Nat
  <2>1. now \in Int
    BY SeriesConstants
  <2> QED BY <2>1, SomeLatest, SeriesConstants
<1>2. has_round(a) /\ close_of(a) <= now /\ WARMUP <= Cardinality(Before(a))
  BY CalendarReaches DEF Before
<1>3. f \in Before(a) /\ Cardinality(Since(a, f)) = WARMUP
  <2>1. Cardinality(Before(a)) \in Nat
    BY <1>1, BeforeFinite
  <2> QED BY <1>1, <1>2, <2>1, RoundsBack
<1>4. first <= f
  BY DEF frontier
<1> HIDE DEF a, f
<1>5. f \in Since(a, f) /\ IsFiniteSet(Since(a, f)) /\ a \notin Since(a, f)
  BY <1>1, <1>3, BeforeFinite DEF Since, Before
<1> DEFINE S == (Since(a, f) \ {f}) \union {a}
<1>6. Cardinality(S) = WARMUP
  <2>1. IsFiniteSet(Since(a, f) \ {f}) /\ Cardinality(Since(a, f) \ {f}) = WARMUP - 1
    BY <1>3, <1>5, FS_RemoveElement
  <2>2. a \notin Since(a, f) \ {f}
    BY <1>5
  <2>3. Cardinality(S) = WARMUP - 1 + 1
    BY <2>1, <2>2, FS_AddElement
  <2> QED BY <1>1, <2>3
<1>7. S \subseteq Later(first, now)
  <2>1. ASSUME NEW k \in Nat, k > f, k <= a, has_round(k) PROVE k \in Later(first, now)
    <3>1. close_of(k) <= now /\ close_of(k) <= MAX_NOW
      <4>1. close_of(k) <= close_of(a) /\ close_of(k) \in Nat /\ close_of(a) \in Nat
        BY <1>1, <2>1, ClosesInOrder, CloseType
      <4> QED BY <1>1, <1>2, <4>1, SeriesConstants
    <3>2. first < k
      BY <1>3, <1>4, <2>1 DEF Before
    <3> QED BY <2>1, <3>1, <3>2, PastIsIndex DEF Later
  <2>2. f \in Nat /\ f < a
    BY <1>1, <1>3 DEF Before
  <2>3. ASSUME NEW k \in Since(a, f) \ {f} PROVE k \in Later(first, now)
    <3>1. k \in Nat /\ k > f /\ k <= a /\ has_round(k)
      BY <1>1, <2>2, <2>3 DEF Since, Before
    <3> QED BY <2>1, <3>1
  <2> QED BY <1>1, <1>2, <2>1, <2>2, <2>3
<1>8. IsFiniteSet(Later(first, now)) /\ Cardinality(Later(first, now)) \in Nat
  BY LaterFinite
<1>9. Cardinality(S) <= Cardinality(Later(first, now))
  BY <1>7, <1>8, FS_Subset
<1> QED BY <1>1, <1>6, <1>8, <1>9

\* Where a close is taken to start from, it is the frontier or before; else
\* it follows what was taken.
LEMMA StartsInTime ==
  ASSUME SeriesSound, TakenSound, NEW i \in Nat, Takes(i)
  PROVE  \/ taken' = {i} /\ i <= frontier
         \/ series.last_at > 0 /\ taken' = taken \union {i} /\ \A j \in taken : j <= i
<1>0. series.last_at \in Nat /\ close_of(i) \in Nat
  BY CloseType DEF SeriesSound
<1>1. CASE series.last_at = 0
  <2>1. taken = {} /\ ~restarts_at(series, close_of(i)) /\ last_index = {}
    BY <1>1 DEF TakenSound, restarts_at, last_index
  <2>2. i <= frontier
    BY <2>1 DEF Takes, may_observe, may_start
  <2>3. taken' = {i}
    BY <2>1 DEF Takes, Remember
  <2> QED BY <2>2, <2>3
<1>2. CASE series.last_at > 0
  <2>1. PICK last \in Nat : close_of(last) = series.last_at /\ \A j \in taken : j <= last
    BY <1>2 DEF TakenSound
  <2>2. last_index = {last}
    BY <1>2, <2>1, IndexIsOne DEF last_index
  <2>3. \/ i < last /\ may_start(i)
        \/ i > last
    BY <2>2 DEF Takes, may_observe
  <2>4. CASE i < last /\ may_start(i)
    <3>1. close_of(i) < series.last_at
      BY <2>1, <2>4, ClosesInOrder
    <3>2. ~restarts_at(series, close_of(i))
      BY <1>0, <3>1 DEF restarts_at
    <3> QED BY <2>4, <3>1, <3>2 DEF Takes, Remember, may_start
  <2>5. CASE i > last
    <3>1. CASE restarts_at(series, close_of(i))
      BY <3>1, RestartGoes DEF Takes, Remember
    <3>2. CASE ~restarts_at(series, close_of(i))
      <4>1. series.last_at < close_of(i)
        BY <2>1, <2>5, ClosesInOrder
      <4>2. taken' = taken \union {i}
        BY <1>0, <3>2, <4>1 DEF Takes, Remember
      <4>3. \A j \in taken : j <= i
        BY <2>1, <2>5 DEF TakenSound
      <4> QED BY <1>2, <4>2, <4>3
    <3> QED BY <3>1, <3>2
  <2> QED BY <2>3, <2>4, <2>5
<1> QED BY <1>0, <1>1, <1>2

\* Reaching WarmByNow: the earliest close taken has a warm-up after it.
WarmSound ==
  /\ now \in START_NOW .. MAX_NOW
  /\ series.last_at > 0 /\ ~warmed_up(series) =>
       \E first \in taken :
         (\A j \in taken : first <= j) /\ Cardinality(Later(first, now)) >= WARMUP

LEMMA LaterGrows ==
  ASSUME NEW first, NEW t \in Int, NEW u \in Int, t <= u, Cardinality(Later(first, t)) >= WARMUP
  PROVE  Cardinality(Later(first, u)) >= WARMUP
<1>1. Later(first, t) \subseteq Later(first, u)
  BY CloseType DEF Later, Indices
<1>2. Cardinality(Later(first, t)) <= Cardinality(Later(first, u))
  BY <1>1, LaterFinite, FS_Subset
<1> QED BY <1>2, LaterFinite, SeriesConstants

LEMMA StepsWarm == SeriesSound /\ TakenSound /\ WarmSound /\ [Next]_vars => WarmSound'
<1> SUFFICES ASSUME SeriesSound, TakenSound, WarmSound, [Next]_vars PROVE WarmSound'
  OBVIOUS
<1>0. now \in Nat /\ now \in START_NOW .. MAX_NOW /\ START_NOW \in Nat /\ MAX_NOW \in Nat
  BY SeriesConstants DEF WarmSound, SeriesSound
<1>1. CASE Stays
  <2>1. now' \in START_NOW .. MAX_NOW /\ now' \in Int /\ now \in Int /\ now <= now'
    BY <1>0, <1>1 DEF Stays
  <2>2. ASSUME series.last_at > 0, ~warmed_up(series)
        PROVE  \E first \in taken : /\ \A j \in taken : first <= j
                                    /\ Cardinality(Later(first, now')) >= WARMUP
    <3>1. PICK first \in taken :
            (\A j \in taken : first <= j) /\ Cardinality(Later(first, now)) >= WARMUP
      BY <2>2 DEF WarmSound
    <3> QED BY <2>1, <3>1, LaterGrows
  <2> QED
    BY <1>1, <2>1, <2>2 DEF Stays, WarmSound, warmed_up, Later, Indices, has_round, close_of
<1>2. ASSUME NEW i \in Indices, Takes(i) PROVE WarmSound'
  <2>0. i \in Nat /\ now' = now
    BY <1>2 DEF Indices, Takes
  <2>1. ASSUME ~warmed_up(series')
        PROVE  \E first \in taken' : /\ \A j \in taken' : first <= j
                                     /\ Cardinality(Later(first, now)) >= WARMUP
    <3>1. CASE taken' = {i} /\ i <= frontier
      BY <1>0, <2>0, <3>1, FrontierLeavesEnough
    <3>2. CASE series.last_at > 0 /\ taken' = taken \union {i} /\ \A j \in taken : j <= i
      <4>1. ~warmed_up(series)
        BY <1>2, <2>0, <2>1, TakeKeeps DEF Takes, KeepsLearned
      <4>2. PICK first \in taken :
              (\A j \in taken : first <= j) /\ Cardinality(Later(first, now)) >= WARMUP
        BY <3>2, <4>1 DEF WarmSound
      <4> QED BY <3>2, <4>2
    <3> QED BY <1>2, <2>0, <3>1, <3>2, StartsInTime
  <2> QED
    BY <1>0, <2>0, <2>1 DEF WarmSound, warmed_up, Later, Indices, has_round, close_of
<1>3. ASSUME NEW ret \in Returns, SeriesSeed(ret) PROVE WarmSound'
  <2>1. warmed_up(series') /\ now' = now
    BY <1>3, VarianceReal, SeriesConstants DEF SeriesSeed, warmed_up
  <2> QED BY <1>0, <2>1 DEF WarmSound, warmed_up
<1> QED BY <1>1, <1>2, <1>3, StepIs

\* A start, or a restart, is never too late to be warm by now: a series still
\* warming up has WARMUP closes after its first, taken or ready to take.
THEOREM WarmByNowHolds == Spec => []WarmByNow
<1>1. Init => TakenSound /\ WarmSound
  <2>1. IsFiniteSet({})
    BY FS_EmptySet
  <2> QED BY <2>1, SeriesConstants DEF Init, TakenSound, WarmSound
<1>2. SeriesSound /\ TakenSound /\ WarmSound /\ [Next]_vars => TakenSound' /\ WarmSound'
  BY StepsTaken, StepsWarm
<1>3. TakenSound /\ WarmSound => WarmByNow
  <2> SUFFICES ASSUME TakenSound, WarmSound, series.last_at > 0, ~warmed_up(series)
               PROVE  Cardinality(Later(Min(taken), now)) >= WARMUP
    BY DEF WarmByNow, Anchored, Cold, Later
  <2>1. PICK first \in taken :
          (\A j \in taken : first <= j) /\ Cardinality(Later(first, now)) >= WARMUP
    BY DEF WarmSound
  <2>2. Min(taken) \in taken /\ \A j \in taken : Min(taken) <= j
    BY <2>1 DEF Min
  <2>3. first <= Min(taken) /\ Min(taken) <= first
    BY <2>1, <2>2
  <2>4. first \in Nat /\ Min(taken) \in Nat
    BY <2>1, <2>2 DEF TakenSound
  <2>5. Min(taken) = first
    BY <2>3, <2>4
  <2> QED BY <2>1, <2>5
<1> QED
  BY <1>1, <1>2, <1>3, SeriesSoundHolds, PTL DEF Spec

-----------------------------------------------------------------------------
(* The types, which say where a series stands: at a close of a round, past. *)

TypeSound ==
  /\ now \in START_NOW .. MAX_NOW /\ opened \in BOOLEAN
  /\ taken \subseteq Indices
  /\ series.last_at > 0 =>
       \E last \in Nat : has_round(last) /\ close_of(last) = series.last_at /\ close_of(last) <= now
  /\ \A k \in DOMAIN restarts : restarts[k] \in START_NOW .. now

LEMMA StepsType == SeriesSound /\ TakenSound /\ TypeSound /\ [Next]_vars => TypeSound'
<1> SUFFICES ASSUME SeriesSound, TakenSound, TypeSound, [Next]_vars PROVE TypeSound'
  OBVIOUS
<1>0. now \in Nat /\ START_NOW \in Nat /\ MAX_NOW \in Nat /\ START_NOW <= now /\ now <= MAX_NOW
  BY SeriesConstants DEF TypeSound, SeriesSound
<1>1. opened' \in BOOLEAN
  BY DEF Next, Tick, SeriesObserve, Settle, Open, OpenAtClose, SeriesSeed, vars, TypeSound
<1>2. CASE Stays
  <2>1. now' \in START_NOW .. MAX_NOW /\ now' \in Nat
    BY <1>0, <1>2 DEF Stays
  <2>2. ASSUME series.last_at > 0
        PROVE  \E last \in Nat : /\ has_round(last) /\ close_of(last) = series.last_at
                                 /\ close_of(last) <= now'
    <3>1. PICK last \in Nat :
            has_round(last) /\ close_of(last) = series.last_at /\ close_of(last) <= now
      BY <2>2 DEF TypeSound
    <3> QED BY <1>0, <1>2, <2>1, <3>1, CloseType DEF Stays
  <2>3. \A k \in DOMAIN restarts : restarts[k] \in START_NOW .. now'
    BY <1>0, <1>2, <2>1 DEF Stays, TypeSound
  <2> QED BY <1>1, <1>2, <2>1, <2>2, <2>3 DEF Stays, TypeSound, Indices, has_round, close_of
<1>3. ASSUME NEW i \in Indices, Takes(i) PROVE TypeSound'
  <2>1. i \in Nat /\ now' = now /\ has_round(i) /\ close_of(i) <= now
    BY <1>3 DEF Indices, Takes, may_observe
  <2>2. series'.last_at = close_of(i) /\ taken' \subseteq Indices
    BY <1>3, <2>1, TakeIsStartOrGoOn DEF Takes, TypeSound
  <2>3. \A k \in DOMAIN restarts' : restarts'[k] \in START_NOW .. now
    <3>1. CASE restarts' = restarts
      BY <3>1 DEF TypeSound
    <3>2. CASE restarts' = Append(restarts, now)
      <4>1. restarts \in Seq(Int) /\ now \in Int
        BY <1>0 DEF SeriesSound
      <4>2. /\ DOMAIN restarts' = 1 .. Len(restarts) + 1 /\ DOMAIN restarts = 1 .. Len(restarts)
            /\ restarts'[Len(restarts) + 1] = now /\ Len(restarts) \in Nat
            /\ \A k \in 1 .. Len(restarts) : restarts'[k] = restarts[k]
        BY <3>2, <4>1, AppendProperties, LenProperties
      <4> SUFFICES ASSUME NEW k \in 1 .. Len(restarts) + 1
                   PROVE  restarts'[k] \in START_NOW .. now
        BY <4>2
      <4>3. CASE k = Len(restarts) + 1
        BY <1>0, <4>2, <4>3
      <4>4. CASE k \in 1 .. Len(restarts)
        BY <4>2, <4>4 DEF TypeSound
      <4> QED BY <4>2, <4>3, <4>4
    <3> QED BY <1>3, <3>1, <3>2 DEF Takes, Remember
  <2> QED BY <1>0, <1>1, <2>1, <2>2, <2>3 DEF TypeSound, Indices, has_round, close_of
<1>4. ASSUME NEW ret \in Returns, SeriesSeed(ret) PROVE TypeSound'
  <2> DEFINE i == index_at_or_before(now)
  <2>1. i \in Nat /\ has_round(i) /\ close_of(i) <= now
    <3>1. now \in Int /\ now \in START_NOW .. MAX_NOW
      BY <1>0
    <3> QED BY <3>1, SomeLatest, CalendarReaches
  <2>2. /\ now' = now /\ restarts' = restarts /\ taken' = {i}
        /\ series'.last_at = close_of(i)
    BY <1>4 DEF SeriesSeed
  <2> HIDE DEF i
  <2>3. i \in Indices
    BY <1>0, <2>1, CloseType, PastIsIndex
  <2> QED BY <1>0, <1>1, <2>1, <2>2, <2>3 DEF TypeSound, Indices, has_round, close_of
<1> QED BY <1>2, <1>3, <1>4, StepIs

\* A series stands at the close of a round, past, the last it took; its
\* variance is a real one, none yet, or the mark of a restart.
THEOREM TypeCorrect == Spec => []TypeOK
<1>1. Init => TakenSound /\ TypeSound
  <2> SUFFICES ASSUME Init PROVE TakenSound /\ TypeSound
    OBVIOUS
  <2>1. TakenSound
    BY FS_EmptySet DEF Init, TakenSound
  <2>2. now \in START_NOW .. MAX_NOW /\ opened \in BOOLEAN /\ taken \subseteq Indices
    <3>1. now = START_NOW /\ opened = FALSE /\ taken = {}
      BY DEF Init
    <3>2. START_NOW \in START_NOW .. MAX_NOW
      BY SeriesConstants
    <3> QED BY <3>1, <3>2
  <2>3. \A k \in DOMAIN restarts : restarts[k] \in START_NOW .. now
    <3>1. restarts = <<>> /\ DOMAIN <<>> = {}
      BY DEF Init
    <3> QED BY <3>1
  <2>4. ~(series.last_at > 0)
    BY DEF Init
  <2> QED BY <2>1, <2>2, <2>3, <2>4 DEF TypeSound
<1>2. SeriesSound /\ TakenSound /\ TypeSound /\ [Next]_vars => TakenSound' /\ TypeSound'
  BY StepsTaken, StepsType
<1>3. SeriesSound /\ TakenSound /\ TypeSound => TypeOK
  <2> SUFFICES ASSUME SeriesSound, TakenSound, TypeSound PROVE TypeOK
    OBVIOUS
  <2>1. CASE series.last_at > 0
    <3>1. PICK last \in Nat :
            has_round(last) /\ close_of(last) = series.last_at /\ close_of(last) <= now
      BY <2>1 DEF TypeSound
    <3>2. PICK k \in Nat :
            close_of(k) = series.last_at /\ k \in taken /\ \A j \in taken : j <= k
      BY <2>1 DEF TakenSound
    <3>3. index_of(series.last_at) = {last} /\ k = last
      BY <3>1, <3>2, IndexIsOne
    <3>4. last = Max(taken)
      <4>1. taken \in SUBSET (0 .. last) /\ taken # {}
        BY <3>2, <3>3 DEF TakenSound
      <4>2. Max(taken) \in taken /\ \A j \in taken : j <= Max(taken)
        BY <4>1, LatestExists
      <4>3. Max(taken) \in 0 .. last
        BY <4>1, <4>2
      <4>4. last <= Max(taken)
        BY <3>2, <3>3, <4>2
      <4> QED BY <4>3, <4>4
    <3> QED BY <2>1, <3>1, <3>3, <3>4 DEF TypeOK, TypeSound, SeriesSound, Anchored
  <2>2. CASE ~(series.last_at > 0)
    BY <2>2 DEF TypeOK, TypeSound, SeriesSound, TakenSound, Anchored
  <2> QED BY <2>1, <2>2
<1> QED
  BY <1>1, <1>2, <1>3, SeriesSoundHolds, PTL DEF Spec

-----------------------------------------------------------------------------
(* The SDK's mirror of a series.                                           *)

\* A set's greatest and least are one.
LEMMA TheGreatest ==
  ASSUME NEW S \in SUBSET Int, NEW x \in S, \A y \in S : y <= x
  PROVE  Max(S) = x
<1>1. Max(S) \in S /\ \A y \in S : Max(S) >= y
  BY DEF Max
<1>2. Max(S) \in Int /\ x \in Int /\ Max(S) <= x /\ Max(S) >= x
  BY <1>1
<1> QED
  BY <1>2

LEMMA TheLeast ==
  ASSUME NEW S \in SUBSET Int, NEW x \in S, \A y \in S : x <= y
  PROVE  Min(S) = x
<1>1. Min(S) \in S /\ \A y \in S : Min(S) <= y
  BY DEF Min
<1>2. Min(S) \in Int /\ x \in Int /\ Min(S) <= x /\ x <= Min(S)
  BY <1>1
<1> QED
  BY <1>2

\* The same calendar, but for where its searches begin and end.
LEMMA SameCalendar ==
  /\ \A i : hasRound(i) <=> has_round(i)
  /\ \A i \in Int : closeOf(i) = close_of(i)
  /\ \A i : roundAfter(i) = next_round(i)
  /\ \A last, i : roundBefore(last, i) = round_before(last, i)
<1>1. \A i : hasRound(i) <=> has_round(i)
  BY DEF hasRound, has_round
<1>2. ASSUME NEW i \in Int PROVE closeOf(i) = close_of(i)
  <2>1. i * SPAN \in Int
    BY SeriesConstants
  <2> QED
    BY <2>1, SeriesConstants DEF closeOf, close_of
<1> QED
  BY <1>1, <1>2 DEF roundAfter, next_round, roundBefore, round_before, hasRound, has_round

LEMMA SameIndexOfClose == ASSUME NEW at \in Int PROVE indexOfClose(at) = index_of(at)
<1> DEFINE g == (at - CLOSE_SECS) \div SPAN
<1>1. g \in Int
  BY SeriesConstants
<1> HIDE DEF g
<1>2. {g, g + 1, g - 1} = g - 1 .. g + 1
  BY <1>1
<1>3. \A i \in g - 1 .. g + 1 : closeOf(i) = close_of(i)
  BY <1>1, SameCalendar
<1> QED
  BY <1>2, <1>3 DEF indexOfClose, index_of, guess_of, g

\* The rounds the SDK's search goes through, from a guess q.
Reached(t, q) ==
  {k \in (q + 1) - LOOK_BACK - Cardinality(NoRound) .. q + 1 : closeOf(k) <= t /\ hasRound(k)}

LEMMA SearchIs ==
  ASSUME NEW t
  PROVE  indexAtOrBefore(t) = Max(Reached(t, (t - CLOSE_SECS) \div SPAN))
BY DEF indexAtOrBefore, Reached

\* Where the program's search finds a close, the SDK's finds the same.
LEMMA SameSearch ==
  ASSUME NEW t \in Int, has_round(index_at_or_before(t)), close_of(index_at_or_before(t)) <= t
  PROVE  indexAtOrBefore(t) = index_at_or_before(t)
<1> DEFINE q == (t - CLOSE_SECS) \div SPAN
           from == IF q + 1 > 0 THEN q + 1 ELSE 0
           last == IF from > LOOK_BACK THEN from - LOOK_BACK ELSE 0
           T == {last} \union {k \in last .. from : close_of(k) <= t /\ has_round(k)}
           C == Cardinality(NoRound)
           S == Reached(t, q)
           i == index_at_or_before(t)
<1>1. q \in Int /\ C \in Nat /\ LOOK_BACK \in Nat
  BY SeriesConstants, FS_CardinalityType
<1>2. indexAtOrBefore(t) = Max(S)
  BY SearchIs
<1>3. i \in Nat /\ last <= i /\ i <= from
  <2>1. from \in Nat /\ last \in Nat /\ last <= from
    BY <1>1
  <2> HIDE DEF q, from, last
  <2>2. T \in SUBSET (0 .. from) /\ T # {}
    BY <2>1
  <2>3. Max(T) \in T
    BY <2>1, <2>2, LatestExists
  <2>4. i = Max(T)
    BY DEF index_at_or_before, guess_of, q, from, last
  <2> QED
    BY <2>1, <2>3, <2>4
<1>4. q >= 0
  <2>1. close_of(i) >= CLOSE_SECS
    BY <1>3, SeriesConstants DEF close_of
  <2>2. t - CLOSE_SECS \in Nat
    BY <2>1, <1>3, CloseType, SeriesConstants
  <2> QED
    BY <2>2, SeriesConstants
<1> HIDE DEF C, i
<1>5. i \in (q + 1) - LOOK_BACK - C .. q + 1
  <2> HIDE DEF q
  <2> QED
    BY <1>1, <1>3, <1>4
<1> HIDE DEF q, from, last
<1>6. i \in S
  <2>1. closeOf(i) = close_of(i) /\ hasRound(i)
    BY <1>3, SameCalendar DEF i
  <2> QED
    BY <1>5, <2>1 DEF i, C, Reached
<1>7. ASSUME NEW k \in S PROVE k <= i
  <2>1. k \in Int /\ close_of(k) <= t /\ has_round(k)
    BY <1>1, SameCalendar DEF C, Reached
  <2>2. CASE k \in Nat
    <3>1. close_of(k) <= close_of(i)
      BY <2>1, <2>2, LatestIsNoEarlier DEF i
    <3>2. ~(i < k)
      BY <1>3, <2>2, <3>1, ClosesInOrder, CloseType
    <3> QED
      BY <1>3, <2>2, <3>2
  <2> QED
    BY <1>3, <2>1, <2>2
<1>8. S \in SUBSET Int
  BY <1>1 DEF C, Reached
<1> HIDE DEF S
<1> QED
  BY <1>2, <1>6, <1>7, <1>8, TheGreatest DEF i

LEMMA SameRoundsBack ==
  ASSUME NEW i \in Nat, NEW n \in Nat \ {0}
  PROVE  roundsBack(i, n) = rounds_back(i, n)
<1> DEFINE rounds(j) == Cardinality({k \in j .. i - 1 : hasRound(k)})
           Far == {j \in 0 .. i : rounds(j) = n}
<1>1. \A j \in Nat : {k \in j .. i - 1 : hasRound(k)} = Since(i, j)
  BY SameCalendar DEF Since, Before
<1>2. rounds(0) = Cardinality(Before(i))
  BY SameCalendar DEF Before
<1>3. \A j \in Nat : rounds(j) = Cardinality(Since(i, j))
  BY <1>1
<1>4. roundsBack(i, n) = IF i <= 0 \/ rounds(0) < n THEN Min({i, 0}) ELSE Max(Far)
  BY DEF roundsBack
<1> HIDE DEF rounds
<1>5. Min({i, 0}) = 0
  BY TheLeast
<1>6. CASE Cardinality(Before(i)) < n
  <2>1. rounds_back(i, n) = 0
    BY <1>6 DEF rounds_back, Before
  <2> QED
    BY <1>2, <1>4, <1>5, <1>6, <2>1
<1>7. CASE ~(Cardinality(Before(i)) < n)
  <2> DEFINE j == rounds_back(i, n)
  <2>1. j \in Before(i) /\ Cardinality(Since(i, j)) = n
    BY <1>7, RoundsBack
  <2>2. j \in Nat /\ j < i /\ j \in Far
    BY <1>3, <2>1 DEF Before
  <2>3. ASSUME NEW k \in Far PROVE k <= j
    <3> SUFFICES ASSUME j < k PROVE FALSE
      BY <2>2
    <3> HIDE DEF j
    <3>1. k \in Nat /\ Cardinality(Since(i, k)) = n
      BY <1>3
    <3>2. Since(i, k) \subseteq Since(i, j) /\ j \in Since(i, j) /\ j \notin Since(i, k)
      BY <2>1, <2>2, <3>1 DEF Since, Before
    <3>3. IsFiniteSet(Since(i, j))
      BY BeforeFinite DEF Since
    <3> QED
      BY <2>1, <3>1, <3>2, <3>3, FS_Subset
  <2>4. Far \in SUBSET Int
    OBVIOUS
  <2> HIDE DEF Far, j
  <2>5. Max(Far) = j
    BY <2>2, <2>3, <2>4, TheGreatest
  <2> QED
    BY <1>2, <1>4, <1>7, <2>2, <2>5 DEF j
<1> QED
  BY <1>6, <1>7

\* So the SDK looks for the same closes to start and to restart from.
LEMMA SameTargets ==
  ASSUME now \in START_NOW .. MAX_NOW
  PROVE  /\ indexAtOrBefore(now) = index_at_or_before(now)
         /\ has_round(index_at_or_before(now)) /\ close_of(index_at_or_before(now)) <= now
         /\ seriesFrontier = frontier /\ restartTarget = restart_target
<1>1. now \in Int /\ now - SKIP_AFTER \in Int /\ SKIP_AFTER \in Nat
  BY SeriesConstants
<1>2. now \in START_NOW - SKIP_AFTER .. MAX_NOW /\ now - SKIP_AFTER \in START_NOW - SKIP_AFTER .. MAX_NOW
  BY SeriesConstants
<1>3. /\ indexAtOrBefore(now) = index_at_or_before(now)
      /\ indexAtOrBefore(now - SKIP_AFTER) = index_at_or_before(now - SKIP_AFTER)
  BY <1>1, <1>2, MirrorReaches, SameSearch
<1>4. index_at_or_before(now) \in Nat /\ index_at_or_before(now - SKIP_AFTER) \in Nat
  BY <1>1, SomeLatest
<1>5. seriesFrontier = frontier /\ frontier \in Nat
  BY <1>3, <1>4, SameRoundsBack, RoundsBack, SeriesConstants DEF seriesFrontier, frontier
<1> DEFINE next == next_round(index_at_or_before(now - SKIP_AFTER))
<1>6. next \in Nat /\ roundAfter(indexAtOrBefore(now - SKIP_AFTER)) = next
  BY <1>3, <1>4, NextIsNext, SameCalendar
<1> HIDE DEF next
<1>7. Min({frontier, next}) = Lesser(frontier, next)
  BY <1>5, <1>6, TheLeast DEF Lesser
<1>8. restartTarget = restart_target
  BY <1>5, <1>6, <1>7 DEF restartTarget, restart_target, next
<1> QED
  BY <1>2, <1>3, <1>5, <1>8, MirrorReaches

LEMMA MirrorObservesAlways ==
  ASSUME SeriesSound, now \in START_NOW .. MAX_NOW
  PROVE  MirrorObserves
<1> SUFFICES ASSUME NEW i \in Indices PROVE mayObserve(i) <=> may_observe(i)
  BY DEF MirrorObserves
<1>1. i \in Nat /\ series.last_at \in Int
  BY DEF Indices, SeriesSound
<1>2. (hasRound(i) <=> has_round(i)) /\ closeOf(i) = close_of(i)
  BY <1>1, SameCalendar
<1>3. mayStart(i) <=> may_start(i)
  BY <1>2, SameTargets DEF mayStart, may_start
<1>4. indexOfClose(series.last_at) = index_of(series.last_at)
  BY <1>1, SameIndexOfClose
<1>5. (warmedUp <=> warmed_up(series)) /\ (cold <=> may_go_back(series))
  <2>1. series.var_wad \in Int
    BY SeriesConstants DEF SeriesSound, RESTARTED
  <2> QED
    BY <2>1 DEF warmedUp, warmed_up, cold, may_go_back, restarted
<1>6. ASSUME NEW l \in index_of(series.last_at), i > l
      PROVE  /\ mayJump(l, i) <=> may_jump(l, i)
             /\ roundAfter(l) = next_round(l)
  <2>1. l \in Nat
    BY <1>1, SeriesConstants DEF index_of, guess_of
  <2>2. round_before(l, i) \in Int /\ roundBefore(l, i) = round_before(l, i)
    <3> DEFINE S == {l} \union {j \in l + 1 .. i - 1 : has_round(j)}
    <3>1. S \in SUBSET (0 .. i) /\ S # {}
      BY <1>1, <1>6, <2>1
    <3>2. Max(S) \in S
      BY <1>1, <3>1, LatestExists
    <3> QED
      BY <3>1, <3>2, SameCalendar DEF round_before
  <2>3. closeOf(roundBefore(l, i)) = close_of(round_before(l, i))
    BY <2>2, SameCalendar
  <2> QED
    BY <1>2, <1>5, <2>3, SameCalendar, SameTargets DEF mayJump, may_jump
<1> QED
  BY <1>2, <1>3, <1>4, <1>5, <1>6 DEF mayObserve, may_observe, last_index

LEMMA TakenSoundHolds == Spec => []TakenSound
<1>1. Init => TakenSound
  BY FS_EmptySet DEF Init, TakenSound
<1> QED
  BY <1>1, StepsTaken, SeriesSoundHolds, PTL DEF Spec

\* What taking a good price makes of a warm series: warm still, and no earlier
\* than it was or than the close.
LEMMA WarmTakes ==
  ASSUME SeriesSound, warmed_up(series), NEW i \in Nat, NEW ret \in Returns
  PROVE  LET s == observe(series, close_of(i), ret)
         IN  warmed_up(s) /\ s.last_at >= series.last_at /\ s.last_at >= close_of(i)
<1> DEFINE s == observe(series, close_of(i), ret)
           at == close_of(i)
<1>1. /\ at \in Nat /\ at > 0 /\ series.last_at \in Nat /\ series.observations \in Nat
      /\ series.observations > 0 /\ WARMUP \in Nat \ {0}
  BY CloseType, SeriesConstants DEF SeriesSound, warmed_up
<1>2. ~ may_go_back(series) /\ ~ restarts_at(series, at)
  BY <1>1 DEF may_go_back, restarts_at
<1>3. series.last_at # 0
  BY <1>1 DEF SeriesSound
<1>4. CASE at <= series.last_at
  <2>1. s = series
    BY <1>1, <1>2, <1>4 DEF observe
  <2> QED
    BY <1>1, <1>4, <2>1
<1>5. CASE at > series.last_at
  <2>1. s = [last_at |-> at, observations |-> series.observations + 1,
             var_wad |-> learned(series, ret)]
    BY <1>1, <1>2, <1>3, <1>5 DEF observe
  <2>2. learned(series, ret) > 0
    BY LearnedReal
  <2>3. series.observations >= WARMUP
    BY DEF warmed_up
  <2> HIDE DEF at
  <2>4. s.last_at = at /\ s.observations = series.observations + 1 /\ s.var_wad > 0
    BY <2>1, <2>2
  <2> HIDE DEF s
  <2> QED
    BY <1>1, <1>5, <2>3, <2>4 DEF warmed_up, at, s
<1> QED
  BY <1>1, <1>4, <1>5

\* A cold series is warm after one close only if it was one return short.
LEMMA ColdTakes ==
  ASSUME SeriesSound, ~warmed_up(series), NEW at \in Nat, NEW ret \in Returns,
         warmed_up(observe(series, at, ret))
  PROVE  series.observations = WARMUP - 1
<1> DEFINE s == observe(series, at, ret)
<1>1. series.observations \in Nat /\ WARMUP \in Nat \ {0}
  BY SeriesConstants DEF SeriesSound
<1>2. series.observations < WARMUP
  <2>1. series.observations >= WARMUP => series.observations > 0
    BY <1>1
  <2> QED
    BY <1>1, <2>1 DEF warmed_up, SeriesSound
<1>3. s.observations \in {series.observations, 0, series.observations + 1}
  BY DEF observe, restart, SeriesSound
<1>4. s.observations >= WARMUP
  BY DEF warmed_up
<1> HIDE DEF s
<1> QED
  BY <1>1, <1>2, <1>3, <1>4

LEMMA BlockerAlways ==
  ASSUME SeriesSound, TakenSound, now \in START_NOW .. MAX_NOW
  PROVE  BlockerIsRefusal
<1> DEFINE late(i) == \E j \in Indices : hasRound(j) /\ j < i /\ series.last_at < closeOf(j)
           after(i) == IF may_observe(i) THEN taught(i) \union moved(i) ELSE {series}
           latest == index_at_or_before(now)
           prev == close_of(latest)
<1> SUFFICES ASSUME NEW i \in Indices \intersect Teaching, closeOf(i) <= now
             PROVE  IF openBlocked(closeOf(i), FALSE)
                    THEN (\E s \in after(i) : may_open(s)) =>
                           may_observe(i) /\ series.observations = WARMUP - 1
                    ELSE (\E s \in after(i) : may_open(s)) \/ late(i)
  BY DEF BlockerIsRefusal
<1>1. /\ i \in Nat /\ now \in Int /\ now <= MAX_NOW /\ MAX_NOW \in Int
      /\ series.last_at \in Nat /\ latest \in Nat /\ WARMUP \in Nat \ {0}
      /\ series.observations \in Nat
  BY SomeLatest, SeriesConstants DEF Indices, SeriesSound
<1>2. /\ closeOf(i) = close_of(i) /\ close_of(i) <= now /\ close_of(i) \in Nat /\ close_of(i) > 0
      /\ prev \in Nat /\ prev <= now /\ has_round(latest)
      /\ closeOf(indexAtOrBefore(now)) = prev
  BY <1>1, SameCalendar, SameTargets, CloseType
<1>3. warmedUp <=> warmed_up(series)
  BY DEF warmedUp, warmed_up
<1>4. openBlocked(closeOf(i), FALSE) <=>
        ~ warmed_up(series) \/ (DAILY /\ series.last_at < prev /\ prev # close_of(i))
  BY <1>2, <1>3 DEF openBlocked, behind
<1>5. \A s : caught_up(s) <=> (DAILY => s.last_at >= prev)
  BY DEF caught_up
<1> HIDE DEF prev
<1>6. ASSUME NEW s \in after(i), may_observe(i)
      PROVE  \/ \E ret \in Returns : s = observe(series, close_of(i), ret)
             \/ s = rebase(series, close_of(i))
  BY <1>6 DEF taught, moved
<1>7. CASE ~ warmed_up(series)
  <2>1. ASSUME NEW s \in after(i), may_open(s)
        PROVE  may_observe(i) /\ series.observations = WARMUP - 1
    <3>1. CASE ~ may_observe(i)
      BY <1>7, <2>1, <3>1 DEF may_open
    <3>2. CASE may_observe(i)
      <4>1. CASE \E ret \in Returns : s = observe(series, close_of(i), ret)
        BY <1>2, <1>7, <2>1, <3>2, <4>1, ColdTakes DEF may_open
      <4>2. CASE s = rebase(series, close_of(i))
        BY <1>1, <1>7, <2>1, <4>2 DEF may_open, warmed_up, rebase, restart, SeriesSound
      <4> QED
        BY <1>6, <2>1, <3>2, <4>1, <4>2
    <3> QED
      BY <3>1, <3>2
  <2> QED
    BY <1>4, <1>7, <2>1
<1>8. CASE warmed_up(series) /\ DAILY /\ series.last_at < prev /\ prev # close_of(i)
  <2>1. ASSUME NEW s \in after(i), may_open(s) PROVE FALSE
    <3>1. s.last_at >= prev
      BY <1>5, <1>8, <2>1 DEF may_open
    <3>2. may_observe(i)
      BY <1>1, <1>2, <1>8, <3>1
    <3>3. \/ \E ret \in Returns : s = observe(series, close_of(i), ret)
          \/ s = rebase(series, close_of(i))
      BY <1>6, <2>1, <3>2
    <3>4. close_of(i) <= prev
      BY <1>1, <1>2, <3>2, LatestIsNoEarlier DEF may_observe, prev
    <3>5. s.last_at = series.last_at \/ s.last_at = close_of(i)
      BY <3>3 DEF observe, rebase, restart, SeriesSound
    <3> QED
      BY <1>1, <1>2, <1>8, <3>1, <3>4, <3>5
  <2> QED
    BY <1>4, <1>8, <2>1
<1>9. CASE warmed_up(series) /\ ~(DAILY /\ series.last_at < prev /\ prev # close_of(i))
  <2>1. CASE may_observe(i)
    <3>1. PICK ret \in Returns : TRUE
      BY ClientConstants
    <3> DEFINE s == observe(series, close_of(i), ret)
    <3>2. s \in after(i)
      BY <2>1 DEF taught
    <3>3. warmed_up(s) /\ s.last_at >= series.last_at /\ s.last_at >= close_of(i)
      BY <1>1, <1>9, WarmTakes
    <3>4. s.last_at \in Nat
      BY <1>1, <1>2 DEF observe, restart, SeriesSound
    <3> HIDE DEF s
    <3>5. DAILY => s.last_at >= prev
      <4> SUFFICES ASSUME DAILY PROVE s.last_at >= prev
        OBVIOUS
      <4>1. series.last_at >= prev \/ close_of(i) = prev
        BY <1>1, <1>2, <1>9
      <4> QED
        BY <1>1, <1>2, <3>3, <3>4, <4>1
    <3> QED
      BY <1>4, <1>5, <1>9, <3>2, <3>3, <3>5 DEF may_open
  <2>2. CASE ~ may_observe(i) /\ (DAILY => series.last_at >= prev)
    BY <1>4, <1>5, <1>9, <2>2 DEF may_open
  <2>3. CASE ~ may_observe(i) /\ DAILY /\ series.last_at < prev
    <3>1. close_of(i) = prev /\ close_of(i) > series.last_at
      BY <1>1, <1>2, <1>9, <2>3
    <3>2. i = latest
      BY <1>1, <1>2, <3>1, ClosesInOrder DEF prev
    <3>3. has_round(i)
      BY <1>2, <3>2
    <3>4. series.last_at > 0
      BY <1>1, <1>9 DEF SeriesSound, warmed_up
    <3>5. PICK last \in Nat : close_of(last) = series.last_at
      BY <3>4 DEF TakenSound
    <3>6. last < i
      BY <1>1, <3>1, <3>5, ClosesInOrder, CloseType
    <3>7. index_of(series.last_at) = {last}
      BY <3>5, IndexIsOne
    <3> DEFINE j == next_round(last)
    <3>8. j \in Nat /\ last < j /\ has_round(j) /\ ~(i < j)
      BY <1>1, <3>3, <3>6, NextIsNext
    <3>9. i # j
      BY <1>2, <2>3, <3>3, <3>4, <3>6, <3>7 DEF may_observe, last_index
    <3> HIDE DEF j
    <3>10. j < i
      BY <1>1, <3>8, <3>9
    <3>11. series.last_at < close_of(j) /\ close_of(j) < close_of(i) /\ close_of(j) \in Nat
      BY <1>1, <3>5, <3>8, <3>10, ClosesInOrder, CloseType
    <3>12. j \in Indices
      BY <1>1, <1>2, <3>8, <3>11, PastIsIndex
    <3>13. hasRound(j) /\ series.last_at < closeOf(j)
      BY <3>8, <3>11, SameCalendar
    <3> QED
      BY <1>4, <1>9, <3>1, <3>10, <3>12, <3>13
  <2> QED
    <3>1. series.last_at >= prev \/ series.last_at < prev
      BY <1>1, <1>2
    <3> QED
      BY <2>1, <2>2, <2>3, <3>1, Zenon
<1> QED
  BY <1>7, <1>8, <1>9

LEMMA PendingAlways ==
  ASSUME SeriesSound, TypeOK
  PROVE  PendingIsDue
<1> SUFFICES ASSUME Anchored, ~may_go_back(series), pendingObservations # {}
             PROVE  LET i == Min(pendingObservations)
                    IN  i = next_round(Max(taken)) /\ may_observe(i)
  BY DEF PendingIsDue
<1> DEFINE latest == indexAtOrBefore(now - SETTLE_LAG)
           last == Max(taken)
           next == next_round(last)
           due == {i \in last + 1 .. latest : hasRound(i) /\ closeOf(i) > series.last_at}
<1>1. now \in START_NOW .. MAX_NOW /\ series.last_at \in Nat /\ series.last_at > 0
  BY DEF TypeOK, SeriesSound, Anchored
<1>2. last \in index_of(series.last_at) /\ has_round(last) /\ series.last_at <= now
  BY DEF TypeOK, Anchored
<1>3. last \in Nat /\ close_of(last) = series.last_at
  BY <1>1, <1>2, SeriesConstants DEF index_of, guess_of
<1> HIDE DEF last
<1>4. index_of(series.last_at) = {last}
  BY <1>3, IndexIsOne
<1>5. ~ cold
  <2>1. series.var_wad \in Int
    BY SeriesConstants DEF SeriesSound, RESTARTED
  <2> QED
    BY <2>1 DEF cold, may_go_back, restarted
<1>6. indexAtOrBefore(series.last_at) = last
  <2> DEFINE found == index_at_or_before(series.last_at)
  <2>1. found \in Nat /\ close_of(last) <= close_of(found)
    BY <1>1, <1>2, <1>3, LatestIsNoEarlier
  <2>2. close_of(found) <= series.last_at
    <3>1. CASE found > 0
      BY <1>1, <3>1, LatestIsPast
    <3>2. CASE found = 0
      BY <1>3, <2>1, <3>2, ClosesInOrder, CloseType
    <3> QED
      BY <2>1, <3>1, <3>2
  <2>3. found = last
    BY <1>3, <2>1, <2>2, ClosesInOrder, CloseType
  <2> QED
    BY <1>1, <1>2, <1>3, <2>3, SameSearch
<1>7. pendingObservations = due
  BY <1>5, <1>6 DEF pendingObservations
<1>8. next \in Nat /\ last < next /\ has_round(next)
      /\ \A j \in Nat : last < j /\ j < next => ~has_round(j)
  BY <1>3, NextIsNext
<1> HIDE DEF latest, next
<1>9. ASSUME NEW i \in due PROVE i \in Nat /\ next <= i /\ has_round(i) /\ i <= latest
  <2>1. i \in Nat /\ last < i /\ has_round(i) /\ i <= latest
    BY <1>3, SameCalendar
  <2> QED
    BY <1>8, <2>1
<1>10. PICK top : top \in due
  BY <1>7
<1>11. latest \in Int /\ closeOf(latest) <= now - SETTLE_LAG
  <2>1. now - SETTLE_LAG \in START_NOW - SKIP_AFTER .. MAX_NOW /\ SETTLE_LAG \in Nat
    BY <1>1, SeriesConstants, ClientConstants
  <2>2. latest = index_at_or_before(now - SETTLE_LAG)
        /\ close_of(index_at_or_before(now - SETTLE_LAG)) <= now - SETTLE_LAG
    BY <2>1, SeriesConstants, MirrorReaches, SameSearch DEF latest
  <2>3. index_at_or_before(now - SETTLE_LAG) \in Nat
    BY <2>1, SeriesConstants, SomeLatest
  <2> QED
    BY <2>2, <2>3, SameCalendar
<1>12. next <= latest
  BY <1>8, <1>9, <1>10, <1>11
<1>13. next \in due
  <2>1. closeOf(next) = close_of(next) /\ close_of(next) > series.last_at
    BY <1>3, <1>8, SameCalendar, ClosesInOrder, CloseType
  <2>2. next \in last + 1 .. latest
    BY <1>3, <1>8, <1>11, <1>12
  <2> QED
    BY <1>8, <2>1, <2>2, SameCalendar
<1>14. due \in SUBSET Int
  BY <1>9
<1> HIDE DEF due
<1>15. Min(due) = next
  BY <1>9, <1>13, <1>14, TheLeast
<1>16. may_observe(next)
  <2>0. latest \in Nat /\ next \in Nat
    BY <1>8, <1>11, <1>12
  <2>1. close_of(next) <= close_of(latest) /\ close_of(latest) = closeOf(latest)
    BY <1>12, <2>0, SameCalendar, ClosesInOrder, CloseType
  <2>2. close_of(next) <= now
    BY <1>1, <1>11, <2>0, <2>1, CloseType, SeriesConstants, ClientConstants
  <2> QED
    BY <1>1, <1>4, <1>8, <2>2 DEF may_observe, last_index, next
<1> QED
  BY <1>7, <1>15, <1>16 DEF next, last

\* In every reachable state the SDK's mirror of a series answers as the program
\* does: which closes may be taken, whether a round may open, what is due next.
THEOREM MirrorAgreesHolds == Spec => []MirrorAgrees
<1>1. SeriesSound /\ TakenSound /\ TypeOK => MirrorAgrees
  <2> SUFFICES ASSUME SeriesSound, TakenSound, TypeOK PROVE MirrorAgrees
    OBVIOUS
  <2>1. now \in START_NOW .. MAX_NOW
    BY DEF TypeOK
  <2> QED
    BY <2>1, MirrorObservesAlways, BlockerAlways, PendingAlways DEF MirrorAgrees
<1> QED
  BY <1>1, SeriesSoundHolds, TakenSoundHolds, TypeCorrect, PTL
=============================================================================
