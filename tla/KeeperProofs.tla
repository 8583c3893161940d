---------------------------- MODULE KeeperProofs ----------------------------
(***************************************************************************)
(* That an opening is made within the longest wait, and that a keeper that *)
(* cannot send what is due never looks healthy, for any number of rounds,  *)
(* any waits and ages and any number of faults.                            *)
(***************************************************************************)
EXTENDS Keeper, TLAPS

Statuses == {"none", "seeding", "open", "settled", "void", "closed"}
Steps == {"open", "settle", "void"}
LearnKey == <<0, "learn">>
Backs == [last : 0 .. CAP, wait : 0 .. CAP, failing : BOOLEAN]
opening(r) == <<r, "open">>

-----------------------------------------------------------------------------
(* The inductive invariant.                                                *)

\* What kind of state the keeper is in.
Shape ==
  /\ now \in Nat /\ learned \in Nat /\ status \in [Rounds -> Statuses]
  /\ sends_land \in BOOLEAN /\ priced \in BOOLEAN
  /\ at \in {"learn", "scan", "pass", "clear", "sleep"}
  /\ at = "pass" => todo \subseteq (Rounds \X Steps) \union {House}
  /\ at = "clear" => todo \subseteq Rounds \X {"clear"}
  /\ failures \in Nat /\ learning \in Nat /\ troubles \in Nat
  /\ health \in 0 .. SICK + 1 /\ refused \in 0 .. SICK + 1
  /\ good \in [Rounds -> Nat]

\* Waits stay within the cap, and only learning ever waits without having failed.
Waits ==
  /\ backoff \in [Keys -> Backs]
  /\ \A k \in Keys \ {LearnKey} : waiting(k) => failing(k)

\* An opening counted as possible can be made now, unless it has been.
StillGood ==
  \A r \in Rounds :
    good[r] > 0 => /\ sends_land /\ now >= opens(r)
                   /\ status[r] = "seeding" => takes(r, "open")

\* Wakings spent and still to be spent before the pass tries r: one at least once
\* this pass has no more to do for r.
ahead(r) ==
  IF at \in {"learn", "scan"} \/ (at = "pass" /\ opening(r) \in todo)
  THEN backoff[opening(r)].wait
  ELSE IF waiting(opening(r)) THEN backoff[opening(r)].wait ELSE 1
NotLate ==
  \A r \in Rounds : /\ good[r] <= CAP + troubles
                    /\ status[r] = "seeding" => good[r] + ahead(r) <= CAP + troubles

\* What is counted as refused is due and cannot be sent, and makes the file old.
StillDue == refused > 0 => due /\ ~sends_land
Old == refused <= health

\* A pass with nothing failing yet has before it all that is due; while an ending
\* is due, which may unblock an opening, also every opening.
Covers ==
  at = "pass" /\ refused > 0 /\ failures = 0 =>
    /\ \A r \in Rounds, s \in Steps : takes(r, s) => <<r, s>> \in todo
    /\ (\E r \in Rounds, s \in {"settle", "void"} : takes(r, s)) =>
         \A r \in Rounds : nextStep(status[r], r) = "open" => opening(r) \in todo

IInv == Shape /\ Waits /\ StillGood /\ NotLate /\ StillDue /\ Old /\ Covers

-----------------------------------------------------------------------------
(* The calendar, the chain's moves and the waits.                          *)

LEMMA Constants ==
  /\ DAYS \in Nat /\ DAY \in Nat /\ LEAD \in Nat /\ WINDOW \in Nat /\ ON_TIME \in Nat
  /\ DAY > 0 /\ ON_TIME <= WINDOW /\ WINDOW <= DAY /\ VOID_FALLBACK \in Nat
  /\ BASE \in Nat /\ CAP \in Nat /\ BASE > 0 /\ BASE <= CAP
  /\ SICK \in Nat /\ SICK > 0 /\ MAX_NOW \in Nat /\ TROUBLES \in Nat
<1>1. /\ DAYS \in Nat \ {0} /\ DAY \in Nat \ {0} /\ LEAD \in Nat \ {0} /\ WINDOW \in Nat \ {0}
      /\ BASE \in Nat \ {0} /\ CAP \in Nat \ {0} /\ SICK \in Nat \ {0}
  BY KeeperConstants, Zenon
<1>2. ON_TIME \in Nat /\ VOID_FALLBACK \in Nat /\ MAX_NOW \in Nat /\ TROUBLES \in Nat
  BY KeeperConstants, Zenon
<1> QED BY <1>1, <1>2, KeeperConstants

\* A round opens a day after the one before it.
LEMMA Calendar ==
  \A r \in Rounds : /\ r \in Nat /\ opens(r) \in Nat
                    /\ opens(r + 1) = opens(r) + DAY
<1> SUFFICES ASSUME NEW r \in Rounds
             PROVE  r \in Nat /\ opens(r) \in Nat /\ opens(r + 1) = opens(r) + DAY
  OBVIOUS
<1>1. r \in Nat /\ r >= 1
  BY Constants DEF Rounds
<1>2. (r - 1) * DAY \in Nat
  BY <1>1, Constants
<1>3. (r + 1 - 1) * DAY = (r - 1) * DAY + DAY
  BY <1>1, Constants
<1> QED BY <1>1, <1>2, <1>3, Constants DEF opens

\* Whatever happens on the chain, no close is forgotten, and a round becomes one to
\* open only before its time.
Moves ==
  /\ learned' \in Nat /\ learned <= learned' /\ status' \in [Rounds -> Statuses]
  /\ \A r \in Rounds : status'[r] = "seeding" => status[r] = "seeding" \/ now < opens(r)

LEMMA StillMoves == Shape /\ UNCHANGED chainVars => Moves
BY DEF Shape, chainVars, Moves

\* What a step of a round does to it and to the closes taken.
LEMMA LandsMoves ==
  ASSUME Shape, NEW r \in Rounds, NEW s \in Steps, Lands(r, s)
  PROVE  /\ Moves
         /\ \A q \in Rounds : q # r => status'[q] = status[q]
         /\ s = "open" => status'[r] = "open"
         /\ s = "settle" => status'[r] = "settled"
         /\ s = "void" => status'[r] = "void"
         /\ learned' = learned \/ (s = "settle" /\ learned = r /\ learned' = r + 1)
            \/ (s = "open" /\ on_time(r) /\ learned = r - 1 /\ learned' = r)
<1>1. r \in Nat /\ learned \in Nat
  BY Calendar DEF Shape
<1>2. CASE s = "open"
  BY <1>1, <1>2 DEF Shape, Lands, Moves, Statuses
<1>3. CASE s = "settle"
  BY <1>1, <1>3 DEF Shape, Lands, Moves, Statuses
<1>4. CASE s = "void"
  BY <1>1, <1>4 DEF Shape, Lands, Moves, Statuses
<1> QED BY <1>2, <1>3, <1>4 DEF Steps

LEMMA HouseMoves ==
  ASSUME Shape, HouseLands
  PROVE  Moves
<1>1. CASE Collects
  BY <1>1 DEF Shape, Collects, Moves
<1>2. CASE Starts
  BY <1>2 DEF Shape, Starts, houseStartIndex, startable, Moves, Statuses
<1> QED BY <1>1, <1>2 DEF HouseLands

LEMMA ClearMoves ==
  ASSUME Shape, NEW r, NEW p, Final(r), ClearLands(r, p)
  PROVE  /\ Moves /\ learned' = learned
         /\ \A q \in Rounds : status'[q] = status[q] \/ (Final(q) /\ status'[q] = "closed")
<1>1. learned \in Nat /\ status \in [Rounds -> Statuses] /\ learned' = learned
  BY DEF Shape, ClearLands
<1>2. CASE p # "close"
  BY <1>1, <1>2 DEF ClearLands, Moves
<1>3. CASE p = "close"
  <2>1. status' = [status EXCEPT ![r] = "closed"]
    BY <1>3 DEF ClearLands
  <2>2. \A q \in Rounds : status'[q] = IF q = r THEN "closed" ELSE status[q]
    BY <1>1, <2>1
  <2>3. status' \in [Rounds -> Statuses]
    BY <1>1, <2>1 DEF Statuses
  <2>4. \A q \in Rounds : status'[q] = status[q] \/ (Final(q) /\ status'[q] = "closed")
    BY <2>2
  <2> QED BY <1>1, <2>2, <2>3, <2>4 DEF Moves
<1> QED BY <1>2, <1>3

LEMMA Waiting ==
  /\ delay(0) \in 1 .. CAP
  /\ \A last \in 0 .. CAP : delay(last) \in 1 .. CAP
BY Constants DEF delay, Least

\* A step refused or made changes its own wait and no other.
LEMMA WaitsKept ==
  ASSUME Waits, NEW key, failed(key, TRUE) \/ succeeded(key) \/ UNCHANGED backoff
                         \/ (key = LearnKey /\ failed(key, FALSE))
  PROVE  Waits' /\ \A k \in Keys \ {key} : backoff'[k] = backoff[k]
<1>1. \A k \in Keys \ {key} : backoff'[k] = backoff[k]
  BY DEF Waits, failed, succeeded
<1>2. CASE key \notin Keys
  <2>1. backoff' = backoff
    BY <1>2 DEF Waits, failed, succeeded
  <2> QED BY <2>1 DEF Waits, waiting, failing
<1>3. CASE key \in Keys
  <2>1. backoff[key] \in Backs
    BY <1>3 DEF Waits
  <2>2. delay(backoff[key].last) \in 1 .. CAP
    BY <2>1, Waiting DEF Backs
  <2>3. Fresh \in Backs
    BY Constants DEF Fresh, Backs
  <2> DEFINE next == delay(backoff[key].last)
             put(b) == [last |-> next, wait |-> next, failing |-> b]
  <2>4. ASSUME NEW b \in BOOLEAN, backoff' = [backoff EXCEPT ![key] = put(b)],
               b = TRUE \/ key = LearnKey
        PROVE  Waits'
    <3>0. next \in 0 .. CAP
      BY <2>2, Constants
    <3>1. put(b) \in Backs
      BY <3>0, <2>4, Zenon DEF Backs
    <3>2. backoff' \in [Keys -> Backs]
      BY <3>1, <2>4 DEF Waits
    <3>3. b = TRUE => backoff'[key].failing
      BY <2>4, <1>3 DEF Waits
    <3> QED BY <3>2, <3>3, <2>4, <1>1 DEF Waits, waiting, failing
  <2>5. CASE succeeded(key)
    <3>1. backoff' \in [Keys -> Backs]
      BY <2>3, <2>5 DEF succeeded, Waits
    <3>2. backoff'[key].wait = 0
      BY <2>5, <1>3 DEF succeeded, Waits, Fresh
    <3> QED BY <3>1, <3>2, <1>1 DEF Waits, waiting, failing
  <2>6. CASE UNCHANGED backoff
    BY <2>6 DEF Waits, waiting, failing
  <2>7. CASE failed(key, TRUE)
    <3>1. backoff' = [backoff EXCEPT ![key] = put(TRUE)]
      BY <2>7 DEF failed
    <3> QED BY <3>1, <2>4, <1>1
  <2>8. CASE key = LearnKey /\ failed(key, FALSE)
    <3>1. backoff' = [backoff EXCEPT ![key] = put(FALSE)]
      BY <2>8 DEF failed
    <3> QED BY <3>1, <2>8, <2>4, <1>1
  <2> QED BY <2>5, <2>6, <2>7, <2>8, Zenon
<1> QED BY <1>1, <1>2, <1>3

-----------------------------------------------------------------------------
(* What every step of the loop has in common.                              *)

LoopFrame == UNCHANGED <<now, weatherVars, troubles>> /\ Recounted

LEMMA RecountedType ==
  ASSUME Shape, Recounted
  PROVE  /\ good' \in [Rounds -> Nat] /\ good' = good
         /\ refused' \in 0 .. SICK + 1 /\ refused' <= refused
         /\ refused' > 0 => due' /\ refused' = refused
BY Constants DEF Shape, Recounted

LEMMA Ahead == Waits => \A r \in Rounds : ahead(r) \in 0 .. CAP
<1> SUFFICES ASSUME Waits, NEW r \in Rounds PROVE ahead(r) \in 0 .. CAP
  OBVIOUS
<1>1. opening(r) \in Keys
  BY DEF opening, Keys
<1>2. backoff[opening(r)].wait \in 0 .. CAP
  BY <1>1 DEF Waits, Backs
<1>3. 1 \in 0 .. CAP
  BY Constants
<1> QED BY <1>2, <1>3 DEF ahead

LEMMA AheadNext == Waits' => (\A r \in Rounds : ahead(r) \in 0 .. CAP)'
BY Ahead, PTL

\* An opening that could be made still can, whatever else happens on the chain.
LEMMA GoodKept ==
  ASSUME Shape, StillGood, Moves, UNCHANGED <<now, sends_land, priced, good>>
  PROVE  StillGood'
<1> SUFFICES ASSUME NEW r \in Rounds, good[r] > 0
             PROVE  /\ sends_land /\ now >= opens(r)
                    /\ status'[r] = "seeding" => takes(r, "open")'
  BY DEF StillGood
<1>1. sends_land /\ now >= opens(r) /\ (status[r] = "seeding" => takes(r, "open"))
  BY DEF StillGood
<1>2. ASSUME status'[r] = "seeding"
      PROVE  takes(r, "open")'
  <2>1. status[r] = "seeding"
    BY <1>1, <1>2, Calendar DEF Moves, Shape
  <2>2. takes(r, "open")
    BY <1>1, <2>1
  <2>3. nextStep(status[r], r)' = nextStep(status[r], r)
    BY <2>1, <1>2 DEF nextStep
  <2>4. ~openBlocker(r)'
    BY <2>2, Calendar DEF takes, openBlocker, on_time, Moves, Shape
  <2> QED BY <2>2, <2>3, <2>4 DEF takes
<1> QED BY <1>1, <1>2

\* An opening that no longer waits as long, or cannot be late, is not late.
LEMMA NotLateKept ==
  ASSUME Shape, Waits, Waits', StillGood, NotLate, Moves, good' = good,
         troubles' \in Nat, troubles <= troubles',
         \A r \in Rounds : \/ good[r] = 0 \/ status'[r] # "seeding"
                           \/ ahead(r)' + troubles <= ahead(r) + troubles'
  PROVE  NotLate'
<1> SUFFICES ASSUME NEW r \in Rounds
             PROVE  /\ good[r] <= CAP + troubles'
                    /\ status'[r] = "seeding" => good[r] + ahead(r)' <= CAP + troubles'
  BY DEF NotLate
<1>1. good[r] \in Nat /\ troubles \in Nat /\ CAP \in Nat
  BY Constants DEF Shape
<1>2. ahead(r) \in 0 .. CAP
  BY Ahead
<1>3. ahead(r)' \in 0 .. CAP
  BY AheadNext
<1>4. good[r] <= CAP + troubles
  BY DEF NotLate
<1>5. CASE good[r] = 0
  <2>1. \A a \in 0 .. CAP, t \in Nat : 0 <= CAP + t /\ 0 + a <= CAP + t
    BY <1>1
  <2> QED BY <1>3, <1>5, <2>1
<1>6. CASE good[r] > 0 /\ status'[r] = "seeding"
  <2>1. status[r] = "seeding"
    BY <1>6, Calendar DEF StillGood, Moves, Shape
  <2>2. good[r] + ahead(r) <= CAP + troubles
    BY <2>1 DEF NotLate
  <2>3. ahead(r)' + troubles <= ahead(r) + troubles'
    BY <1>1, <1>6
  <2> QED BY <1>1, <1>2, <1>3, <1>4, <2>2, <2>3
<1> QED BY <1>1, <1>4, <1>5, <1>6

LEMMA LoopKeeps ==
  ASSUME IInv, LoopFrame, Shape', Waits', Moves, Covers',
         refused' = 0 \/ health' = health,
         \A r \in Rounds : good[r] = 0 \/ status'[r] # "seeding" \/ ahead(r)' <= ahead(r)
  PROVE  IInv'
<1>1. /\ good' = good /\ refused' \in 0 .. SICK + 1 /\ refused' <= refused
      /\ refused' > 0 => due' /\ refused' = refused
  BY RecountedType DEF IInv, LoopFrame
<1>2. StillGood'
  BY <1>1, GoodKept DEF IInv, LoopFrame, weatherVars
<1>3. NotLate'
  <2>1. troubles' = troubles /\ troubles \in Nat
    BY DEF LoopFrame, IInv, Shape
  <2>2. \A r \in Rounds : ahead(r) \in 0 .. CAP
    BY Ahead DEF IInv
  <2>3. \A r \in Rounds : ahead(r)' \in 0 .. CAP
    BY AheadNext
  <2>4. \A r \in Rounds : \/ good[r] = 0 \/ status'[r] # "seeding"
                          \/ ahead(r)' + troubles <= ahead(r) + troubles'
    BY <2>1, <2>2, <2>3, Constants
  <2> QED BY <1>1, <2>1, <2>4, NotLateKept DEF IInv
<1>4. StillDue'
  BY <1>1 DEF IInv, Shape, StillDue, LoopFrame, weatherVars
<1>5. Old'
  BY <1>1 DEF IInv, Shape, Old
<1> QED BY <1>2, <1>3, <1>4, <1>5 DEF IInv

-----------------------------------------------------------------------------
(* The steps of the loop.                                                  *)

LEMMA LearnKeeps ==
  ASSUME IInv, LoopFrame, Learn
  PROVE  IInv'
<1>1. /\ Moves /\ learning' \in Nat
      /\ \/ failed(LearnKey, TRUE) \/ failed(LearnKey, FALSE)
         \/ succeeded(LearnKey) \/ UNCHANGED backoff
  <2> DEFINE next == learned + 1
  <2>1. counted(LearnKey) \in Nat
    BY DEF counted
  <2>2. learning \in Nat /\ 0 \in Nat /\ 1 \in Nat
    BY DEF IInv, Shape
  <2>3. ASSUME UNCHANGED chainVars PROVE Moves
    BY <2>3, StillMoves DEF IInv
  <2>4. ASSUME learned' = next, UNCHANGED <<status, left, house>> PROVE Moves
    BY <2>4 DEF IInv, Shape, Moves
  <2>5. CASE n % LEARN_EVERY # 0
    BY <2>5, <2>2, <2>3 DEF Learn
  <2>6. CASE n % LEARN_EVERY = 0 /\ ~(next <= DAYS + 1 /\ now >= opens(next))
    BY <2>6, <2>2, <2>3 DEF Learn
  <2>7. CASE n % LEARN_EVERY = 0 /\ next <= DAYS + 1 /\ now >= opens(next)
    <3>1. CASE waiting(LearnKey)
      BY <2>1, <2>3, <2>7, <3>1 DEF Learn, LearnKey
    <3>2. CASE ~waiting(LearnKey) /\ ~priced
      BY <2>2, <2>3, <2>7, <3>2 DEF Learn, LearnKey
    <3>3. CASE ~waiting(LearnKey) /\ priced
      BY <2>2, <2>3, <2>4, <2>7, <3>3 DEF Learn, LearnKey
    <3> QED BY <3>1, <3>2, <3>3
  <2> QED BY <2>5, <2>6, <2>7
<1>2. Waits' /\ \A r \in Rounds : backoff'[opening(r)] = backoff[opening(r)]
  <2>1. \A r \in Rounds : opening(r) \in Keys \ {LearnKey}
    BY Calendar DEF opening, LearnKey, Keys, Rounds
  <2> QED BY <1>1, <2>1, WaitsKept DEF IInv
<1>3. at = "learn" /\ at' = "scan" /\ UNCHANGED <<todo, failures, ageVars>>
  BY DEF Learn
<1>4. Shape'
  BY <1>1, <1>3, RecountedType DEF IInv, Shape, Moves, LoopFrame, weatherVars, ageVars
<1>5. \A r \in Rounds : ahead(r)' <= ahead(r)
  <2>1. \A r \in Rounds : ahead(r)' = ahead(r)
    BY <1>2, <1>3 DEF ahead
  <2> QED BY <2>1, Ahead, Constants DEF IInv
<1>6. Covers'
  BY <1>3 DEF Covers
<1> QED BY <1>1, <1>2, <1>3, <1>4, <1>5, <1>6, LoopKeeps DEF ageVars

LEMMA ScanKeeps ==
  ASSUME IInv, LoopFrame, Scan
  PROVE  IInv'
<1>1. Moves /\ UNCHANGED chainVars
  BY StillMoves DEF IInv, Scan
<1>2. /\ at = "scan" /\ at' = "pass" /\ failures' = 0 /\ UNCHANGED <<learning, backoff, ageVars>>
      /\ todo' = {<<r, nextStep(status[r], r)>> : r \in {q \in Rounds : nextStep(status[q], q) # "none"}}
                 \union {House}
  BY DEF Scan, memoryVars
<1>3. \A r \in Rounds : nextStep(status[r], r) # "none" =>
        /\ nextStep(status[r], r) \in Steps
        /\ <<r, nextStep(status[r], r)>> \in todo'
  BY <1>2 DEF nextStep, Steps
<1>4. Shape'
  <2>1. todo' \subseteq (Rounds \X Steps) \union {House}
    BY <1>2, <1>3
  <2> QED BY <1>1, <1>2, <2>1, RecountedType DEF IInv, Shape, Moves, LoopFrame, weatherVars, ageVars
<1>5. Waits'
  BY <1>2 DEF IInv, Waits, waiting, failing
<1>6. \A r \in Rounds : good[r] = 0 \/ status'[r] # "seeding" \/ ahead(r)' <= ahead(r)
  <2> SUFFICES ASSUME NEW r \in Rounds, good[r] > 0, status'[r] = "seeding"
               PROVE  ahead(r)' <= ahead(r)
    BY DEF IInv, Shape
  <2>1. nextStep(status[r], r) = "open"
    BY <1>1 DEF IInv, StillGood, takes, chainVars
  <2>2. opening(r) \in todo'
    BY <1>3, <2>1 DEF opening
  <2>3. ahead(r)' = ahead(r)
    BY <1>2, <2>2 DEF ahead
  <2> QED BY <2>3, Ahead, Constants DEF IInv
<1>7. Covers'
  <2>1. \A r \in Rounds, s \in Steps : takes(r, s)' => <<r, s>> \in todo'
    BY <1>1, <1>3 DEF takes, nextStep, chainVars, LoopFrame, Steps
  <2>2. \A r \in Rounds : (nextStep(status[r], r) = "open")' => opening(r)' \in todo'
    BY <1>1, <1>3 DEF nextStep, opening, chainVars, LoopFrame
  <2> QED BY <2>1, <2>2 DEF Covers
<1> QED BY <1>1, <1>2, <1>4, <1>5, <1>6, <1>7, LoopKeeps DEF ageVars

\* What becomes of one step of a pass.
Skipped(x) == waiting(x) /\ failures' = failures + 1 /\ UNCHANGED <<chainVars, backoff>>
PutOff(x) == ~takes(x[1], x[2]) /\ UNCHANGED <<chainVars, failures, backoff>>
Made(x) ==
  /\ takes(x[1], x[2]) /\ sends_land /\ Lands(x[1], x[2]) /\ succeeded(x) /\ failures' = failures
Refused(x) ==
  /\ ~(takes(x[1], x[2]) /\ sends_land) /\ (Lands(x[1], x[2]) \/ UNCHANGED chainVars)
  /\ failed(x, TRUE) /\ failures' = failures + 1

LEMMA PassStepDoes ==
  ASSUME Shape, Waits, PassStep
  PROVE  \E x \in Rounds \X Steps :
           /\ InTurn(x) /\ todo' = todo \ {x} /\ UNCHANGED <<at, learning, ageVars>>
           /\ Skipped(x) \/ (~waiting(x) /\ (PutOff(x) \/ Made(x) \/ Refused(x)))
<1>1. PICK x \in todo \ {House} :
        /\ InTurn(x) /\ todo' = todo \ {x} /\ UNCHANGED <<at, learning, ageVars>>
        /\ IF waiting(x) THEN failures' = failures + counted(x) /\ UNCHANGED <<chainVars, backoff>>
           ELSE IF (x[2] = "open" /\ openBlocker(x[1])) \/ (x[2] # "void" /\ ~priced)
           THEN UNCHANGED <<chainVars, failures, backoff>>
           ELSE Send(x, takes(x[1], x[2]), Lands(x[1], x[2]), succeeded(x))
  BY DEF PassStep
<1>2. x \in Rounds \X Steps
  BY <1>1 DEF InTurn, Shape
<1>3. x \in Keys \ {LearnKey, House}
  BY <1>1, <1>2, Calendar DEF Keys, LearnKey, Rounds, Steps
<1>4. CASE waiting(x)
  <2>1. counted(x) = 1
    BY <1>3, <1>4 DEF Waits, counted
  <2> QED BY <1>1, <1>2, <1>4, <2>1 DEF Skipped
<1>5. CASE ~waiting(x) /\ ((x[2] = "open" /\ openBlocker(x[1])) \/ (x[2] # "void" /\ ~priced))
  <2>1. ~takes(x[1], x[2])
    BY <1>2, <1>5 DEF takes, Steps
  <2> QED BY <1>1, <1>2, <1>5, <2>1 DEF PutOff
<1>6. CASE ~waiting(x) /\ ~((x[2] = "open" /\ openBlocker(x[1])) \/ (x[2] # "void" /\ ~priced))
  <2>1. Send(x, takes(x[1], x[2]), Lands(x[1], x[2]), succeeded(x))
    BY <1>1, <1>6
  <2>2. Made(x) \/ Refused(x)
    BY <2>1, ZenonT(20) DEF Send, Made, Refused
  <2> QED BY <1>1, <1>2, <1>6, <2>2
<1> QED BY <1>4, <1>5, <1>6

LEMMA PassStepKeeps ==
  ASSUME IInv, LoopFrame, PassStep
  PROVE  IInv'
<1>1. PICK x \in Rounds \X Steps :
        /\ InTurn(x) /\ todo' = todo \ {x} /\ UNCHANGED <<at, learning, ageVars>>
        /\ Skipped(x) \/ (~waiting(x) /\ (PutOff(x) \/ Made(x) \/ Refused(x)))
  BY PassStepDoes DEF IInv
<1>2. Moves
  BY <1>1, StillMoves, LandsMoves DEF IInv, Skipped, PutOff, Made, Refused
<1>3. failures' \in Nat /\ failures <= failures'
  <2>1. failures' = failures \/ failures' = failures + 1
    BY <1>1, Zenon DEF Skipped, PutOff, Made, Refused
  <2> QED BY <2>1 DEF IInv, Shape
<1>4. Waits' /\ \A k \in Keys \ {x} : backoff'[k] = backoff[k]
  BY <1>1, WaitsKept DEF IInv, Skipped, PutOff, Made, Refused
<1>5. at = "pass" /\ at' = "pass" /\ x \in todo
  BY <1>1 DEF InTurn
<1>6. Shape'
  BY <1>1, <1>2, <1>3, <1>5, RecountedType DEF IInv, Shape, Moves, LoopFrame, weatherVars, ageVars
<1>7. \A r \in Rounds : good[r] = 0 \/ status'[r] # "seeding" \/ ahead(r)' <= ahead(r)
  <2> SUFFICES ASSUME NEW r \in Rounds, good[r] > 0, status'[r] = "seeding"
               PROVE  ahead(r)' <= ahead(r)
    BY DEF IInv, Shape
  <2>1. opening(r) \in Keys
    BY DEF opening, Keys
  <2>2. CASE x # opening(r)
    <3>1. backoff'[opening(r)] = backoff[opening(r)]
      BY <1>4, <2>1, <2>2
    <3>2. ahead(r)' = ahead(r)
      BY <1>1, <1>5, <2>2, <3>1 DEF ahead, opening, waiting
    <3> QED BY <3>2, Ahead, Constants DEF IInv
  <2>3. CASE x = opening(r)
    <3>1. status[r] = "seeding" /\ sends_land /\ takes(r, "open")
      BY <1>2, Calendar DEF Moves, IInv, Shape, StillGood
    <3>2. CASE Skipped(x)
      <4>1. waiting(opening(r)) /\ backoff' = backoff
        BY <2>3, <3>2 DEF Skipped
      <4>2. ahead(r)' = ahead(r)
        BY <1>5, <4>1, <2>3 DEF ahead, waiting
      <4> QED BY <4>2, Ahead, Constants DEF IInv
    <3>3. CASE ~Skipped(x)
      <4>1. Made(x)
        BY <1>1, <2>3, <3>1, <3>3 DEF opening, PutOff, Refused
      <4>2. Lands(r, "open")
        BY <4>1, <2>3 DEF Made, opening
      <4>3. status'[r] = "open"
        BY <4>2, LandsMoves DEF IInv, Steps
      <4> QED BY <4>3
    <3> QED BY <3>2, <3>3
  <2> QED BY <2>2, <2>3
<1>8. Covers'
  <2> SUFFICES ASSUME refused' > 0, failures' = 0
               PROVE  /\ \A r \in Rounds, s \in Steps : takes(r, s)' => <<r, s>> \in todo'
                      /\ (\E r \in Rounds, s \in {"settle", "void"} : takes(r, s)') =>
                           \A r \in Rounds : nextStep(status[r], r)' = "open" => <<r, "open">> \in todo'
    BY DEF Covers, opening
  <2>1. refused > 0 /\ failures = 0 /\ ~sends_land
    BY <1>3, RecountedType DEF IInv, Shape, StillDue, LoopFrame
  <2>2. PutOff(x)
    BY <1>1, <2>1 DEF Skipped, Made, Refused
  <2>3. /\ \A r \in Rounds, s \in Steps : takes(r, s)' <=> takes(r, s)
        /\ \A r \in Rounds : nextStep(status[r], r)' = nextStep(status[r], r)
    BY <2>2 DEF PutOff, chainVars, LoopFrame, weatherVars, takes, nextStep, openBlocker, on_time
  <2>4. /\ \A r \in Rounds, s \in Steps : takes(r, s) => <<r, s>> \in todo
        /\ (\E r \in Rounds, s \in {"settle", "void"} : takes(r, s)) =>
             \A r \in Rounds : nextStep(status[r], r) = "open" => <<r, "open">> \in todo
    BY <1>5, <2>1 DEF IInv, Covers, opening
  <2>5. \A r \in Rounds, s \in Steps : takes(r, s) => <<r, s>> # x
    BY <2>2 DEF PutOff
  <2>6. (\E r \in Rounds, s \in {"settle", "void"} : takes(r, s)) => x[2] # "open"
    <3> SUFFICES ASSUME NEW r \in Rounds, NEW s \in {"settle", "void"}, takes(r, s)
                 PROVE  x[2] # "open"
      OBVIOUS
    <3>1. <<r, s>> \in todo /\ <<r, s>> # House
      BY <2>4, Calendar DEF Steps, House
    <3>2. turn(<<r, s>>) = 0
      BY <3>1 DEF turn
    <3>3. turn(x) <= 0
      BY <1>1, <3>1, <3>2 DEF InTurn
    <3> QED BY <3>3 DEF turn
  <2>7. \A r \in Rounds, s \in Steps : takes(r, s)' => <<r, s>> \in todo'
    BY <1>1, <2>3, <2>4, <2>5
  <2>8. ASSUME \E r \in Rounds, s \in {"settle", "void"} : takes(r, s)',
               NEW r \in Rounds, nextStep(status[r], r)' = "open"
        PROVE  <<r, "open">> \in todo'
    <3>1. \E q \in Rounds, s \in {"settle", "void"} : takes(q, s)
      BY <2>3, <2>8 DEF Steps
    <3>2. nextStep(status[r], r) = "open"
      BY <2>3, <2>8
    <3>3. <<r, "open">> \in todo /\ <<r, "open">> # x
      BY <2>4, <2>6, <3>1, <3>2
    <3> QED BY <1>1, <3>3
  <2> QED BY <2>7, <2>8
<1> QED BY <1>1, <1>2, <1>4, <1>6, <1>7, <1>8, LoopKeeps DEF ageVars

\* The house has no step, or one that lands, is refused or waits.
LEMMA PassHouseDoes ==
  ASSUME Shape, Waits, PassHouse
  PROVE  /\ at = "pass" /\ UNCHANGED <<at, learning, ageVars>>
         /\ todo' \in {todo, todo \ {House}}
         /\ failed(House, TRUE) \/ succeeded(House) \/ UNCHANGED backoff
         /\ \/ todo' = todo \ {House} /\ UNCHANGED <<chainVars, failures>>
            \/ sends_land /\ HouseLands /\ failures' = failures
            \/ failures' = failures + 1 /\ (HouseLands \/ UNCHANGED chainVars)
<1>1. House \in Keys \ {LearnKey}
  BY DEF House, Keys, LearnKey
<1>2. at = "pass" /\ UNCHANGED <<at, learning, ageVars>>
  BY DEF PassHouse, InTurn
<1>3. CASE waiting(House)
  <2>1. counted(House) = 1
    BY <1>1, <1>3 DEF Waits, counted
  <2>2. todo' = todo \ {House} /\ failures' = failures + counted(House) /\ UNCHANGED <<chainVars, backoff>>
    BY <1>3 DEF PassHouse
  <2> QED BY <1>2, <2>1, <2>2
<1>4. CASE ~waiting(House) /\ HouseStep = "none"
  BY <1>2, <1>4 DEF PassHouse
<1>5. CASE ~waiting(House) /\ HouseStep # "none"
  <2>1. todo' \in {todo, todo \ {House}} /\ Send(House, TRUE, HouseLands, succeeded(House))
    BY <1>5, Zenon DEF PassHouse
  <2>2. \/ sends_land /\ HouseLands /\ succeeded(House) /\ failures' = failures
        \/ HouseLands /\ failed(House, TRUE) /\ failures' = failures + 1
        \/ failed(House, TRUE) /\ failures' = failures + 1 /\ UNCHANGED chainVars
    BY <2>1, ZenonT(20) DEF Send
  <2> QED BY <1>2, <2>1, <2>2
<1> QED BY <1>3, <1>4, <1>5

LEMMA PassHouseKeeps ==
  ASSUME IInv, LoopFrame, PassHouse
  PROVE  IInv'
<1>1. /\ at = "pass" /\ UNCHANGED <<at, learning, ageVars>>
      /\ todo' \in {todo, todo \ {House}}
      /\ failed(House, TRUE) \/ succeeded(House) \/ UNCHANGED backoff
      /\ \/ todo' = todo \ {House} /\ UNCHANGED <<chainVars, failures>>
         \/ sends_land /\ HouseLands /\ failures' = failures
         \/ failures' = failures + 1 /\ (HouseLands \/ UNCHANGED chainVars)
  BY PassHouseDoes DEF IInv
<1>2. Moves
  BY <1>1, StillMoves, HouseMoves DEF IInv
<1>3. failures' \in Nat /\ failures <= failures'
  <2>1. failures' = failures \/ failures' = failures + 1
    BY <1>1, Zenon
  <2> QED BY <2>1 DEF IInv, Shape
<1>4. Waits' /\ \A k \in Keys \ {House} : backoff'[k] = backoff[k]
  BY <1>1, WaitsKept DEF IInv
<1>5. Shape'
  BY <1>1, <1>2, <1>3, RecountedType DEF IInv, Shape, Moves, LoopFrame, weatherVars, ageVars
<1>6. \A r \in Rounds : ahead(r)' <= ahead(r)
  <2>1. \A r \in Rounds : opening(r) \in Keys \ {House}
    BY DEF opening, Keys, House
  <2>2. \A r \in Rounds : ahead(r)' = ahead(r)
    BY <1>1, <1>4, <2>1 DEF ahead, waiting
  <2> QED BY <2>2, Ahead, Constants DEF IInv
<1>7. Covers'
  <2> SUFFICES ASSUME refused' > 0, failures' = 0
               PROVE  /\ \A r \in Rounds, s \in Steps : takes(r, s)' => <<r, s>> \in todo'
                      /\ (\E r \in Rounds, s \in {"settle", "void"} : takes(r, s)') =>
                           \A r \in Rounds : nextStep(status[r], r)' = "open" => <<r, "open">> \in todo'
    BY DEF Covers, opening
  <2>1. refused > 0 /\ failures = 0 /\ ~sends_land
    BY <1>3, RecountedType DEF IInv, Shape, StillDue, LoopFrame
  <2>2. todo' = todo \ {House} /\ UNCHANGED chainVars
    BY <1>1, <2>1
  <2>3. /\ \A r \in Rounds, s \in Steps : takes(r, s)' <=> takes(r, s)
        /\ \A r \in Rounds : nextStep(status[r], r)' = nextStep(status[r], r)
    BY <2>2 DEF chainVars, LoopFrame, weatherVars, takes, nextStep, openBlocker, on_time
  <2>4. /\ \A r \in Rounds, s \in Steps : takes(r, s) => <<r, s>> \in todo
        /\ (\E r \in Rounds, s \in {"settle", "void"} : takes(r, s)) =>
             \A r \in Rounds : nextStep(status[r], r) = "open" => <<r, "open">> \in todo
    BY <1>1, <2>1 DEF IInv, Covers, opening
  <2>5. \A r \in Rounds, s \in Steps : <<r, s>> # House
    BY DEF House, Steps
  <2>6. \A r \in Rounds, s \in Steps : takes(r, s)' => <<r, s>> \in todo'
    BY <2>2, <2>3, <2>4, <2>5
  <2>7. ASSUME \E r \in Rounds, s \in {"settle", "void"} : takes(r, s)',
               NEW r \in Rounds, nextStep(status[r], r)' = "open"
        PROVE  <<r, "open">> \in todo'
    <3>1. \E q \in Rounds, s \in {"settle", "void"} : takes(q, s)
      BY <2>3, <2>7 DEF Steps
    <3>2. nextStep(status[r], r) = "open"
      BY <2>3, <2>7
    <3>3. <<r, "open">> \in todo
      BY <2>4, <3>1, <3>2
    <3> QED BY <2>2, <2>5, <3>3 DEF Steps
  <2> QED BY <2>6, <2>7
<1> QED BY <1>1, <1>2, <1>4, <1>5, <1>6, <1>7, LoopKeeps DEF ageVars

\* A pass in which something due was refused ends with a failure.
LEMMA PassEndKeeps ==
  ASSUME IInv, LoopFrame, PassEnd
  PROVE  IInv'
<1>1. /\ at = "pass" /\ todo = {} /\ UNCHANGED <<chainVars, learning, backoff>>
      /\ at' \in {"clear", "sleep"} /\ failures' = 0
      /\ at' = "clear" => todo' \subseteq Rounds \X {"clear"}
      /\ health' = IF failures + learning = 0 THEN 0 ELSE health
  BY DEF PassEnd, memoryVars
<1>2. Moves
  BY <1>1, StillMoves DEF IInv
<1>3. Waits'
  BY <1>1 DEF IInv, Waits, waiting, failing
<1>4. refused' = 0 \/ health' = health
  <2> SUFFICES ASSUME refused' # 0 PROVE failures > 0
    BY <1>1 DEF IInv, Shape
  <2>1. refused > 0
    BY RecountedType, Constants DEF IInv, LoopFrame, Shape
  <2>2. PICK r \in Rounds, s \in Steps : takes(r, s)
    BY <2>1 DEF IInv, StillDue, due, Steps
  <2>3. <<r, s>> \notin todo
    BY <1>1
  <2> QED BY <1>1, <2>1, <2>2, <2>3 DEF IInv, Covers, Shape
<1>5. health' \in 0 .. SICK + 1
  BY <1>1, Constants DEF IInv, Shape
<1>6. Shape'
  BY <1>1, <1>2, <1>5, RecountedType DEF IInv, Shape, Moves, LoopFrame, weatherVars
<1>7. \A r \in Rounds : ahead(r)' <= ahead(r)
  <2>1. \A r \in Rounds : ahead(r)' = ahead(r)
    BY <1>1 DEF ahead, waiting
  <2> QED BY <2>1, Ahead, Constants DEF IInv
<1>8. Covers'
  BY <1>1 DEF Covers
<1> QED BY <1>2, <1>3, <1>4, <1>6, <1>7, <1>8, LoopKeeps

\* Clearing up touches no round that is still to open or to end.
LEMMA ClearRoundKeeps ==
  ASSUME IInv, LoopFrame, ClearRound
  PROVE  IInv'
<1>1. at = "clear" /\ UNCHANGED <<chainVars, at, learning, failures, backoff, ageVars>>
  BY DEF ClearRound
<1>2. todo' \subseteq todo
  <2>1. PICK x \in todo : todo' = todo \ {x} \/ todo' = todo
    BY DEF ClearRound
  <2> QED BY <2>1
<1>3. Moves
  BY <1>1, StillMoves DEF IInv
<1>4. Waits'
  BY <1>1 DEF IInv, Waits, waiting, failing
<1>5. Shape'
  BY <1>1, <1>2, <1>3, RecountedType DEF IInv, Shape, Moves, LoopFrame, weatherVars, ageVars
<1>6. \A r \in Rounds : ahead(r)' <= ahead(r)
  <2>1. \A r \in Rounds : ahead(r)' = ahead(r)
    BY <1>1 DEF ahead, waiting
  <2> QED BY <2>1, Ahead, Constants DEF IInv
<1>7. Covers'
  BY <1>1 DEF Covers
<1> QED BY <1>1, <1>3, <1>4, <1>5, <1>6, <1>7, LoopKeeps DEF ageVars

LEMMA ClearSendKeeps ==
  ASSUME IInv, LoopFrame, ClearSend
  PROVE  IInv'
<1> DEFINE r == plan.round
           key == <<r, "clear">>
<1>1. PICK p \in plan.go :
        /\ Send(key, clearable(r, p), ClearLands(r, p),
                IF p = "close" THEN succeeded(key) ELSE UNCHANGED backoff)
        /\ todo' = todo \ {key} \/ todo' = todo
  BY DEF ClearSend
<1>2. at = "clear" /\ UNCHANGED <<at, learning, ageVars>>
  BY DEF ClearSend
<1>3. /\ (Final(r) /\ ClearLands(r, p)) \/ UNCHANGED chainVars
      /\ failed(key, TRUE) \/ succeeded(key) \/ UNCHANGED backoff
      /\ failures' = failures \/ failures' = failures + 1
  <2>1. clearable(r, p) => Final(r)
    BY DEF clearable
  <2> QED BY <1>1, <2>1, ZenonT(20) DEF Send
<1>4. Moves
  BY <1>3, StillMoves, ClearMoves DEF IInv
<1>5. Waits' /\ \A k \in Keys \ {key} : backoff'[k] = backoff[k]
  BY <1>3, WaitsKept DEF IInv
<1>6. failures' \in Nat
  BY <1>3 DEF IInv, Shape
<1>7. Shape'
  BY <1>1, <1>2, <1>4, <1>6, RecountedType DEF IInv, Shape, Moves, LoopFrame, weatherVars, ageVars
<1>8. \A q \in Rounds : ahead(q)' <= ahead(q)
  <2>1. \A q \in Rounds : opening(q) \in Keys \ {key}
    BY DEF opening, Keys
  <2>2. \A q \in Rounds : ahead(q)' = ahead(q)
    BY <1>2, <1>5, <2>1 DEF ahead, waiting
  <2> QED BY <2>2, Ahead, Constants DEF IInv
<1>9. Covers'
  BY <1>2 DEF Covers
<1> QED BY <1>2, <1>4, <1>5, <1>7, <1>8, <1>9, LoopKeeps DEF ageVars

LEMMA ClearEndKeeps ==
  ASSUME IInv, LoopFrame, ClearEnd
  PROVE  IInv'
<1>1. /\ at = "clear" /\ at' = "sleep" /\ failures' = 0
      /\ UNCHANGED <<chainVars, learning, backoff, ageVars>>
  BY DEF ClearEnd, memoryVars
<1>2. Moves
  BY <1>1, StillMoves DEF IInv
<1>3. Waits'
  BY <1>1 DEF IInv, Waits, waiting, failing
<1>4. Shape'
  BY <1>1, <1>2, RecountedType DEF IInv, Shape, Moves, LoopFrame, weatherVars, ageVars
<1>5. \A r \in Rounds : ahead(r)' <= ahead(r)
  <2>1. \A r \in Rounds : ahead(r)' = ahead(r)
    BY <1>1 DEF ahead, waiting
  <2> QED BY <2>1, Ahead, Constants DEF IInv
<1>6. Covers'
  BY <1>1 DEF Covers
<1> QED BY <1>1, <1>2, <1>3, <1>4, <1>5, <1>6, LoopKeeps DEF ageVars

-----------------------------------------------------------------------------
(* Faults, others, the weather and the clock.                              *)

\* A pass thrown away costs the opening one waking, and is one trouble more.
LEMMA PassThrowsKeeps ==
  ASSUME IInv, PassThrows
  PROVE  IInv'
<1>1. /\ at' = "sleep" /\ failures' = 0 /\ troubles' = troubles + 1
      /\ UNCHANGED <<now, chainVars, weatherVars, learning, backoff, ageVars, historyVars>>
  BY DEF PassThrows, Trouble, memoryVars
<1>2. Moves
  BY <1>1, StillMoves DEF IInv
<1>3. Waits'
  BY <1>1 DEF IInv, Waits, waiting, failing
<1>4. Shape'
  BY <1>1, <1>2 DEF IInv, Shape, Moves, weatherVars, ageVars, historyVars
<1>5. StillGood'
  BY <1>1, <1>2, GoodKept DEF IInv, weatherVars, historyVars
<1>6. NotLate'
  <2>1. troubles \in Nat
    BY DEF IInv, Shape
  <2>2. \A r \in Rounds : ahead(r)' + troubles <= ahead(r) + troubles'
    <3> SUFFICES ASSUME NEW r \in Rounds
                 PROVE  ahead(r)' + troubles <= ahead(r) + troubles'
      OBVIOUS
    <3>1. opening(r) \in Keys
      BY DEF opening, Keys
    <3>2. backoff[opening(r)].wait \in 0 .. CAP /\ backoff' = backoff
      BY <1>1, <3>1 DEF IInv, Waits, Backs
    <3>3. ahead(r) \in Nat /\ ahead(r)' \in Nat /\ ahead(r)' <= ahead(r) + 1
      BY <1>1, <3>2, Constants DEF ahead, waiting
    <3> QED BY <1>1, <2>1, <3>3
  <2>3. troubles' \in Nat /\ troubles <= troubles' /\ good' = good
    BY <1>1, <2>1 DEF historyVars
  <2> QED BY <1>2, <1>3, <2>2, <2>3, NotLateKept DEF IInv
<1>7. StillDue' /\ Old'
  <2>1. due' <=> due
    BY <1>1 DEF due, takes, nextStep, openBlocker, on_time, chainVars, weatherVars
  <2> QED BY <1>1, <2>1 DEF IInv, StillDue, Old, weatherVars, ageVars, historyVars
<1>8. Covers'
  BY <1>1 DEF Covers
<1> QED BY <1>3, <1>4, <1>5, <1>6, <1>7, <1>8 DEF IInv

\* A process that begins anew waits for nothing.
LEMMA RestartsKeeps ==
  ASSUME IInv, Restarts, troubles' = troubles \/ troubles' = troubles + 1
  PROVE  IInv'
<1>1. /\ at' = "learn" /\ failures' = 0 /\ learning' = 0 /\ backoff' = [k \in Keys |-> Fresh]
      /\ UNCHANGED <<now, chainVars, weatherVars, beat, health, historyVars>>
  BY DEF Restarts
<1>2. Moves
  BY <1>1, StillMoves DEF IInv
<1>3. Fresh \in Backs /\ Fresh.wait = 0
  BY Constants DEF Fresh, Backs
<1>4. Waits'
  BY <1>1, <1>3 DEF Waits, waiting, failing
<1>5. troubles \in Nat /\ troubles' \in Nat /\ troubles <= troubles'
  BY DEF IInv, Shape
<1>6. Shape'
  BY <1>1, <1>2, <1>5 DEF IInv, Shape, Moves, weatherVars, historyVars
<1>7. StillGood'
  BY <1>1, <1>2, GoodKept DEF IInv, weatherVars, historyVars
<1>8. NotLate'
  <2>1. \A r \in Rounds : ahead(r)' = 0
    <3>1. \A r \in Rounds : opening(r) \in Keys
      BY DEF opening, Keys
    <3> QED BY <1>1, <1>3, <3>1 DEF ahead
  <2>2. \A r \in Rounds : ahead(r)' + troubles <= ahead(r) + troubles'
    BY <1>5, <2>1, Ahead, Constants DEF IInv
  <2>3. good' = good
    BY <1>1 DEF historyVars
  <2> QED BY <1>2, <1>4, <1>5, <2>2, <2>3, NotLateKept DEF IInv
<1>9. StillDue' /\ Old'
  <2>1. due' <=> due
    BY <1>1 DEF due, takes, nextStep, openBlocker, on_time, chainVars, weatherVars
  <2> QED BY <1>1, <2>1 DEF IInv, StillDue, Old, weatherVars, historyVars
<1>10. Covers'
  BY <1>1 DEF Covers
<1> QED BY <1>4, <1>6, <1>7, <1>8, <1>9, <1>10 DEF IInv

\* A round someone else took a step of has nothing due in this pass.
LEMMA LandsEnds ==
  ASSUME Shape, NEW r \in Rounds, NEW s \in Steps, takes(r, s), Lands(r, s), UNCHANGED now
  PROVE  nextStep(status[r], r)' = "none"
<1>1. CASE s = "open"
  <2>1. status'[r] = "open"
    BY <1>1, LandsMoves
  <2>2. now < settles(r)
    BY <1>1, Calendar, Constants DEF takes, nextStep, settles, Shape
  <2>3. opens(r) \in Nat /\ now \in Nat /\ settles(r) \in Nat
    BY Calendar, Constants DEF Shape, settles
  <2>4. now < settles(r) + VOID_FALLBACK
    BY <2>2, <2>3, Constants
  <2>5. ~(now >= settles(r)) /\ ~(now >= settles(r) + VOID_FALLBACK)
    BY <2>2, <2>3, <2>4, Constants
  <2> QED BY <2>1, <2>5 DEF nextStep
<1>2. CASE s \in {"settle", "void"}
  BY <1>2, LandsMoves DEF nextStep
<1> QED BY <1>1, <1>2 DEF Steps

\* Nor does an opening on time unblock another that is due.
LEMMA LandsUnblocks ==
  ASSUME Shape, NEW r \in Rounds, NEW s \in Steps, takes(r, s), Lands(r, s),
         UNCHANGED <<now, priced>>, NEW q \in Rounds, q # r, takes(q, "open")', ~takes(q, "open")
  PROVE  s = "settle" /\ nextStep(status[q], q) = "open"
<1>1. status'[q] = status[q]
  BY LandsMoves
<1>2. nextStep(status[q], q) = "open" /\ priced /\ openBlocker(q) /\ ~openBlocker(q)'
  BY <1>1 DEF takes, nextStep
<1>3. now >= opens(q) /\ now \in Nat /\ opens(q) \in Nat /\ learned \in Nat /\ q \in Nat /\ r \in Nat
  BY <1>2, Calendar DEF nextStep, Shape
<1>4. learned' # learned
  BY <1>2 DEF openBlocker, on_time
<1>5. CASE s = "open" /\ on_time(r) /\ learned = r - 1 /\ learned' = r
  <2>1. now < opens(r) + DAY
    BY <1>3, <1>5, Calendar, Constants DEF on_time
  <2>2. CASE on_time(q)
    <3>1. q = r + 1
      BY <1>2, <1>3, <1>5, <2>2 DEF openBlocker, on_time
    <3> QED BY <1>3, <2>1, <3>1, Calendar, Constants
  <2>3. CASE ~on_time(q)
    BY <1>2, <1>3, <1>5, <2>3 DEF openBlocker, on_time
  <2> QED BY <2>2, <2>3
<1> QED BY <1>2, <1>4, <1>5, LandsMoves

LEMMA OthersKeeps ==
  ASSUME IInv, Others
  PROVE  IInv'
<1>1. /\ UNCHANGED <<now, weatherVars, loopVars, memoryVars, ageVars, troubles>> /\ Recounted
      /\ \/ \E r \in Rounds, s \in Steps : takes(r, s) /\ Lands(r, s)
         \/ \E r \in Rounds, p \in Calls : Final(r) /\ ClearLands(r, p)
  BY DEF Others, Steps
<1>2. LoopFrame
  BY <1>1 DEF LoopFrame
<1>3. Moves
  BY <1>1, LandsMoves, ClearMoves DEF IInv
<1>4. Waits'
  BY <1>1 DEF IInv, Waits, waiting, failing, memoryVars
<1>5. Shape'
  BY <1>1, <1>3, RecountedType
     DEF IInv, Shape, Moves, loopVars, weatherVars, ageVars
<1>6. \A r \in Rounds : ahead(r)' <= ahead(r)
  <2>1. \A r \in Rounds : ahead(r)' = ahead(r)
    BY <1>1 DEF ahead, waiting, loopVars, memoryVars
  <2> QED BY <2>1, Ahead, Constants DEF IInv
<1>7. Covers'
  <2> SUFFICES ASSUME at = "pass", refused > 0, failures = 0
               PROVE  /\ \A r \in Rounds, s \in Steps : takes(r, s)' => <<r, s>> \in todo
                      /\ (\E r \in Rounds, s \in {"settle", "void"} : takes(r, s)') =>
                           \A r \in Rounds : nextStep(status[r], r)' = "open" => <<r, "open">> \in todo
    BY <1>1, RecountedType DEF Covers, opening, loopVars, IInv, Shape
  <2>1. /\ \A r \in Rounds, s \in Steps : takes(r, s) => <<r, s>> \in todo
        /\ (\E r \in Rounds, s \in {"settle", "void"} : takes(r, s)) =>
             \A r \in Rounds : nextStep(status[r], r) = "open" => <<r, "open">> \in todo
    BY DEF IInv, Covers, opening
  <2>2. ASSUME NEW r1 \in Rounds, NEW s1 \in Steps, takes(r1, s1), Lands(r1, s1)
        PROVE  /\ \A r \in Rounds, s \in Steps : takes(r, s)' => <<r, s>> \in todo
               /\ (\E r \in Rounds, s \in {"settle", "void"} : takes(r, s)') =>
                    \A r \in Rounds : nextStep(status[r], r)' = "open" => <<r, "open">> \in todo
    <3>1. nextStep(status[r1], r1)' = "none"
      BY <1>1, <2>2, LandsEnds DEF IInv
    <3>2. \A r \in Rounds : r # r1 => nextStep(status[r], r)' = nextStep(status[r], r)
      BY <1>1, <2>2, LandsMoves DEF IInv, nextStep
    <3>3. \A r \in Rounds, s \in Steps : takes(r, s)' => r # r1
      BY <3>1 DEF takes, Steps
    <3>4. \A r \in Rounds, s \in {"settle", "void"} : takes(r, s)' => takes(r, s)
      BY <1>1, <3>2, <3>3 DEF takes, weatherVars, Steps
    <3>5. ASSUME NEW r \in Rounds, takes(r, "open")'
          PROVE  <<r, "open">> \in todo
      <4>1. CASE takes(r, "open")
        BY <2>1, <4>1 DEF Steps
      <4>2. CASE ~takes(r, "open")
        <5>1. s1 = "settle" /\ nextStep(status[r], r) = "open"
          BY <1>1, <2>2, <3>3, <3>5, <4>2, LandsUnblocks DEF IInv, weatherVars, Steps
        <5> QED BY <2>1, <2>2, <5>1
      <4> QED BY <4>1, <4>2
    <3>6. \A r \in Rounds, s \in Steps : takes(r, s)' => <<r, s>> \in todo
      BY <2>1, <3>4, <3>5 DEF Steps
    <3>7. ASSUME \E r \in Rounds, s \in {"settle", "void"} : takes(r, s)',
                 NEW r \in Rounds, nextStep(status[r], r)' = "open"
          PROVE  <<r, "open">> \in todo
      BY <2>1, <3>1, <3>2, <3>4, <3>7
    <3> QED BY <3>6, <3>7
  <2>3. ASSUME NEW r1 \in Rounds, NEW p \in Calls, Final(r1), ClearLands(r1, p)
        PROVE  /\ \A r \in Rounds, s \in Steps : takes(r, s)' => <<r, s>> \in todo
               /\ (\E r \in Rounds, s \in {"settle", "void"} : takes(r, s)') =>
                    \A r \in Rounds : nextStep(status[r], r)' = "open" => <<r, "open">> \in todo
    <3>1. /\ learned' = learned
          /\ \A q \in Rounds : status'[q] = status[q] \/ (Final(q) /\ status'[q] = "closed")
      BY <2>3, ClearMoves DEF IInv
    <3>2. \A r \in Rounds : nextStep(status[r], r)' = nextStep(status[r], r)
      BY <1>1, <3>1 DEF nextStep, Final
    <3>3. \A r \in Rounds, s \in Steps : takes(r, s)' <=> takes(r, s)
      BY <1>1, <3>1, <3>2 DEF takes, openBlocker, on_time, weatherVars
    <3>4. ASSUME \E r \in Rounds, s \in {"settle", "void"} : takes(r, s)',
                 NEW r \in Rounds, nextStep(status[r], r)' = "open"
          PROVE  <<r, "open">> \in todo
      BY <2>1, <3>2, <3>3, <3>4 DEF Steps
    <3> QED BY <2>1, <3>3, <3>4
  <2> QED BY <1>1, <2>2, <2>3
<1> QED BY <1>1, <1>2, <1>3, <1>4, <1>5, <1>6, <1>7, LoopKeeps DEF ageVars

\* The weather changes: both counts begin anew.
LEMMA WeatherKeeps ==
  ASSUME IInv, Worsens \/ Clears
  PROVE  IInv'
<1>1. /\ good' = [r \in Rounds |-> 0] /\ refused' = 0
      /\ UNCHANGED <<now, chainVars, loopVars, memoryVars, ageVars>>
      /\ troubles' = troubles \/ troubles' = troubles + 1
  BY DEF Worsens, Clears, Trouble
<1>2. sends_land' \in BOOLEAN /\ priced' \in BOOLEAN
  BY DEF Worsens, Clears, IInv, Shape
<1>3. troubles \in Nat /\ troubles' \in Nat
  BY <1>1 DEF IInv, Shape
<1>4. Shape'
  BY <1>1, <1>2, <1>3, Constants DEF IInv, Shape, chainVars, loopVars, ageVars
<1>5. Waits'
  BY <1>1 DEF IInv, Waits, waiting, failing, memoryVars
<1>6. StillGood'
  BY <1>1 DEF StillGood
<1>7. NotLate'
  <2>1. \A r \in Rounds : ahead(r)' \in 0 .. CAP /\ good'[r] = 0
    BY <1>1, <1>5, AheadNext
  <2>2. \A a \in 0 .. CAP, t \in Nat : 0 <= CAP + t /\ 0 + a <= CAP + t
    BY Constants
  <2>3. \A r \in Rounds : good'[r] <= CAP + troubles' /\ good'[r] + ahead(r)' <= CAP + troubles'
    BY <1>3, <2>1, <2>2
  <2> QED BY <2>3 DEF NotLate
<1>8. StillDue' /\ Old' /\ Covers'
  BY <1>1 DEF StillDue, Old, Covers, IInv, Shape, ageVars
<1> QED BY <1>4, <1>5, <1>6, <1>7, <1>8 DEF IInv

\* An interval takes one off every wait and adds at most one to every count.
LEMMA TickKeeps ==
  ASSUME IInv, Tick
  PROVE  IInv'
<1>1. /\ at = "sleep" /\ at' = "learn" /\ now' = Least(now + 1, MAX_NOW)
      /\ UNCHANGED <<chainVars, weatherVars, failures, learning, troubles>>
      /\ backoff' = [k \in Keys |-> [backoff[k] EXCEPT !.wait = IF @ > 0 THEN @ - 1 ELSE 0]]
      /\ health' = Least(health + 1, SICK + 1)
      /\ good' = [r \in Rounds |-> IF sends_land /\ takes(r, "open")'
                                  THEN Least(good[r] + 1, CAP + TROUBLES + 1) ELSE 0]
      /\ refused' = IF ~sends_land /\ due' THEN Least(refused + 1, SICK + 1) ELSE 0
  BY DEF Tick
<1>2. \A r \in Rounds : good'[r] \in Nat /\ good[r] \in Nat /\ good'[r] <= good[r] + 1
  BY <1>1, Constants DEF IInv, Shape, Least
<1>3. \A r \in Rounds : good'[r] > 0 => sends_land /\ takes(r, "open")'
  BY <1>1
<1>4. /\ refused' \in 0 .. SICK + 1 /\ health' \in 0 .. SICK + 1 /\ refused' <= health'
      /\ refused' > 0 => ~sends_land /\ due'
  <2>1. health \in 0 .. SICK + 1 /\ refused \in 0 .. SICK + 1 /\ refused <= health
    BY DEF IInv, Shape, Old
  <2>2. CASE ~sends_land /\ due'
    <3>1. refused' = Least(refused + 1, SICK + 1)
      BY <1>1, <2>2
    <3> QED BY <1>1, <2>1, <2>2, <3>1, Constants DEF Least
  <2>3. CASE ~(~sends_land /\ due')
    <3>1. refused' = 0
      BY <1>1, <2>3
    <3> QED BY <1>1, <2>1, <3>1, Constants DEF Least
  <2> QED BY <2>2, <2>3
<1>5. Shape'
  <2>1. now' \in Nat
    BY <1>1, Constants DEF Least, IInv, Shape
  <2>2. good' \in [Rounds -> Nat]
    BY <1>1, <1>2
  <2> QED BY <1>1, <1>4, <2>1, <2>2 DEF IInv, Shape, chainVars, weatherVars
<1>6. \A k \in Keys : /\ backoff'[k] \in Backs /\ backoff'[k].failing = backoff[k].failing
                      /\ backoff'[k].wait = IF backoff[k].wait > 0 THEN backoff[k].wait - 1 ELSE 0
  <2> SUFFICES ASSUME NEW k \in Keys
               PROVE  /\ backoff'[k] \in Backs /\ backoff'[k].failing = backoff[k].failing
                      /\ backoff'[k].wait = IF backoff[k].wait > 0 THEN backoff[k].wait - 1 ELSE 0
    OBVIOUS
  <2>1. backoff[k] \in Backs
    BY DEF IInv, Waits
  <2> DEFINE w == IF backoff[k].wait > 0 THEN backoff[k].wait - 1 ELSE 0
  <2>2. w \in 0 .. CAP
    BY <2>1, Constants DEF Backs
  <2>3. backoff'[k] = [backoff[k] EXCEPT !.wait = w]
    BY <1>1
  <2> HIDE DEF w
  <2>4. backoff'[k] \in Backs /\ backoff'[k].failing = backoff[k].failing /\ backoff'[k].wait = w
    BY <2>1, <2>2, <2>3 DEF Backs
  <2> QED BY <2>4 DEF w
<1>7. Waits'
  <2>1. backoff' \in [Keys -> Backs]
    BY <1>1, <1>6
  <2>2. \A k \in Keys : backoff'[k].wait > 0 => backoff[k].wait > 0
    BY <1>6, Constants DEF IInv, Waits, Backs
  <2> QED BY <1>6, <2>1, <2>2 DEF IInv, Waits, waiting, failing
<1>8. StillGood'
  <2> SUFFICES ASSUME NEW r \in Rounds, good'[r] > 0
               PROVE  sends_land' /\ now' >= opens(r) /\ takes(r, "open")'
    BY DEF StillGood
  <2>1. sends_land /\ takes(r, "open")'
    BY <1>3
  <2>2. now' >= opens(r)
    BY <2>1 DEF takes, nextStep
  <2> QED BY <1>1, <2>1, <2>2 DEF weatherVars
<1>9. NotLate'
  <2> SUFFICES ASSUME NEW r \in Rounds
               PROVE  /\ good'[r] <= CAP + troubles'
                      /\ status'[r] = "seeding" => good'[r] + ahead(r)' <= CAP + troubles'
    BY DEF NotLate
  <2>1. opening(r) \in Keys
    BY DEF opening, Keys
  <2>2. backoff[opening(r)].wait \in 0 .. CAP
    BY <2>1 DEF IInv, Waits, Backs
  <2>3. ahead(r)' \in 0 .. CAP /\ ahead(r)' + 1 = ahead(r) /\ ahead(r) \in Nat
    BY <1>1, <1>6, <2>1, <2>2, Constants DEF ahead, waiting
  <2>4. troubles' = troubles /\ troubles \in Nat
    BY <1>1 DEF IInv, Shape
  <2>5. CASE good'[r] = 0
    BY <2>3, <2>4, <2>5, Constants
  <2>6. CASE good'[r] > 0
    <3>1. status[r] = "seeding"
      BY <1>1, <1>3, <2>6 DEF takes, nextStep, chainVars
    <3>2. good[r] + ahead(r) <= CAP + troubles
      BY <3>1 DEF IInv, NotLate
    <3> QED BY <1>2, <2>3, <2>4, <3>2, Constants
  <2> QED BY <1>2, <2>5, <2>6
<1>10. StillDue' /\ Old' /\ Covers'
  BY <1>1, <1>4 DEF StillDue, Old, Covers, weatherVars
<1> QED BY <1>5, <1>7, <1>8, <1>9, <1>10 DEF IInv

-----------------------------------------------------------------------------
(* The theorems.                                                           *)

LEMMA InitIInv == Init => IInv
<1> SUFFICES ASSUME Init PROVE IInv
  OBVIOUS
<1>1. Fresh \in Backs /\ Fresh.wait = 0
  BY Constants DEF Fresh, Backs
<1>2. Shape
  BY Constants DEF Init, Shape, Statuses
<1>3. Waits
  BY <1>1 DEF Init, Waits, waiting, failing
<1>4. StillGood /\ StillDue /\ Old /\ Covers
  BY DEF Init, StillGood, StillDue, Old, Covers
<1>5. NotLate
  <2>1. \A r \in Rounds : ahead(r) \in 0 .. CAP /\ good[r] = 0
    BY <1>3, Ahead DEF Init
  <2> QED BY <2>1, Constants DEF NotLate, Init
<1> QED BY <1>2, <1>3, <1>4, <1>5 DEF IInv

LEMMA NextKeeps == IInv /\ [Next]_vars => IInv'
<1> SUFFICES ASSUME IInv, [Next]_vars PROVE IInv'
  OBVIOUS
<1>1. CASE Loop
  <2>1. LoopFrame
    BY <1>1 DEF Loop, LoopFrame
  <2>2. \/ Learn \/ Scan \/ PassStep \/ PassHouse \/ PassEnd
        \/ ClearRound \/ ClearSend \/ ClearEnd
    BY <1>1, Zenon DEF Loop
  <2> QED BY <2>1, <2>2, LearnKeeps, ScanKeeps, PassStepKeeps, PassHouseKeeps, PassEndKeeps,
             ClearRoundKeeps, ClearSendKeeps, ClearEndKeeps, Zenon
<1>2. CASE PassThrows
  BY <1>2, PassThrowsKeeps
<1>3. CASE Dies \/ Watchdog
  BY <1>3, RestartsKeeps DEF Dies, Watchdog, Trouble
<1>4. CASE Others
  BY <1>4, OthersKeeps
<1>5. CASE Worsens \/ Clears
  BY <1>5, WeatherKeeps
<1>6. CASE Tick
  BY <1>6, TickKeeps
<1>7. CASE UNCHANGED vars
  <2>1. /\ Shape' /\ Waits' /\ StillGood' /\ Old'
    BY <1>7 DEF vars, IInv, Shape, Waits, StillGood, Old, waiting, failing, takes, nextStep,
                openBlocker, on_time
  <2>2. NotLate'
    BY <1>7 DEF vars, IInv, NotLate, ahead, waiting
  <2>3. StillDue' /\ Covers'
    BY <1>7 DEF vars, IInv, StillDue, Covers, due, takes, nextStep, openBlocker, on_time
  <2> QED BY <2>1, <2>2, <2>3 DEF IInv
<1> QED BY <1>1, <1>2, <1>3, <1>4, <1>5, <1>6, <1>7, Zenon DEF Next

LEMMA KeeperInvariant == Spec => []IInv
BY InitIInv, NextKeeps, PTL DEF Spec

\* However often its opening was refused, the keeper makes it within the longest
\* wait of its being possible, and a waking more for every pass it lost.
THEOREM OpensInTimeHolds == Spec => []OpensInTime
<1>1. IInv => OpensInTime
  BY DEF IInv, NotLate, OpensInTime
<1> QED BY <1>1, KeeperInvariant, PTL

\* While what is due cannot be sent, every pass knows of a failure: the health file
\* grows as old as the trouble.
THEOREM StuckIsToldHolds == Spec => []StuckIsTold
<1>1. IInv => StuckIsTold
  BY Constants DEF IInv, Shape, Old, StuckIsTold
<1> QED BY <1>1, KeeperInvariant, PTL
=============================================================================
