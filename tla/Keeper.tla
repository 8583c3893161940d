------------------------------- MODULE Keeper -------------------------------
(***************************************************************************)
(* The keeper's loop: learn, pass over the rounds and houses, clear up,    *)
(* sleep.  Every step the program refuses is put off, each time twice as   *)
(* long, up to a cap.  Others may take any step first, sends and prices    *)
(* fail for a while, and the process may die.  Two files tell the box how  *)
(* it is doing: `beat`, that it passes, and `health`, that nothing fails.  *)
(* One coin with one house; a day's round holds a call that pays, one that *)
(* does not and the house's deposit.                                       *)
(***************************************************************************)
EXTENDS Integers, FiniteSets, FiniteSetsExt

CONSTANTS DAYS, DAY, LEAD,               \* rounds, their length, the first opening
          ON_TIME, WINDOW,               \* minutes an opening is on time, and may be made
          VOID_FALLBACK, GRACE,          \* after the close: void without proof, pay anyone
          BASE, CAP,                     \* the first wait of a refused step, and the longest
          LEARN_EVERY, CLEAR_EVERY, CLEAR_UP_SENDS,
          BEAT_STALE, SICK,              \* ages at which the box restarts it, and alerts
          MAX_NOW, TROUBLES              \* bounds: the clock (it then stands), the faults

ASSUME KeeperConstants ==
  /\ {DAYS, DAY, LEAD, WINDOW, BASE, CAP, LEARN_EVERY, CLEAR_EVERY, CLEAR_UP_SENDS,
      BEAT_STALE, SICK} \subseteq Nat \ {0}
  /\ {ON_TIME, VOID_FALLBACK, GRACE, MAX_NOW, TROUBLES} \subseteq Nat
  /\ ON_TIME <= WINDOW /\ WINDOW <= DAY /\ BASE <= CAP

Rounds == 1 .. DAYS
opens(r) == (r - 1) * DAY + LEAD
settles(r) == opens(r) + DAY
Calls == {"paying", "lost"}

VARIABLES now, status, left, learned, house,   \* the chain: rounds and what is open in
                                               \*   them, closes taken, the house's round
          sends_land, priced,                  \* the weather
          at, n, todo, failures, learning, sends, plan,   \* the loop
          backoff, waitingOn,                  \* what the keeper remembers
          up, beat, health,                    \* age of the process and of the two files
          good, refused,                       \* history: wakings at which an opening could
                                               \*   be made, a due step could not be sent
          troubles

chainVars == <<status, left, learned, house>>
loopVars == <<at, n, todo, failures, learning, sends, plan>>
memoryVars == <<backoff, waitingOn>>
ageVars == <<up, beat, health>>
historyVars == <<good, refused>>
weatherVars == <<sends_land, priced>>
CYCLE == LEARN_EVERY * CLEAR_EVERY
NoPlan == [round |-> 0, go |-> {}, open |-> 0]
vars == <<now, status, left, learned, house, sends_land, priced, at, n, todo, failures, learning,
          sends, plan, backoff, waitingOn, up, beat, health, good, refused, troubles>>

-----------------------------------------------------------------------------
(* What the chain takes, and what a step does to it.                       *)

Least(a, b) == IF a < b THEN a ELSE b
Final(r) == status[r] \in {"settled", "void"}
on_time(r) == now < opens(r) + ON_TIME

nextStep(s, r) ==
  IF s = "seeding"
  THEN IF now >= opens(r) + WINDOW THEN "void" ELSE IF now >= opens(r) THEN "open" ELSE "none"
  ELSE IF s # "open" THEN "none"
  ELSE IF now >= settles(r) + VOID_FALLBACK THEN "void"
  ELSE IF now >= settles(r) THEN "settle" ELSE "none"

\* An opening on time teaches the close it opens at; a late one needs it taken.
openBlocker(r) == learned < IF on_time(r) THEN r - 1 ELSE r

takes(r, step) ==
  /\ nextStep(status[r], r) = step
  /\ step \in {"open", "settle"} => priced
  /\ step = "open" => ~openBlocker(r)
due == \E r \in Rounds, step \in {"open", "settle", "void"} : takes(r, step)

\* A step of a round lands.
Lands(r, step) ==
  /\ status' = [status EXCEPT ![r] = CASE step = "open" -> "open" [] step = "settle" -> "settled"
                                       [] OTHER -> "void"]
  /\ learned' = CASE step = "open" /\ on_time(r) /\ learned = r - 1 -> r
                  [] step = "settle" /\ learned = r -> r + 1
                  [] OTHER -> learned
  /\ left' = [left EXCEPT ![r] = IF step = "open" THEN @ \union Calls ELSE @]
  /\ UNCHANGED house

startable(r) == status[r] = "none" /\ now < opens(r)
HouseStep_settled ==
  IF house # 0 THEN IF status[house] = "settled" THEN "collect" ELSE "none"
  ELSE IF \E r \in Rounds : startable(r) THEN "start" ELSE "none"
HouseStep ==
  IF house # 0 THEN IF Final(house) THEN "collect" ELSE "none"
  ELSE IF \E r \in Rounds : startable(r) THEN "start" ELSE "none"
houseStartIndex(r) == startable(r) /\ \A q \in Rounds : startable(q) => r <= q
Collects ==
  /\ left' = [left EXCEPT ![house] = @ \ {"deposit"}] /\ house' = 0
  /\ UNCHANGED <<status, learned>>
Starts ==
  \E r \in Rounds :
    /\ houseStartIndex(r)
    /\ status' = [status EXCEPT ![r] = "seeding"] /\ left' = [left EXCEPT ![r] = {"deposit"}]
    /\ house' = r /\ UNCHANGED learned
HouseLands == IF HouseStep = "collect" THEN Collects ELSE Starts

owed(r, p) == IF status[r] = "void" THEN p \in Calls ELSE p = "paying"
\* One account of a finished round is cleared, or with none left the round.
ClearLands(r, p) ==
  /\ status' = IF p = "close" THEN [status EXCEPT ![r] = "closed"] ELSE status
  /\ left' = [left EXCEPT ![r] = @ \ {p}]
  /\ UNCHANGED <<learned, house>>
\* A house's deposit is only booked home by the house.
clearable(r, p) ==
  /\ Final(r)
  /\ IF p = "close" THEN left[r] = {} /\ now >= settles(r)
     ELSE p \in left[r] \intersect Calls /\ (owed(r, p) => now >= settles(r) + GRACE)

-----------------------------------------------------------------------------
(* Backing off.                                                            *)

Keys == {<<r, s>> : r \in Rounds, s \in {"open", "settle", "void", "clear"}}
        \union {<<0, "house">>, <<0, "learn">>}
Fresh == [last |-> 0, wait |-> 0, failing |-> FALSE]

waiting(key) == backoff[key].wait > 0
failing(key) == backoff[key].failing
\* The wait after one of `last`: twice it, capped.
delay_uncapped(last) == IF last = 0 THEN BASE ELSE 2 * last
delay(last) == IF last = 0 THEN BASE ELSE Least(2 * last, CAP)
failed(key, isFailure) ==
  LET next == delay(backoff[key].last)
  IN  backoff' = [backoff EXCEPT ![key] = [last |-> next, wait |-> next, failing |-> isFailure]]
succeeded(key) == backoff' = [backoff EXCEPT ![key] = Fresh]
\* A step left waiting is failing if its last attempt was.
counted_not(key) == 0
counted(key) == IF failing(key) THEN 1 ELSE 0

\* A send lands and is heard of, lands unheard of, or is refused.
Send(key, can, Effect, Then) ==
  \/ can /\ sends_land /\ Effect /\ Then /\ UNCHANGED failures
  \/ can /\ ~sends_land /\ Effect /\ failed(key, TRUE) /\ failures' = failures + 1
  \/ /\ ~can \/ ~sends_land
     /\ failed(key, TRUE) /\ failures' = failures + 1 /\ UNCHANGED chainVars

-----------------------------------------------------------------------------
(* The loop.                                                               *)

Trouble == troubles < TROUBLES /\ troubles' = troubles + 1

\* Every LEARN_EVERY passes: the first close not taken, if it is past.
Learn ==
  /\ at = "learn"
  /\ at' = "scan" /\ UNCHANGED <<n, todo, failures, sends, plan, waitingOn, ageVars>>
  /\ LET key  == <<0, "learn">>
         next == learned + 1
         past == next <= DAYS + 1 /\ now >= opens(next)
     IN  IF n % LEARN_EVERY # 0 THEN UNCHANGED <<chainVars, learning, backoff>>
         ELSE IF ~past THEN learning' = 0 /\ UNCHANGED <<chainVars, backoff>>
         ELSE IF waiting(key) THEN learning' = counted(key) /\ UNCHANGED <<chainVars, backoff>>
         ELSE IF ~priced THEN learning' = 0 /\ failed(key, FALSE) /\ UNCHANGED chainVars
         ELSE \/ /\ learned' = next /\ UNCHANGED <<status, left, house>>
                 /\ IF sends_land THEN learning' = 0 /\ succeeded(key)
                    ELSE learning' = 1 /\ failed(key, TRUE)
              \/ ~sends_land /\ learning' = 1 /\ failed(key, TRUE) /\ UNCHANGED chainVars

\* The pass reads every running round once, and works from that: endings first,
\* then the house, openings last.
House == <<0, "house">>
Scan ==
  /\ at = "scan"
  /\ todo' = {<<r, nextStep(status[r], r)>> : r \in {q \in Rounds : nextStep(status[q], q) # "none"}}
             \union {House}
  /\ failures' = 0 /\ at' = "pass"
  /\ UNCHANGED <<chainVars, n, learning, sends, plan, memoryVars, ageVars>>

turn(x) == IF x[2] = "open" THEN 2 ELSE IF x = House THEN 1 ELSE 0
InTurn(x) == at = "pass" /\ x \in todo /\ \A y \in todo : turn(x) <= turn(y)

PassStep ==
  \E x \in todo \ {House} :
    /\ InTurn(x) /\ todo' = todo \ {x}
    /\ UNCHANGED <<at, n, learning, sends, plan, waitingOn, ageVars>>
    /\ LET r    == x[1]
           step == x[2]
       IN  IF waiting(x) THEN failures' = failures + counted(x) /\ UNCHANGED <<chainVars, backoff>>
           ELSE IF (step = "open" /\ openBlocker(r)) \/ (step # "void" /\ ~priced)
           THEN UNCHANGED <<chainVars, failures, backoff>>
           ELSE Send(x, takes(r, step), Lands(r, step), succeeded(x))

\* Home from a finished round, then into the next.
PassHouse ==
  /\ InTurn(House)
  /\ UNCHANGED <<at, n, learning, sends, plan, waitingOn, ageVars>>
  /\ IF waiting(House)
     THEN /\ todo' = todo \ {House} /\ failures' = failures + counted(House)
          /\ UNCHANGED <<chainVars, backoff>>
     ELSE IF HouseStep = "none"
     THEN todo' = todo \ {House} /\ succeeded(House) /\ UNCHANGED <<chainVars, failures>>
     ELSE /\ todo' = IF HouseStep = "collect" /\ sends_land THEN todo ELSE todo \ {House}
          /\ Send(House, TRUE, HouseLands, succeeded(House))

\* A pass that ran beats; one with nothing failing is healthy.
PassEnd ==
  /\ at = "pass" /\ todo = {}
  /\ beat' = 0 /\ health' = IF failures + learning = 0 THEN 0 ELSE health
  /\ IF n % CLEAR_EVERY = 0
     THEN at' = "clear" /\ todo' = {<<r, "clear">> : r \in {q \in Rounds : Final(q)}}
     ELSE at' = "sleep" /\ todo' = {}
  /\ sends' = CLEAR_UP_SENDS /\ failures' = 0
  /\ UNCHANGED <<chainVars, n, learning, plan, memoryVars, up>>

\* The reads fail: the pass is over and nothing is written.
PassThrows ==
  /\ at \in {"scan", "pass"} /\ Trouble
  /\ at' = "sleep" /\ todo' = {} /\ failures' = 0
  /\ UNCHANGED <<now, chainVars, weatherVars, n, learning, sends, plan, memoryVars, ageVars,
                 historyVars>>

\* A finished round: what of it is cleared in this run, and whether it then closes.
ClearRound ==
  /\ at = "clear" /\ plan = NoPlan
  /\ UNCHANGED <<chainVars, at, n, learning, sends, failures, backoff, ageVars>>
  /\ \E x \in todo :
     LET r     == x[1]
         open  == left[r] \intersect Calls
         grace == now >= settles(r) + GRACE
         may   == {p \in open : grace \/ ~owed(r, p)}
         skip  == waiting(x) \/ (open # {} /\ ~grace /\ waitingOn[r] = Cardinality(open))
         keep  == open # {} /\ ~grace /\ may = {} /\ sends > 0
     IN  /\ waitingOn' = IF ~skip /\ keep THEN [waitingOn EXCEPT ![r] = Cardinality(open)] ELSE waitingOn
         /\ \E some \in kSubset(Least(sends, Cardinality(may)), may) :
              LET last == IF some = left[r] /\ now >= settles(r) THEN {"close"} ELSE {}
              IN  IF skip \/ some \union last = {} THEN plan' = NoPlan /\ todo' = todo \ {x}
                  ELSE /\ plan' = [round |-> r, go |-> some \union last, open |-> Cardinality(open)]
                       /\ UNCHANGED todo

\* `waitingOn` keeps how many calls a scan left for their owners: the round is not
\* scanned again while the count stands.
ClearSend ==
  /\ at = "clear" /\ plan # NoPlan
  /\ UNCHANGED <<at, n, learning, ageVars>>
  /\ \E p \in plan.go :
     LET r    == plan.round
         key  == <<r, "clear">>
         sent == plan.open - 1
     IN  /\ p = "close" => plan.go = {"close"}
         /\ Send(key, clearable(r, p), ClearLands(r, p),
                 IF p = "close" THEN succeeded(key) ELSE UNCHANGED backoff)
         /\ sends' = IF p = "close" THEN sends ELSE sends - 1
         /\ plan' = IF backoff'[key].wait > 0 \/ plan.go = {p} THEN NoPlan
                    ELSE [plan EXCEPT !.go = @ \ {p}, !.open = sent]
         /\ todo' = IF plan' = NoPlan THEN todo \ {key} ELSE todo
         /\ waitingOn' = IF p # "close" /\ backoff'[key].wait = 0 /\ plan' = NoPlan
                            /\ now < settles(r) + GRACE /\ sends' > 0
                         THEN [waitingOn EXCEPT ![r] = sent] ELSE waitingOn

ClearEnd ==
  /\ at = "clear" /\ todo = {}
  /\ at' = "sleep" /\ failures' = 0 /\ sends' = 0
  /\ UNCHANGED <<chainVars, n, todo, learning, plan, memoryVars, ageVars>>

\* The process begins anew, at once: all it leaves is on the chain and in the files.
Restarts ==
  /\ at' = "learn" /\ n' = 0 /\ todo' = {} /\ failures' = 0 /\ learning' = 0 /\ sends' = 0
  /\ plan' = NoPlan /\ up' = 0
  /\ backoff' = [k \in Keys |-> Fresh] /\ waitingOn' = [r \in Rounds |-> 0]
  /\ UNCHANGED <<now, chainVars, weatherVars, beat, health, historyVars>>
Dies == Trouble /\ Restarts
\* The box restarts a process that has run for a while and does not beat.
Watchdog == beat > BEAT_STALE /\ up > BEAT_STALE /\ Restarts /\ UNCHANGED troubles

-----------------------------------------------------------------------------
(* Others, the weather and the clock.                                      *)

\* Of the time a due step could not be sent nothing is left once none is due.
Recounted == UNCHANGED good /\ refused' = IF due' THEN refused ELSE 0

\* Any step is open to anyone, and owners collect.
Others ==
  /\ \/ \E r \in Rounds, step \in {"open", "settle", "void"} : takes(r, step) /\ Lands(r, step)
     \/ \E r \in Rounds, p \in Calls :
          Final(r) /\ p \in left[r] /\ owed(r, p) /\ ClearLands(r, p)
  /\ UNCHANGED <<now, weatherVars, loopVars, memoryVars, ageVars, troubles>> /\ Recounted

\* Sends are refused, or the price service has nothing, until it passes.
Worsens ==
  /\ Trouble
  /\ \/ sends_land /\ sends_land' = FALSE /\ UNCHANGED priced
     \/ priced /\ priced' = FALSE /\ UNCHANGED sends_land
  /\ good' = [r \in Rounds |-> 0] /\ refused' = 0
  /\ UNCHANGED <<now, chainVars, loopVars, memoryVars, ageVars>>
Clears ==
  /\ ~sends_land \/ ~priced
  /\ \/ ~sends_land /\ sends_land' = TRUE /\ UNCHANGED priced
     \/ ~priced /\ priced' = TRUE /\ UNCHANGED sends_land
  /\ good' = [r \in Rounds |-> 0] /\ refused' = 0
  /\ UNCHANGED <<now, chainVars, loopVars, memoryVars, ageVars, troubles>>

\* One interval: the loop sleeps through it, and wakes.
Tick ==
  /\ at = "sleep"
  /\ now' = Least(now + 1, MAX_NOW) /\ UNCHANGED <<chainVars, weatherVars>>
  /\ at' = "learn" /\ n' = (n + 1) % CYCLE
  /\ backoff' = [k \in Keys |-> [backoff[k] EXCEPT !.wait = IF @ > 0 THEN @ - 1 ELSE 0]]
  /\ up' = Least(up + 1, BEAT_STALE + 1)
  /\ beat' = Least(beat + 1, BEAT_STALE + 1) /\ health' = Least(health + 1, SICK + 1)
  /\ good' = [r \in Rounds |-> IF sends_land /\ takes(r, "open")'
                              THEN Least(good[r] + 1, CAP + TROUBLES + 1) ELSE 0]
  /\ refused' = IF ~sends_land /\ due' THEN Least(refused + 1, SICK + 1) ELSE 0
  /\ UNCHANGED <<todo, failures, learning, sends, plan, waitingOn, troubles>>

Init ==
  /\ now = 0 /\ status = [r \in Rounds |-> "none"] /\ left = [r \in Rounds |-> {}]
  /\ learned = 0 /\ house = 0 /\ sends_land = TRUE /\ priced = TRUE
  /\ at = "learn" /\ n = 0 /\ todo = {} /\ failures = 0 /\ learning = 0
  /\ sends = 0 /\ plan = NoPlan
  /\ backoff = [k \in Keys |-> Fresh] /\ waitingOn = [r \in Rounds |-> 0]
  /\ up = 0 /\ beat = 0 /\ health = 0 /\ good = [r \in Rounds |-> 0] /\ refused = 0 /\ troubles = 0

Loop ==
  /\ Learn \/ Scan \/ PassStep \/ PassHouse \/ PassEnd \/ ClearRound \/ ClearSend \/ ClearEnd
  /\ UNCHANGED <<now, weatherVars, troubles>> /\ Recounted

Next == Loop \/ PassThrows \/ Dies \/ Watchdog \/ Others \/ Worsens \/ Clears \/ Tick

\* The loop never stops by itself, and what fails recovers in the end.
Fairness == WF_vars(Loop) /\ WF_vars(Tick) /\ WF_vars(Clears) /\ WF_vars(Watchdog)

Spec == Init /\ [][Next]_vars
FairSpec == Spec /\ Fairness

-----------------------------------------------------------------------------
\* However it was refused before, an opening the chain takes, and goes on taking,
\* is made within the longest wait, and one waking more for each pass whose reads
\* failed: it does not sit out its window.
OpensInTime == \A r \in Rounds : good[r] <= CAP + troubles

\* While a step that is due cannot be sent, no pass calls itself healthy, also when
\* it only waits: the box's alert on an old health file comes in time.
StuckIsTold == refused > SICK => health > SICK

\* Every round the house starts is opened or voided, settled, booked home, cleared
\* of its calls, paid to owners who never came, and closed.
RoundsEnd == <>[](\A r \in Rounds : status[r] \in {"none", "closed"})
=============================================================================
