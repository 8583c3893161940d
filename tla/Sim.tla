--------------------------------- MODULE Sim ---------------------------------
(***************************************************************************)
(* The market simulator: a treasury that keeps a fleet of wallets in SOL   *)
(* within a daily allowance, wallets that take turns in a round, wallets   *)
(* that retire, and the one sender they all go through.  A send may be     *)
(* refused, held back by a pause, lost on the way, expire unseen, land     *)
(* after the process gave it up or died.  The journal of what each wallet  *)
(* holds, the allowance and the retired wallets are kept in files.         *)
(* One round; a wallet holds at most one line and one deposit in it.       *)
(***************************************************************************)
EXTENDS Integers, FiniteSets, FiniteSetsExt, Functions, SequencesExt

CONSTANTS ACTIVE, RETIRING,              \* the wallets
          MIN, TARGET, RECLAIM,          \* SOL: topped up below, up to, and taken back above
          DAILY, FEE, RENT,              \* the allowance, a treasury's fee, an account's rent
          START_LAMPORTS, ROOM,          \* what a start asks for, and what it leaves for its fee
          RETIRED_DUST,                  \* what a retired wallet gives back, at least
          RETURN_PER_TX, PACK, COLLECTS, \* wallets in a return, accounts in a collect,
                                         \*   collects in a sweep
          FUNDED,                        \* what a wallet that acts may have to begin with
          DAYS, FAULTS                   \* bounds: midnights passed, things that go wrong

ASSUME SimConstants ==
  /\ ACTIVE \intersect RETIRING = {} /\ IsFiniteSet(ACTIVE \union RETIRING)
  /\ {TARGET, RECLAIM, DAILY, RETIRED_DUST, RETURN_PER_TX, PACK, COLLECTS} \subseteq Nat \ {0}
  /\ {MIN, FEE, RENT, START_LAMPORTS, ROOM, DAYS, FAULTS} \subseteq Nat /\ FUNDED \subseteq Nat
  /\ MIN <= TARGET /\ TARGET <= RECLAIM /\ ROOM <= MIN

Wallets == ACTIVE \union RETIRING
Items == {"line", "deposit"}
None == [op |-> "none"]

VARIABLES day, quiet, round, creator, sol, holds,   \* the clock, a pause, and the chain
          cur, orphans,                  \* the copy of the send in flight, those given up on
          at, stage, todo, job, again, looks,       \* the process: where it is, what it sends
          bal, touched, who,
          journal, retired,              \* what it knows, in memory and on file
          spent, spent_day,
          net, lost, faults              \* history: SOL out by day; what the journal lost sight of

worldVars == <<day, quiet, round, creator, sol, holds>>
sendVars == <<cur, again, looks>>
turnVars == <<stage, todo, bal, touched, who>>
fileVars == <<journal, retired, spent, spent_day>>
historyVars == <<net, lost>>
vars == <<worldVars, orphans, at, job, sendVars, turnVars, fileVars, historyVars, faults>>

-----------------------------------------------------------------------------
(* The treasury's allowance: what went out today less what came back.      *)

Spent == IF spent_day = day THEN spent ELSE 0
remaining == IF DAILY > Spent THEN DAILY - Spent ELSE 0
Book(x) == spent' = (IF Spent + x > 0 THEN Spent + x ELSE 0) /\ spent_day' = day
sumOf(part) == SumFunctionOnSet(part, DOMAIN part)

\* Given back only when it surely did not go, and on the day it was booked.
releases_any(result) ==
  IF result = "landed" THEN sumOf(job.part)
  ELSE IF result # "ok" THEN sumOf(job.part) + FEE ELSE 0
releases(result) ==
  IF result = "landed" THEN sumOf(job.part)
  ELSE IF result = "notSent" THEN sumOf(job.part) + FEE ELSE 0
Release(result) ==
  IF job.day = day THEN Book(-releases(result)) ELSE UNCHANGED <<spent, spent_day>>

\* Under MIN back up to TARGET, poorest first (of equals any), as long as the allowance lasts.
lack(ws) == [w \in ws |-> TARGET - bal[w]]
planTopUps ==
  LET needy == {w \in ACTIVE : bal[w] < MIN}
      fits  == {ws \in SUBSET needy :
                  /\ \A v \in ws, w \in needy \ ws : bal[v] <= bal[w]
                  /\ ws # {} => sumOf(lack(ws)) + FEE <= remaining}
  IN  {ws \in fits : \A more \in fits : ws \subseteq more => ws = more}

\* What goes back in one transaction.
chunks(ws) == kSubset(Min({RETURN_PER_TX, Cardinality(ws)}), ws)

-----------------------------------------------------------------------------
(* What a transaction does when it lands.                                  *)

final == round = "final"
tradeable == round = "open"
joinable == round \in {"seeding", "open"}
owner(j) == CHOOSE w \in DOMAIN j.part : TRUE

possible(j) ==
  CASE j.op = "fund" -> TRUE
    [] j.op \in {"reclaim", "retire"} -> \A w \in DOMAIN j.part : sol[w] >= j.part[w]
    [] j.op = "buy" -> tradeable /\ sol[owner(j)] >= RENT
    [] j.op = "start" -> round = "none" /\ sol[owner(j)] >= 2 * RENT
    [] j.op = "join" -> joinable /\ sol[owner(j)] >= RENT /\ "deposit" \notin holds[owner(j)]
    [] OTHER -> final /\ Head(j.items) \subseteq holds[owner(j)]

Effect(j) ==
  /\ sol' = [w \in Wallets |->
       IF w \notin DOMAIN j.part THEN sol[w]
       ELSE CASE j.op = "fund" -> sol[w] + j.part[w]
              [] j.op \in {"reclaim", "retire"} -> sol[w] - j.part[w]
              [] j.op = "start" -> sol[w] - 2 * RENT
              [] j.op = "join" -> sol[w] - RENT
              [] j.op = "buy" -> IF "line" \in holds[w] THEN sol[w] ELSE sol[w] - RENT
              [] OTHER -> sol[w] + RENT * Cardinality(Head(j.items))]
  /\ holds' = IF j.op \in {"fund", "reclaim", "retire"} THEN holds
              ELSE IF j.op = "collect" THEN [holds EXCEPT ![owner(j)] = @ \ Head(j.items)]
              ELSE [holds EXCEPT ![owner(j)] = @ \union Head(j.items)]
  /\ round' = IF j.op = "start" THEN "seeding" ELSE round
  /\ creator' = IF j.op = "start" THEN {owner(j)} ELSE creator
  /\ net' = IF j.op = "fund" THEN [net EXCEPT ![j.day] = @ + sumOf(j.part) + FEE]
            ELSE IF j.op \in {"reclaim", "retire"} THEN [net EXCEPT ![day] = @ - sumOf(j.part)] ELSE net

-----------------------------------------------------------------------------
(* A turn, a sweep and what they send.                                     *)

\* Between two of its waits the process is not interrupted.
waits == at # "choose" \/ stage = "none"
Fault == faults < FAULTS /\ faults' = faults + 1
Refusal == IF possible(job) THEN Fault ELSE UNCHANGED faults
holdsNothing(w) == journal[w] = {}
RESIGN == {"start", "join", "collect"}
JOURNAL_MAYBE_not == {}
JOURNAL_MAYBE == {"buy", "start", "join"}

Send(op, part, items) ==
  /\ at' = "send" /\ cur' = "none" /\ again' = FALSE /\ looks' = 0
  /\ job' = [op |-> op, part |-> part, items |-> items,
             day |-> IF op = "fund" THEN day ELSE 0]
\* A top-up is booked before it goes.
topUp(part) == Send("fund", part, <<>>) /\ Book(sumOf(part) + FEE)
Rest == at' = "choose" /\ job' = None /\ UNCHANGED sendVars
Nobody == [w \in Wallets |-> 0]
End == stage' = "none" /\ todo' = {} /\ touched' = {} /\ bal' = Nobody /\ who' = {}
Forget(w) == journal' = [journal EXCEPT ![w] = {}]

\* Finished rounds are collected; entries whose accounts are gone leave the journal.
collectAction(w) ==
  LET there == journal[w] \intersect holds[w]
  IN  IF there = {}
      THEN Forget(w) /\ Rest
      ELSE /\ Send("collect", [v \in {w} |-> 0],
                   IF Cardinality(there) <= PACK THEN <<there>> ELSE SetToSeq({{i} : i \in there}))
           /\ UNCHANGED journal
due_while_there(w) == journal[w] # {} /\ final
due(w) == journal[w] # {} /\ (final \/ round = "closed")

\* A wallet's turn: SOL first, then what its persona picks.
Turn ==
  /\ at = "choose" /\ stage = "none" /\ ~quiet
  /\ \E w \in ACTIVE :
       /\ stage' = "turn" /\ who' = {w} /\ UNCHANGED <<todo, touched>>
       /\ bal' = [bal EXCEPT ![w] = IF sol[w] >= MIN THEN sol[w] ELSE TARGET]
       /\ IF sol[w] >= MIN THEN Rest /\ UNCHANGED <<spent, spent_day>>
          ELSE TARGET - sol[w] + FEE <= remaining /\ topUp([v \in {w} |-> TARGET - sol[w]])
  /\ UNCHANGED <<worldVars, orphans, journal, retired, historyVars, faults>>
Act(w, op, item) == Send(op, [v \in {w} |-> 0], <<{item}>>) /\ UNCHANGED journal
\* A start asks for its rent first; then it is sent whatever the round has come to.
enough(w) == bal[w] >= START_LAMPORTS + ROOM
rentTopUp ==
  /\ at = "choose" /\ stage = "turn" /\ round = "none"
  /\ \E w \in who : LET need == START_LAMPORTS + TARGET - bal[w] IN
       ~enough(w) /\ need + FEE <= remaining /\ topUp([v \in {w} |-> need])
  /\ stage' = "rent" /\ UNCHANGED <<todo, bal, touched, who>>
  /\ UNCHANGED <<worldVars, orphans, journal, retired, historyVars, faults>>
startAction(w) ==
  (stage = "rent" \/ (round = "none" /\ enough(w))) /\ Act(w, "start", "deposit")
joinAction(w) == joinable /\ "deposit" \notin journal[w] /\ Act(w, "join", "deposit")
buyAction(w) == tradeable /\ Act(w, "buy", "line")
decide ==
  /\ at = "choose" /\ stage \in {"turn", "rent"} /\ End
  /\ \E w \in who : \/ stage = "turn" /\ due(w) /\ collectAction(w)
                    \/ startAction(w)
                    \/ stage = "turn" /\ (joinAction(w) \/ buyAction(w))
                    \/ Rest /\ UNCHANGED journal
  /\ UNCHANGED <<worldVars, orphans, retired, spent, spent_day, historyVars, faults>>
\* A sale moves neither SOL nor an account.  One whose line is not there forgets the line,
\* though a buy of it given up on may still land.
stillComing(w) ==
  \E o \in orphans : o[1].op \in JOURNAL_MAYBE /\ owner(o[1]) = w /\ "line" \in Head(o[1].items)
sellAction ==
  /\ at = "choose" /\ stage = "turn" /\ End /\ Rest
  /\ tradeable \/ final                \* traded when the world was last read
  /\ \E w \in who :
       /\ "line" \in journal[w] \ holds[w]
       /\ journal' = [journal EXCEPT ![w] = @ \ {"line"}]
       /\ lost' = IF stillComing(w) THEN [lost EXCEPT ![w] = @ \union {"line"}] ELSE lost
  /\ UNCHANGED <<worldVars, orphans, retired, spent, spent_day, net, faults>>

\* A sweep, every ten minutes: SOL back from the rich, SOL to the poor, the retiring.
fundingSweep ==
  /\ at = "choose" /\ stage = "none" /\ ~quiet
  /\ stage' = "reclaim" /\ bal' = sol /\ touched' = {}
  /\ todo' = {w \in ACTIVE : sol[w] > RECLAIM}
  /\ UNCHANGED <<worldVars, orphans, at, job, sendVars, who, fileVars, historyVars, faults>>
giveBack ==
  /\ at = "choose" /\ stage \in {"reclaim", "retire"} /\ todo # {}
  /\ \E chunk \in chunks(todo) :
       /\ Send(stage, [w \in chunk |-> IF stage = "retire" THEN bal[w] ELSE bal[w] - TARGET], <<>>)
       /\ todo' = todo \ chunk
  /\ UNCHANGED <<worldVars, orphans, stage, bal, touched, who, fileVars, historyVars, faults>>
sweepTopUp ==
  /\ at = "choose" /\ stage = "reclaim" /\ todo = {}
  /\ stage' = "collect" /\ UNCHANGED <<todo, bal, touched, who>>
  /\ \E ws \in planTopUps :
       IF ws # {} THEN topUp(lack(ws)) ELSE Rest /\ UNCHANGED <<spent, spent_day>>
  /\ UNCHANGED <<worldVars, orphans, journal, retired, historyVars, faults>>
\* A retired wallet that SOL reached again gives it back too, if it is worth a fee.
leftover(w) == bal[w] >= IF w \in retired THEN RETIRED_DUST ELSE 1
\* Retiring wallets collect what is due; one collected waits for the next sweep.
retireSweep ==
  /\ at = "choose" /\ stage = "collect"
  /\ UNCHANGED <<worldVars, orphans, spent, spent_day, historyVars, faults, bal, who>>
  /\ \/ \E w \in RETIRING \ (retired \union touched) :
          /\ ~quiet /\ Cardinality(touched) < COLLECTS /\ due(w) /\ touched' = touched \union {w} /\ collectAction(w)
          /\ UNCHANGED <<stage, todo, retired>>
     \/ /\ quiet \/ Cardinality(touched) = COLLECTS \/ \A w \in RETIRING \ (retired \union touched) : ~due(w)
        /\ LET nothing == {w \in RETIRING \ touched : holdsNothing(w)}
           IN  todo' = {w \in nothing : leftover(w)} /\ retired' = retired \union {w \in nothing : bal[w] = 0}
        /\ stage' = "retire" /\ Rest /\ UNCHANGED <<touched, journal>>
SweepEnd ==
  /\ at = "choose" /\ stage = "retire" /\ todo = {} /\ End
  /\ UNCHANGED <<worldVars, orphans, at, job, sendVars, fileVars, historyVars, faults>>

-----------------------------------------------------------------------------
(* The sender.  A result says what reached the chain.                      *)

\* What follows a send, whoever it was for.
After(result) ==
  LET w == owner(job)
      taken == job.op = "join" /\ result = "notSent" /\ "deposit" \in holds[w]
      held == IF result = "ok" \/ taken \/ (result = "maybe" /\ job.op \in JOURNAL_MAYBE)
              THEN UNION Range(job.items) ELSE {}
      charged == job.op \in {"reclaim", "retire"} \/ (job.op = "collect" /\ w \in RETIRING)
      more == job.op = "collect" /\ result = "ok" /\ Len(job.items) > 1
  IN  /\ IF job.op = "fund" THEN Release(result)
         ELSE IF charged /\ result \in {"ok", "maybe", "landed"}
         THEN Book(FEE - (IF result = "ok" /\ job.op # "collect" THEN sumOf(job.part) ELSE 0))
         ELSE UNCHANGED <<spent, spent_day>>
      /\ retired' = IF job.op = "retire" /\ result = "ok" THEN retired \union DOMAIN job.part ELSE retired
      /\ journal' = CASE job.op \in {"buy", "start", "join"} -> [journal EXCEPT ![w] = @ \union held]
                      [] job.op = "collect" /\ result = "ok" /\ ~more -> [journal EXCEPT ![w] = {}]
                      [] OTHER -> journal
      /\ IF more THEN job' = [job EXCEPT !.items = Tail(@)] /\ at' = "send" /\ cur' = "none"
                      /\ again' = FALSE /\ looks' = 0
         ELSE at' = "choose" /\ job' = None /\ cur' = "none" /\ again' = FALSE /\ looks' = 0
      \* A top-up or a return that did not go ends its part of the sweep, or the turn.
      /\ todo' = IF job.op \in {"reclaim", "retire"} /\ result # "ok" THEN {} ELSE todo
      /\ stage' = IF stage \in {"turn", "rent"} /\ job.op = "fund" /\ result # "ok"
                  THEN "none" ELSE stage
      /\ who' = IF stage' = "none" THEN {} ELSE who
      /\ bal' = IF stage' = "none" THEN Nobody ELSE bal
      /\ UNCHANGED touched

\* Asked right before it goes; refused before it goes; lost on the way; or gone.
send ==
  /\ at = "send"
  /\ \/ quiet /\ After(IF again THEN "other" ELSE "notSent") /\ UNCHANGED <<orphans, faults>>
     \/ ~quiet /\ Refusal /\ After(IF again THEN "other" ELSE "notSent") /\ UNCHANGED orphans
     \/ ~quiet /\ possible(job) /\ Fault /\ After("maybe") /\ orphans' = orphans \union {<<job, faults>>}
     \/ /\ ~quiet /\ possible(job) /\ UNCHANGED <<orphans, faults>>
        /\ at' = "confirm" /\ cur' = "flying" /\ UNCHANGED <<job, again, looks, turnVars, fileVars>>
  /\ UNCHANGED <<worldVars, historyVars>>

\* One poll.  Past its last block a copy not seen is looked for once more.
gives_up == looks = 1
poll ==
  /\ at = "confirm" /\ cur # "flying"
  /\ \/ cur = "landed" /\ After("ok") /\ UNCHANGED faults
     \/ cur = "failed" /\ After("landed") /\ UNCHANGED faults
     \/ /\ cur = "dead" \/ (looks = 0 /\ cur = "landed")   \* a status may be late, once
        /\ IF cur = "landed" THEN Fault ELSE UNCHANGED faults
        /\ IF ~gives_up THEN looks' = 1 /\ UNCHANGED <<at, job, cur, again, turnVars, fileVars>>
           ELSE IF again \/ job.op \notin RESIGN THEN After("other")
           ELSE /\ at' = "send" /\ again' = TRUE /\ cur' = "none" /\ looks' = 0
                /\ UNCHANGED <<job, turnVars, fileVars>>
  /\ UNCHANGED <<worldVars, orphans, historyVars>>

\* The process dies; it starts again from its files.
Crash ==
  /\ at # "down" /\ waits /\ Fault
  /\ orphans' = IF cur = "flying" THEN orphans \union {<<job, faults>>} ELSE orphans
  /\ lost' = IF cur \in {"flying", "landed"} /\ job.op \in JOURNAL_MAYBE
             THEN [lost EXCEPT ![owner(job)] = @ \union Head(job.items)] ELSE lost
  /\ at' = "down" /\ cur' = "none" /\ job' = None /\ again' = FALSE /\ looks' = 0 /\ End
  /\ UNCHANGED <<worldVars, fileVars, net>>
Start ==
  /\ at = "down" /\ at' = "choose"
  /\ UNCHANGED <<worldVars, orphans, job, sendVars, turnVars, fileVars, historyVars, faults>>

-----------------------------------------------------------------------------
(* The chain, the keeper and the clock.                                    *)

Lands ==
  \/ /\ cur = "flying"
     /\ \/ possible(job) /\ Effect(job) /\ cur' = "landed" /\ UNCHANGED faults
        \/ cur' = "failed" /\ Refusal /\ UNCHANGED <<round, creator, sol, holds, net>>
        \/ cur' = "dead" /\ Fault /\ UNCHANGED <<round, creator, sol, holds, net>>
     /\ UNCHANGED orphans
  \/ \E o \in orphans :
       /\ orphans' = orphans \ {o} /\ UNCHANGED <<cur, faults>>
       /\ (possible(o[1]) /\ Effect(o[1])) \/ UNCHANGED <<round, creator, sol, holds, net>>
Landing ==
  /\ waits /\ Lands
  /\ UNCHANGED <<day, quiet, at, job, again, looks, turnVars, fileVars, lost>>

\* The round goes its way; once final the keeper sweeps what is left and closes it,
\* which gives its rent back to whoever started it.
Round ==
  /\ waits
  /\ \/ /\ \/ round = "seeding" /\ round' \in {"open", "final"}
           \/ round = "open" /\ round' = "final"
        /\ UNCHANGED <<creator, sol, holds>>
     \/ /\ final /\ \E w \in Wallets :
             /\ holds[w] # {} /\ holds' = [holds EXCEPT ![w] = {}]
             /\ sol' = [sol EXCEPT ![w] = @ + RENT * Cardinality(holds[w])]
        /\ UNCHANGED <<round, creator>>
     \/ /\ final /\ \A w \in Wallets : holds[w] = {}
        /\ round' = "closed" /\ creator' = {} /\ UNCHANGED holds
        /\ sol' = [w \in Wallets |-> IF w \in creator THEN sol[w] + RENT ELSE sol[w]]
  /\ UNCHANGED <<day, quiet, orphans, at, job, sendVars, turnVars, fileVars, historyVars, faults>>

Pause == ~quiet /\ quiet' = TRUE /\ Fault
Resume == quiet /\ quiet' = FALSE /\ UNCHANGED faults
Midnight == day < DAYS /\ day' = day + 1 /\ UNCHANGED <<quiet, faults>>
Clock ==
  /\ waits
  /\ Midnight \/ ((Pause \/ Resume) /\ UNCHANGED day)
  /\ UNCHANGED <<round, creator, sol, holds, orphans, at, job, sendVars, turnVars, fileVars,
                 historyVars>>

Init ==
  /\ day = 0 /\ quiet = FALSE /\ orphans = {} /\ faults = 0
  /\ \E x \in FUNDED : sol = [w \in Wallets |-> IF w \in ACTIVE THEN x ELSE RENT]
  /\ \E h \in {{}, Items} :
       /\ holds = [w \in Wallets |-> IF w \in RETIRING THEN h ELSE {}]
       /\ round = IF h = {} \/ RETIRING = {} THEN "none" ELSE "open"
       /\ creator = IF h = {} THEN {} ELSE RETIRING
  /\ at = "down" /\ stage = "none" /\ todo = {} /\ job = None /\ cur = "none" /\ again = FALSE
  /\ looks = 0 /\ bal = Nobody /\ touched = {} /\ who = {}
  /\ journal = holds /\ retired = {} /\ spent = 0 /\ spent_day = 0
  /\ net = [d \in 0 .. DAYS |-> 0] /\ lost = [w \in Wallets |-> {}]

Sweep == fundingSweep \/ giveBack \/ sweepTopUp \/ retireSweep \/ SweepEnd
Next == Turn \/ rentTopUp \/ decide \/ sellAction \/ Sweep \/ send \/ poll \/ Crash \/ Start \/ Landing \/ Round \/ Clock

\* The service goes on, is started again, and sweeps when ten minutes have passed; the
\* chain and the keeper go on; a pause ends.
Fairness == /\ WF_vars(decide \/ send \/ poll \/ Start \/ giveBack \/ sweepTopUp \/ retireSweep \/ SweepEnd)
            /\ SF_vars(fundingSweep) /\ SF_vars(Landing) /\ SF_vars(Round) /\ SF_vars(Clock /\ Resume)
Spec == Init /\ [][Next]_vars
FairSpec == Spec /\ Fairness

-----------------------------------------------------------------------------
\* Whatever is refused, lost, late or cut short by a crash: the top-ups booked on a day
\* that ever land, with their fees, take out no more than that day's allowance and what
\* came back in it.  The fees of returns and collects, charged whatever the cap, come on top.
NetCapped == \A d \in 0 .. DAYS : net[d] <= DAILY

\* Whatever a wallet holds in a round is in the journal on file, unless the send that
\* brought it is still being waited for, or was when the process died, or had been given
\* up on and might still land when a sale found nothing and forgot the line.
Journaled ==
  \A w \in Wallets :
    holds[w] \ journal[w] \subseteq
      lost[w] \union (IF job # None /\ w \in DOMAIN job.part THEN UNION Range(job.items) ELSE {})

\* Every retiring wallet ends up with nothing in a round and its SOL back home, short of
\* what is not worth sending.
AllHome ==
  <>[](\A w \in RETIRING : holds[w] = {} /\ sol[w] < RETIRED_DUST /\ w \in retired)
=============================================================================
