------------------------------- MODULE Ledger -------------------------------
(***************************************************************************)
(* The ledger's two loops over sooth_core's finalized transactions.  The   *)
(* backfill walks them newest first and is done for good at the first; the *)
(* poll reads what is newer than the head, oldest first; a third loop      *)
(* fills in from its account a round whose events were missed.  Rows,      *)
(* facts and both cursors are on disk; the process may die between any two *)
(* writes, and the node may fail a call or not serve a transaction yet.    *)
(***************************************************************************)
EXTENDS LedgerRows, FiniteSets, FiniteSetsExt

CONSTANTS PAGE,          \* signatures to a page (1000)
          POLL_PAGES,    \* pages one poll asks for (20)
          SAVE_EVERY,    \* the backfill saves its cursor as often (50)
          BACKFILL_MAX,  \* and stops for good at this many, if not 0
          MAX_CHAIN, FAULTS  \* bounds: transactions; failures of node and process

ASSUME LedgerConstants ==
  /\ {PAGE, POLL_PAGES, SAVE_EVERY} \subseteq Nat \ {0}
  /\ {BACKFILL_MAX, MAX_CHAIN, FAULTS} \subseteq Nat

VARIABLES chain,          \* the finalized transactions, oldest first
          seen, filled,   \* on disk: the transactions read, the facts filled in
          head, saved,    \*   and the cursors of poll and backfill (0: none)
          back, poll,     \* in memory: the two loops
          passed, cut,    \* history: passed over unserved, and past the poll's pages
          faults

chainVars == <<chain>>
diskVars == <<seen, filled, head, saved>>
ghostVars == <<passed, cut>>
vars == <<chain, seen, filled, head, saved, back, poll, passed, cut, faults>>

Txs == DOMAIN chain
NoCursor == [done |-> FALSE, tail |-> 0, count |-> 0]
IdlePoll == [at |-> "idle", pages |-> 0, fresh |-> <<>>]
started(bf) == [at |-> IF bf.done THEN "over" ELSE "page", bf |-> bf, sigs |-> <<>>, short |-> FALSE]

Init ==
  /\ chain \in {<<"create">>, <<"create", "failed">>}
  /\ seen = {} /\ filled = {} /\ head = 0 /\ saved = NoCursor
  /\ back = started(NoCursor) /\ poll = IdlePoll
  /\ passed = {} /\ cut = {} /\ faults = 0

Finalize ==
  /\ Len(chain) < MAX_CHAIN
  /\ \E k \in allowed(program(chain)) : chain' = Append(chain, k)
  /\ UNCHANGED <<diskVars, back, poll, ghostVars, faults>>

Fault == faults < FAULTS /\ faults' = faults + 1

\* A page of signatures, newest first, between two.
page(above, below) ==
  LET new == {i \in Txs : above < i /\ i < below}
  IN  [n \in 1 .. Min({PAGE, Cardinality(new)}) |-> Max(new) + 1 - n]

-----------------------------------------------------------------------------
(* The backfill.                                                           *)

full_unset(bf) == bf.count >= BACKFILL_MAX
full(bf) == BACKFILL_MAX # 0 /\ bf.count >= BACKFILL_MAX

\* What is left of a page; at its end, the cursor is saved.
proceed(bf, sigs, short) ==
  IF sigs # <<>> /\ ~full(bf)
  THEN /\ back' = [at |-> "take", bf |-> bf, sigs |-> sigs, short |-> short]
       /\ saved' = IF bf.count > back.bf.count /\ bf.count % SAVE_EVERY = 0 THEN bf ELSE saved
  ELSE LET over == [bf EXCEPT !.done = short \/ full(bf)]
       IN  back' = started(over) /\ saved' = over

BackfillPage ==
  /\ back.at = "page"
  /\ LET tail == back.bf.tail
         sigs == page(0, IF tail = 0 THEN Len(chain) + 1 ELSE tail)
     IN  /\ head' = IF head = 0 /\ sigs # <<>> THEN sigs[1] ELSE head
         /\ proceed(back.bf, sigs, Len(sigs) < PAGE)
  /\ UNCHANGED <<chain, seen, filled, poll, ghostVars, faults>>

moved(bf, s) == [bf EXCEPT !.tail = s, !.count = @ + 1]

BackfillTake ==
  /\ back.at = "take"
  /\ LET s == Head(back.sigs)
     IN  /\ seen' = IF chain[s] = "failed" THEN seen ELSE seen \union {s}
         /\ proceed(moved(back.bf, s), Tail(back.sigs), back.short)
  /\ UNCHANGED <<chain, filled, head, poll, ghostVars, faults>>

\* Not served yet: left out, and the cursor moves on with the next one.
BackfillUnserved ==
  /\ back.at = "take" /\ chain[Head(back.sigs)] # "failed" /\ Fault
  /\ passed' = passed \union {Head(back.sigs)}
  /\ proceed(back.bf, Tail(back.sigs), back.short)
  /\ UNCHANGED <<chain, seen, filled, head, poll, cut>>

\* A call that failed for good: the loop starts over from the saved cursor.
BackfillFails ==
  /\ back.at \in {"page", "take"} /\ Fault
  /\ back' = started(saved)
  /\ UNCHANGED <<chain, diskVars, poll, ghostVars>>

-----------------------------------------------------------------------------
(* The poll.                                                               *)

\* What a poll found is read oldest first: the head never passes one not read.
oldest_first_not(fresh) == fresh
oldest_first(fresh) == Reverse(fresh)

PollPage ==
  /\ poll.at \in {"idle", "page"} /\ head # 0
  /\ LET below == IF poll.fresh = <<>> THEN Len(chain) + 1 ELSE Last(poll.fresh)
         sigs  == page(head, below)
         fresh == poll.fresh \o sigs
         more  == Len(sigs) = PAGE /\ poll.pages + 1 < POLL_PAGES
     IN  /\ poll' = IF more THEN [at |-> "page", pages |-> poll.pages + 1, fresh |-> fresh]
                    ELSE IF fresh = <<>> THEN IdlePoll
                    ELSE [at |-> "take", pages |-> 0, fresh |-> oldest_first(fresh)]
         /\ cut' = IF more \/ fresh = <<>> THEN cut ELSE cut \union (head + 1 .. Last(fresh) - 1)
  /\ UNCHANGED <<chain, diskVars, back, passed, faults>>

PollTake ==
  /\ poll.at = "take"
  /\ LET s == Head(poll.fresh)
     IN  /\ seen' = IF chain[s] = "failed" THEN seen ELSE seen \union {s}
         /\ head' = s
         /\ poll' = IF Len(poll.fresh) = 1 THEN IdlePoll ELSE [poll EXCEPT !.fresh = Tail(@)]
  /\ UNCHANGED <<chain, filled, saved, back, ghostVars, faults>>

\* Not served, or a failed call: the rest waits for the next poll.
PollStops ==
  /\ poll.at # "idle" /\ Fault
  /\ poll' = IdlePoll
  /\ UNCHANGED <<chain, diskVars, back, ghostVars>>

-----------------------------------------------------------------------------
(* Filling in, and dying.                                                  *)

known == filled \union UNION {facts(chain[i]) : i \in seen}

Fill ==
  /\ saved.done /\ lacks(known)
  /\ filled' = filled \union (fromLadder(program(chain)) \ known)
  /\ filled' # filled
  /\ UNCHANGED <<chain, seen, head, saved, back, poll, ghostVars, faults>>

\* The process dies, perhaps with a transaction written and its cursor not, and
\* is started again.
Restart ==
  /\ Fault
  /\ \E last \in {{}} \union (IF back.at = "take" THEN {{Head(back.sigs)}} ELSE {})
                      \union (IF poll.at = "take" THEN {{Head(poll.fresh)}} ELSE {}) :
       seen' = seen \union {s \in last : chain[s] # "failed"}
  /\ back' = started(saved) /\ poll' = IdlePoll
  /\ UNCHANGED <<chain, filled, head, saved, ghostVars>>

Next ==
  \/ Finalize
  \/ BackfillPage \/ BackfillTake \/ BackfillUnserved \/ BackfillFails
  \/ PollPage \/ PollTake \/ PollStops
  \/ Fill \/ Restart

\* The loops never stop asking.
Fairness == WF_vars(BackfillPage) /\ WF_vars(BackfillTake) /\ WF_vars(PollPage) /\ WF_vars(PollTake)

Spec == Init /\ [][Next]_vars
FairSpec == Spec /\ Fairness

-----------------------------------------------------------------------------
TypeOK ==
  /\ chain \in Seq(Kinds \union {"failed"}) /\ seen \subseteq Txs
  /\ filled \subseteq {"terms", "grid", "win", "miss", "void"}
  /\ head \in Nat /\ saved \in [done : BOOLEAN, tail : Nat, count : Nat]
  /\ back.at \in {"page", "take", "over"} /\ poll.at \in {"idle", "page", "take"}
  /\ passed \subseteq Txs /\ cut \subseteq Txs /\ faults \in 0 .. FAULTS

Read(i) == i \in seen \/ chain[i] = "failed"
GivenUp == (passed \union cut) \ seen

\* Between the two saved cursors there is no hole, whatever was interrupted, bar
\* what the code lets go: a transaction passed over before it was served, or one
\* further back than a poll looks.
CursorsCover ==
  /\ TypeOK
  /\ \A i \in Txs : /\ head # 0 /\ i <= head
                    /\ \/ saved.tail # 0 /\ saved.tail <= i
                       \/ saved.done /\ BACKFILL_MAX = 0
                    => Read(i) \/ i \in GivenUp

\* The rows of the transactions read, counted in the chain's order.
tally ==
  LET h[n \in 0 .. Len(chain)] ==
        IF n = 0 THEN NoRows
        ELSE IF n \in seen THEN counted(parseTransaction(rounds(chain)[n - 1], chain[n]), h[n - 1])
        ELSE h[n - 1]
  IN  h[Len(chain)]
History == summarize(tally, known)

\* A history said to be complete through the head is that of the round at one
\* moment since, and its money that of the transactions read.
Complete == saved.done /\ BACKFILL_MAX = 0 /\ GivenUp = {}
reach == Max({i \in Txs : \A j \in 1 .. i : Read(j)})
HistoryTrue ==
  Complete =>
    LET sofar   == rounds(chain)[reach]
        moments == {rounds(chain)[n] : n \in reach .. Len(chain)}
    IN  /\ MoneyTrue(History, sofar)
        /\ \E p \in moments : ResultTrue(History, p)
        /\ \E p \in moments : DayTrue(known, p)
        /\ filled \subseteq UNION {facts(chain[i]) : i \in 1 .. reach} => ScoreTrue(History, sofar)

\* With failures few, everything finalized is read in the end, bar what was let go.
CaughtUp == <>[](\A i \in Txs : Read(i) \/ i \in GivenUp)

\* "Not served yet: the poll will see it."
PollSeesIt == \A i \in passed \ seen : head < i
=============================================================================
