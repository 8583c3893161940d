----------------------------- MODULE LedgerRows -----------------------------
(***************************************************************************)
(* What the ledger makes of sooth_core's transactions: the rows of one     *)
(* wallet in one round, the facts of that round, and the summary, the      *)
(* calendar's day and the leaderboard's score drawn from them.  The wallet *)
(* starts the round, holds one call and the house's only deposit.          *)
(***************************************************************************)
EXTENDS Integers, SequencesExt

CONSTANTS DEPOSIT, COST,  \* what a start and a call credit the round with
          SHARES, LEVEL,  \* shares in a call; what one pays if the floor is its own
          SALE,           \* what selling one share sends back
          CREATOR_FEES,   \* the starter's part of a call's fee
          FEE             \* the coin's transfer fee, taken of every transfer

ASSUME AmountConstants ==
  /\ FEE \in Nat /\ {DEPOSIT, COST, SALE, CREATOR_FEES} \subseteq Nat \ 0 .. FEE
  /\ SHARES \in Nat \ {0} /\ LEVEL \in Nat \ 0 .. FEE /\ COST > SHARES * FEE

-----------------------------------------------------------------------------
(* The program, as far as its transactions go.                             *)

NoRound == [status |-> "None", opened |-> FALSE, level |-> 0, shares |-> 0, cost |-> 0,
            live |-> FALSE, bought |-> FALSE, pays |-> FALSE, deposit |-> FALSE,
            closed |-> FALSE, fees |-> 0, balance |-> 0, bundled |-> 0]
Running(p) == p.status \in {"Seeding", "Open"}
Final(p) == p.status \in {"Settled", "Void"} /\ ~p.closed
redemption(p) == IF p.status = "Void" THEN p.cost ELSE p.shares * p.level
\* The house's deposit gains what lost calls leave and pays what won ones take.
claimable(p) == IF p.status = "Void" THEN DEPOSIT
                ELSE IF p.level = 0 THEN DEPOSIT + COST ELSE DEPOSIT - 1

\* Its transactions, and those it can run next.
Kinds == {"create", "open", "buy", "sell", "win", "miss", "void", "redeem",
          "sweep", "claim", "collect", "fees", "close"}

allowed(p) ==
  {k \in Kinds :
     CASE k = "create" -> p.status = "None"
       [] k = "open" -> p.status = "Seeding"
       [] k = "buy" -> p.status = "Open" /\ ~p.live
       [] k = "sell" -> p.status = "Open" /\ p.shares > 0
       [] k \in {"win", "miss"} -> p.status = "Open"
       [] k = "void" -> Running(p)
       [] k = "redeem" -> Final(p) /\ p.live
       [] k = "sweep" -> Final(p) /\ p.live /\ redemption(p) = 0
       [] k = "claim" -> Final(p) /\ p.deposit
       [] k = "collect" -> Final(p) /\ p.live /\ p.deposit
       [] k = "fees" -> p.status = "Settled" /\ p.fees > 0
       [] OTHER -> Final(p) /\ ~p.live /\ ~p.deposit /\ p.fees = 0}

\* Each instruction of a transaction, and what the round gains (+) or sends (-).
instructions(p, k) ==
  CASE k = "create" -> <<[name |-> "ladder_create", moves |-> DEPOSIT]>>
    [] k = "buy" -> <<[name |-> "ladder_buy", moves |-> COST]>>
    [] k = "sell" -> <<[name |-> "ladder_sell", moves |-> -SALE]>>
    [] k = "redeem" -> <<[name |-> "ladder_redeem", moves |-> -redemption(p)]>>
    [] k = "sweep" -> <<[name |-> "ladder_sweep", moves |-> 0]>>
    [] k = "claim" -> <<[name |-> "ladder_claim_lp", moves |-> -claimable(p)]>>
    [] k = "collect" -> <<[name |-> "ladder_redeem", moves |-> -redemption(p)],
                          [name |-> "ladder_claim_lp", moves |-> -claimable(p)]>>
    [] k = "fees" -> <<[name |-> "ladder_collect_fees", moves |-> -p.fees]>>
    [] OTHER -> <<>>

\* What one movement adds to the wallet's token account, and a transaction's sum:
\* two instructions at most.
gains(m) == IF m = 0 THEN 0 ELSE -m - FEE
delta(p, k) ==
  LET ixs == instructions(p, k)
      gain(i) == IF i \in DOMAIN ixs THEN gains(ixs[i].moves) ELSE 0
  IN  gain(1) + gain(2)

\* What the coin keeps of payments that share a transaction: the rows have what was sent.
bundled(p) == IF redemption(p) > 0 THEN 2 * FEE ELSE FEE

after(p, k) ==
  LET q == [p EXCEPT !.balance = @ + delta(p, k)]
      gone == [q EXCEPT !.live = FALSE, !.shares = 0, !.cost = 0]
  IN  CASE k = "create" -> [q EXCEPT !.status = "Seeding", !.deposit = TRUE]
        [] k = "open" -> [q EXCEPT !.status = "Open", !.opened = TRUE]
        [] k = "buy" -> [q EXCEPT !.live = TRUE, !.bought = TRUE, !.shares = SHARES,
                                  !.cost = COST, !.fees = CREATOR_FEES]
        [] k = "sell" -> [q EXCEPT !.shares = @ - 1, !.cost = @ - @ \div p.shares]
        [] k = "win" -> [q EXCEPT !.status = "Settled", !.level = LEVEL, !.pays = p.shares > 0]
        [] k = "miss" -> [q EXCEPT !.status = "Settled"]
        [] k = "void" -> [q EXCEPT !.status = "Void", !.fees = 0]
        [] k \in {"redeem", "sweep"} -> gone
        [] k = "claim" -> [q EXCEPT !.deposit = FALSE]
        [] k = "collect" -> [gone EXCEPT !.deposit = FALSE, !.bundled = @ + bundled(p)]
        [] k = "fees" -> [q EXCEPT !.fees = 0]
        [] k = "close" -> [q EXCEPT !.closed = TRUE]
        [] OTHER -> q

\* The round after each of these transactions, and after all of them.
rounds(txs) ==
  LET p[n \in 0 .. Len(txs)] == IF n = 0 THEN NoRound ELSE after(p[n - 1], txs[n])
  IN  p
program(txs) == rounds(txs)[Len(txs)]

-----------------------------------------------------------------------------
(* Reading a transaction.                                                  *)

kindOf(name) ==
  CASE name = "ladder_create" -> "start" [] name = "ladder_buy" -> "buy"
    [] name = "ladder_sell" -> "sell" [] name = "ladder_redeem" -> "redeem"
    [] name = "ladder_sweep" -> "sweep" [] name = "ladder_claim_lp" -> "claim"
    [] OTHER -> "fees"

amount_sent(p, k, x) == -x.moves
\* The wallet's balance change when one instruction alone moved its account, the
\* coin's transfer fee included; else what the program moved.
amount(p, k, x) ==
  LET ixs     == instructions(p, k)
      touches == {i \in DOMAIN ixs : ixs[i].name # "ladder_sweep"}
  IN  IF \E i \in touches : touches = {i} THEN delta(p, k) ELSE -x.moves

\* Fees that came to nothing are no row; they come alone.
parseTransaction(p, k) ==
  LET row(x) == LET a == IF x.moves = 0 THEN 0 ELSE amount(p, k, x)
                IN  [kind |-> kindOf(x.name), amountIn |-> IF a < 0 THEN -a ELSE 0,
                     amountOut |-> IF a > 0 THEN a ELSE 0]
      rows   == [i \in DOMAIN instructions(p, k) |-> row(instructions(p, k)[i])]
  IN  IF \A i \in DOMAIN rows : rows[i].kind = "fees" => rows[i].amountOut > 0
      THEN rows ELSE <<>>

\* A round's facts, each from one kind of event.
facts(k) ==
  CASE k = "create" -> {"terms"} [] k = "open" -> {"grid"} [] k = "win" -> {"win"}
    [] k = "miss" -> {"miss"} [] k = "void" -> {"void"} [] k = "close" -> {"closed"}
    [] OTHER -> {}

\* What the round's account still says, once its events were missed.
fromLadder(p) ==
  IF p.status = "None" \/ p.closed THEN {}
  ELSE {"terms"} \union (IF p.opened THEN {"grid"} ELSE {})
       \union (IF p.status = "Void" THEN {"void"} ELSE {})
       \union (IF p.status = "Settled" THEN {IF p.level > 0 THEN "win" ELSE "miss"} ELSE {})
lacks(F) ==
  F # {} /\ "closed" \notin F
  /\ (~({"terms", "grid"} \subseteq F) \/ F \intersect {"win", "miss", "void"} = {})

-----------------------------------------------------------------------------
(* The summary of a round's rows, oldest first, and facts.                 *)

count(r, h) ==
  LET g == [h EXCEPT !.paid = @ + r.amountIn, !.got = @ + r.amountOut] IN
  CASE r.kind = "buy" -> [g EXCEPT !.held = TRUE, !.bought = TRUE, !.shares = @ + SHARES,
                                   !.cost = @ + r.amountIn]
    [] r.kind = "sell" -> [g EXCEPT !.held = TRUE, !.shares = @ - 1, !.cost =
                             IF h.shares > 0 THEN @ - @ \div h.shares ELSE @]
    [] r.kind \in {"redeem", "sweep"} ->
         [g EXCEPT !.held = TRUE, !.closed = TRUE, !.back = @ + r.amountOut, !.out = TRUE]
    [] r.kind = "start" -> [g EXCEPT !.deposit = TRUE]
    [] r.kind = "claim" -> [g EXCEPT !.claimed = TRUE, !.out = TRUE]
    [] OTHER -> g

\* A transaction's rows, in their order.
counted(rows, h) ==
  LET one(i, g) == IF i \in DOMAIN rows THEN count(rows[i], g) ELSE g
  IN  one(2, one(1, h))

NoRows == [paid |-> 0, got |-> 0, held |-> FALSE, bought |-> FALSE, shares |-> 0, cost |-> 0,
           closed |-> FALSE, back |-> 0, deposit |-> FALSE, claimed |-> FALSE, out |-> FALSE]

\* A round that paid anything out is finished, seen to settle or not.
statusOf(h, F) ==
  IF "void" \in F THEN "void"
  ELSE IF F \intersect {"win", "miss", "closed"} # {} \/ h.out THEN "settled" ELSE "running"

summarize(h, F) ==
  LET status  == statusOf(h, F)
      known   == F \intersect {"win", "miss"} # {}
      owed    == IF status = "settled" /\ "win" \in F /\ h.held /\ ~h.closed /\ h.shares > 0
                 THEN h.shares * LEVEL ELSE 0
      unknown == \/ status = "settled" /\ ~known /\ "closed" \notin F
                    /\ h.held /\ ~h.closed /\ h.shares > 0
                 \/ status = "void" /\ h.held /\ ~h.closed /\ (h.shares > 0 \/ h.cost > 0)
                 \/ status # "running" /\ "closed" \notin F /\ h.deposit /\ ~h.claimed
      won     == h.closed /\ h.back > 0 /\ (~known \/ "win" \in F)
      result  == IF status = "running" THEN "open"
                 ELSE IF owed > 0 \/ unknown THEN "unclaimed"
                 ELSE IF status = "void" THEN "refunded"
                 ELSE IF won \/ (~h.held /\ h.got > h.paid) THEN "won" ELSE "missed"
  IN  [status |-> status, result |-> result, owed |-> owed, paid |-> h.paid,
       got |-> h.got, called |-> h.bought]

\* The leaderboard's score of a round the wallet called, if it has one.
scoreAll(s) ==
  IF s.called /\ s.status = "settled" /\ ~(s.result = "unclaimed" /\ s.owed = 0)
  THEN {[won |-> s.result = "won" \/ s.owed > 0, paid |-> s.paid, back |-> s.got + s.owed]}
  ELSE {}

\* The calendar's finished day, closed or not.
daysOf(F) ==
  IF F \intersect {"win", "miss", "void"} = {} THEN {}
  ELSE {[status |-> IF "void" \in F THEN "void" ELSE "settled", pays |-> "win" \in F,
         closed |-> "closed" \in F]}

-----------------------------------------------------------------------------
\* What a summary says, against the accounts the program keeps: the result, the
\* money, the score and the day are those of the round after these transactions.
ResultTrue(s, p) ==
  s.result =
    IF p.status \notin {"Settled", "Void"} THEN "open"
    ELSE IF p.deposit \/ redemption(p) > 0 THEN "unclaimed"
    ELSE IF p.status = "Void" THEN "refunded"
    ELSE IF p.pays \/ (~p.bought /\ p.balance > 0) THEN "won" ELSE "missed"

\* Every unit that reached or left the wallet, but the coin's fee on payments
\* that came in one transaction.
MoneyTrue(s, p) == s.got - s.paid = p.balance + p.bundled

\* A settled call is scored once: as won exactly if its floor came in, whether or
\* not it was collected.  It waits for the wallet's own house deposit only when
\* nothing else is owed.
ScoreTrue(s, p) ==
  /\ \A e \in scoreAll(s) : e.won = p.pays
  /\ scoreAll(s) # {} <=>
       p.status = "Settled" /\ p.bought /\ (p.deposit => redemption(p) > 0)

DayTrue(F, p) ==
  daysOf(F) = IF p.status \notin {"Settled", "Void"} THEN {}
              ELSE {[status |-> IF p.status = "Void" THEN "void" ELSE "settled",
                     pays |-> p.level > 0, closed |-> p.closed]}
=============================================================================
