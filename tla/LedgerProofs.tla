---------------------------- MODULE LedgerProofs ----------------------------
(***************************************************************************)
(* What the ledger promises, for chains, pages, amounts and failures of    *)
(* any number.  Between the two saved cursors nothing is missing but what  *)
(* the code lets go: what each loop has in hand is a run of transactions   *)
(* without a gap, and everything beyond that run, up to the head, is dealt *)
(* with.  And a history said to be complete is true: below what was read   *)
(* nothing is missing either, the rows counted so far tell of the round    *)
(* after any prefix of the chain (Told), and a told round's summary is     *)
(* that of its accounts.                                                   *)
(***************************************************************************)
EXTENDS Ledger, FiniteSetTheorems, NaturalsInduction, WellFoundedInduction, TLAPS

\* What the chain holds: the round's transactions, or failed ones.
Chained == Kinds \union {"failed"}

Cursor == [done : BOOLEAN, tail : Nat, count : Nat]

\* Read, or let go.
DealtWith(i) == chain[i] = "failed" \/ i \in seen \/ i \in passed \/ i \in cut

\* Runs of transactions without a gap, newest first and oldest first.
Falling(s) ==
  s \in Seq(Nat) /\ \A k \in 1 .. Len(s) : s[k] = s[1] + 1 - k /\ s[k] \in 1 .. Len(chain)
Rising(s) ==
  s \in Seq(Nat) /\ \A k \in 1 .. Len(s) : s[k] = s[1] + k - 1 /\ s[k] \in 1 .. Len(chain)

\* A cursor covers what it has passed, up to the head.
Covers(bf) ==
  \A i \in 1 .. head : \/ bf.tail # 0 /\ bf.tail <= i
                       \/ bf.done /\ BACKFILL_MAX = 0
                       => DealtWith(i)

DiskSound ==
  /\ chain \in Seq(Chained) /\ Len(chain) > 0
  /\ seen \subseteq Nat /\ passed \subseteq Nat /\ cut \subseteq Nat
  /\ \A i \in seen \union passed \union cut : i \in 1 .. Len(chain)
  /\ filled \subseteq {"terms", "grid", "win", "miss", "void"}
  /\ head \in 0 .. Len(chain) /\ faults \in 0 .. FAULTS
  /\ saved \in Cursor /\ saved.tail <= Len(chain) /\ Covers(saved)

BackSound ==
  /\ back \in [at : {"page", "take", "over"}, bf : Cursor, sigs : Seq(Nat), short : BOOLEAN]
  /\ back.bf.tail <= Len(chain) /\ Covers(back.bf)
  /\ back.at # "over" => ~back.bf.done
  /\ back.at = "take" =>
       /\ head # 0 /\ back.sigs # <<>> /\ Falling(back.sigs)
       /\ back.short => back.sigs[Len(back.sigs)] = 1
       /\ \A i \in 1 .. head : back.sigs[1] < i => DealtWith(i)
  /\ head = 0 => back.bf.tail = 0 /\ saved.tail = 0 /\ ~back.bf.done /\ ~saved.done

PollSound ==
  /\ poll \in [at : {"idle", "page", "take"}, pages : Nat, fresh : Seq(Nat)]
  /\ poll.at = "idle" => poll.fresh = <<>>
  /\ poll.at = "page" =>
       /\ head # 0 /\ poll.fresh # <<>> /\ Falling(poll.fresh)
       /\ head < poll.fresh[Len(poll.fresh)]
  /\ poll.at = "take" =>
       /\ head # 0 /\ poll.fresh # <<>> /\ Rising(poll.fresh) /\ head < poll.fresh[1]
       /\ head + 1 .. poll.fresh[1] - 1 \subseteq cut

LedgerSound == DiskSound /\ BackSound /\ PollSound

-----------------------------------------------------------------------------
(* A page is a run, as long as the page or all there is.                   *)
LEMMA TxsAre == ASSUME chain \in Seq(Chained) PROVE Txs = 1 .. Len(chain)
BY DEF Txs

LEMMA PageIsARun ==
  ASSUME chain \in Seq(Chained), NEW above \in Nat, NEW below \in 1 .. Len(chain) + 1
  PROVE  LET s == page(above, below)
             n == below - 1 - above
         IN  /\ s \in Seq(Nat)
             /\ Len(s) = IF n <= 0 THEN 0 ELSE IF n <= PAGE THEN n ELSE PAGE
             /\ \A k \in 1 .. Len(s) : s[k] = below - k /\ s[k] \in above + 1 .. Len(chain)
<1> DEFINE new == {i \in Txs : above < i /\ i < below}
           n == below - 1 - above
           m == Min({PAGE, Cardinality(new)})
<1>1. new = above + 1 .. below - 1
  BY TxsAre
<1>2. Cardinality(new) = IF n <= 0 THEN 0 ELSE n
  <2>1. above + 1 \in Int /\ below - 1 \in Int
    OBVIOUS
  <2>2. Cardinality(above + 1 .. below - 1)
          = IF above + 1 > below - 1 THEN 0 ELSE (below - 1) - (above + 1) + 1
    BY <2>1, FS_Interval
  <2>3. Cardinality(new) = Cardinality(above + 1 .. below - 1)
    BY <1>1
  <2> HIDE DEF new
  <2> QED BY <2>2, <2>3
<1>3. m = IF n <= 0 THEN 0 ELSE IF n <= PAGE THEN n ELSE PAGE
  BY <1>2, LedgerConstants DEF Min
<1>4. new # {} => Max(new) = below - 1
  BY <1>1 DEF Max
<1>5. page(above, below) = [k \in 1 .. m |-> Max(new) + 1 - k]
  BY DEF page
<1>6. m \in Nat /\ PAGE \in Nat
  BY <1>3, LedgerConstants
<1>7. ASSUME NEW k \in 1 .. m PROVE Max(new) + 1 - k = below - k /\ below - k \in above + 1 .. Len(chain)
  <2>1. n > 0 /\ m <= n
    BY <1>3, <1>7, <1>6
  <2>2. new # {}
    <3>1. below - 1 \in above + 1 .. below - 1
      BY <2>1
    <3> HIDE DEF new
    <3> QED BY <1>1, <3>1
  <2> QED BY <1>4, <2>1, <2>2, <1>6
<1>8. page(above, below) = [k \in 1 .. m |-> below - k]
  BY <1>5, <1>7
<1> HIDE DEF m, new
<1>9. \A k \in 1 .. m : below - k \in Nat
  BY <1>7
<1> QED BY <1>3, <1>6, <1>7, <1>8, <1>9

-----------------------------------------------------------------------------
(* What was dealt with stays dealt with.                                   *)
CoversNext(bf) ==
  \A i \in 1 .. head' : \/ bf.tail # 0 /\ bf.tail <= i
                        \/ bf.done /\ BACKFILL_MAX = 0
                        => DealtWith(i)'

LEMMA StaysDealtWith ==
  ASSUME chain' = chain, seen \subseteq seen', passed \subseteq passed', cut \subseteq cut',
         NEW i, DealtWith(i)
  PROVE  DealtWith(i)'
BY DEF DealtWith

LEMMA CoversMore ==
  ASSUME chain' = chain, seen \subseteq seen', passed \subseteq passed', cut \subseteq cut',
         head' \in Nat, head \in Nat, NEW bf, Covers(bf),
         \A i \in head + 1 .. head' : DealtWith(i)'
  PROVE  CoversNext(bf)
<1> SUFFICES ASSUME NEW i \in 1 .. head', \/ bf.tail # 0 /\ bf.tail <= i
                                          \/ bf.done /\ BACKFILL_MAX = 0
             PROVE  DealtWith(i)'
  BY DEF CoversNext
<1>1. CASE i <= head
  BY <1>1, StaysDealtWith DEF Covers
<1>2. CASE i > head
  BY <1>2
<1> QED BY <1>1, <1>2

\* Going on with what is left of a page keeps the backfill sound.
LEMMA ProceedKeeps ==
  ASSUME LedgerSound, chain' = chain, head' \in 1 .. Len(chain), CoversNext(saved),
         NEW bf \in Cursor, bf.tail <= Len(chain), ~bf.done, CoversNext(bf),
         NEW sigs, Falling(sigs), NEW short \in BOOLEAN,
         short /\ sigs # <<>> => sigs[Len(sigs)] = 1,
         short /\ sigs = <<>> => \A i \in 1 .. head' : DealtWith(i)',
         sigs # <<>> => \A i \in 1 .. head' : sigs[1] < i => DealtWith(i)',
         proceed(bf, sigs, short)
  PROVE  saved' \in Cursor /\ saved'.tail <= Len(chain) /\ Covers(saved)' /\ BackSound'
<1>0. saved \in Cursor /\ saved.tail <= Len(chain) /\ sigs \in Seq(Nat) /\ head' # 0
  BY DEF LedgerSound, DiskSound, Falling
<1>1. CASE sigs # <<>> /\ ~full(bf)
  <2>1. back' = [at |-> "take", bf |-> bf, sigs |-> sigs, short |-> short]
        /\ saved' \in {bf, saved}
    BY <1>1 DEF proceed
  <2>2. saved' \in Cursor /\ saved'.tail <= Len(chain) /\ Covers(saved)'
    BY <2>1, <1>0 DEF CoversNext, Covers
  <2>3. Covers(back.bf)'
    BY <2>1 DEF CoversNext, Covers
  <2>4. Falling(sigs)' /\ back'.sigs = sigs /\ back'.bf = bf /\ back'.short = short
        /\ back'.at = "take"
    BY <2>1 DEF Falling
  <2>5. Falling(back.sigs)'
    BY <2>4 DEF Falling
  <2>6. back' \in [at : {"page", "take", "over"}, bf : Cursor, sigs : Seq(Nat), short : BOOLEAN]
    BY <2>1, <1>0
  <2> QED BY <2>2, <2>3, <2>4, <2>5, <2>6, <1>0, <1>1 DEF BackSound
<1>2. CASE ~(sigs # <<>> /\ ~full(bf))
  <2> DEFINE over == [bf EXCEPT !.done = short \/ full(bf)]
  <2>1. back' = [at |-> IF over.done THEN "over" ELSE "page", bf |-> over, sigs |-> <<>>, short |-> FALSE]
        /\ saved' = over
    BY <1>2 DEF proceed, started
  <2>2. over \in Cursor /\ over.tail = bf.tail /\ over.done = (short \/ full(bf))
    <3>1. full(bf) \in BOOLEAN
      BY DEF full
    <3> QED BY <3>1 DEF Cursor
  <2>3. ASSUME BACKFILL_MAX = 0, over.done, NEW i \in 1 .. head' PROVE DealtWith(i)'
    BY <1>2, <2>2, <2>3 DEF full
  <2>4. CoversNext(over)
    BY <2>2, <2>3 DEF CoversNext
  <2> HIDE DEF over
  <2>5. Covers(saved)' /\ Covers(back.bf)'
    BY <2>1, <2>4 DEF Covers, CoversNext
  <2>6. back' \in [at : {"page", "take", "over"}, bf : Cursor, sigs : Seq(Nat), short : BOOLEAN]
    BY <2>1, <2>2
  <2> QED BY <2>1, <2>2, <2>5, <2>6, <1>0 DEF BackSound
<1> QED BY <1>1, <1>2

-----------------------------------------------------------------------------
(* The poll's soundness looks at the chain, the head and `cut` alone.      *)
LEMMA PollUndisturbed ==
  ASSUME PollSound, poll' = poll, chain' = chain, cut' = cut, head # 0 => head' = head
  PROVE  PollSound'
<1>1. CASE poll.at = "idle"
  BY <1>1 DEF PollSound
<1>2. CASE poll.at # "idle"
  <2>1. head # 0 /\ head' = head
    BY <1>2 DEF PollSound
  <2>2. Falling(poll.fresh) => Falling(poll.fresh)'
    BY DEF Falling
  <2>3. Rising(poll.fresh) => Rising(poll.fresh)'
    BY DEF Rising
  <2> QED BY <2>1, <2>2, <2>3, <1>2 DEF PollSound
<1> QED BY <1>1, <1>2

LEMMA PageKeeps == ASSUME LedgerSound, BackfillPage PROVE LedgerSound'
<1> DEFINE tail == back.bf.tail
           below == IF tail = 0 THEN Len(chain) + 1 ELSE tail
           sigs == page(0, below)
           short == Len(sigs) < PAGE
<1>0. /\ chain' = chain /\ seen' = seen /\ filled' = filled /\ poll' = poll
      /\ passed' = passed /\ cut' = cut /\ faults' = faults
      /\ head' = (IF head = 0 /\ sigs # <<>> THEN sigs[1] ELSE head)
      /\ proceed(back.bf, sigs, short) /\ back.at = "page"
  BY DEF BackfillPage, ghostVars
<1>1. /\ chain \in Seq(Chained) /\ Len(chain) \in Nat /\ Len(chain) > 0 /\ head \in 0 .. Len(chain)
      /\ back.bf \in Cursor /\ tail \in Nat /\ tail <= Len(chain) /\ ~back.bf.done
      /\ Covers(back.bf) /\ Covers(saved) /\ PAGE \in Nat \ {0}
  BY <1>0, LedgerConstants DEF LedgerSound, DiskSound, BackSound, Cursor
<1>2. below \in 1 .. Len(chain) + 1
  BY <1>1
<1>3. /\ sigs \in Seq(Nat)
      /\ Len(sigs) = IF below - 1 <= 0 THEN 0 ELSE IF below - 1 <= PAGE THEN below - 1 ELSE PAGE
      /\ \A k \in 1 .. Len(sigs) : sigs[k] = below - k /\ sigs[k] \in 1 .. Len(chain)
  <2> HIDE DEF below
  <2>1. /\ page(0, below) \in Seq(Nat)
        /\ Len(page(0, below)) = IF below - 1 - 0 <= 0 THEN 0
                                 ELSE IF below - 1 - 0 <= PAGE THEN below - 1 - 0 ELSE PAGE
        /\ \A k \in 1 .. Len(page(0, below)) :
             page(0, below)[k] = below - k /\ page(0, below)[k] \in 0 + 1 .. Len(chain)
    BY <1>1, <1>2, PageIsARun
  <2> HIDE DEF sigs
  <2>2. sigs = page(0, below)
    BY DEF sigs
  <2> QED BY <2>1, <2>2, <1>1, <1>2
<1> HIDE DEF below, sigs
<1>4. head = 0 => sigs # <<>> /\ sigs[1] = Len(chain)
  <2>1. head = 0 => below = Len(chain) + 1
    BY DEF LedgerSound, BackSound, below
  <2> QED BY <2>1, <1>1, <1>3
<1>5. head' \in 1 .. Len(chain) /\ (head # 0 => head' = head)
  BY <1>0, <1>1, <1>4
<1>6. \A i : DealtWith(i) => DealtWith(i)'
  BY <1>0 DEF DealtWith
<1>7. CoversNext(saved) /\ CoversNext(back.bf)
  <2>1. CASE head = 0
    BY <2>1 DEF LedgerSound, BackSound, CoversNext
  <2>2. CASE head # 0
    BY <2>2, <1>1, <1>5, <1>6 DEF Covers, CoversNext
  <2> QED BY <2>1, <2>2
<1>8. Falling(sigs)
  <2>1. ASSUME NEW k \in 1 .. Len(sigs) PROVE sigs[k] = sigs[1] + 1 - k
    <3>1. 1 \in 1 .. Len(sigs) /\ sigs[1] = below - 1 /\ sigs[k] = below - k
      BY <1>3
    <3> QED BY <3>1, <1>2
  <2> QED BY <2>1, <1>3 DEF Falling
<1>9. short /\ sigs # <<>> => sigs[Len(sigs)] = 1
  BY <1>1, <1>2, <1>3
<1>10. \A i \in 1 .. head' : i >= below => DealtWith(i)'
  <2>1. CASE tail = 0
    BY <2>1, <1>1, <1>5 DEF below
  <2>2. CASE tail # 0
    BY <2>2, <1>7 DEF below, CoversNext
  <2> QED BY <2>1, <2>2
<1>11. sigs = <<>> => \A i \in 1 .. head' : DealtWith(i)'
  <2>1. sigs = <<>> => below = 1
    BY <1>1, <1>2, <1>3
  <2> QED BY <2>1, <1>10, <1>5
<1>12. sigs # <<>> => \A i \in 1 .. head' : sigs[1] < i => DealtWith(i)'
  <2>1. sigs # <<>> => sigs[1] = below - 1
    BY <1>3
  <2> QED BY <2>1, <1>2, <1>10, <1>5
<1>13. saved' \in Cursor /\ saved'.tail <= Len(chain) /\ Covers(saved)' /\ BackSound'
  <2>1. short \in BOOLEAN
    OBVIOUS
  <2> HIDE DEF short
  <2> QED BY <1>0, <1>1, <1>5, <1>7, <1>8, <1>9, <1>11, <1>12, <2>1, ProceedKeeps
<1>14. DiskSound'
  BY <1>0, <1>1, <1>5, <1>13 DEF LedgerSound, DiskSound
<1>15. PollSound'
  BY <1>0, <1>5, PollUndisturbed DEF LedgerSound
<1> QED BY <1>13, <1>14, <1>15 DEF LedgerSound

LEMMA MovedOn ==
  ASSUME NEW bf \in Cursor, NEW s \in Nat
  PROVE  /\ moved(bf, s) \in Cursor
         /\ moved(bf, s).tail = s /\ moved(bf, s).done = bf.done
<1>1. moved(bf, s).tail = s
  BY DEF moved, Cursor
<1>2. moved(bf, s).done = bf.done
  BY DEF moved, Cursor
<1>3. bf.count + 1 \in Nat
  BY DEF Cursor
<1>4. moved(bf, s) = [[bf EXCEPT !.tail = s] EXCEPT !.count = bf.count + 1]
  BY DEF moved, Cursor
<1>5. [bf EXCEPT !.tail = s] \in Cursor
  BY DEF Cursor
<1>6. moved(bf, s) \in Cursor
  BY <1>3, <1>4, <1>5 DEF Cursor
<1> QED BY <1>1, <1>2, <1>6

\* Reading the next of a page, and passing over it.
LEMMA RunsOn ==
  ASSUME NEW sigs, Falling(sigs), sigs # <<>>
  PROVE  /\ Head(sigs) = sigs[1] /\ sigs[1] \in 1 .. Len(chain) /\ Falling(Tail(sigs))
         /\ Tail(sigs) # <<>> => /\ Tail(sigs)[1] = sigs[1] - 1
                                 /\ Tail(sigs)[Len(Tail(sigs))] = sigs[Len(sigs)]
         /\ Tail(sigs) = <<>> => sigs[Len(sigs)] = sigs[1]
<1>1. sigs \in Seq(Nat) /\ Len(sigs) \in Nat \ {0} /\ 1 \in 1 .. Len(sigs)
  BY DEF Falling
<1>2. /\ Tail(sigs) \in Seq(Nat) /\ Len(Tail(sigs)) = Len(sigs) - 1
      /\ \A k \in 1 .. Len(sigs) - 1 : Tail(sigs)[k] = sigs[k + 1]
  BY <1>1
<1>3. \A k \in 1 .. Len(sigs) : sigs[k] = sigs[1] + 1 - k /\ sigs[k] \in 1 .. Len(chain)
  BY DEF Falling
<1>4. ASSUME NEW k \in 1 .. Len(Tail(sigs))
      PROVE  Tail(sigs)[k] = Tail(sigs)[1] + 1 - k /\ Tail(sigs)[k] \in 1 .. Len(chain)
  <2>1. k + 1 \in 1 .. Len(sigs) /\ k \in 1 .. Len(sigs) - 1 /\ 2 \in 1 .. Len(sigs) /\ 1 \in 1 .. Len(sigs) - 1
    BY <1>1, <1>2
  <2>2. Tail(sigs)[k] = sigs[k + 1] /\ Tail(sigs)[1] = sigs[2]
    BY <2>1, <1>2
  <2> QED BY <2>1, <2>2, <1>3
<1>5. Falling(Tail(sigs))
  BY <1>2, <1>4 DEF Falling
<1>6. Tail(sigs) # <<>> => /\ Tail(sigs)[1] = sigs[1] - 1
                           /\ Tail(sigs)[Len(Tail(sigs))] = sigs[Len(sigs)]
  <2> SUFFICES ASSUME Tail(sigs) # <<>>
               PROVE  Tail(sigs)[1] = sigs[1] - 1
                      /\ Tail(sigs)[Len(Tail(sigs))] = sigs[Len(sigs)]
    OBVIOUS
  <2>1. Len(sigs) >= 2
    BY <1>1, <1>2
  <2>2. Tail(sigs)[1] = sigs[2] /\ Tail(sigs)[Len(sigs) - 1] = sigs[Len(sigs) - 1 + 1]
    BY <2>1, <1>2
  <2>3. sigs[2] = sigs[1] + 1 - 2 /\ sigs[1] \in Nat
    BY <2>1, <1>3, <1>1
  <2> QED BY <2>1, <2>2, <2>3, <1>1, <1>2
<1>7. Tail(sigs) = <<>> => Len(sigs) = 1
  <2>1. Len(<<>>) = 0
    OBVIOUS
  <2>2. Tail(sigs) = <<>> => Len(Tail(sigs)) = 0
    BY <2>1, Zenon
  <2> QED BY <2>2, <1>1, <1>2
<1> QED BY <1>1, <1>3, <1>5, <1>6, <1>7

LEMMA TakeKeeps == ASSUME LedgerSound, BackfillTake PROVE LedgerSound'
<1>s. PICK s : s = Head(back.sigs)
  OBVIOUS
<1> DEFINE bf == moved(back.bf, s)
           rest == Tail(back.sigs)
<1>0. /\ chain' = chain /\ filled' = filled /\ poll' = poll /\ head' = head
      /\ passed' = passed /\ cut' = cut /\ faults' = faults
      /\ seen' = (IF chain[s] = "failed" THEN seen ELSE seen \union {s})
      /\ proceed(bf, rest, back.short) /\ back.at = "take"
  BY <1>s DEF BackfillTake, ghostVars
<1>1. /\ chain \in Seq(Chained) /\ Len(chain) \in Nat /\ head \in 1 .. Len(chain)
      /\ back.bf \in Cursor /\ ~back.bf.done /\ back.short \in BOOLEAN
      /\ Covers(back.bf) /\ Covers(saved) /\ back.sigs # <<>> /\ Falling(back.sigs)
      /\ back.short => back.sigs[Len(back.sigs)] = 1
      /\ \A i \in 1 .. head : back.sigs[1] < i => DealtWith(i)
  BY <1>0 DEF LedgerSound, DiskSound, BackSound
<1>2. /\ s = back.sigs[1] /\ s \in 1 .. Len(chain) /\ Falling(rest)
      /\ rest # <<>> => rest[1] = s - 1 /\ rest[Len(rest)] = back.sigs[Len(back.sigs)]
      /\ rest = <<>> => back.sigs[Len(back.sigs)] = s
  BY <1>s, <1>1, RunsOn
<1> HIDE DEF rest
<1>3. bf \in Cursor /\ bf.tail = s /\ ~bf.done
  <2>1. s \in Nat
    BY <1>2
  <2> QED BY <1>1, <2>1, MovedOn
<1> HIDE DEF bf
<1>4. /\ seen \subseteq seen' /\ passed \subseteq passed' /\ cut \subseteq cut'
      /\ DealtWith(s)'
  <2>1. seen \subseteq seen' /\ passed \subseteq passed' /\ cut \subseteq cut'
    BY <1>0
  <2>2. chain'[s] = "failed" \/ s \in seen' \/ s \in passed'
    BY <1>0
  <2> QED BY <2>1, <2>2 DEF DealtWith
<1>5. \A i \in 1 .. head : s <= i => DealtWith(i)'
  <2> TAKE i \in 1 .. head
  <2>1. CASE s = i
    BY <2>1, <1>4
  <2>2. CASE s < i
    <3>1. DealtWith(i)
      BY <2>2, <1>1, <1>2
    <3> QED BY <3>1, <1>0, <1>4, StaysDealtWith
  <2> QED BY <2>1, <2>2, <1>2
<1>6. CoversNext(bf)
  BY <1>0, <1>3, <1>5 DEF CoversNext
<1>7. CoversNext(saved)
  BY <1>0, <1>1, <1>4, CoversMore
<1>8. rest # <<>> => \A i \in 1 .. head' : rest[1] < i => DealtWith(i)'
  BY <1>0, <1>1, <1>2, <1>5
<1>9. back.short /\ rest = <<>> => \A i \in 1 .. head' : DealtWith(i)'
  BY <1>0, <1>1, <1>2, <1>5
<1>10. saved' \in Cursor /\ saved'.tail <= Len(chain) /\ Covers(saved)' /\ BackSound'
  <2>1. back.short /\ rest # <<>> => rest[Len(rest)] = 1
    BY <1>1, <1>2
  <2> QED BY <1>0, <1>1, <1>2, <1>3, <1>6, <1>7, <1>8, <1>9, <2>1, ProceedKeeps
<1>11. DiskSound'
  BY <1>0, <1>1, <1>2, <1>10 DEF LedgerSound, DiskSound
<1>12. PollSound'
  BY <1>0, PollUndisturbed DEF LedgerSound
<1> QED BY <1>10, <1>11, <1>12 DEF LedgerSound

LEMMA UnservedKeeps == ASSUME LedgerSound, BackfillUnserved PROVE LedgerSound'
<1>s. PICK s : s = Head(back.sigs)
  OBVIOUS
<1> DEFINE rest == Tail(back.sigs)
<1>0. /\ chain' = chain /\ filled' = filled /\ poll' = poll /\ head' = head /\ seen' = seen
      /\ cut' = cut /\ faults < FAULTS /\ faults' = faults + 1
      /\ passed' = passed \union {s}
      /\ proceed(back.bf, rest, back.short) /\ back.at = "take"
  BY <1>s DEF BackfillUnserved, Fault
<1>1. /\ chain \in Seq(Chained) /\ Len(chain) \in Nat /\ head \in 1 .. Len(chain)
      /\ back.bf \in Cursor /\ ~back.bf.done /\ back.short \in BOOLEAN /\ back.bf.tail <= Len(chain)
      /\ Covers(back.bf) /\ Covers(saved) /\ back.sigs # <<>> /\ Falling(back.sigs)
      /\ back.short => back.sigs[Len(back.sigs)] = 1
      /\ \A i \in 1 .. head : back.sigs[1] < i => DealtWith(i)
  BY <1>0 DEF LedgerSound, DiskSound, BackSound
<1>2. /\ s = back.sigs[1] /\ s \in 1 .. Len(chain) /\ Falling(rest)
      /\ rest # <<>> => rest[1] = s - 1 /\ rest[Len(rest)] = back.sigs[Len(back.sigs)]
      /\ rest = <<>> => back.sigs[Len(back.sigs)] = s
  BY <1>s, <1>1, RunsOn
<1> HIDE DEF rest
<1>4. /\ seen \subseteq seen' /\ passed \subseteq passed' /\ cut \subseteq cut'
      /\ DealtWith(s)'
  <2>1. seen \subseteq seen' /\ passed \subseteq passed' /\ cut \subseteq cut'
    BY <1>0
  <2>2. chain'[s] = "failed" \/ s \in seen' \/ s \in passed'
    BY <1>0
  <2> QED BY <2>1, <2>2 DEF DealtWith
<1>5. \A i \in 1 .. head : s <= i => DealtWith(i)'
  <2> TAKE i \in 1 .. head
  <2>1. CASE s = i
    BY <2>1, <1>4
  <2>2. CASE s < i
    <3>1. DealtWith(i)
      BY <2>2, <1>1, <1>2
    <3> QED BY <3>1, <1>0, <1>4, StaysDealtWith
  <2> QED BY <2>1, <2>2, <1>2
<1>6. CoversNext(back.bf) /\ CoversNext(saved)
  BY <1>0, <1>1, <1>4, CoversMore
<1>8. rest # <<>> => \A i \in 1 .. head' : rest[1] < i => DealtWith(i)'
  BY <1>0, <1>1, <1>2, <1>5
<1>9. back.short /\ rest = <<>> => \A i \in 1 .. head' : DealtWith(i)'
  BY <1>0, <1>1, <1>2, <1>5
<1>10. saved' \in Cursor /\ saved'.tail <= Len(chain) /\ Covers(saved)' /\ BackSound'
  <2>1. back.short /\ rest # <<>> => rest[Len(rest)] = 1
    BY <1>1, <1>2
  <2> QED BY <1>0, <1>1, <1>2, <1>6, <1>8, <1>9, <2>1, ProceedKeeps
<1>11. DiskSound'
  <2>1. faults \in 0 .. FAULTS
    BY DEF LedgerSound, DiskSound
  <2>2. faults' \in 0 .. FAULTS /\ s \in Nat
    BY <2>1, <1>0, <1>2, LedgerConstants
  <2> QED BY <1>0, <1>1, <1>2, <1>10, <2>2 DEF LedgerSound, DiskSound
<1>12. PollSound'
  BY <1>0, PollUndisturbed DEF LedgerSound
<1> QED BY <1>10, <1>11, <1>12 DEF LedgerSound

-----------------------------------------------------------------------------
(* Starting over from the saved cursor.                                    *)
LEMMA StartOver ==
  ASSUME LedgerSound, chain' = chain, saved' = saved, head' = head,
         seen \subseteq seen', passed' = passed, cut' = cut, back' = started(saved)
  PROVE  Covers(saved)' /\ BackSound'
<1>1. saved \in Cursor /\ saved.tail <= Len(chain) /\ Covers(saved) /\ head \in Nat
  BY DEF LedgerSound, DiskSound
<1>2. CoversNext(saved)
  BY <1>1, CoversMore
<1>3. Covers(saved)'
  BY <1>2 DEF CoversNext, Covers
<1>4. back' = [at |-> IF saved.done THEN "over" ELSE "page", bf |-> saved, sigs |-> <<>>, short |-> FALSE]
  BY DEF started
<1>5. Covers(back.bf)'
  BY <1>2, <1>4 DEF CoversNext, Covers
<1>6. back' \in [at : {"page", "take", "over"}, bf : Cursor, sigs : Seq(Nat), short : BOOLEAN]
  BY <1>1, <1>4
<1>7. back'.at = "over" <=> saved.done
  BY <1>1, <1>4 DEF Cursor
<1>8. back'.at # "take" /\ back'.bf = saved
  BY <1>4
<1>9. head = 0 => saved.tail = 0 /\ ~saved.done
  BY DEF LedgerSound, BackSound
<1> QED BY <1>1, <1>3, <1>5, <1>6, <1>7, <1>8, <1>9 DEF BackSound

LEMMA FailsKeeps == ASSUME LedgerSound, BackfillFails PROVE LedgerSound'
<1>1. /\ chain' = chain /\ seen' = seen /\ filled' = filled /\ head' = head /\ saved' = saved
      /\ poll' = poll /\ passed' = passed /\ cut' = cut /\ back' = started(saved)
      /\ faults < FAULTS /\ faults' = faults + 1
  BY DEF BackfillFails, diskVars, ghostVars, Fault
<1>2. Covers(saved)' /\ BackSound'
  BY <1>1, StartOver
<1>3. DiskSound'
  BY <1>1, <1>2, LedgerConstants DEF LedgerSound, DiskSound
<1>4. PollSound'
  BY <1>1, PollUndisturbed DEF LedgerSound
<1> QED BY <1>2, <1>3, <1>4 DEF LedgerSound

LEMMA RestartKeeps == ASSUME LedgerSound, Restart PROVE LedgerSound'
<1>1. /\ chain' = chain /\ filled' = filled /\ head' = head /\ saved' = saved
      /\ poll' = IdlePoll /\ passed' = passed /\ cut' = cut /\ back' = started(saved)
      /\ faults < FAULTS /\ faults' = faults + 1
  BY DEF Restart, ghostVars, Fault
<1>2. PICK last \in {{}} \union (IF back.at = "take" THEN {{Head(back.sigs)}} ELSE {})
                        \union (IF poll.at = "take" THEN {{Head(poll.fresh)}} ELSE {}) :
        seen' = seen \union {s \in last : chain[s] # "failed"}
  BY DEF Restart
<1>3. last \subseteq 1 .. Len(chain)
  <2>1. back.at = "take" => Head(back.sigs) \in 1 .. Len(chain)
    BY RunsOn DEF LedgerSound, BackSound
  <2>2. poll.at = "take" => Head(poll.fresh) \in 1 .. Len(chain)
    <3> SUFFICES ASSUME poll.at = "take" PROVE Head(poll.fresh) \in 1 .. Len(chain)
      OBVIOUS
    <3>1. poll.fresh \in Seq(Nat) /\ poll.fresh # <<>>
          /\ \A k \in 1 .. Len(poll.fresh) : poll.fresh[k] \in 1 .. Len(chain)
      BY DEF LedgerSound, PollSound, Rising
    <3>2. 1 \in 1 .. Len(poll.fresh) /\ Head(poll.fresh) = poll.fresh[1]
      BY <3>1
    <3> QED BY <3>1, <3>2
  <2> QED BY <2>1, <2>2
<1>4. seen \subseteq seen' /\ \A i \in seen' \ seen : i \in 1 .. Len(chain)
  BY <1>2, <1>3
<1>5. Covers(saved)' /\ BackSound'
  BY <1>1, <1>4, StartOver
<1>6. DiskSound'
  BY <1>1, <1>4, <1>5, LedgerConstants DEF LedgerSound, DiskSound
<1>7. PollSound'
  BY <1>1, LedgerConstants DEF PollSound, IdlePoll
<1> QED BY <1>5, <1>6, <1>7 DEF LedgerSound

-----------------------------------------------------------------------------
(* The poll.  What it does not reach goes on the record as it starts to    *)
(* read, so the head it then moves leaves nothing behind.                  *)
LEMMA BackKeeps ==
  ASSUME LedgerSound, back' = back, saved' = saved, chain' = chain,
         seen \subseteq seen', passed \subseteq passed', cut \subseteq cut',
         head' \in head .. Len(chain), head # 0 \/ head' = head,
         \A i \in head + 1 .. head' : DealtWith(i)'
  PROVE  Covers(saved)' /\ BackSound'
<1>1. /\ head \in Nat /\ head' \in Nat /\ Len(chain) \in Nat /\ Covers(saved) /\ Covers(back.bf)
  BY DEF LedgerSound, DiskSound, BackSound
<1>2. CoversNext(saved) /\ CoversNext(back.bf)
  BY <1>1, CoversMore
<1>3. Covers(saved)' /\ Covers(back.bf)'
  BY <1>2 DEF CoversNext, Covers
<1>4. ASSUME back.at = "take"
      PROVE  /\ head' # 0 /\ Falling(back.sigs)'
             /\ \A i \in 1 .. head' : back.sigs[1] < i => DealtWith(i)'
  <2>1. /\ head # 0 /\ Falling(back.sigs)
        /\ \A i \in 1 .. head : back.sigs[1] < i => DealtWith(i)
    BY <1>4 DEF LedgerSound, BackSound
  <2>2. Falling(back.sigs)'
    BY <2>1 DEF Falling
  <2>3. ASSUME NEW i \in 1 .. head', back.sigs[1] < i PROVE DealtWith(i)'
    <3>1. CASE i <= head
      <4>1. DealtWith(i)
        BY <2>1, <2>3, <3>1
      <4> QED BY <4>1, StaysDealtWith
    <3>2. CASE i > head
      BY <3>2, <1>1
    <3> QED BY <3>1, <3>2, <1>1
  <2> QED BY <1>1, <2>1, <2>2, <2>3
<1> QED BY <1>1, <1>3, <1>4 DEF LedgerSound, BackSound

LEMMA OldestFirst ==
  ASSUME NEW s, Falling(s), s # <<>>
  PROVE  /\ Rising(oldest_first(s)) /\ oldest_first(s) # <<>>
         /\ oldest_first(s)[1] = s[Len(s)]
<1> DEFINE r == oldest_first(s)
           n == Len(s)
<1>1. s \in Seq(Nat) /\ n \in Nat \ {0} /\ s[1] \in Nat
  BY DEF Falling
<1>2. r = [k \in 1 .. n |-> s[(n - k) + 1]]
  BY DEF oldest_first, Reverse
<1>3. \A k \in 1 .. n : s[k] = s[1] + 1 - k /\ s[k] \in 1 .. Len(chain)
  BY DEF Falling
<1> HIDE DEF r, n
<1>4. ASSUME NEW k \in 1 .. n
      PROVE  r[k] = s[1] + 1 - (n - k + 1) /\ r[k] \in 1 .. Len(chain) /\ r[k] \in Nat
  <2>1. (n - k) + 1 \in 1 .. n
    BY <1>1
  <2>2. r[k] = s[(n - k) + 1]
    BY <1>2
  <2>3. s[(n - k) + 1] = s[1] + 1 - ((n - k) + 1) /\ s[(n - k) + 1] \in 1 .. Len(chain)
    BY <2>1, <1>3
  <2> QED BY <2>2, <2>3, <1>1
<1>5. r \in Seq(Nat) /\ Len(r) = n /\ r # <<>>
  <2>1. r \in [1 .. n -> Nat]
    BY <1>2, <1>4
  <2>2. r \in Seq(Nat) /\ Len(r) = n
    BY <2>1, <1>1
  <2> QED BY <2>2, <1>1
<1>6. r[1] = s[n]
  BY <1>1, <1>2
<1>7. \A k \in 1 .. n : r[k] = r[1] + k - 1
  <2> TAKE k \in 1 .. n
  <2>1. 1 \in 1 .. n
    BY <1>1
  <2> QED BY <2>1, <1>1, <1>4
<1>8. Rising(r)
  BY <1>4, <1>5, <1>7 DEF Rising
<1> QED BY <1>5, <1>6, <1>8 DEF r, n

LEMMA RunGoesOn ==
  ASSUME chain \in Seq(Chained), NEW s, Falling(s), s # <<>>, NEW t \in Seq(Nat),
         \A k \in 1 .. Len(t) : t[k] = s[Len(s)] - k /\ t[k] \in 1 .. Len(chain)
  PROVE  /\ Falling(s \o t)
         /\ (s \o t)[Len(s \o t)] = IF t = <<>> THEN s[Len(s)] ELSE t[Len(t)]
<1> DEFINE n == Len(s)
           f == s \o t
<1>1. s \in Seq(Nat) /\ n \in Nat \ {0} /\ Len(t) \in Nat
  BY DEF Falling
<1>2. f \in Seq(Nat) /\ Len(f) = n + Len(t)
  BY <1>1
<1>3. \A k \in 1 .. n : f[k] = s[k]
  BY <1>1
<1>4. \A k \in 1 .. Len(t) : f[n + k] = t[k]
  BY <1>1
<1>5. \A k \in 1 .. n : s[k] = s[1] + 1 - k /\ s[k] \in 1 .. Len(chain)
  BY DEF Falling
<1> HIDE DEF f, n
<1>6. f[1] = s[1] /\ s[n] = s[1] + 1 - n /\ s[1] \in Nat
  <2>1. 1 \in 1 .. n /\ n \in 1 .. n
    BY <1>1
  <2> QED BY <2>1, <1>3, <1>5
<1>7. ASSUME NEW k \in 1 .. Len(f)
      PROVE  f[k] = f[1] + 1 - k /\ f[k] \in 1 .. Len(chain)
  <2>1. CASE k <= n
    <3>1. k \in 1 .. n
      BY <2>1, <1>1, <1>2
    <3> QED BY <3>1, <1>3, <1>5, <1>6
  <2>2. CASE k > n
    <3>1. k - n \in 1 .. Len(t) /\ n + (k - n) = k
      BY <2>2, <1>1, <1>2
    <3>2. f[k] = t[k - n]
      <4>1. f[n + (k - n)] = t[k - n]
        BY <3>1, <1>4
      <4> QED BY <4>1, <3>1
    <3>3. t[k - n] = s[n] - (k - n) /\ t[k - n] \in 1 .. Len(chain)
      BY <3>1 DEF n
    <3> QED BY <3>2, <3>3, <1>1, <1>6
  <2> QED BY <2>1, <2>2, <1>1, <1>2
<1>8. f[Len(f)] = IF t = <<>> THEN s[n] ELSE t[Len(t)]
  <2>1. CASE t = <<>>
    <3>1. Len(f) = n /\ n \in 1 .. n
      BY <2>1, <1>1, <1>2
    <3>2. f[n] = s[n]
      BY <3>1, <1>3
    <3> QED BY <3>1, <3>2, <2>1
  <2>2. CASE t # <<>>
    <3>1. Len(t) \in 1 .. Len(t)
      BY <2>2, <1>1
    <3> QED BY <3>1, <2>2, <1>2, <1>4
  <2> QED BY <2>1, <2>2
<1> QED BY <1>2, <1>7, <1>8 DEF Falling, f, n

LEMMA PollPageKeeps == ASSUME LedgerSound, PollPage PROVE LedgerSound'
<1>w. PICK was, below :
        was = poll.fresh /\ below = IF was = <<>> THEN Len(chain) + 1 ELSE Last(was)
  OBVIOUS
<1>s. PICK sigs : sigs = page(head, below)
  OBVIOUS
<1>f. PICK fresh : fresh = was \o sigs
  OBVIOUS
<1>m. PICK more : more = (Len(sigs) = PAGE /\ poll.pages + 1 < POLL_PAGES)
  OBVIOUS
<1>0. /\ chain' = chain /\ seen' = seen /\ filled' = filled /\ head' = head /\ saved' = saved
      /\ back' = back /\ passed' = passed /\ faults' = faults
      /\ poll.at \in {"idle", "page"} /\ head # 0
      /\ poll' = IF more THEN [at |-> "page", pages |-> poll.pages + 1, fresh |-> fresh]
                 ELSE IF fresh = <<>> THEN IdlePoll
                 ELSE [at |-> "take", pages |-> 0, fresh |-> oldest_first(fresh)]
      /\ cut' = IF more \/ fresh = <<>> THEN cut ELSE cut \union (head + 1 .. Last(fresh) - 1)
  BY <1>w, <1>s, <1>f, <1>m DEF PollPage, diskVars
<1>1. /\ chain \in Seq(Chained) /\ Len(chain) \in Nat /\ head \in 1 .. Len(chain)
      /\ was \in Seq(Nat) /\ poll.pages \in Nat /\ PAGE \in Nat \ {0}
      /\ was # <<>> => Falling(was) /\ head < was[Len(was)]
  BY <1>0, <1>w, LedgerConstants DEF LedgerSound, DiskSound, PollSound
<1>2. below \in 1 .. Len(chain) + 1 /\ head < below
  <2>1. was # <<>> => was[Len(was)] \in 1 .. Len(chain)
    <3>1. was # <<>> => Len(was) \in 1 .. Len(was)
      BY <1>1
    <3> QED BY <3>1, <1>1 DEF Falling
  <2> QED BY <1>1, <1>w, <2>1 DEF Last
<1>3. /\ sigs \in Seq(Nat) /\ Len(sigs) \in Nat
      /\ \A k \in 1 .. Len(sigs) : sigs[k] = below - k /\ sigs[k] \in head + 1 .. Len(chain)
  <2>1. head \in Nat
    BY <1>1
  <2>2. /\ page(head, below) \in Seq(Nat)
        /\ \A k \in 1 .. Len(page(head, below)) :
             page(head, below)[k] = below - k /\ page(head, below)[k] \in head + 1 .. Len(chain)
    BY <1>1, <1>2, <2>1, PageIsARun
  <2> QED BY <2>2, <1>s
<1>4. fresh \in Seq(Nat) /\ Len(fresh) = Len(was) + Len(sigs)
  BY <1>1, <1>3, <1>f
<1>5. ASSUME fresh # <<>> PROVE Falling(fresh) /\ head < fresh[Len(fresh)]
  <2>1. \A k \in 1 .. Len(sigs) : sigs[k] \in 1 .. Len(chain)
    BY <1>1, <1>3
  <2>2. sigs # <<>> => Len(sigs) \in 1 .. Len(sigs) /\ head < sigs[Len(sigs)]
    <3>1. sigs # <<>> => Len(sigs) \in 1 .. Len(sigs)
      BY <1>3
    <3>2. \A k \in 1 .. Len(sigs) : sigs[k] \in head + 1 .. Len(chain)
      BY <1>3
    <3>3. \A k \in 1 .. Len(sigs) : head < sigs[k]
      BY <3>2, <1>1
    <3> QED BY <3>1, <3>3
  <2>3. CASE was = <<>>
    <3>1. fresh = sigs /\ Len(sigs) >= 1
      BY <2>3, <1>f, <1>3, <1>5
    <3>2. ASSUME NEW k \in 1 .. Len(sigs) PROVE sigs[k] = sigs[1] + 1 - k
      <4>1. 1 \in 1 .. Len(sigs)
        BY <3>1, <1>3
      <4> QED BY <4>1, <1>2, <1>3
    <3> QED BY <3>1, <3>2, <2>1, <2>2, <1>3, <1>5 DEF Falling
  <2>4. CASE was # <<>>
    <3>1. Falling(was) /\ head < was[Len(was)] /\ below = was[Len(was)]
      BY <2>4, <1>1, <1>w DEF Last
    <3>2. \A k \in 1 .. Len(sigs) : sigs[k] = was[Len(was)] - k /\ sigs[k] \in 1 .. Len(chain)
      BY <3>1, <2>1, <1>3
    <3> QED BY <3>1, <3>2, <2>2, <2>4, <1>1, <1>3, <1>f, RunGoesOn
  <2> QED BY <2>3, <2>4
<1>6. ASSUME fresh # <<>> PROVE Last(fresh) = fresh[Len(fresh)] /\ Last(fresh) \in head + 1 .. Len(chain)
  <2>1. Len(fresh) \in 1 .. Len(fresh)
    BY <1>4, <1>6
  <2> QED BY <2>1, <1>1, <1>5, <1>6 DEF Falling, Last
<1>7. more => fresh # <<>>
  <2>0. more => Len(sigs) = PAGE
    BY <1>m, Zenon
  <2>1. more => Len(fresh) # 0
    BY <2>0, <1>1, <1>3, <1>4
  <2> QED BY <2>1
<1>8. cut \subseteq cut' /\ \A i \in cut' \ cut : i \in 1 .. Len(chain)
  BY <1>0, <1>1, <1>6
<1>9. Covers(saved)' /\ BackSound'
  <2>1. head + 1 .. head' = {}
    BY <1>0, <1>1
  <2> QED BY <1>0, <1>1, <1>8, <2>1, BackKeeps
<1>10. DiskSound'
  <2>1. cut \subseteq Nat /\ \A i \in cut : i \in 1 .. Len(chain)
    BY DEF LedgerSound, DiskSound
  <2>2. cut' \subseteq Nat /\ \A i \in cut' : i \in 1 .. Len(chain)
    BY <2>1, <1>8
  <2> QED BY <2>2, <1>0, <1>9 DEF LedgerSound, DiskSound
<1>11. PollSound'
  <2>1. CASE more
    <3>1. Falling(fresh)' /\ poll'.fresh = fresh /\ poll'.at = "page"
      BY <2>1, <1>0, <1>5, <1>7 DEF Falling
    <3>2. Falling(poll.fresh)'
      BY <3>1 DEF Falling
    <3>3. poll' \in [at : {"idle", "page", "take"}, pages : Nat, fresh : Seq(Nat)]
      BY <2>1, <1>0, <1>1, <1>4
    <3> QED BY <3>1, <3>2, <3>3, <1>0, <1>5, <1>7, <2>1 DEF PollSound
  <2>2. CASE ~more /\ fresh = <<>>
    BY <2>2, <1>0, LedgerConstants DEF PollSound, IdlePoll
  <2>3. CASE ~more /\ fresh # <<>>
    <3> DEFINE r == oldest_first(fresh)
    <3>1. Rising(r) /\ r # <<>> /\ r[1] = fresh[Len(fresh)]
      BY <2>3, <1>5, OldestFirst
    <3> HIDE DEF r
    <3>2. poll' = [at |-> "take", pages |-> 0, fresh |-> r]
          /\ cut' = cut \union (head + 1 .. r[1] - 1)
      BY <2>3, <1>0, <1>6, <3>1 DEF r
    <3>3. Rising(poll.fresh)'
      BY <3>1, <3>2, <1>0 DEF Rising
    <3>4. r \in Seq(Nat) /\ head < r[1]
      BY <3>1, <2>3, <1>5 DEF Rising
    <3>5. poll' \in [at : {"idle", "page", "take"}, pages : Nat, fresh : Seq(Nat)]
      BY <3>2, <3>4
    <3> QED BY <3>1, <3>2, <3>3, <3>4, <3>5, <1>0 DEF PollSound
  <2> QED BY <2>1, <2>2, <2>3
<1> QED BY <1>9, <1>10, <1>11 DEF LedgerSound

LEMMA PollTakeKeeps == ASSUME LedgerSound, PollTake PROVE LedgerSound'
<1>s. PICK s, was : was = poll.fresh /\ s = Head(was)
  OBVIOUS
<1>0. /\ chain' = chain /\ filled' = filled /\ saved' = saved /\ back' = back
      /\ passed' = passed /\ cut' = cut /\ faults' = faults
      /\ seen' = (IF chain[s] = "failed" THEN seen ELSE seen \union {s})
      /\ head' = s /\ poll.at = "take"
      /\ poll' = IF Len(was) = 1 THEN IdlePoll ELSE [poll EXCEPT !.fresh = Tail(@)]
  BY <1>s DEF PollTake, ghostVars
<1>1. /\ chain \in Seq(Chained) /\ Len(chain) \in Nat /\ head \in 1 .. Len(chain)
      /\ poll \in [at : {"idle", "page", "take"}, pages : Nat, fresh : Seq(Nat)]
      /\ was \in Seq(Nat) /\ was # <<>> /\ Rising(was) /\ head < was[1]
      /\ head + 1 .. was[1] - 1 \subseteq cut
  BY <1>0, <1>s DEF LedgerSound, DiskSound, PollSound
<1>2. /\ Len(was) \in Nat \ {0} /\ s = was[1]
      /\ \A k \in 1 .. Len(was) : was[k] = s + k - 1 /\ was[k] \in 1 .. Len(chain)
  BY <1>1, <1>s DEF Rising
<1>3. s \in head .. Len(chain) /\ s \in Nat /\ s # 0 /\ head < s
  <2>1. 1 \in 1 .. Len(was)
    BY <1>2
  <2> QED BY <2>1, <1>1, <1>2
<1>4. /\ seen \subseteq seen' /\ passed \subseteq passed' /\ cut \subseteq cut'
      /\ DealtWith(s)'
  <2>1. seen \subseteq seen' /\ passed \subseteq passed' /\ cut \subseteq cut'
    BY <1>0
  <2>2. chain'[s] = "failed" \/ s \in seen'
    BY <1>0
  <2> QED BY <2>1, <2>2 DEF DealtWith
<1>5. ASSUME NEW i \in head + 1 .. head' PROVE DealtWith(i)'
  <2>1. CASE i = s
    BY <2>1, <1>4
  <2>2. CASE i # s
    <3>1. i \in head + 1 .. was[1] - 1
      BY <2>2, <1>0, <1>1, <1>2, <1>3
    <3> QED BY <3>1, <1>0, <1>1 DEF DealtWith
  <2> QED BY <2>1, <2>2
<1>6. Covers(saved)' /\ BackSound'
  BY <1>0, <1>1, <1>3, <1>4, <1>5, BackKeeps
<1>7. DiskSound'
  BY <1>0, <1>1, <1>3, <1>6 DEF LedgerSound, DiskSound
<1>8. PollSound'
  <2>1. CASE Len(was) = 1
    BY <2>1, <1>0, LedgerConstants DEF PollSound, IdlePoll
  <2>2. CASE Len(was) # 1
    <3>1. PICK rest : rest = Tail(was)
      OBVIOUS
    <3>2. /\ rest \in Seq(Nat) /\ Len(rest) = Len(was) - 1 /\ Len(rest) \in Nat \ {0}
          /\ \A k \in 1 .. Len(rest) : rest[k] = was[k + 1]
      BY <2>2, <3>1, <1>1, <1>2
    <3>3. \A k \in 1 .. Len(rest) : rest[k] = s + k /\ rest[k] \in 1 .. Len(chain)
      <4> TAKE k \in 1 .. Len(rest)
      <4>1. k + 1 \in 1 .. Len(was)
        BY <3>2, <1>2
      <4>2. was[k + 1] = s + (k + 1) - 1 /\ was[k + 1] \in 1 .. Len(chain)
        BY <4>1, <1>2
      <4> QED BY <4>2, <3>2, <1>3
    <3>4. rest # <<>> /\ rest[1] = s + 1
      BY <3>2, <3>3
    <3>5. poll' = [at |-> "take", pages |-> poll.pages, fresh |-> rest]
      BY <2>2, <3>1, <1>0, <1>1, <1>s
    <3>6. poll' \in [at : {"idle", "page", "take"}, pages : Nat, fresh : Seq(Nat)]
      BY <3>5, <3>2, <1>1
    <3>7. Rising(rest)'
      BY <3>2, <3>3, <3>4, <1>0, <1>3 DEF Rising
    <3>8. Rising(poll.fresh)'
      BY <3>5, <3>7 DEF Rising
    <3>9. head' + 1 .. rest[1] - 1 = {} /\ head' < rest[1] /\ head' # 0
      BY <3>4, <1>0, <1>3
    <3> QED BY <3>4, <3>5, <3>6, <3>8, <3>9 DEF PollSound
  <2> QED BY <2>1, <2>2
<1> QED BY <1>6, <1>7, <1>8 DEF LedgerSound

LEMMA PollStopsKeeps == ASSUME LedgerSound, PollStops PROVE LedgerSound'
<1>1. /\ chain' = chain /\ seen' = seen /\ filled' = filled /\ head' = head /\ saved' = saved
      /\ back' = back /\ passed' = passed /\ cut' = cut
      /\ poll' = IdlePoll /\ faults < FAULTS /\ faults' = faults + 1
  BY DEF PollStops, diskVars, ghostVars, Fault
<1>2. Covers(saved)' /\ BackSound'
  <2>1. head \in Nat /\ head' \in head .. Len(chain) /\ head + 1 .. head' = {}
    BY <1>1 DEF LedgerSound, DiskSound
  <2> QED BY <1>1, <2>1, BackKeeps
<1>3. DiskSound'
  BY <1>1, <1>2, LedgerConstants DEF LedgerSound, DiskSound
<1>4. PollSound'
  BY <1>1, LedgerConstants DEF PollSound, IdlePoll
<1> QED BY <1>2, <1>3, <1>4 DEF LedgerSound

LEMMA FillKeeps == ASSUME LedgerSound, Fill PROVE LedgerSound'
<1>1. /\ chain' = chain /\ seen' = seen /\ head' = head /\ saved' = saved /\ back' = back
      /\ poll' = poll /\ passed' = passed /\ cut' = cut /\ faults' = faults
      /\ filled' = filled \union (fromLadder(program(chain)) \ known)
  BY DEF Fill, ghostVars
<1>2. fromLadder(program(chain)) \subseteq {"terms", "grid", "win", "miss", "void"}
  BY DEF fromLadder
<1>3. Covers(saved)' /\ BackSound'
  <2>1. head \in Nat /\ head' \in head .. Len(chain) /\ head + 1 .. head' = {}
    BY <1>1 DEF LedgerSound, DiskSound
  <2> QED BY <1>1, <2>1, BackKeeps
<1>4. DiskSound'
  BY <1>1, <1>2, <1>3 DEF LedgerSound, DiskSound
<1>5. PollSound'
  BY <1>1, PollUndisturbed DEF LedgerSound
<1> QED BY <1>3, <1>4, <1>5 DEF LedgerSound

\* A new transaction is above the head and above every page in hand.
LEMMA FinalizeKeeps == ASSUME LedgerSound, Finalize PROVE LedgerSound'
<1>1. /\ seen' = seen /\ filled' = filled /\ head' = head /\ saved' = saved
      /\ back' = back /\ poll' = poll /\ passed' = passed /\ cut' = cut /\ faults' = faults
  BY DEF Finalize, diskVars, ghostVars
<1>2. PICK k \in allowed(program(chain)) : chain' = Append(chain, k)
  BY DEF Finalize
<1>3. k \in Chained
  BY <1>2 DEF allowed, Chained
<1>4. /\ chain \in Seq(Chained) /\ Len(chain) \in Nat /\ Len(chain) > 0 /\ head \in 0 .. Len(chain)
      /\ Covers(saved) /\ Covers(back.bf)
      /\ saved.tail \in Nat /\ saved.tail <= Len(chain)
      /\ back.bf.tail \in Nat /\ back.bf.tail <= Len(chain)
  BY DEF LedgerSound, DiskSound, BackSound, Cursor
<1>5. /\ chain' \in Seq(Chained) /\ Len(chain') = Len(chain) + 1
      /\ \A i \in 1 .. Len(chain) : chain'[i] = chain[i]
  BY <1>2, <1>3, <1>4
<1>6. ASSUME NEW i \in 1 .. head, DealtWith(i) PROVE DealtWith(i)'
  BY <1>1, <1>4, <1>5, <1>6 DEF DealtWith
<1>7. Covers(saved)' /\ Covers(back.bf)'
  BY <1>1, <1>4, <1>6 DEF Covers
<1>8. ASSUME NEW s \in Seq(Nat)
      PROVE  (Falling(s) => Falling(s)') /\ (Rising(s) => Rising(s)')
  <2>1. 1 .. Len(chain) \subseteq 1 .. Len(chain')
    BY <1>4, <1>5
  <2> QED BY <2>1 DEF Falling, Rising
<1>9. DiskSound'
  <2>1. \A i \in seen \union passed \union cut : i \in 1 .. Len(chain)
    BY DEF LedgerSound, DiskSound
  <2>2. \A i \in 1 .. Len(chain) : i \in 1 .. Len(chain')
    BY <1>4, <1>5
  <2> QED BY <2>1, <2>2, <1>1, <1>4, <1>5, <1>7 DEF LedgerSound, DiskSound
<1>10. BackSound'
  <2>1. back.sigs \in Seq(Nat)
    BY DEF LedgerSound, BackSound
  <2>2. Falling(back.sigs) => Falling(back.sigs)'
    BY <2>1, <1>1, <1>8 DEF Falling
  <2>3. ASSUME back.at = "take", NEW i \in 1 .. head, back.sigs[1] < i PROVE DealtWith(i)'
    BY <2>3, <1>6 DEF LedgerSound, BackSound
  <2> QED BY <2>2, <2>3, <1>1, <1>4, <1>5, <1>7 DEF LedgerSound, BackSound
<1>11. PollSound'
  <2>1. poll.fresh \in Seq(Nat)
    BY DEF LedgerSound, PollSound
  <2>2. (Falling(poll.fresh) => Falling(poll.fresh)') /\ (Rising(poll.fresh) => Rising(poll.fresh)')
    BY <2>1, <1>1, <1>8 DEF Falling, Rising
  <2> QED BY <2>2, <1>1 DEF LedgerSound, PollSound
<1> QED BY <1>9, <1>10, <1>11 DEF LedgerSound

-----------------------------------------------------------------------------
LEMMA Starts == Init => LedgerSound
<1> SUFFICES ASSUME Init PROVE LedgerSound
  OBVIOUS
<1>1. /\ chain \in Seq(Chained) /\ Len(chain) > 0 /\ seen = {} /\ passed = {} /\ cut = {}
      /\ filled = {} /\ head = 0 /\ faults = 0 /\ saved = NoCursor /\ poll = IdlePoll
      /\ back = [at |-> "page", bf |-> NoCursor, sigs |-> <<>>, short |-> FALSE]
  <2>1. "create" \in Chained /\ "failed" \in Chained
    BY DEF Chained, Kinds
  <2>2. <<"create">> \in Seq(Chained) /\ <<"create", "failed">> \in Seq(Chained)
    BY <2>1
  <2>3. Len(<<"create">>) = 1 /\ Len(<<"create", "failed">>) = 2
    OBVIOUS
  <2>4. chain = <<"create">> \/ chain = <<"create", "failed">>
    BY DEF Init
  <2>5. chain \in Seq(Chained) /\ Len(chain) > 0
    <3>1. chain \in Seq(Chained) /\ Len(chain) \in {1, 2}
      BY <2>2, <2>3, <2>4, Zenon
    <3> QED BY <3>1
  <2> QED BY <2>5 DEF Init, started, NoCursor
<1>2. NoCursor \in Cursor /\ NoCursor.tail = 0 /\ ~NoCursor.done
  BY DEF NoCursor, Cursor
<1>3. DiskSound
  BY <1>1, <1>2, LedgerConstants DEF DiskSound, Covers
<1>4. BackSound
  BY <1>1, <1>2 DEF BackSound, Covers
<1>5. PollSound
  BY <1>1, LedgerConstants DEF PollSound, IdlePoll
<1> QED BY <1>3, <1>4, <1>5 DEF LedgerSound

LEMMA Steps == LedgerSound /\ [Next]_vars => LedgerSound'
<1> SUFFICES ASSUME LedgerSound, [Next]_vars PROVE LedgerSound'
  OBVIOUS
<1>1. CASE UNCHANGED vars
  <2>1. /\ chain' = chain /\ seen' = seen /\ head' = head /\ saved' = saved /\ back' = back
        /\ filled' = filled /\ poll' = poll /\ passed' = passed /\ cut' = cut /\ faults' = faults
    BY <1>1 DEF vars
  <2> QED BY <2>1 DEF LedgerSound, DiskSound, BackSound, PollSound, Covers, DealtWith, Falling, Rising
<1> QED
  BY <1>1, PageKeeps, TakeKeeps, UnservedKeeps, FailsKeeps, RestartKeeps, PollPageKeeps,
     PollTakeKeeps, PollStopsKeeps, FillKeeps, FinalizeKeeps DEF Next

LEMMA SoundCovers == LedgerSound => CursorsCover
<1> SUFFICES ASSUME LedgerSound PROVE CursorsCover
  OBVIOUS
<1>1. Txs = 1 .. Len(chain) /\ head \in 0 .. Len(chain) /\ Len(chain) \in Nat
  BY TxsAre DEF LedgerSound, DiskSound
<1>2. TypeOK
  BY <1>1 DEF LedgerSound, DiskSound, BackSound, PollSound, Cursor, TypeOK, Chained
<1>3. ASSUME NEW i \in Txs, head # 0, i <= head,
             \/ saved.tail # 0 /\ saved.tail <= i
             \/ saved.done /\ BACKFILL_MAX = 0
      PROVE  Read(i) \/ i \in GivenUp
  <2>1. DealtWith(i)
    BY <1>1, <1>3 DEF LedgerSound, DiskSound, Covers
  <2> QED BY <2>1 DEF DealtWith, Read, GivenUp
<1> QED BY <1>2, <1>3 DEF CursorsCover

\* Between the two saved cursors there is no hole, for any size of page, any
\* number of transactions and any number of failures and deaths: what a crash or
\* a failed call leaves undone is above the head or below the tail, to be asked
\* for again (infra/ledger's backfill and poll).
THEOREM CursorsCoverHolds == Spec => []CursorsCover
<1> QED
  BY Starts, Steps, SoundCovers, PTL DEF Spec

-----------------------------------------------------------------------------
(* The round behind a chain.                                               *)

Statuses == {"None", "Seeding", "Open", "Settled", "Void"}
RoundRecord ==
  [status : Statuses, opened : BOOLEAN, level : Nat, shares : Nat, cost : Nat, live : BOOLEAN,
   bought : BOOLEAN, pays : BOOLEAN, deposit : BOOLEAN, closed : BOOLEAN, fees : Nat,
   balance : Int, bundled : Nat]
Over(p) == p.status \in {"Settled", "Void"}

\* The wallet's call: what there is of it, and what it pays.
CallSound(p) ==
  /\ p.live => p.bought
  /\ ~p.live => p.shares = 0 /\ p.cost = 0
  /\ p.shares > 0 <=> p.cost > 0
  /\ p.pays => p.level > 0 /\ p.bought
  /\ p.live /\ p.level > 0 => (p.pays <=> p.shares > 0)
  /\ p.fees \in {0, CREATOR_FEES}
  /\ p.bundled > 0 => p.bought

\* What there can be at each stage.
StageSound(p) ==
  /\ p.status \in {"None", "Seeding"} => ~p.bought
  /\ p.status # "Settled" => p.level = 0
  /\ ~Over(p) => ~p.closed /\ (p.bought => p.live)
  /\ p.level \in {0, LEVEL}
  /\ p.status = "None" <=> ~p.deposit /\ ~Over(p)
  /\ p.closed => ~p.deposit /\ ~p.live

RoundSound(p) == p \in RoundRecord /\ CallSound(p) /\ StageSound(p)

TallyRecord ==
  [paid : Nat, got : Nat, held : BOOLEAN, bought : BOOLEAN, shares : Int, cost : Int,
   closed : BOOLEAN, back : Nat, deposit : BOOLEAN, claimed : BOOLEAN, out : BOOLEAN]

\* The rows counted so far say of the wallet what the round's accounts do.
Told(p, h) ==
  /\ h \in TallyRecord
  /\ h.got - h.paid = p.balance + p.bundled
  /\ h.held = p.bought /\ h.bought = p.bought
  /\ h.closed <=> p.bought /\ ~p.live
  /\ p.live => h.shares = p.shares
  /\ ~p.bought => h.shares = 0
  /\ h.shares = 0 => h.cost = 0
  /\ h.deposit <=> p.status # "None"
  /\ h.claimed <=> p.status # "None" /\ ~p.deposit
  /\ h.out <=> h.closed \/ h.claimed
  /\ h.back > 0 => h.closed
  /\ p.status = "Settled" /\ h.closed => (h.back > 0 <=> p.pays)

\* The facts of a round's ending are those of its account.
EndsAs(F, p) ==
  /\ "win" \in F <=> p.status = "Settled" /\ p.level > 0
  /\ "miss" \in F <=> p.status = "Settled" /\ p.level = 0
  /\ "void" \in F <=> p.status = "Void"
  /\ "closed" \in F <=> p.closed

\* What the constants are, and how they compare.
LEMMA Coins ==
  /\ FEE \in Nat /\ DEPOSIT \in Nat /\ COST \in Nat /\ SALE \in Nat /\ CREATOR_FEES \in Nat
  /\ SHARES \in Nat /\ LEVEL \in Nat /\ SHARES > 0 /\ LEVEL > FEE
  /\ DEPOSIT > FEE /\ COST > FEE /\ SALE > FEE /\ CREATOR_FEES > FEE
<1>1. FEE \in Nat /\ SHARES \in Nat \ {0} /\ LEVEL \in Nat \ 0 .. FEE
  BY AmountConstants, Zenon
<1>2. DEPOSIT \in Nat \ 0 .. FEE /\ COST \in Nat \ 0 .. FEE /\ SALE \in Nat \ 0 .. FEE
      /\ CREATOR_FEES \in Nat \ 0 .. FEE
  BY AmountConstants, Zenon
<1> QED BY <1>1, <1>2

\* What a round of this shape may be asked to pay.
LEMMA Owes ==
  ASSUME NEW p, RoundSound(p)
  PROVE  /\ redemption(p) \in Nat /\ claimable(p) \in Nat /\ claimable(p) >= FEE
         /\ p.status = "Settled" => (redemption(p) > 0 <=> p.shares > 0 /\ p.level > 0)
         /\ p.status = "Settled" /\ redemption(p) > 0 => redemption(p) > FEE
<1> DEFINE w == p.shares * p.level
<1>1. /\ p.status \in Statuses /\ p.shares \in Nat /\ p.cost \in Nat /\ p.level \in {0, LEVEL}
  BY DEF RoundSound, StageSound, RoundRecord
<1>2. ASSUME NEW s \in Nat, NEW l \in Nat
      PROVE  /\ s * l \in Nat /\ s * 0 = 0 /\ 0 * l = 0
             /\ s > 0 => s * l >= l
  OBVIOUS
<1>3. CASE p.level = 0
  <2>1. w = 0
    BY <1>1, <1>2, <1>3
  <2> HIDE DEF w
  <2>4. redemption(p) = IF p.status = "Void" THEN p.cost ELSE w
    BY DEF redemption, w
  <2>5. claimable(p) \in Nat /\ claimable(p) >= FEE
    BY Coins DEF claimable
  <2> QED BY <2>1, <1>1, <1>3, <2>4, <2>5
<1>4. CASE p.level = LEVEL
  <2>1. w \in Nat /\ (p.shares = 0 => w = 0) /\ (p.shares > 0 => w >= LEVEL)
    BY <1>1, <1>2, <1>4, Coins
  <2> HIDE DEF w
  <2>4. redemption(p) = IF p.status = "Void" THEN p.cost ELSE w
    BY DEF redemption, w
  <2>5. claimable(p) \in Nat /\ claimable(p) >= FEE
    BY Coins DEF claimable
  <2> QED BY <2>1, <1>1, <1>4, <2>4, <2>5, Coins
<1> QED BY <1>1, <1>3, <1>4

\* What a movement adds to the wallet, the coin's fee taken.
LEMMA GainsAre ==
  ASSUME NEW m \in Int
  PROVE  gains(m) \in Int /\ gains(0) = 0 /\ (m # 0 => gains(m) = -m - FEE)
BY Coins DEF gains

\* Transactions that move nothing of the wallet's.
Silent == {"open", "win", "miss", "void", "close"}

\* A transaction of one instruction moves what that instruction moves.
LEMMA DeltaOf ==
  ASSUME NEW p, NEW k, NEW name, NEW m, instructions(p, k) = <<[name |-> name, moves |-> m]>>,
         gains(m) \in Int
  PROVE  delta(p, k) = gains(m)
BY DEF delta

\* What each transaction adds to the wallet.
LEMMA DeltaIs ==
  ASSUME NEW p, RoundSound(p), NEW k \in allowed(p)
  PROVE  /\ k = "create" => delta(p, k) = gains(DEPOSIT)
         /\ k = "buy" => delta(p, k) = gains(COST)
         /\ k = "sell" => delta(p, k) = gains(-SALE)
         /\ k = "redeem" => delta(p, k) = gains(-redemption(p))
         /\ k = "sweep" => delta(p, k) = gains(0)
         /\ k = "claim" => delta(p, k) = gains(-claimable(p))
         /\ k = "fees" => delta(p, k) = gains(-p.fees)
         /\ k = "collect" => delta(p, k) = gains(-redemption(p)) + gains(-claimable(p))
         /\ k \in Silent => delta(p, k) = 0
         /\ delta(p, k) \in Int
<1>1. redemption(p) \in Nat /\ claimable(p) \in Nat /\ p.fees \in Nat
  BY Owes DEF RoundSound, RoundRecord
<1>2. /\ gains(DEPOSIT) \in Int /\ gains(COST) \in Int /\ gains(-SALE) \in Int /\ gains(0) \in Int
      /\ gains(-redemption(p)) \in Int /\ gains(-claimable(p)) \in Int /\ gains(-p.fees) \in Int
  BY <1>1, Coins, GainsAre
<1>3. CASE k = "create"
  <2>1. instructions(p, k) = <<[name |-> "ladder_create", moves |-> DEPOSIT]>>
    BY <1>3 DEF instructions
  <2> QED BY <1>2, <1>3, <2>1, DeltaOf DEF Silent
<1>4. CASE k = "buy"
  <2>1. instructions(p, k) = <<[name |-> "ladder_buy", moves |-> COST]>>
    BY <1>4 DEF instructions
  <2> QED BY <1>2, <1>4, <2>1, DeltaOf DEF Silent
<1>5. CASE k = "sell"
  <2>1. instructions(p, k) = <<[name |-> "ladder_sell", moves |-> -SALE]>>
    BY <1>5 DEF instructions
  <2> QED BY <1>2, <1>5, <2>1, DeltaOf DEF Silent
<1>6. CASE k = "redeem"
  <2>1. instructions(p, k) = <<[name |-> "ladder_redeem", moves |-> -redemption(p)]>>
    BY <1>6 DEF instructions
  <2> QED BY <1>2, <1>6, <2>1, DeltaOf DEF Silent
<1>7. CASE k = "sweep"
  <2>1. instructions(p, k) = <<[name |-> "ladder_sweep", moves |-> 0]>>
    BY <1>7 DEF instructions
  <2> QED BY <1>2, <1>7, <2>1, DeltaOf DEF Silent
<1>8. CASE k = "claim"
  <2>1. instructions(p, k) = <<[name |-> "ladder_claim_lp", moves |-> -claimable(p)]>>
    BY <1>8 DEF instructions
  <2> QED BY <1>2, <1>8, <2>1, DeltaOf DEF Silent
<1>9. CASE k = "fees"
  <2>1. instructions(p, k) = <<[name |-> "ladder_collect_fees", moves |-> -p.fees]>>
    BY <1>9 DEF instructions
  <2> QED BY <1>2, <1>9, <2>1, DeltaOf DEF Silent
<1>10. CASE k = "collect"
  <2>1. instructions(p, k) = <<[name |-> "ladder_redeem", moves |-> -redemption(p)],
                               [name |-> "ladder_claim_lp", moves |-> -claimable(p)]>>
    BY <1>10 DEF instructions
  <2>2. delta(p, k) = gains(-redemption(p)) + gains(-claimable(p))
    BY <1>2, <2>1 DEF delta
  <2> QED BY <1>2, <1>10, <2>2 DEF Silent
<1>11. CASE k \in Silent
  <2>1. instructions(p, k) = <<>>
    BY <1>11 DEF instructions, Silent
  <2>2. delta(p, k) = 0
    BY <2>1 DEF delta
  <2> QED BY <1>11, <2>2 DEF Silent
<1> QED
  BY <1>3, <1>4, <1>5, <1>6, <1>7, <1>8, <1>9, <1>10, <1>11 DEF allowed, Kinds, Silent

\* The round after a transaction, field by field.
Pays_out == {"redeem", "sweep", "collect"}
Becomes(p, k, r) ==
  /\ r.status = CASE k = "create" -> "Seeding" [] k = "open" -> "Open"
                  [] k \in {"win", "miss"} -> "Settled" [] k = "void" -> "Void" [] OTHER -> p.status
  /\ r.level = IF k = "win" THEN LEVEL ELSE p.level
  /\ r.shares = IF k = "buy" THEN SHARES ELSE IF k = "sell" THEN p.shares - 1
                ELSE IF k \in Pays_out THEN 0 ELSE p.shares
  /\ r.live = IF k = "buy" THEN TRUE ELSE IF k \in Pays_out THEN FALSE ELSE p.live
  /\ r.bought = IF k = "buy" THEN TRUE ELSE p.bought
  /\ r.pays = IF k = "win" THEN (p.shares > 0) ELSE p.pays
  /\ r.deposit = IF k = "create" THEN TRUE ELSE IF k \in {"claim", "collect"} THEN FALSE ELSE p.deposit
  /\ r.closed = IF k = "close" THEN TRUE ELSE p.closed
  /\ r.balance = p.balance + delta(p, k)
  /\ r.bundled = IF k = "collect" THEN p.bundled + bundled(p) ELSE p.bundled

\* A part of something left is less than it, unless it is all of it.
LEMMA PartOf ==
  ASSUME NEW c \in Nat, NEW s \in Nat, s > 0, c > 0
  PROVE  /\ c - c \div s \in Nat
         /\ s - 1 > 0 <=> c - c \div s > 0
<1> DEFINE d == c \div s
<1>1. CASE s = 1
  BY <1>1
<1>2. CASE s > 1
  <2>1. d \in Nat /\ s * d <= c
    BY <1>2
  <2>2. d = 0 \/ 2 * d <= s * d
    BY <1>2, <2>1
  <2> HIDE DEF d
  <2>3. d < c
    BY <2>1, <2>2
  <2> QED BY <2>1, <2>3, <1>2 DEF d
<1> QED BY <1>1, <1>2

\* Every transaction leaves a sound round sound, and changes of it what it should.
LEMMA AfterSound ==
  ASSUME NEW p, RoundSound(p), NEW k \in allowed(p)
  PROVE  RoundSound(after(p, k)) /\ Becomes(p, k, after(p, k))
<1> DEFINE q == [p EXCEPT !.balance = @ + delta(p, k)]
           gone == [q EXCEPT !.live = FALSE, !.shares = 0, !.cost = 0]
           r == after(p, k)
<1>1. delta(p, k) \in Int /\ bundled(p) \in Nat
  BY DeltaIs, Owes, Coins DEF bundled
<1>2. p \in RoundRecord
  BY DEF RoundSound
<1>3. q \in RoundRecord /\ q.balance = p.balance + delta(p, k)
  BY <1>1, <1>2 DEF RoundRecord
<1>4. /\ q.status = p.status /\ q.opened = p.opened /\ q.level = p.level /\ q.shares = p.shares
      /\ q.cost = p.cost /\ q.live = p.live /\ q.bought = p.bought /\ q.pays = p.pays
      /\ q.deposit = p.deposit /\ q.closed = p.closed /\ q.fees = p.fees /\ q.bundled = p.bundled
  BY <1>2 DEF RoundRecord
<1> HIDE DEF q
<1>5. gone \in RoundRecord /\ gone.balance = p.balance + delta(p, k)
  BY <1>3 DEF RoundRecord
<1>6. /\ gone.status = p.status /\ gone.opened = p.opened /\ gone.level = p.level /\ gone.shares = 0
      /\ gone.cost = 0 /\ gone.live = FALSE /\ gone.bought = p.bought /\ gone.pays = p.pays
      /\ gone.deposit = p.deposit /\ gone.closed = p.closed /\ gone.fees = p.fees
      /\ gone.bundled = p.bundled
  BY <1>3, <1>4 DEF RoundRecord
<1>7. CASE k = "create"
  <2>1. r = [q EXCEPT !.status = "Seeding", !.deposit = TRUE]
    BY <1>7 DEF after, q
  <2>2. p.status = "None"
    BY <1>7 DEF allowed, Final, Running, Over
  <2> HIDE DEF r
  <2>4. r \in RoundRecord /\ r.balance = p.balance + delta(p, k)
    BY <2>1, <1>1, <1>2, <1>3, Coins DEF RoundRecord, Statuses
  <2>5. /\ r.status = "Seeding" /\ r.opened = p.opened /\ r.level = p.level
        /\ r.shares = p.shares /\ r.cost = p.cost /\ r.live = p.live /\ r.bought = p.bought
        /\ r.pays = p.pays /\ r.deposit = TRUE /\ r.closed = p.closed /\ r.fees = p.fees
        /\ r.bundled = p.bundled
    BY <2>1, <1>3, <1>4 DEF RoundRecord
  <2> HIDE DEF RoundRecord
  <2>6. CallSound(r)
    BY <2>2, <2>4, <2>5, <1>2, Coins DEF RoundSound, CallSound, StageSound, Over, RoundRecord
  <2>7. StageSound(r)
    BY <2>2, <2>5, Coins DEF RoundSound, CallSound, StageSound, Over
  <2>8. Becomes(p, k, r)
    BY <1>7, <2>4, <2>5 DEF Becomes, Pays_out
  <2> QED BY <2>4, <2>6, <2>7, <2>8 DEF RoundSound, r
<1>8. CASE k = "open"
  <2>1. r = [q EXCEPT !.status = "Open", !.opened = TRUE]
    BY <1>8 DEF after, q
  <2>2. p.status = "Seeding"
    BY <1>8 DEF allowed, Final, Running, Over
  <2> HIDE DEF r
  <2>4. r \in RoundRecord /\ r.balance = p.balance + delta(p, k)
    BY <2>1, <1>1, <1>2, <1>3, Coins DEF RoundRecord, Statuses
  <2>5. /\ r.status = "Open" /\ r.opened = TRUE /\ r.level = p.level /\ r.shares = p.shares
        /\ r.cost = p.cost /\ r.live = p.live /\ r.bought = p.bought /\ r.pays = p.pays
        /\ r.deposit = p.deposit /\ r.closed = p.closed /\ r.fees = p.fees
        /\ r.bundled = p.bundled
    BY <2>1, <1>3, <1>4 DEF RoundRecord
  <2> HIDE DEF RoundRecord
  <2>6. CallSound(r)
    BY <2>2, <2>4, <2>5, <1>2, Coins DEF RoundSound, CallSound, StageSound, Over, RoundRecord
  <2>7. StageSound(r)
    BY <2>2, <2>5, Coins DEF RoundSound, CallSound, StageSound, Over
  <2>8. Becomes(p, k, r)
    BY <1>8, <2>4, <2>5 DEF Becomes, Pays_out
  <2> QED BY <2>4, <2>6, <2>7, <2>8 DEF RoundSound, r
<1>9. CASE k = "buy"
  <2>1. r = [q EXCEPT !.live = TRUE, !.bought = TRUE, !.shares = SHARES, !.cost = COST, !.fees = CREATOR_FEES]
    BY <1>9 DEF after, q
  <2>2. p.status = "Open" /\ p.live = FALSE
    BY <1>9 DEF allowed, Final, Running, Over
  <2> HIDE DEF r
  <2>4. r \in RoundRecord /\ r.balance = p.balance + delta(p, k)
    BY <2>1, <1>1, <1>2, <1>3, Coins DEF RoundRecord, Statuses
  <2>5. /\ r.status = p.status /\ r.opened = p.opened /\ r.level = p.level
        /\ r.shares = SHARES /\ r.cost = COST /\ r.live = TRUE /\ r.bought = TRUE
        /\ r.pays = p.pays /\ r.deposit = p.deposit /\ r.closed = p.closed
        /\ r.fees = CREATOR_FEES /\ r.bundled = p.bundled
    BY <2>1, <1>3, <1>4 DEF RoundRecord
  <2> HIDE DEF RoundRecord
  <2>6. CallSound(r)
    BY <2>2, <2>4, <2>5, <1>2, Coins DEF RoundSound, CallSound, StageSound, Over, RoundRecord
  <2>7. StageSound(r)
    BY <2>2, <2>5, Coins DEF RoundSound, CallSound, StageSound, Over
  <2>8. Becomes(p, k, r)
    BY <1>9, <2>4, <2>5 DEF Becomes, Pays_out
  <2> QED BY <2>4, <2>6, <2>7, <2>8 DEF RoundSound, r
<1>10. CASE k = "sell"
  <2>1. r = [q EXCEPT !.shares = @ - 1, !.cost = @ - @ \div p.shares]
    BY <1>10 DEF after, q
  <2>2. p.status = "Open" /\ p.shares > 0
    BY <1>10 DEF allowed, Final, Running, Over
  <2> HIDE DEF r
  <2>3. p.cost - p.cost \div p.shares \in Nat /\ p.shares - 1 \in Nat
        /\ (p.shares - 1 > 0 <=> p.cost - p.cost \div p.shares > 0)
    BY <2>2, <1>2, PartOf DEF RoundRecord, RoundSound, CallSound
  <2> DEFINE c == p.cost - p.cost \div p.shares
             w == p.shares - 1
  <2>31. r = [q EXCEPT !.shares = w, !.cost = c]
    BY <2>1, <1>3, <1>4 DEF RoundRecord
  <2>32. c \in Nat /\ w \in Nat
    BY <2>3
  <2> HIDE DEF c, w
  <2>4. r \in RoundRecord /\ r.balance = p.balance + delta(p, k)
    BY <2>31, <2>32, <1>3 DEF RoundRecord
  <2>5. /\ r.status = p.status /\ r.opened = p.opened /\ r.level = p.level
        /\ r.shares = p.shares - 1 /\ r.cost = p.cost - p.cost \div p.shares
        /\ r.live = p.live /\ r.bought = p.bought /\ r.pays = p.pays
        /\ r.deposit = p.deposit /\ r.closed = p.closed /\ r.fees = p.fees
        /\ r.bundled = p.bundled
    BY <2>1, <1>3, <1>4 DEF RoundRecord
  <2> HIDE DEF RoundRecord
  <2>6. CallSound(r)
    BY <2>2, <2>3, <2>4, <2>5, <1>2, Coins DEF RoundSound, CallSound, StageSound, Over, RoundRecord
  <2>7. StageSound(r)
    BY <2>2, <2>5, Coins DEF RoundSound, CallSound, StageSound, Over
  <2>8. Becomes(p, k, r)
    BY <1>10, <2>4, <2>5 DEF Becomes, Pays_out
  <2> QED BY <2>4, <2>6, <2>7, <2>8 DEF RoundSound, r
<1>11. CASE k = "win"
  <2>1. r = [q EXCEPT !.status = "Settled", !.level = LEVEL, !.pays = p.shares > 0]
    BY <1>11 DEF after, q
  <2>2. p.status = "Open"
    BY <1>11 DEF allowed, Final, Running, Over
  <2> HIDE DEF r
  <2> DEFINE some == p.shares > 0
  <2>31. some \in BOOLEAN /\ r = [q EXCEPT !.status = "Settled", !.level = LEVEL, !.pays = some]
    BY <2>1
  <2> HIDE DEF some
  <2>4. r \in RoundRecord /\ r.balance = p.balance + delta(p, k)
    BY <2>31, <1>3, Coins DEF RoundRecord, Statuses
  <2>5. /\ r.status = "Settled" /\ r.opened = p.opened /\ r.level = LEVEL
        /\ r.shares = p.shares /\ r.cost = p.cost /\ r.live = p.live /\ r.bought = p.bought
        /\ r.pays = (p.shares > 0) /\ r.deposit = p.deposit /\ r.closed = p.closed
        /\ r.fees = p.fees /\ r.bundled = p.bundled
    BY <2>1, <1>3, <1>4 DEF RoundRecord
  <2> HIDE DEF RoundRecord
  <2>6. CallSound(r)
    BY <2>2, <2>4, <2>5, <1>2, Coins DEF RoundSound, CallSound, StageSound, Over, RoundRecord
  <2>7. StageSound(r)
    BY <2>2, <2>5, Coins DEF RoundSound, CallSound, StageSound, Over
  <2>8. Becomes(p, k, r)
    BY <1>11, <2>4, <2>5 DEF Becomes, Pays_out
  <2> QED BY <2>4, <2>6, <2>7, <2>8 DEF RoundSound, r
<1>12. CASE k = "miss"
  <2>1. r = [q EXCEPT !.status = "Settled"]
    BY <1>12 DEF after, q
  <2>2. p.status = "Open"
    BY <1>12 DEF allowed, Final, Running, Over
  <2> HIDE DEF r
  <2>4. r \in RoundRecord /\ r.balance = p.balance + delta(p, k)
    BY <2>1, <1>1, <1>2, <1>3, Coins DEF RoundRecord, Statuses
  <2>5. /\ r.status = "Settled" /\ r.opened = p.opened /\ r.level = p.level
        /\ r.shares = p.shares /\ r.cost = p.cost /\ r.live = p.live /\ r.bought = p.bought
        /\ r.pays = p.pays /\ r.deposit = p.deposit /\ r.closed = p.closed
        /\ r.fees = p.fees /\ r.bundled = p.bundled
    BY <2>1, <1>3, <1>4 DEF RoundRecord
  <2> HIDE DEF RoundRecord
  <2>6. CallSound(r)
    BY <2>2, <2>4, <2>5, <1>2, Coins DEF RoundSound, CallSound, StageSound, Over, RoundRecord
  <2>7. StageSound(r)
    BY <2>2, <2>5, Coins DEF RoundSound, CallSound, StageSound, Over
  <2>8. Becomes(p, k, r)
    BY <1>12, <2>4, <2>5 DEF Becomes, Pays_out
  <2> QED BY <2>4, <2>6, <2>7, <2>8 DEF RoundSound, r
<1>13. CASE k = "void"
  <2>1. r = [q EXCEPT !.status = "Void", !.fees = 0]
    BY <1>13 DEF after, q
  <2>2. p.status \in {"Seeding", "Open"}
    BY <1>13 DEF allowed, Final, Running, Over
  <2> HIDE DEF r
  <2>4. r \in RoundRecord /\ r.balance = p.balance + delta(p, k)
    BY <2>1, <1>1, <1>2, <1>3, Coins DEF RoundRecord, Statuses
  <2>5. /\ r.status = "Void" /\ r.opened = p.opened /\ r.level = p.level
        /\ r.shares = p.shares /\ r.cost = p.cost /\ r.live = p.live /\ r.bought = p.bought
        /\ r.pays = p.pays /\ r.deposit = p.deposit /\ r.closed = p.closed /\ r.fees = 0
        /\ r.bundled = p.bundled
    BY <2>1, <1>3, <1>4 DEF RoundRecord
  <2> HIDE DEF RoundRecord
  <2>6. CallSound(r)
    BY <2>2, <2>4, <2>5, <1>2, Coins DEF RoundSound, CallSound, StageSound, Over, RoundRecord
  <2>7. StageSound(r)
    BY <2>2, <2>5, Coins DEF RoundSound, CallSound, StageSound, Over
  <2>8. Becomes(p, k, r)
    BY <1>13, <2>4, <2>5 DEF Becomes, Pays_out
  <2> QED BY <2>4, <2>6, <2>7, <2>8 DEF RoundSound, r
<1>14. CASE k = "redeem"
  <2>1. r = gone
    BY <1>14 DEF after, q
  <2>2. Over(p) /\ p.live = TRUE
    BY <1>14 DEF allowed, Final, Running, Over
  <2> HIDE DEF r, gone
  <2>4. r \in RoundRecord /\ r.balance = p.balance + delta(p, k)
    BY <2>1, <1>1, <1>2, <1>5, Coins DEF RoundRecord, Statuses
  <2>5. /\ r.status = p.status /\ r.opened = p.opened /\ r.level = p.level /\ r.shares = 0
        /\ r.cost = 0 /\ r.live = FALSE /\ r.bought = p.bought /\ r.pays = p.pays
        /\ r.deposit = p.deposit /\ r.closed = p.closed /\ r.fees = p.fees
        /\ r.bundled = p.bundled
    BY <2>1, <1>5, <1>6 DEF RoundRecord
  <2> HIDE DEF RoundRecord
  <2>6. CallSound(r)
    BY <2>2, <2>4, <2>5, <1>2, Coins DEF RoundSound, CallSound, StageSound, Over, RoundRecord
  <2>7. StageSound(r)
    BY <2>2, <2>5, Coins DEF RoundSound, CallSound, StageSound, Over
  <2>8. Becomes(p, k, r)
    BY <1>14, <2>4, <2>5 DEF Becomes, Pays_out
  <2> QED BY <2>4, <2>6, <2>7, <2>8 DEF RoundSound, r
<1>15. CASE k = "sweep"
  <2>1. r = gone
    BY <1>15 DEF after, q
  <2>2. Over(p) /\ p.live = TRUE
    BY <1>15 DEF allowed, Final, Running, Over
  <2> HIDE DEF r, gone
  <2>4. r \in RoundRecord /\ r.balance = p.balance + delta(p, k)
    BY <2>1, <1>1, <1>2, <1>5, Coins DEF RoundRecord, Statuses
  <2>5. /\ r.status = p.status /\ r.opened = p.opened /\ r.level = p.level /\ r.shares = 0
        /\ r.cost = 0 /\ r.live = FALSE /\ r.bought = p.bought /\ r.pays = p.pays
        /\ r.deposit = p.deposit /\ r.closed = p.closed /\ r.fees = p.fees
        /\ r.bundled = p.bundled
    BY <2>1, <1>5, <1>6 DEF RoundRecord
  <2> HIDE DEF RoundRecord
  <2>6. CallSound(r)
    BY <2>2, <2>4, <2>5, <1>2, Coins DEF RoundSound, CallSound, StageSound, Over, RoundRecord
  <2>7. StageSound(r)
    BY <2>2, <2>5, Coins DEF RoundSound, CallSound, StageSound, Over
  <2>8. Becomes(p, k, r)
    BY <1>15, <2>4, <2>5 DEF Becomes, Pays_out
  <2> QED BY <2>4, <2>6, <2>7, <2>8 DEF RoundSound, r
<1>16. CASE k = "claim"
  <2>1. r = [q EXCEPT !.deposit = FALSE]
    BY <1>16 DEF after, q
  <2>2. Over(p) /\ p.deposit = TRUE
    BY <1>16 DEF allowed, Final, Running, Over
  <2> HIDE DEF r
  <2>4. r \in RoundRecord /\ r.balance = p.balance + delta(p, k)
    BY <2>1, <1>1, <1>2, <1>3, Coins DEF RoundRecord, Statuses
  <2>5. /\ r.status = p.status /\ r.opened = p.opened /\ r.level = p.level
        /\ r.shares = p.shares /\ r.cost = p.cost /\ r.live = p.live /\ r.bought = p.bought
        /\ r.pays = p.pays /\ r.deposit = FALSE /\ r.closed = p.closed /\ r.fees = p.fees
        /\ r.bundled = p.bundled
    BY <2>1, <1>3, <1>4 DEF RoundRecord
  <2> HIDE DEF RoundRecord
  <2>6. CallSound(r)
    BY <2>2, <2>4, <2>5, <1>2, Coins DEF RoundSound, CallSound, StageSound, Over, RoundRecord
  <2>7. StageSound(r)
    BY <2>2, <2>5, Coins DEF RoundSound, CallSound, StageSound, Over
  <2>8. Becomes(p, k, r)
    BY <1>16, <2>4, <2>5 DEF Becomes, Pays_out
  <2> QED BY <2>4, <2>6, <2>7, <2>8 DEF RoundSound, r
<1>17. CASE k = "collect"
  <2>1. r = [gone EXCEPT !.deposit = FALSE, !.bundled = @ + bundled(p)]
    BY <1>17 DEF after, q
  <2>2. Over(p) /\ p.live = TRUE /\ p.deposit = TRUE
    BY <1>17 DEF allowed, Final, Running, Over
  <2> HIDE DEF r, gone
  <2> DEFINE more == gone.bundled + bundled(p)
  <2>31. more \in Nat /\ r = [gone EXCEPT !.deposit = FALSE, !.bundled = more]
    BY <2>1, <1>1, <1>5 DEF RoundRecord
  <2> HIDE DEF more
  <2>4. r \in RoundRecord /\ r.balance = p.balance + delta(p, k)
    BY <2>31, <1>5 DEF RoundRecord
  <2>5. /\ r.status = p.status /\ r.opened = p.opened /\ r.level = p.level /\ r.shares = 0
        /\ r.cost = 0 /\ r.live = FALSE /\ r.bought = p.bought /\ r.pays = p.pays
        /\ r.deposit = FALSE /\ r.closed = p.closed /\ r.fees = p.fees
        /\ r.bundled = p.bundled + bundled(p)
    BY <2>1, <1>5, <1>6 DEF RoundRecord
  <2> HIDE DEF RoundRecord
  <2>6. CallSound(r)
    BY <2>2, <2>4, <2>5, <1>2, Coins DEF RoundSound, CallSound, StageSound, Over, RoundRecord
  <2>7. StageSound(r)
    BY <2>2, <2>5, Coins DEF RoundSound, CallSound, StageSound, Over
  <2>8. Becomes(p, k, r)
    BY <1>17, <2>4, <2>5 DEF Becomes, Pays_out
  <2> QED BY <2>4, <2>6, <2>7, <2>8 DEF RoundSound, r
<1>18. CASE k = "fees"
  <2>1. r = [q EXCEPT !.fees = 0]
    BY <1>18 DEF after, q
  <2>2. p.status = "Settled"
    BY <1>18 DEF allowed, Final, Running, Over
  <2> HIDE DEF r
  <2>4. r \in RoundRecord /\ r.balance = p.balance + delta(p, k)
    BY <2>1, <1>1, <1>2, <1>3, Coins DEF RoundRecord, Statuses
  <2>5. /\ r.status = p.status /\ r.opened = p.opened /\ r.level = p.level
        /\ r.shares = p.shares /\ r.cost = p.cost /\ r.live = p.live /\ r.bought = p.bought
        /\ r.pays = p.pays /\ r.deposit = p.deposit /\ r.closed = p.closed /\ r.fees = 0
        /\ r.bundled = p.bundled
    BY <2>1, <1>3, <1>4 DEF RoundRecord
  <2> HIDE DEF RoundRecord
  <2>6. CallSound(r)
    BY <2>2, <2>4, <2>5, <1>2, Coins DEF RoundSound, CallSound, StageSound, Over, RoundRecord
  <2>7. StageSound(r)
    BY <2>2, <2>5, Coins DEF RoundSound, CallSound, StageSound, Over
  <2>8. Becomes(p, k, r)
    BY <1>18, <2>4, <2>5 DEF Becomes, Pays_out
  <2> QED BY <2>4, <2>6, <2>7, <2>8 DEF RoundSound, r
<1>19. CASE k = "close"
  <2>1. r = [q EXCEPT !.closed = TRUE]
    BY <1>19 DEF after, q
  <2>2. Over(p) /\ p.live = FALSE /\ p.deposit = FALSE
    BY <1>19 DEF allowed, Final, Running, Over
  <2> HIDE DEF r
  <2>4. r \in RoundRecord /\ r.balance = p.balance + delta(p, k)
    BY <2>1, <1>1, <1>2, <1>3, Coins DEF RoundRecord, Statuses
  <2>5. /\ r.status = p.status /\ r.opened = p.opened /\ r.level = p.level
        /\ r.shares = p.shares /\ r.cost = p.cost /\ r.live = p.live /\ r.bought = p.bought
        /\ r.pays = p.pays /\ r.deposit = p.deposit /\ r.closed = TRUE /\ r.fees = p.fees
        /\ r.bundled = p.bundled
    BY <2>1, <1>3, <1>4 DEF RoundRecord
  <2> HIDE DEF RoundRecord
  <2>6. CallSound(r)
    BY <2>2, <2>4, <2>5, <1>2, Coins DEF RoundSound, CallSound, StageSound, Over, RoundRecord
  <2>7. StageSound(r)
    BY <2>2, <2>5, Coins DEF RoundSound, CallSound, StageSound, Over
  <2>8. Becomes(p, k, r)
    BY <1>19, <2>4, <2>5 DEF Becomes, Pays_out
  <2> QED BY <2>4, <2>6, <2>7, <2>8 DEF RoundSound, r
<1> QED
  BY <1>7, <1>8, <1>9, <1>10, <1>11, <1>12, <1>13, <1>14, <1>15, <1>16, <1>17, <1>18, <1>19
     DEF allowed, Kinds

-----------------------------------------------------------------------------
(* Reading a transaction: its rows, and what they come to.                 *)

\* A row of one movement.
Row(kind, d) == [kind |-> kind, amountIn |-> IF d < 0 THEN -d ELSE 0,
                 amountOut |-> IF d > 0 THEN d ELSE 0]
Named == {"ladder_create", "ladder_buy", "ladder_sell", "ladder_redeem", "ladder_sweep",
          "ladder_claim_lp", "ladder_collect_fees"}

\* One instruction makes one row, of what the account gained; fees of nothing none.
LEMMA OneRow ==
  ASSUME NEW p, NEW k, NEW name \in Named, NEW m \in Int,
         instructions(p, k) = <<[name |-> name, moves |-> m]>>,
         name = "ladder_sweep" => m = 0, name = "ladder_collect_fees" => gains(m) > 0
  PROVE  parseTransaction(p, k) = <<Row(kindOf(name), gains(m))>>
<1> DEFINE ixs == instructions(p, k)
           x == [name |-> name, moves |-> m]
           touches == {i \in DOMAIN ixs : ixs[i].name # "ladder_sweep"}
           a == IF x.moves = 0 THEN 0 ELSE amount(p, k, x)
           row(y) == LET b == IF y.moves = 0 THEN 0 ELSE amount(p, k, y)
                     IN  [kind |-> kindOf(y.name), amountIn |-> IF b < 0 THEN -b ELSE 0,
                          amountOut |-> IF b > 0 THEN b ELSE 0]
           rows == [i \in DOMAIN ixs |-> row(ixs[i])]
<1>1. ixs = <<x>> /\ DOMAIN ixs = {1} /\ ixs[1] = x
  OBVIOUS
<1>2. gains(m) \in Int /\ gains(0) = 0 /\ delta(p, k) = gains(m)
  BY GainsAre, DeltaOf
<1>3. m # 0 => amount(p, k, x) = delta(p, k)
  <2> SUFFICES ASSUME m # 0 PROVE amount(p, k, x) = delta(p, k)
    OBVIOUS
  <2>1. touches = {1}
    BY <1>1
  <2> QED BY <2>1 DEF amount
<1>4. a = gains(m)
  BY <1>2, <1>3
<1>5. row(x) = Row(kindOf(name), gains(m))
  BY <1>4 DEF Row
<1> HIDE DEF ixs, row
<1>6. rows = <<row(x)>> /\ DOMAIN rows = {1} /\ rows[1] = row(x)
  BY <1>1
<1>7. row(x).kind = "fees" => row(x).amountOut > 0
  <2>1. kindOf(name) = "fees" => name = "ladder_collect_fees"
    BY DEF kindOf, Named
  <2> QED BY <1>2, <1>5, <2>1 DEF Row
<1>8. parseTransaction(p, k) =
        IF \A i \in DOMAIN rows : rows[i].kind = "fees" => rows[i].amountOut > 0 THEN rows ELSE <<>>
  BY DEF parseTransaction, ixs, row
<1> HIDE DEF rows
<1> QED BY <1>5, <1>6, <1>7, <1>8

\* What both instructions of one transaction moved is what the program moved.
LEMMA TwoRows ==
  ASSUME NEW p, NEW m \in Nat, NEW n \in Nat,
         instructions(p, "collect") = <<[name |-> "ladder_redeem", moves |-> -m],
                                        [name |-> "ladder_claim_lp", moves |-> -n]>>
  PROVE  parseTransaction(p, "collect") = <<Row("redeem", m), Row("claim", n)>>
<1> DEFINE k == "collect"
           ixs == instructions(p, k)
           x == [name |-> "ladder_redeem", moves |-> -m]
           z == [name |-> "ladder_claim_lp", moves |-> -n]
           touches == {i \in DOMAIN ixs : ixs[i].name # "ladder_sweep"}
           row(y) == LET b == IF y.moves = 0 THEN 0 ELSE amount(p, k, y)
                     IN  [kind |-> kindOf(y.name), amountIn |-> IF b < 0 THEN -b ELSE 0,
                          amountOut |-> IF b > 0 THEN b ELSE 0]
           rows == [i \in DOMAIN ixs |-> row(ixs[i])]
<1>1. ixs = <<x, z>> /\ DOMAIN ixs = {1, 2} /\ ixs[1] = x /\ ixs[2] = z
  OBVIOUS
<1>2. amount(p, k, x) = m /\ amount(p, k, z) = n
  <2>1. touches = {1, 2}
    BY <1>1
  <2>2. ~\E i \in touches : touches = {i}
    BY <2>1
  <2> HIDE DEF touches
  <2>3. amount(p, k, x) = -x.moves /\ amount(p, k, z) = -z.moves
    BY <2>2 DEF amount, touches
  <2> QED BY <2>3
<1>3. row(x) = Row("redeem", m) /\ row(z) = Row("claim", n)
  BY <1>2 DEF Row, kindOf
<1> HIDE DEF ixs, row
<1>4. rows = <<row(x), row(z)>> /\ DOMAIN rows = {1, 2} /\ rows[1] = row(x) /\ rows[2] = row(z)
  BY <1>1
<1>5. row(x).kind # "fees" /\ row(z).kind # "fees"
  BY <1>3 DEF Row
<1>6. parseTransaction(p, k) =
        IF \A i \in DOMAIN rows : rows[i].kind = "fees" => rows[i].amountOut > 0 THEN rows ELSE <<>>
  BY DEF parseTransaction, ixs, row
<1> HIDE DEF rows
<1> QED BY <1>3, <1>4, <1>5, <1>6

\* One more row, field by field.
Shown == {"buy", "sell", "redeem", "sweep"}
Counts(kind, d, h, g) ==
  /\ g \in TallyRecord /\ g.got - g.paid = h.got - h.paid + d
  /\ g.held = IF kind \in Shown THEN TRUE ELSE h.held
  /\ g.bought = IF kind = "buy" THEN TRUE ELSE h.bought
  /\ g.shares = IF kind = "buy" THEN h.shares + SHARES
                ELSE IF kind = "sell" THEN h.shares - 1 ELSE h.shares
  /\ kind # "buy" => g.cost = IF kind = "sell" /\ h.shares > 0 THEN h.cost - h.cost \div h.shares ELSE h.cost
  /\ g.closed = IF kind \in {"redeem", "sweep"} THEN TRUE ELSE h.closed
  /\ g.back = IF kind \in {"redeem", "sweep"} /\ d > 0 THEN h.back + d ELSE h.back
  /\ g.deposit = IF kind = "start" THEN TRUE ELSE h.deposit
  /\ g.claimed = IF kind = "claim" THEN TRUE ELSE h.claimed
  /\ g.out = IF kind \in {"redeem", "sweep", "claim"} THEN TRUE ELSE h.out

\* Counting a row does to the tally what its kind says.
LEMMA CountIs ==
  ASSUME NEW h \in TallyRecord, NEW d \in Int,
         NEW kind \in {"start", "buy", "sell", "redeem", "sweep", "claim", "fees"}
  PROVE  Counts(kind, d, h, count(Row(kind, d), h))
<1> DEFINE r == Row(kind, d)
           i == IF d < 0 THEN -d ELSE 0
           o == IF d > 0 THEN d ELSE 0
           e == [h EXCEPT !.paid = @ + r.amountIn, !.got = @ + r.amountOut]
           g == count(r, h)
<1>1. r.kind = kind /\ r.amountIn = i /\ r.amountOut = o /\ i \in Nat /\ o \in Nat /\ o - i = d
      /\ (d > 0 => o = d) /\ (~(d > 0) => o = 0)
  BY DEF Row
<1> HIDE DEF r, i, o
<1>2. e = [h EXCEPT !.paid = h.paid + i, !.got = h.got + o] /\ h.paid + i \in Nat /\ h.got + o \in Nat
  BY <1>1 DEF TallyRecord
<1>3. e \in TallyRecord /\ e.paid = h.paid + i /\ e.got = h.got + o
  BY <1>2 DEF TallyRecord
<1>4. /\ e.held = h.held
      /\ e.bought = h.bought
      /\ e.shares = h.shares
      /\ e.cost = h.cost
      /\ e.closed = h.closed
      /\ e.back = h.back
      /\ e.deposit = h.deposit
      /\ e.claimed = h.claimed
      /\ e.out = h.out
  BY <1>2 DEF TallyRecord
<1>5. /\ h.paid \in Nat /\ h.got \in Nat /\ h.back \in Nat /\ h.shares \in Int /\ h.cost \in Int
  BY DEF TallyRecord
<1>6. g = (CASE kind = "buy" -> [e EXCEPT !.held = TRUE, !.bought = TRUE, !.shares = @ + SHARES,
                                   !.cost = @ + r.amountIn]
    [] kind = "sell" -> [e EXCEPT !.held = TRUE, !.shares = @ - 1, !.cost =
                             IF h.shares > 0 THEN @ - @ \div h.shares ELSE @]
    [] kind \in {"redeem", "sweep"} ->
         [e EXCEPT !.held = TRUE, !.closed = TRUE, !.back = @ + r.amountOut, !.out = TRUE]
    [] kind = "start" -> [e EXCEPT !.deposit = TRUE]
    [] kind = "claim" -> [e EXCEPT !.claimed = TRUE, !.out = TRUE]
    [] OTHER -> e)
  BY <1>1 DEF count
<1> HIDE DEF e, g
<1>7. CASE kind = "start"
  <2>2. g = [e EXCEPT !.deposit = TRUE]
    BY <1>1, <1>3, <1>4, <1>5, <1>6, <1>7, Coins DEF TallyRecord
  <2>3. g \in TallyRecord
    BY <2>2, <1>3 DEF TallyRecord
  <2>4. /\ g.got = h.got + o /\ g.paid = h.paid + i
        /\ g.held = h.held /\ g.bought = h.bought /\ g.shares = h.shares /\ g.cost = h.cost
        /\ g.closed = h.closed /\ g.back = h.back /\ g.deposit = TRUE /\ g.claimed = h.claimed
        /\ g.out = h.out
    BY <2>2, <1>3, <1>4 DEF TallyRecord
  <2> HIDE DEF TallyRecord
  <2>5. g.got - g.paid = h.got - h.paid + d
    BY <2>4, <1>1, <1>5
  <2>7. Counts(kind, d, h, g)
    BY <2>3, <2>4, <2>5, <1>7 DEF Counts, Shown
  <2> QED BY <2>7 DEF r, g
<1>8. CASE kind = "buy"
  <2>2. g = [e EXCEPT !.held = TRUE, !.bought = TRUE, !.shares = h.shares + SHARES, !.cost = h.cost + i] /\ h.shares + SHARES \in Int /\ h.cost + i \in Int
    BY <1>1, <1>3, <1>4, <1>5, <1>6, <1>8, Coins DEF TallyRecord
  <2>3. g \in TallyRecord
    BY <2>2, <1>3 DEF TallyRecord
  <2>4. /\ g.got = h.got + o /\ g.paid = h.paid + i
        /\ g.held = TRUE /\ g.bought = TRUE /\ g.shares = h.shares + SHARES /\ g.cost = h.cost + i
        /\ g.closed = h.closed /\ g.back = h.back /\ g.deposit = h.deposit
        /\ g.claimed = h.claimed /\ g.out = h.out
    BY <2>2, <1>3, <1>4 DEF TallyRecord
  <2> HIDE DEF TallyRecord
  <2>5. g.got - g.paid = h.got - h.paid + d
    BY <2>4, <1>1, <1>5
  <2>7. Counts(kind, d, h, g)
    BY <2>3, <2>4, <2>5, <1>8 DEF Counts, Shown
  <2> QED BY <2>7 DEF r, g
<1>9. CASE kind = "sell"
  <2> DEFINE c == IF h.shares > 0 THEN h.cost - h.cost \div h.shares ELSE h.cost
  <2>1. c \in Int
    BY <1>5
  <2>2. g = [e EXCEPT !.held = TRUE, !.shares = h.shares - 1, !.cost = c] /\ h.shares - 1 \in Int
    BY <1>1, <1>3, <1>4, <1>5, <1>6, <1>9, Coins DEF TallyRecord
  <2> HIDE DEF c
  <2>3. g \in TallyRecord
    BY <2>2, <1>3, <2>1 DEF TallyRecord
  <2>4. /\ g.got = h.got + o /\ g.paid = h.paid + i
        /\ g.held = TRUE /\ g.bought = h.bought /\ g.shares = h.shares - 1 /\ g.cost = c
        /\ g.closed = h.closed /\ g.back = h.back /\ g.deposit = h.deposit
        /\ g.claimed = h.claimed /\ g.out = h.out
    BY <2>2, <1>3, <1>4 DEF TallyRecord
  <2> HIDE DEF TallyRecord
  <2>5. g.got - g.paid = h.got - h.paid + d
    BY <2>4, <1>1, <1>5
  <2>7. Counts(kind, d, h, g)
    BY <2>3, <2>4, <2>5, <1>9 DEF Counts, Shown, c
  <2> QED BY <2>7 DEF r, g
<1>10. CASE kind = "redeem"
  <2>2. g = [e EXCEPT !.held = TRUE, !.closed = TRUE, !.back = h.back + o, !.out = TRUE] /\ h.back + o \in Nat
    BY <1>1, <1>3, <1>4, <1>5, <1>6, <1>10, Coins DEF TallyRecord
  <2>3. g \in TallyRecord
    BY <2>2, <1>3 DEF TallyRecord
  <2>4. /\ g.got = h.got + o /\ g.paid = h.paid + i
        /\ g.held = TRUE /\ g.bought = h.bought /\ g.shares = h.shares /\ g.cost = h.cost
        /\ g.closed = TRUE /\ g.back = h.back + o /\ g.deposit = h.deposit
        /\ g.claimed = h.claimed /\ g.out = TRUE
    BY <2>2, <1>3, <1>4 DEF TallyRecord
  <2> HIDE DEF TallyRecord
  <2>5. g.got - g.paid = h.got - h.paid + d
    BY <2>4, <1>1, <1>5
  <2>6. g.back = IF d > 0 THEN h.back + d ELSE h.back
    BY <2>4, <1>1, <1>5
  <2>7. Counts(kind, d, h, g)
    BY <2>3, <2>4, <2>5, <2>6, <1>10 DEF Counts, Shown
  <2> QED BY <2>7 DEF r, g
<1>11. CASE kind = "sweep"
  <2>2. g = [e EXCEPT !.held = TRUE, !.closed = TRUE, !.back = h.back + o, !.out = TRUE] /\ h.back + o \in Nat
    BY <1>1, <1>3, <1>4, <1>5, <1>6, <1>11, Coins DEF TallyRecord
  <2>3. g \in TallyRecord
    BY <2>2, <1>3 DEF TallyRecord
  <2>4. /\ g.got = h.got + o /\ g.paid = h.paid + i
        /\ g.held = TRUE /\ g.bought = h.bought /\ g.shares = h.shares /\ g.cost = h.cost
        /\ g.closed = TRUE /\ g.back = h.back + o /\ g.deposit = h.deposit
        /\ g.claimed = h.claimed /\ g.out = TRUE
    BY <2>2, <1>3, <1>4 DEF TallyRecord
  <2> HIDE DEF TallyRecord
  <2>5. g.got - g.paid = h.got - h.paid + d
    BY <2>4, <1>1, <1>5
  <2>6. g.back = IF d > 0 THEN h.back + d ELSE h.back
    BY <2>4, <1>1, <1>5
  <2>7. Counts(kind, d, h, g)
    BY <2>3, <2>4, <2>5, <2>6, <1>11 DEF Counts, Shown
  <2> QED BY <2>7 DEF r, g
<1>12. CASE kind = "claim"
  <2>2. g = [e EXCEPT !.claimed = TRUE, !.out = TRUE]
    BY <1>1, <1>3, <1>4, <1>5, <1>6, <1>12, Coins DEF TallyRecord
  <2>3. g \in TallyRecord
    BY <2>2, <1>3 DEF TallyRecord
  <2>4. /\ g.got = h.got + o /\ g.paid = h.paid + i
        /\ g.held = h.held /\ g.bought = h.bought /\ g.shares = h.shares /\ g.cost = h.cost
        /\ g.closed = h.closed /\ g.back = h.back /\ g.deposit = h.deposit /\ g.claimed = TRUE
        /\ g.out = TRUE
    BY <2>2, <1>3, <1>4 DEF TallyRecord
  <2> HIDE DEF TallyRecord
  <2>5. g.got - g.paid = h.got - h.paid + d
    BY <2>4, <1>1, <1>5
  <2>7. Counts(kind, d, h, g)
    BY <2>3, <2>4, <2>5, <1>12 DEF Counts, Shown
  <2> QED BY <2>7 DEF r, g
<1>13. CASE kind = "fees"
  <2>2. g = e
    BY <1>1, <1>3, <1>4, <1>5, <1>6, <1>13, Coins DEF TallyRecord
  <2>3. g \in TallyRecord
    BY <2>2, <1>3 DEF TallyRecord
  <2>4. /\ g.got = h.got + o /\ g.paid = h.paid + i
        /\ g.held = h.held /\ g.bought = h.bought /\ g.shares = h.shares /\ g.cost = h.cost
        /\ g.closed = h.closed /\ g.back = h.back /\ g.deposit = h.deposit
        /\ g.claimed = h.claimed /\ g.out = h.out
    BY <2>2, <1>3, <1>4 DEF TallyRecord
  <2> HIDE DEF TallyRecord
  <2>5. g.got - g.paid = h.got - h.paid + d
    BY <2>4, <1>1, <1>5
  <2>7. Counts(kind, d, h, g)
    BY <2>3, <2>4, <2>5, <1>13 DEF Counts, Shown
  <2> QED BY <2>7 DEF r, g
<1> QED BY <1>7, <1>8, <1>9, <1>10, <1>11, <1>12, <1>13

\* A transaction has no row, one, or two.
LEMMA CountedAre ==
  ASSUME NEW h, NEW x, NEW y
  PROVE  counted(<<>>, h) = h /\ counted(<<x>>, h) = count(x, h)
         /\ counted(<<x, y>>, h) = count(y, count(x, h))
BY DEF counted

\* Reading the next transaction, the rows say of the wallet what its accounts do.
LEMMA TallyStep ==
  ASSUME NEW p, RoundSound(p), NEW k \in allowed(p), NEW h, Told(p, h)
  PROVE  Told(after(p, k), counted(parseTransaction(p, k), h))
<1> DEFINE r == after(p, k)
           g == counted(parseTransaction(p, k), h)
<1>1. RoundSound(r) /\ Becomes(p, k, r)
  BY AfterSound
<1>2. h \in TallyRecord
  BY DEF Told
<1>3. r.balance = p.balance + delta(p, k)
  BY <1>1, Zenon DEF Becomes
<1>4. p \in RoundRecord
  BY DEF RoundSound
<1>5. redemption(p) \in Nat /\ claimable(p) \in Nat /\ p.fees \in Nat /\ p.balance \in Int
      /\ p.bundled \in Nat /\ p.shares \in Nat
  BY <1>4, Owes DEF RoundRecord
<1>6. h.got \in Nat /\ h.paid \in Nat /\ h.back \in Nat /\ h.shares \in Int /\ h.cost \in Int
  BY <1>2 DEF TallyRecord
<1>7. h.got - h.paid = p.balance + p.bundled
  BY DEF Told
<1> HIDE DEF r, g
<1>8. CASE k = "create"
  <2>1. p.status = "None"
    BY <1>8 DEF allowed, Final, Running, Over
  <2>2. /\ r.status = "Seeding" /\ r.level = p.level /\ r.shares = p.shares /\ r.live = p.live
        /\ r.bought = p.bought
        /\ r.pays = p.pays /\ r.deposit = TRUE /\ r.closed = p.closed /\ r.bundled = p.bundled
    BY <1>1, <1>8 DEF Becomes, Pays_out
  <2>3. instructions(p, k) = <<[name |-> "ladder_create", moves |-> DEPOSIT]>>
    BY <1>8 DEF instructions
  <2>4. DEPOSIT \in Int /\ delta(p, k) = gains(DEPOSIT) /\ gains(DEPOSIT) \in Int
    BY <1>5, <1>8, Coins, DeltaIs, GainsAre
  <2>5. parseTransaction(p, k) = <<Row("start", gains(DEPOSIT))>>
    <3>1. "ladder_create" \in Named /\ kindOf("ladder_create") = "start"
      BY DEF Named, kindOf
    <3>2. parseTransaction(p, k) = <<Row(kindOf("ladder_create"), gains(DEPOSIT))>>
      BY <2>3, <2>4, <3>1, OneRow
    <3> QED BY <3>1, <3>2
  <2>6. Counts("start", gains(DEPOSIT), h, g)
    <3>1. g = count(Row("start", gains(DEPOSIT)), h)
      BY <2>5, CountedAre, Zenon DEF g
    <3>2. Counts("start", gains(DEPOSIT), h, count(Row("start", gains(DEPOSIT)), h))
      BY <2>4, <1>2, CountIs
    <3> QED BY <3>1, <3>2, Zenon
  <2>7. r.balance + r.bundled = g.got - g.paid
    BY <2>2, <2>4, <2>6, <1>3, <1>5, <1>7 DEF Counts
  <2>10. /\ g \in TallyRecord /\ g.held = h.held /\ g.bought = h.bought /\ g.shares = h.shares
         /\ g.closed = h.closed
         /\ g.deposit = TRUE /\ g.claimed = h.claimed /\ g.out = h.out /\ g.cost = h.cost
         /\ g.back = h.back
    BY <2>6 DEF Counts, Shown
  <2> HIDE DEF RoundRecord, TallyRecord
  <2> QED BY <1>4, <1>5, <1>6, <2>1, <2>2, <2>7, <2>10, Coins
             DEF Told, Over, RoundSound, CallSound, StageSound, r, g
<1>9. CASE k = "buy"
  <2>1. p.status = "Open" /\ p.live = FALSE
    BY <1>9 DEF allowed, Final, Running, Over
  <2>2. /\ r.status = p.status /\ r.level = p.level /\ r.shares = SHARES /\ r.live = TRUE
        /\ r.bought = TRUE
        /\ r.pays = p.pays /\ r.deposit = p.deposit /\ r.closed = p.closed /\ r.bundled = p.bundled
    BY <1>1, <1>9 DEF Becomes, Pays_out
  <2>3. instructions(p, k) = <<[name |-> "ladder_buy", moves |-> COST]>>
    BY <1>9 DEF instructions
  <2>4. COST \in Int /\ delta(p, k) = gains(COST) /\ gains(COST) \in Int
    BY <1>5, <1>9, Coins, DeltaIs, GainsAre
  <2>5. parseTransaction(p, k) = <<Row("buy", gains(COST))>>
    <3>1. "ladder_buy" \in Named /\ kindOf("ladder_buy") = "buy"
      BY DEF Named, kindOf
    <3>2. parseTransaction(p, k) = <<Row(kindOf("ladder_buy"), gains(COST))>>
      BY <2>3, <2>4, <3>1, OneRow
    <3> QED BY <3>1, <3>2
  <2>6. Counts("buy", gains(COST), h, g)
    <3>1. g = count(Row("buy", gains(COST)), h)
      BY <2>5, CountedAre, Zenon DEF g
    <3>2. Counts("buy", gains(COST), h, count(Row("buy", gains(COST)), h))
      BY <2>4, <1>2, CountIs
    <3> QED BY <3>1, <3>2, Zenon
  <2>7. r.balance + r.bundled = g.got - g.paid
    BY <2>2, <2>4, <2>6, <1>3, <1>5, <1>7 DEF Counts
  <2>10. /\ g \in TallyRecord /\ g.held = TRUE /\ g.bought = TRUE
         /\ g.shares = h.shares + SHARES /\ g.closed = h.closed
         /\ g.deposit = h.deposit /\ g.claimed = h.claimed /\ g.out = h.out /\ g.back = h.back
    BY <2>6 DEF Counts, Shown
  <2>8. p.bought = FALSE /\ h.shares = 0 /\ h.closed = FALSE /\ g.shares = SHARES /\ ~(h.back > 0)
    <3>1. p.bought = FALSE
      BY <1>4, <2>1 DEF RoundSound, StageSound, Over, RoundRecord
    <3>2. h.shares = 0 /\ h.closed = FALSE /\ ~(h.back > 0)
      BY <1>2, <3>1 DEF Told, TallyRecord
    <3> QED BY <3>1, <3>2, <2>10, Coins
  <2> HIDE DEF RoundRecord, TallyRecord
  <2>9. h.held = p.bought /\ h.bought = p.bought /\ (h.deposit <=> p.status # "None")
        /\ (h.claimed <=> p.status # "None" /\ ~p.deposit) /\ (h.out <=> h.closed \/ h.claimed)
    BY DEF Told
  <2>11. /\ r.live => g.shares = r.shares
         /\ g.held = r.bought /\ g.bought = r.bought /\ (g.closed <=> r.bought /\ ~r.live)
         /\ (g.deposit <=> r.status # "None") /\ (g.claimed <=> r.status # "None" /\ ~r.deposit)
         /\ (g.out <=> g.closed \/ g.claimed)
    BY <2>1, <2>2, <2>8, <2>9, <2>10
  <2> QED BY <2>2, <2>7, <2>8, <2>10, <2>11, Coins DEF Told, r, g
<1>10. CASE k = "sell"
  <2>1. p.status = "Open" /\ p.shares > 0
    BY <1>10 DEF allowed, Final, Running, Over
  <2>2. /\ r.status = p.status /\ r.level = p.level /\ r.shares = p.shares - 1
        /\ r.live = p.live /\ r.bought = p.bought
        /\ r.pays = p.pays /\ r.deposit = p.deposit /\ r.closed = p.closed /\ r.bundled = p.bundled
    BY <1>1, <1>10 DEF Becomes, Pays_out
  <2>3. instructions(p, k) = <<[name |-> "ladder_sell", moves |-> -SALE]>>
    BY <1>10 DEF instructions
  <2>4. -SALE \in Int /\ delta(p, k) = gains(-SALE) /\ gains(-SALE) \in Int
    BY <1>5, <1>10, Coins, DeltaIs, GainsAre
  <2>5. parseTransaction(p, k) = <<Row("sell", gains(-SALE))>>
    <3>1. "ladder_sell" \in Named /\ kindOf("ladder_sell") = "sell"
      BY DEF Named, kindOf
    <3>2. parseTransaction(p, k) = <<Row(kindOf("ladder_sell"), gains(-SALE))>>
      BY <2>3, <2>4, <3>1, OneRow
    <3> QED BY <3>1, <3>2
  <2>6. Counts("sell", gains(-SALE), h, g)
    <3>1. g = count(Row("sell", gains(-SALE)), h)
      BY <2>5, CountedAre, Zenon DEF g
    <3>2. Counts("sell", gains(-SALE), h, count(Row("sell", gains(-SALE)), h))
      BY <2>4, <1>2, CountIs
    <3> QED BY <3>1, <3>2, Zenon
  <2>7. r.balance + r.bundled = g.got - g.paid
    BY <2>2, <2>4, <2>6, <1>3, <1>5, <1>7 DEF Counts
  <2>10. /\ g \in TallyRecord /\ g.held = TRUE /\ g.bought = h.bought /\ g.shares = h.shares - 1
         /\ g.closed = h.closed
         /\ g.deposit = h.deposit /\ g.claimed = h.claimed /\ g.out = h.out /\ g.back = h.back
    BY <2>6 DEF Counts, Shown
  <2>9. p.live = TRUE /\ p.bought = TRUE /\ h.shares = p.shares /\ h.closed = FALSE /\ ~Over(p)
    <3>1. p.live = TRUE /\ p.bought = TRUE
      BY <1>4, <2>1 DEF RoundSound, CallSound, RoundRecord
    <3>2. h.shares = p.shares /\ h.closed = FALSE
      BY <1>2, <3>1 DEF Told, TallyRecord
    <3> QED BY <3>1, <3>2, <2>1 DEF Over
  <2>8. g.shares = 0 => g.cost = 0
    <3>1. p.live /\ h.shares = p.shares
      BY <2>1 DEF Told, RoundSound, CallSound
    <3>2. g.shares = h.shares - 1 /\ g.cost = h.cost - h.cost \div h.shares
      BY <2>1, <2>6, <3>1 DEF Counts
    <3> QED BY <3>2, <1>6
  <2> HIDE DEF RoundRecord, TallyRecord
  <2> QED BY <1>4, <1>5, <1>6, <2>1, <2>2, <2>7, <2>8, <2>9, <2>10, Coins
             DEF Told, Over, RoundSound, CallSound, StageSound, r, g
<1>11. CASE k = "redeem"
  <2>1. Over(p) /\ p.live = TRUE
    BY <1>11 DEF allowed, Final, Running, Over
  <2>2. /\ r.status = p.status /\ r.level = p.level /\ r.shares = 0 /\ r.live = FALSE
        /\ r.bought = p.bought
        /\ r.pays = p.pays /\ r.deposit = p.deposit /\ r.closed = p.closed /\ r.bundled = p.bundled
    BY <1>1, <1>11 DEF Becomes, Pays_out
  <2>3. instructions(p, k) = <<[name |-> "ladder_redeem", moves |-> -redemption(p)]>>
    BY <1>11 DEF instructions
  <2>4. -redemption(p) \in Int /\ delta(p, k) = gains(-redemption(p)) /\ gains(-redemption(p)) \in Int
    BY <1>5, <1>11, Coins, DeltaIs, GainsAre
  <2>5. parseTransaction(p, k) = <<Row("redeem", gains(-redemption(p)))>>
    <3>1. "ladder_redeem" \in Named /\ kindOf("ladder_redeem") = "redeem"
      BY DEF Named, kindOf
    <3>2. parseTransaction(p, k) = <<Row(kindOf("ladder_redeem"), gains(-redemption(p)))>>
      BY <2>3, <2>4, <3>1, OneRow
    <3> QED BY <3>1, <3>2
  <2>6. Counts("redeem", gains(-redemption(p)), h, g)
    <3>1. g = count(Row("redeem", gains(-redemption(p))), h)
      BY <2>5, CountedAre, Zenon DEF g
    <3>2. Counts("redeem", gains(-redemption(p)), h, count(Row("redeem", gains(-redemption(p))), h))
      BY <2>4, <1>2, CountIs
    <3> QED BY <3>1, <3>2, Zenon
  <2>7. r.balance + r.bundled = g.got - g.paid
    BY <2>2, <2>4, <2>6, <1>3, <1>5, <1>7 DEF Counts
  <2>10. /\ g \in TallyRecord /\ g.held = TRUE /\ g.bought = h.bought /\ g.shares = h.shares
         /\ g.closed = TRUE
         /\ g.deposit = h.deposit /\ g.claimed = h.claimed /\ g.out = TRUE /\ g.cost = h.cost
    BY <2>6 DEF Counts, Shown
  <2>8. p.status = "Settled" => (gains(-redemption(p)) > 0 <=> p.pays)
    <3>1. p.status = "Settled" => (redemption(p) > 0 <=> p.pays)
      BY <2>1, Owes DEF RoundSound, CallSound
    <3>2. p.status = "Settled" => (gains(-redemption(p)) > 0 <=> redemption(p) > 0)
      <4>1. gains(0) = 0 /\ (redemption(p) # 0 => gains(-redemption(p)) = redemption(p) - FEE)
        BY <1>5, Coins, GainsAre
      <4>2. p.status = "Settled" /\ redemption(p) > 0 => redemption(p) > FEE
        BY Owes
      <4>3. CASE redemption(p) = 0
        BY <4>1, <4>3
      <4>4. CASE redemption(p) # 0
        BY <4>1, <4>2, <4>4, <1>5, Coins
      <4> QED BY <4>3, <4>4
    <3> QED BY <3>1, <3>2
  <2>9. p.bought = TRUE /\ h.back = 0
    BY <2>1, <1>6 DEF RoundSound, CallSound, Told
  <2>11. p.status = "Settled" => (g.back > 0 <=> p.pays)
    BY <2>4, <2>6, <2>8, <2>9 DEF Counts
  <2> HIDE DEF RoundRecord, TallyRecord
  <2> QED BY <1>4, <1>5, <1>6, <2>1, <2>2, <2>7, <2>9, <2>11, <2>10, Coins
             DEF Told, Over, RoundSound, CallSound, StageSound, r, g
<1>12. CASE k = "sweep"
  <2>1. Over(p) /\ p.live = TRUE /\ redemption(p) = 0
    BY <1>12 DEF allowed, Final, Running, Over
  <2>2. /\ r.status = p.status /\ r.level = p.level /\ r.shares = 0 /\ r.live = FALSE
        /\ r.bought = p.bought
        /\ r.pays = p.pays /\ r.deposit = p.deposit /\ r.closed = p.closed /\ r.bundled = p.bundled
    BY <1>1, <1>12 DEF Becomes, Pays_out
  <2>3. instructions(p, k) = <<[name |-> "ladder_sweep", moves |-> 0]>>
    BY <1>12 DEF instructions
  <2>4. 0 \in Int /\ delta(p, k) = gains(0) /\ gains(0) \in Int
    BY <1>5, <1>12, Coins, DeltaIs, GainsAre
  <2>5. parseTransaction(p, k) = <<Row("sweep", gains(0))>>
    <3>1. "ladder_sweep" \in Named /\ kindOf("ladder_sweep") = "sweep"
      BY DEF Named, kindOf
    <3>2. parseTransaction(p, k) = <<Row(kindOf("ladder_sweep"), gains(0))>>
      BY <2>3, <2>4, <3>1, OneRow
    <3> QED BY <3>1, <3>2
  <2>6. Counts("sweep", gains(0), h, g)
    <3>1. g = count(Row("sweep", gains(0)), h)
      BY <2>5, CountedAre, Zenon DEF g
    <3>2. Counts("sweep", gains(0), h, count(Row("sweep", gains(0)), h))
      BY <2>4, <1>2, CountIs
    <3> QED BY <3>1, <3>2, Zenon
  <2>7. r.balance + r.bundled = g.got - g.paid
    BY <2>2, <2>4, <2>6, <1>3, <1>5, <1>7 DEF Counts
  <2>10. /\ g \in TallyRecord /\ g.held = TRUE /\ g.bought = h.bought /\ g.shares = h.shares
         /\ g.closed = TRUE
         /\ g.deposit = h.deposit /\ g.claimed = h.claimed /\ g.out = TRUE /\ g.cost = h.cost
    BY <2>6 DEF Counts, Shown
  <2>8. p.status = "Settled" => (gains(0) > 0 <=> p.pays)
    <3>1. p.status = "Settled" => (redemption(p) > 0 <=> p.pays)
      BY <2>1, Owes DEF RoundSound, CallSound
    <3>2. gains(0) = 0
      BY GainsAre
    <3> QED BY <3>1, <3>2, <2>1
  <2>9. p.bought = TRUE /\ h.back = 0
    BY <2>1, <1>6 DEF RoundSound, CallSound, Told
  <2>11. p.status = "Settled" => (g.back > 0 <=> p.pays)
    BY <2>4, <2>6, <2>8, <2>9 DEF Counts
  <2> HIDE DEF RoundRecord, TallyRecord
  <2> QED BY <1>4, <1>5, <1>6, <2>1, <2>2, <2>7, <2>9, <2>11, <2>10, Coins
             DEF Told, Over, RoundSound, CallSound, StageSound, r, g
<1>13. CASE k = "claim"
  <2>1. Over(p) /\ p.deposit = TRUE
    BY <1>13 DEF allowed, Final, Running, Over
  <2>2. /\ r.status = p.status /\ r.level = p.level /\ r.shares = p.shares /\ r.live = p.live
        /\ r.bought = p.bought
        /\ r.pays = p.pays /\ r.deposit = FALSE /\ r.closed = p.closed /\ r.bundled = p.bundled
    BY <1>1, <1>13 DEF Becomes, Pays_out
  <2>3. instructions(p, k) = <<[name |-> "ladder_claim_lp", moves |-> -claimable(p)]>>
    BY <1>13 DEF instructions
  <2>4. -claimable(p) \in Int /\ delta(p, k) = gains(-claimable(p)) /\ gains(-claimable(p)) \in Int
    BY <1>5, <1>13, Coins, DeltaIs, GainsAre
  <2>5. parseTransaction(p, k) = <<Row("claim", gains(-claimable(p)))>>
    <3>1. "ladder_claim_lp" \in Named /\ kindOf("ladder_claim_lp") = "claim"
      BY DEF Named, kindOf
    <3>2. parseTransaction(p, k) = <<Row(kindOf("ladder_claim_lp"), gains(-claimable(p)))>>
      BY <2>3, <2>4, <3>1, OneRow
    <3> QED BY <3>1, <3>2
  <2>6. Counts("claim", gains(-claimable(p)), h, g)
    <3>1. g = count(Row("claim", gains(-claimable(p))), h)
      BY <2>5, CountedAre, Zenon DEF g
    <3>2. Counts("claim", gains(-claimable(p)), h, count(Row("claim", gains(-claimable(p))), h))
      BY <2>4, <1>2, CountIs
    <3> QED BY <3>1, <3>2, Zenon
  <2>7. r.balance + r.bundled = g.got - g.paid
    BY <2>2, <2>4, <2>6, <1>3, <1>5, <1>7 DEF Counts
  <2>10. /\ g \in TallyRecord /\ g.held = h.held /\ g.bought = h.bought /\ g.shares = h.shares
         /\ g.closed = h.closed
         /\ g.deposit = h.deposit /\ g.claimed = TRUE /\ g.out = TRUE /\ g.cost = h.cost
         /\ g.back = h.back
    BY <2>6 DEF Counts, Shown
  <2> HIDE DEF RoundRecord, TallyRecord
  <2> QED BY <1>4, <1>5, <1>6, <2>1, <2>2, <2>7, <2>10, Coins
             DEF Told, Over, RoundSound, CallSound, StageSound, r, g
<1>14. CASE k = "fees"
  <2>1. p.status = "Settled" /\ p.fees > 0
    BY <1>14 DEF allowed, Final, Running, Over
  <2>2. /\ r.status = p.status /\ r.level = p.level /\ r.shares = p.shares /\ r.live = p.live
        /\ r.bought = p.bought
        /\ r.pays = p.pays /\ r.deposit = p.deposit /\ r.closed = p.closed /\ r.bundled = p.bundled
    BY <1>1, <1>14 DEF Becomes, Pays_out
  <2>3. instructions(p, k) = <<[name |-> "ladder_collect_fees", moves |-> -p.fees]>>
    BY <1>14 DEF instructions
  <2>4. -p.fees \in Int /\ delta(p, k) = gains(-p.fees) /\ gains(-p.fees) \in Int
    BY <1>5, <1>14, Coins, DeltaIs, GainsAre
  <2>f. gains(-p.fees) > 0
    <3>1. p.fees = CREATOR_FEES
      BY <2>1 DEF RoundSound, CallSound
    <3> QED BY <3>1, <2>1, <1>5, Coins, GainsAre
  <2>5. parseTransaction(p, k) = <<Row("fees", gains(-p.fees))>>
    <3>1. "ladder_collect_fees" \in Named /\ kindOf("ladder_collect_fees") = "fees"
      BY DEF Named, kindOf
    <3>2. parseTransaction(p, k) = <<Row(kindOf("ladder_collect_fees"), gains(-p.fees))>>
      BY <2>3, <2>4, <3>1, OneRow, <2>f
    <3> QED BY <3>1, <3>2
  <2>6. Counts("fees", gains(-p.fees), h, g)
    <3>1. g = count(Row("fees", gains(-p.fees)), h)
      BY <2>5, CountedAre, Zenon DEF g
    <3>2. Counts("fees", gains(-p.fees), h, count(Row("fees", gains(-p.fees)), h))
      BY <2>4, <1>2, CountIs
    <3> QED BY <3>1, <3>2, Zenon
  <2>7. r.balance + r.bundled = g.got - g.paid
    BY <2>2, <2>4, <2>6, <1>3, <1>5, <1>7 DEF Counts
  <2>10. /\ g \in TallyRecord /\ g.held = h.held /\ g.bought = h.bought /\ g.shares = h.shares
         /\ g.closed = h.closed
         /\ g.deposit = h.deposit /\ g.claimed = h.claimed /\ g.out = h.out /\ g.cost = h.cost
         /\ g.back = h.back
    BY <2>6 DEF Counts, Shown
  <2> HIDE DEF RoundRecord, TallyRecord
  <2> QED BY <1>4, <1>5, <1>6, <2>1, <2>2, <2>7, <2>10, Coins
             DEF Told, Over, RoundSound, CallSound, StageSound, r, g
<1>15. CASE k = "open"
  <2>1. p.status = "Seeding"
    BY <1>15 DEF allowed, Final, Running, Over
  <2>2. /\ r.status = "Open" /\ r.level = p.level /\ r.shares = p.shares /\ r.live = p.live
        /\ r.bought = p.bought
        /\ r.pays = p.pays /\ r.deposit = p.deposit /\ r.closed = p.closed /\ r.bundled = p.bundled
    BY <1>1, <1>15 DEF Becomes, Pays_out
  <2>3. parseTransaction(p, k) = <<>>
    BY <1>15 DEF instructions, parseTransaction
  <2>4. g = h /\ delta(p, k) = 0
    BY <2>3, <1>15, CountedAre, DeltaIs DEF g, Silent
  <2>5. r.balance = p.balance
    BY <2>4, <1>3, <1>5
  <2> HIDE DEF RoundRecord, TallyRecord
  <2> QED BY <1>4, <1>5, <1>6, <2>1, <2>2, <2>4, <2>5, Coins
             DEF Told, Over, RoundSound, CallSound, StageSound, r, g
<1>16. CASE k = "win"
  <2>1. p.status = "Open"
    BY <1>16 DEF allowed, Final, Running, Over
  <2>2. /\ r.status = "Settled" /\ r.level = LEVEL /\ r.shares = p.shares /\ r.live = p.live
        /\ r.bought = p.bought
        /\ r.pays = (p.shares > 0) /\ r.deposit = p.deposit /\ r.closed = p.closed
        /\ r.bundled = p.bundled
    BY <1>1, <1>16 DEF Becomes, Pays_out
  <2>3. parseTransaction(p, k) = <<>>
    BY <1>16 DEF instructions, parseTransaction
  <2>4. g = h /\ delta(p, k) = 0
    BY <2>3, <1>16, CountedAre, DeltaIs DEF g, Silent
  <2>5. r.balance = p.balance
    BY <2>4, <1>3, <1>5
  <2> HIDE DEF RoundRecord, TallyRecord
  <2> QED BY <1>4, <1>5, <1>6, <2>1, <2>2, <2>4, <2>5, Coins
             DEF Told, Over, RoundSound, CallSound, StageSound, r, g
<1>17. CASE k = "miss"
  <2>1. p.status = "Open"
    BY <1>17 DEF allowed, Final, Running, Over
  <2>2. /\ r.status = "Settled" /\ r.level = p.level /\ r.shares = p.shares /\ r.live = p.live
        /\ r.bought = p.bought
        /\ r.pays = p.pays /\ r.deposit = p.deposit /\ r.closed = p.closed /\ r.bundled = p.bundled
    BY <1>1, <1>17 DEF Becomes, Pays_out
  <2>3. parseTransaction(p, k) = <<>>
    BY <1>17 DEF instructions, parseTransaction
  <2>4. g = h /\ delta(p, k) = 0
    BY <2>3, <1>17, CountedAre, DeltaIs DEF g, Silent
  <2>5. r.balance = p.balance
    BY <2>4, <1>3, <1>5
  <2> HIDE DEF RoundRecord, TallyRecord
  <2> QED BY <1>4, <1>5, <1>6, <2>1, <2>2, <2>4, <2>5, Coins
             DEF Told, Over, RoundSound, CallSound, StageSound, r, g
<1>18. CASE k = "void"
  <2>1. p.status \in {"Seeding", "Open"}
    BY <1>18 DEF allowed, Final, Running, Over
  <2>2. /\ r.status = "Void" /\ r.level = p.level /\ r.shares = p.shares /\ r.live = p.live
        /\ r.bought = p.bought
        /\ r.pays = p.pays /\ r.deposit = p.deposit /\ r.closed = p.closed /\ r.bundled = p.bundled
    BY <1>1, <1>18 DEF Becomes, Pays_out
  <2>3. parseTransaction(p, k) = <<>>
    BY <1>18 DEF instructions, parseTransaction
  <2>4. g = h /\ delta(p, k) = 0
    BY <2>3, <1>18, CountedAre, DeltaIs DEF g, Silent
  <2>5. r.balance = p.balance
    BY <2>4, <1>3, <1>5
  <2> HIDE DEF RoundRecord, TallyRecord
  <2> QED BY <1>4, <1>5, <1>6, <2>1, <2>2, <2>4, <2>5, Coins
             DEF Told, Over, RoundSound, CallSound, StageSound, r, g
<1>19. CASE k = "close"
  <2>1. Over(p) /\ p.live = FALSE /\ p.deposit = FALSE
    BY <1>19 DEF allowed, Final, Running, Over
  <2>2. /\ r.status = p.status /\ r.level = p.level /\ r.shares = p.shares /\ r.live = p.live
        /\ r.bought = p.bought
        /\ r.pays = p.pays /\ r.deposit = p.deposit /\ r.closed = TRUE /\ r.bundled = p.bundled
    BY <1>1, <1>19 DEF Becomes, Pays_out
  <2>3. parseTransaction(p, k) = <<>>
    BY <1>19 DEF instructions, parseTransaction
  <2>4. g = h /\ delta(p, k) = 0
    BY <2>3, <1>19, CountedAre, DeltaIs DEF g, Silent
  <2>5. r.balance = p.balance
    BY <2>4, <1>3, <1>5
  <2> HIDE DEF RoundRecord, TallyRecord
  <2> QED BY <1>4, <1>5, <1>6, <2>1, <2>2, <2>4, <2>5, Coins
             DEF Told, Over, RoundSound, CallSound, StageSound, r, g
<1>20. CASE k = "collect"
  <2>1. Over(p) /\ p.live = TRUE /\ p.deposit = TRUE
    BY <1>20 DEF allowed, Final, Running, Over
  <2>2. /\ r.status = p.status /\ r.level = p.level /\ r.shares = 0 /\ r.live = FALSE
        /\ r.bought = p.bought
        /\ r.pays = p.pays /\ r.deposit = FALSE /\ r.closed = p.closed
        /\ r.bundled = p.bundled + bundled(p)
    BY <1>1, <1>20 DEF Becomes, Pays_out
  <2> DEFINE m == redemption(p)
             n == claimable(p)
             e == count(Row("redeem", m), h)
  <2>3. instructions(p, "collect") = <<[name |-> "ladder_redeem", moves |-> -m],
                                       [name |-> "ladder_claim_lp", moves |-> -n]>>
    BY DEF instructions
  <2>4. delta(p, k) + bundled(p) = m + n
    <3>1. delta(p, k) = gains(-m) + gains(-n) /\ n >= FEE
      BY <1>20, DeltaIs, Owes
    <3>2. gains(-n) = n - FEE
      BY <3>1, <1>5, Coins, GainsAre
    <3>3. gains(-m) = IF m > 0 THEN m - FEE ELSE 0
      BY <1>5, Coins, GainsAre
    <3> HIDE DEF m, n
    <3>4. bundled(p) = IF m > 0 THEN 2 * FEE ELSE FEE
      BY DEF bundled, m
    <3> QED BY <3>1, <3>2, <3>3, <3>4, <1>5, Coins DEF m, n
  <2>5. parseTransaction(p, k) = <<Row("redeem", m), Row("claim", n)>>
    BY <1>5, <1>20, <2>3, TwoRows
  <2>6. Counts("redeem", m, h, e) /\ e \in TallyRecord
    <3>1. m \in Int
      BY <1>5
    <3> HIDE DEF m
    <3>2. Counts("redeem", m, h, count(Row("redeem", m), h))
      BY <3>1, <1>2, CountIs
    <3> QED BY <3>2, Zenon DEF Counts, e
  <2>7. g = count(Row("claim", n), e)
    BY <2>5, CountedAre DEF g
  <2> HIDE DEF e, n, m
  <2>8. m \in Nat /\ n \in Nat
    BY <1>5 DEF m, n
  <2>9. Counts("claim", n, e, g)
    BY <2>6, <2>7, <2>8, CountIs
  <2>10. e.got \in Nat /\ e.paid \in Nat /\ g.got \in Nat /\ g.paid \in Nat
    BY <2>6, <2>9 DEF Counts, TallyRecord
  <2>11. g.got - g.paid = h.got - h.paid + m + n
    BY <2>6, <2>8, <2>9, <2>10, <1>6 DEF Counts
  <2>12. delta(p, k) \in Int /\ bundled(p) \in Int
    BY DeltaIs, Owes, Coins DEF bundled
  <2>13. r.balance + r.bundled = g.got - g.paid
    BY <2>2, <2>4, <2>8, <2>11, <2>12, <1>3, <1>5, <1>7
  <2>14. p.status = "Settled" => (m > 0 <=> p.pays)
    BY <2>1, Owes DEF RoundSound, CallSound, m
  <2>15. p.bought = TRUE /\ h.back = 0
    BY <2>1, <1>6 DEF RoundSound, CallSound, Told
  <2>16. /\ g \in TallyRecord /\ g.held = TRUE /\ g.bought = h.bought /\ g.shares = h.shares
         /\ g.cost = h.cost /\ g.closed = TRUE /\ g.back = m /\ g.deposit = h.deposit
         /\ g.claimed = TRUE /\ g.out = TRUE
    BY <2>6, <2>8, <2>9, <2>15 DEF Counts, Shown
  <2> HIDE DEF RoundRecord, TallyRecord
  <2> QED BY <1>4, <1>5, <1>6, <2>1, <2>2, <2>8, <2>13, <2>14, <2>15, <2>16
          DEF Told, Over, RoundSound, CallSound, StageSound, r, g
<1> QED BY <1>8, <1>9, <1>10, <1>11, <1>12, <1>13, <1>14, <1>15, <1>16, <1>17, <1>18, <1>19, <1>20
           DEF allowed, Kinds

-----------------------------------------------------------------------------
(* The facts of an ending.                                                 *)

\* The facts of a round's ending come with the transaction that ends it.
LEMMA FactsStep ==
  ASSUME NEW p, RoundSound(p), NEW k \in allowed(p), NEW F, EndsAs(F, p)
  PROVE  EndsAs(F \union facts(k), after(p, k))
<1> DEFINE r == after(p, k)
           G == F \union facts(k)
<1>1. /\ r.status = (CASE k = "create" -> "Seeding" [] k = "open" -> "Open"
                       [] k \in {"win", "miss"} -> "Settled" [] k = "void" -> "Void" [] OTHER -> p.status)
      /\ r.level = (IF k = "win" THEN LEVEL ELSE p.level)
      /\ r.closed = (IF k = "close" THEN TRUE ELSE p.closed)
  BY AfterSound DEF Becomes
<1>2. p.status \in Statuses /\ p.level \in Nat
  BY DEF RoundSound, RoundRecord
<1>3. /\ "win" \in F <=> p.status = "Settled" /\ p.level > 0
      /\ "miss" \in F <=> p.status = "Settled" /\ p.level = 0
      /\ "void" \in F <=> p.status = "Void"
      /\ "closed" \in F <=> p.closed
  BY DEF EndsAs
<1>4. p.status # "Settled" => p.level = 0
  BY DEF RoundSound, StageSound
<1>5. facts(k) = CASE k = "create" -> {"terms"} [] k = "open" -> {"grid"} [] k = "win" -> {"win"}
    [] k = "miss" -> {"miss"} [] k = "void" -> {"void"} [] k = "close" -> {"closed"}
    [] OTHER -> {}
  BY DEF facts
<1> HIDE DEF r
<1>6. CASE k \in {"win", "miss"}
  <2>1. p.status = "Open" /\ p.level = 0 /\ LEVEL > 0 /\ LEVEL \in Nat
    BY <1>6, <1>4, Coins DEF allowed
  <2> QED BY <2>1, <1>1, <1>3, <1>5, <1>6 DEF EndsAs, r
<1>7. CASE k = "void"
  <2>1. p.status \in {"Seeding", "Open"} /\ p.level = 0
    BY <1>7, <1>4 DEF allowed, Running
  <2> QED BY <2>1, <1>1, <1>3, <1>5, <1>7 DEF EndsAs, r
<1>8. CASE k \in {"create", "open"}
  <2>1. p.status \in {"None", "Seeding"}
    BY <1>8 DEF allowed
  <2> QED BY <2>1, <1>1, <1>3, <1>5, <1>8 DEF EndsAs, r
<1>9. CASE k \notin {"create", "open", "win", "miss", "void"}
  <2>1. r.status = p.status /\ r.level = p.level
    BY <1>1, <1>9
  <2>2. "win" \in G <=> "win" \in F
    BY <1>5, <1>9
  <2>3. "miss" \in G <=> "miss" \in F
    BY <1>5, <1>9
  <2>4. "void" \in G <=> "void" \in F
    BY <1>5, <1>9
  <2>5. "closed" \in G <=> r.closed
    BY <1>1, <1>3, <1>5, <1>9
  <2> QED BY <2>1, <2>2, <2>3, <2>4, <2>5, <1>3 DEF EndsAs, r
<1> QED BY <1>6, <1>7, <1>8, <1>9

\* A round once over stays as it ended; one begun stays begun; and the transaction
\* that ends a round leaves the wallet's deposit where it is.
LEMMA OverStays ==
  ASSUME NEW p, RoundSound(p), NEW k \in allowed(p)
  PROVE  /\ Over(p) => Over(after(p, k)) /\ after(p, k).status = p.status /\ after(p, k).level = p.level
         /\ after(p, k).status # "None"
         /\ ~Over(p) /\ Over(after(p, k)) => after(p, k).deposit /\ ~after(p, k).closed
<1> DEFINE r == after(p, k)
<1>1. /\ r.status = (CASE k = "create" -> "Seeding" [] k = "open" -> "Open"
                       [] k \in {"win", "miss"} -> "Settled" [] k = "void" -> "Void" [] OTHER -> p.status)
      /\ r.level = (IF k = "win" THEN LEVEL ELSE p.level)
      /\ r.deposit = (IF k = "create" THEN TRUE ELSE IF k \in {"claim", "collect"} THEN FALSE ELSE p.deposit)
      /\ r.closed = (IF k = "close" THEN TRUE ELSE p.closed)
  BY AfterSound DEF Becomes
<1>2. p.status = "None" \/ k # "create"
  BY DEF allowed
<1>3. Over(p) => k \notin {"create", "open", "win", "miss", "void"}
  BY DEF allowed, Running, Over
<1>4. p.status = "None" => k = "create"
  BY DEF allowed, Kinds, Running, Final
<1>5. ~Over(p) => ~p.closed /\ (p.status # "None" => p.deposit)
  BY DEF RoundSound, StageSound
<1>6. ~Over(p) => k \notin {"claim", "collect", "close"}
  BY DEF allowed, Final, Over
<1> HIDE DEF r
<1> QED BY <1>1, <1>2, <1>3, <1>4, <1>5, <1>6 DEF Over, r

\* A failed transaction changes nothing and has no rows or facts.
LEMMA FailedIsNothing ==
  ASSUME NEW p, NEW h
  PROVE  /\ RoundSound(p) => after(p, "failed") = p
         /\ counted(parseTransaction(p, "failed"), h) = h /\ facts("failed") = {}
<1>1. instructions(p, "failed") = <<>>
  BY DEF instructions
<1>2. delta(p, "failed") = 0
  BY <1>1 DEF delta
<1>3. parseTransaction(p, "failed") = <<>>
  BY <1>1 DEF parseTransaction
<1>4. RoundSound(p) => after(p, "failed") = p
  <2>1. after(p, "failed") = [p EXCEPT !.balance = @ + 0]
    BY <1>2 DEF after
  <2>2. RoundSound(p) => p \in RoundRecord
    BY DEF RoundSound
  <2> QED BY <2>1, <2>2 DEF RoundRecord
<1> QED BY <1>3, <1>4, CountedAre DEF facts

\* Before the first transaction there is no round, and nothing to tell.
LEMMA NoRoundSound == RoundSound(NoRound) /\ Told(NoRound, NoRows) /\ EndsAs({}, NoRound)
<1>1. NoRound \in RoundRecord
  BY DEF NoRound, RoundRecord, Statuses
<1>2. NoRows \in TallyRecord
  BY DEF NoRows, TallyRecord
<1>3. CallSound(NoRound) /\ StageSound(NoRound)
  BY DEF NoRound, CallSound, StageSound, Over
<1>4. Told(NoRound, NoRows)
  BY <1>2 DEF Told, NoRound, NoRows
<1> QED BY <1>1, <1>3, <1>4 DEF RoundSound, EndsAs, NoRound

-----------------------------------------------------------------------------
(* Along the chain.                                                        *)

\* Every non-empty set of natural numbers has a least element.
LEMMA LeastNumber ==
  ASSUME NEW T, T \subseteq Nat, T # {}
  PROVE  \E x \in T : \A y \in T : x <= y
<1> DEFINE R == {ss \in Nat \X Nat : ss[1] < ss[2]}
<1>1. IsWellFoundedOn(R, Nat)
  BY NatLessThanWellFounded, Zenon DEF OpToRel
<1>2. \A a, b \in Nat : a < b => <<a, b>> \in R
  OBVIOUS
<1> HIDE DEF R
<1>3. PICK x \in T : \A y \in T : ~ (<<y, x>> \in R)
  BY <1>1, WFMin, Zenon
<1>4. \A y \in T : ~ (y < x)
  BY <1>2, <1>3, Zenon
<1> QED BY <1>4

\* Induction over a set of numbers.
LEMMA AllNumbers ==
  ASSUME NEW Good, 0 \in Good, \A n \in Nat : n \in Good => n + 1 \in Good
  PROVE  Nat \subseteq Good
<1> DEFINE Bad == Nat \ Good
<1> SUFFICES ASSUME Bad # {} PROVE FALSE
  OBVIOUS
<1>1. PICK m \in Bad : \A k \in Bad : m <= k
  BY LeastNumber
<1>2. m # 0
  OBVIOUS
<1>3. m - 1 \in Nat /\ m - 1 \notin Bad
  BY <1>1, <1>2
<1> QED BY <1>1, <1>3

\* The round after each transaction follows from the one before it.
LEMMA RoundsAre ==
  ASSUME NEW txs, Len(txs) \in Nat
  PROVE  /\ rounds(txs)[0] = NoRound
         /\ \A n \in 1 .. Len(txs) : rounds(txs)[n] = after(rounds(txs)[n - 1], txs[n])
<1> DEFINE Upto(m) == \E g : g = [n \in 0 .. m |-> IF n = 0 THEN NoRound ELSE after(g[n - 1], txs[n])]
           Good == {m \in Nat : Upto(m)}
<1>1. Upto(0)
  <2> DEFINE h == [n \in 0 .. 0 |-> NoRound]
  <2>1. h = [n \in 0 .. 0 |-> IF n = 0 THEN NoRound ELSE after(h[n - 1], txs[n])]
    OBVIOUS
  <2> QED BY <2>1
<1>2. ASSUME NEW m \in Nat, Upto(m) PROVE Upto(m + 1)
  <2>1. PICK g : g = [n \in 0 .. m |-> IF n = 0 THEN NoRound ELSE after(g[n - 1], txs[n])]
    BY <1>2
  <2> DEFINE h == [n \in 0 .. m + 1 |-> IF n = m + 1 THEN after(g[m], txs[n]) ELSE g[n]]
  <2>2. \A n \in 0 .. m : h[n] = g[n]
    OBVIOUS
  <2>3. ASSUME NEW n \in 0 .. m + 1
        PROVE  h[n] = IF n = 0 THEN NoRound ELSE after(h[n - 1], txs[n])
    <3>1. CASE n = m + 1
      <4>1. h[n - 1] = g[m] /\ n # 0
        BY <2>2, <3>1
      <4> QED BY <3>1, <4>1
    <3>2. CASE n # m + 1
      <4>1. n \in 0 .. m /\ (n # 0 => n - 1 \in 0 .. m)
        BY <3>2
      <4>2. h[n] = g[n] /\ (n # 0 => h[n - 1] = g[n - 1])
        BY <2>2, <4>1
      <4>3. g[n] = IF n = 0 THEN NoRound ELSE after(g[n - 1], txs[n])
        BY <2>1, <4>1
      <4> QED BY <4>2, <4>3
    <3> QED BY <3>1, <3>2
  <2>4. h = [n \in 0 .. m + 1 |-> h[n]]
    OBVIOUS
  <2> HIDE DEF h
  <2>5. h = [n \in 0 .. m + 1 |-> IF n = 0 THEN NoRound ELSE after(h[n - 1], txs[n])]
    BY <2>3, <2>4
  <2> QED BY <2>5
<1> HIDE DEF Upto
<1>3. Nat \subseteq Good
  <2>1. 0 \in Good
    BY <1>1
  <2>2. \A m \in Nat : m \in Good => m + 1 \in Good
    BY <1>2
  <2> HIDE DEF Good
  <2> QED BY <2>1, <2>2, AllNumbers
<1>4. Upto(Len(txs))
  BY <1>3
<1>5. rounds(txs) = [n \in 0 .. Len(txs) |-> IF n = 0 THEN NoRound ELSE after(rounds(txs)[n - 1], txs[n])]
  BY <1>4 DEF Upto, rounds
<1>6. 0 \in 0 .. Len(txs) /\ \A n \in 1 .. Len(txs) : n \in 0 .. Len(txs) /\ n # 0
  OBVIOUS
<1> QED BY <1>5, <1>6

\* The rows counted so far, and those of one transaction more.
Reading(n, h) ==
  IF n \in seen THEN counted(parseTransaction(rounds(chain)[n - 1], chain[n]), h) ELSE h
Tallies == CHOOSE h : h = [n \in 0 .. Len(chain) |-> IF n = 0 THEN NoRows ELSE Reading(n, h[n - 1])]

\* The tally after each transaction follows from the one before it.
LEMMA TalliesAre ==
  ASSUME Len(chain) \in Nat
  PROVE  /\ tally = Tallies[Len(chain)] /\ Tallies[0] = NoRows
         /\ \A n \in 1 .. Len(chain) : Tallies[n] = Reading(n, Tallies[n - 1])
<1> DEFINE Upto(m) == \E g : g = [n \in 0 .. m |-> IF n = 0 THEN NoRows ELSE Reading(n, g[n - 1])]
           Good == {m \in Nat : Upto(m)}
<1>1. Upto(0)
  <2> DEFINE h == [n \in 0 .. 0 |-> NoRows]
  <2>1. h = [n \in 0 .. 0 |-> IF n = 0 THEN NoRows ELSE Reading(n, h[n - 1])]
    OBVIOUS
  <2> QED BY <2>1
<1>2. ASSUME NEW m \in Nat, Upto(m) PROVE Upto(m + 1)
  <2>1. PICK g : g = [n \in 0 .. m |-> IF n = 0 THEN NoRows ELSE Reading(n, g[n - 1])]
    BY <1>2
  <2> DEFINE h == [n \in 0 .. m + 1 |-> IF n = m + 1 THEN Reading(n, g[m]) ELSE g[n]]
  <2>2. \A n \in 0 .. m : h[n] = g[n]
    OBVIOUS
  <2>3. ASSUME NEW n \in 0 .. m + 1
        PROVE  h[n] = IF n = 0 THEN NoRows ELSE Reading(n, h[n - 1])
    <3>1. CASE n = m + 1
      <4>1. h[n - 1] = g[m] /\ n # 0
        BY <2>2, <3>1
      <4> QED BY <3>1, <4>1
    <3>2. CASE n # m + 1
      <4>1. n \in 0 .. m /\ (n # 0 => n - 1 \in 0 .. m)
        BY <3>2
      <4>2. h[n] = g[n] /\ (n # 0 => h[n - 1] = g[n - 1])
        BY <2>2, <4>1
      <4>3. g[n] = IF n = 0 THEN NoRows ELSE Reading(n, g[n - 1])
        BY <2>1, <4>1
      <4> QED BY <4>2, <4>3
    <3> QED BY <3>1, <3>2
  <2>4. h = [n \in 0 .. m + 1 |-> h[n]]
    OBVIOUS
  <2> HIDE DEF h
  <2>5. h = [n \in 0 .. m + 1 |-> IF n = 0 THEN NoRows ELSE Reading(n, h[n - 1])]
    BY <2>3, <2>4
  <2> QED BY <2>5
<1> HIDE DEF Upto
<1>3. Nat \subseteq Good
  <2>1. 0 \in Good
    BY <1>1
  <2>2. \A m \in Nat : m \in Good => m + 1 \in Good
    BY <1>2
  <2> HIDE DEF Good
  <2> QED BY <2>1, <2>2, AllNumbers
<1>4. Upto(Len(chain))
  BY <1>3
<1>5. Tallies = [n \in 0 .. Len(chain) |-> IF n = 0 THEN NoRows
                  ELSE Reading(n, Tallies[n - 1])]
  BY <1>4 DEF Upto, Tallies
<1>6. 0 \in 0 .. Len(chain) /\ \A n \in 1 .. Len(chain) : n \in 0 .. Len(chain) /\ n # 0
  OBVIOUS
<1>7. tally = Tallies[Len(chain)]
  BY DEF tally, Tallies, Reading
<1> QED BY <1>5, <1>6, <1>7

\* Every transaction failed, or is one the program runs; the first starts the round.
Legal ==
  /\ chain[1] = "create"
  /\ \A n \in 1 .. Len(chain) : chain[n] = "failed" \/ chain[n] \in allowed(rounds(chain)[n - 1])

EventsTo(n) == UNION {facts(chain[i]) : i \in 1 .. n}

\* The round is sound at every moment, and the facts read so far say how it ended.
LEMMA RoundsSound ==
  ASSUME chain \in Seq(Chained), Legal
  PROVE  \A n \in 0 .. Len(chain) :
           /\ RoundSound(rounds(chain)[n]) /\ EndsAs(EventsTo(n), rounds(chain)[n])
           /\ n > 0 => rounds(chain)[n].status # "None"
<1> DEFINE P(n) == /\ RoundSound(rounds(chain)[n]) /\ EndsAs(EventsTo(n), rounds(chain)[n])
                   /\ n > 0 => rounds(chain)[n].status # "None"
           Good == {n \in Nat : n <= Len(chain) => P(n)}
<1>0. Len(chain) \in Nat
  OBVIOUS
<1>1. P(0)
  <2>1. EventsTo(0) = {}
    BY DEF EventsTo
  <2>2. rounds(chain)[0] = NoRound
    BY <1>0, RoundsAre
  <2>3. RoundSound(rounds(chain)[0]) /\ EndsAs(EventsTo(0), rounds(chain)[0])
    BY <2>1, <2>2, NoRoundSound, Zenon
  <2> QED BY <2>3
<1>2. ASSUME NEW n \in Nat, n + 1 <= Len(chain), P(n) PROVE P(n + 1)
  <2> DEFINE p == rounds(chain)[n]
             r == rounds(chain)[n + 1]
             k == chain[n + 1]
  <2>1. n + 1 \in 1 .. Len(chain) /\ n + 1 - 1 = n
    BY <1>0, <1>2
  <2>2. r = after(p, k)
    BY <2>1, <1>0, RoundsAre
  <2>3. k = "failed" \/ k \in allowed(p)
    BY <2>1 DEF Legal
  <2>4. EventsTo(n + 1) = EventsTo(n) \union facts(k)
    <3>1. 1 .. n + 1 = (1 .. n) \union {n + 1}
      OBVIOUS
    <3> QED BY <3>1 DEF EventsTo
  <2>5. RoundSound(p) /\ EndsAs(EventsTo(n), p) /\ (n > 0 => p.status # "None")
    BY <1>2
  <2>6. n = 0 => k = "create"
    BY DEF Legal
  <2> HIDE DEF p, r, k
  <2>7. CASE k = "failed"
    <3>1. r = p /\ facts(k) = {} /\ n # 0
      BY <2>2, <2>5, <2>6, <2>7, FailedIsNothing
    <3> QED BY <3>1, <2>4, <2>5 DEF r
  <2>8. CASE k \in allowed(p)
    <3>1. RoundSound(r) /\ EndsAs(EventsTo(n) \union facts(k), r) /\ r.status # "None"
      BY <2>2, <2>5, <2>8, AfterSound, FactsStep, OverStays
    <3> QED BY <3>1, <2>4 DEF r
  <2> QED BY <2>3, <2>7, <2>8
<1> HIDE DEF P
<1>3. 0 \in Good
  BY <1>1
<1>4. \A n \in Nat : n \in Good => n + 1 \in Good
  BY <1>0, <1>2
<1> HIDE DEF Good
<1>5. Nat \subseteq Good
  BY <1>3, <1>4, AllNumbers
<1>6. \A n \in 0 .. Len(chain) : P(n)
  BY <1>0, <1>5 DEF Good
<1> QED BY <1>6 DEF P

\* Once over, a round stays as it ended.
LEMMA OverForGood ==
  ASSUME chain \in Seq(Chained), Legal, NEW m \in 0 .. Len(chain), Over(rounds(chain)[m])
  PROVE  \A n \in m .. Len(chain) :
           /\ Over(rounds(chain)[n]) /\ rounds(chain)[n].status = rounds(chain)[m].status
           /\ rounds(chain)[n].level = rounds(chain)[m].level
<1> DEFINE P(n) == /\ Over(rounds(chain)[n]) /\ rounds(chain)[n].status = rounds(chain)[m].status
                   /\ rounds(chain)[n].level = rounds(chain)[m].level
           Good == {d \in Nat : m + d <= Len(chain) => P(m + d)}
<1>0. Len(chain) \in Nat /\ m \in Nat
  OBVIOUS
<1>1. P(m)
  OBVIOUS
<1>2. ASSUME NEW n \in Nat, n + 1 <= Len(chain), P(n) PROVE P(n + 1)
  <2> DEFINE p == rounds(chain)[n]
             r == rounds(chain)[n + 1]
             k == chain[n + 1]
  <2>1. n + 1 \in 1 .. Len(chain) /\ n + 1 - 1 = n /\ n \in 0 .. Len(chain)
    BY <1>0, <1>2
  <2>2. r = after(p, k) /\ RoundSound(p)
    BY <2>1, <1>0, RoundsAre, RoundsSound
  <2>3. k = "failed" \/ k \in allowed(p)
    BY <2>1 DEF Legal
  <2>4. Over(p) /\ p.status = rounds(chain)[m].status /\ p.level = rounds(chain)[m].level
    BY <1>2
  <2> HIDE DEF p, r, k
  <2>5. Over(r) /\ r.status = p.status /\ r.level = p.level
    BY <2>2, <2>3, <2>4, FailedIsNothing, OverStays
  <2> QED BY <2>4, <2>5 DEF r
<1> HIDE DEF P
<1>3. 0 \in Good
  BY <1>0, <1>1
<1>4. ASSUME NEW d \in Nat, d \in Good PROVE d + 1 \in Good
  <2>1. m + d \in Nat /\ (m + d) + 1 = m + (d + 1)
    BY <1>0
  <2>2. m + d + 1 <= Len(chain) => P((m + d) + 1)
    BY <2>1, <1>0, <1>2, <1>4
  <2> QED BY <2>1, <2>2
<1> HIDE DEF Good
<1>5. Nat \subseteq Good
  BY <1>3, <1>4, AllNumbers
<1>6. ASSUME NEW n \in m .. Len(chain) PROVE P(n)
  <2>1. n - m \in Nat /\ m + (n - m) = n /\ n <= Len(chain)
    BY <1>0
  <2>2. n - m \in Good
    BY <2>1, <1>5
  <2> QED BY <2>1, <2>2 DEF Good
<1> QED BY <1>6 DEF P

\* What was read is a prefix: the rows tell of the round after it.
LEMMA PrefixTold ==
  ASSUME chain \in Seq(Chained), Legal, NEW m \in 0 .. Len(chain),
         \A n \in 1 .. m : n \in seen \/ chain[n] = "failed", \A n \in seen : n <= m
  PROVE  Told(rounds(chain)[m], tally)
<1> DEFINE Good == {n \in Nat : n <= m => Told(rounds(chain)[n], Tallies[n])}
           Rest == {d \in Nat : m + d <= Len(chain) => Tallies[m + d] = Tallies[m]}
<1>0. Len(chain) \in Nat /\ m \in Nat /\ m <= Len(chain)
  OBVIOUS
<1>1. 0 \in Good
  BY <1>0, RoundsAre, TalliesAre, NoRoundSound
<1>2. ASSUME NEW n \in Nat, n \in Good PROVE n + 1 \in Good
  <2> SUFFICES ASSUME n + 1 <= m PROVE Told(rounds(chain)[n + 1], Tallies[n + 1])
    OBVIOUS
  <2> DEFINE p == rounds(chain)[n]
             k == chain[n + 1]
             h == Tallies[n]
  <2>1. n + 1 \in 1 .. Len(chain) /\ n + 1 \in 1 .. m /\ n + 1 - 1 = n /\ n \in 0 .. Len(chain)
    BY <1>0
  <2>2. rounds(chain)[n + 1] = after(p, k) /\ RoundSound(p)
    BY <2>1, <1>0, RoundsAre, RoundsSound
  <2>3. k = "failed" \/ k \in allowed(p)
    BY <2>1 DEF Legal
  <2>4. Tallies[n + 1] = IF n + 1 \in seen THEN counted(parseTransaction(p, k), h) ELSE h
    BY <2>1, <1>0, TalliesAre DEF Reading
  <2>5. Told(p, h)
    BY <1>2, <2>1
  <2>6. n + 1 \in seen \/ k = "failed"
    BY <2>1
  <2> HIDE DEF p, k, h
  <2>7. CASE k = "failed"
    BY <2>2, <2>4, <2>5, <2>7, FailedIsNothing
  <2>8. CASE k # "failed"
    BY <2>2, <2>3, <2>4, <2>5, <2>6, <2>8, TallyStep
  <2> QED BY <2>7, <2>8
<1>3. 0 \in Rest
  BY <1>0
<1>4. ASSUME NEW d \in Nat, d \in Rest PROVE d + 1 \in Rest
  <2> SUFFICES ASSUME m + (d + 1) <= Len(chain) PROVE Tallies[m + (d + 1)] = Tallies[m]
    OBVIOUS
  <2>1. m + (d + 1) \in 1 .. Len(chain) /\ m + (d + 1) - 1 = m + d /\ m + d <= Len(chain)
        /\ ~(m + (d + 1) <= m)
    BY <1>0
  <2>2. m + (d + 1) \notin seen
    BY <2>1
  <2> QED BY <1>4, <2>1, <2>2, <1>0, TalliesAre DEF Reading
<1> HIDE DEF Good, Rest
<1>5. Nat \subseteq Good /\ Nat \subseteq Rest
  BY <1>1, <1>2, <1>3, <1>4, AllNumbers
<1>6. Told(rounds(chain)[m], Tallies[m])
  BY <1>0, <1>5 DEF Good
<1>7. Tallies[Len(chain)] = Tallies[m]
  <2>1. Len(chain) - m \in Nat /\ m + (Len(chain) - m) = Len(chain)
    BY <1>0
  <2>2. Len(chain) - m \in Rest
    BY <2>1, <1>5
  <2> QED BY <2>1, <2>2 DEF Rest
<1> QED BY <1>0, <1>6, <1>7, TalliesAre

\* A new transaction leaves the rounds before it as they were.
LEMMA RoundsStay ==
  ASSUME chain \in Seq(Chained), NEW k \in Chained, NEW txs, txs = Append(chain, k)
  PROVE  \A n \in 0 .. Len(chain) : rounds(txs)[n] = rounds(chain)[n]
<1> DEFINE Good == {n \in Nat : n <= Len(chain) => rounds(txs)[n] = rounds(chain)[n]}
<1>0. Len(chain) \in Nat /\ Len(txs) = Len(chain) + 1 /\ \A n \in 1 .. Len(chain) : txs[n] = chain[n]
  OBVIOUS
<1>1. 0 \in Good
  BY <1>0, RoundsAre
<1>t. /\ rounds(txs)[0] = NoRound
      /\ \A n \in 1 .. Len(txs) : rounds(txs)[n] = after(rounds(txs)[n - 1], txs[n])
  <2>1. Len(txs) \in Nat
    BY <1>0
  <2> QED BY <2>1, RoundsAre
<1>2. ASSUME NEW n \in Nat, n \in Good PROVE n + 1 \in Good
  <2> SUFFICES ASSUME n + 1 <= Len(chain) PROVE rounds(txs)[n + 1] = rounds(chain)[n + 1]
    OBVIOUS
  <2>1. n + 1 \in 1 .. Len(chain) /\ n + 1 \in 1 .. Len(txs) /\ n + 1 - 1 = n /\ n <= Len(chain)
    BY <1>0
  <2>2. rounds(chain)[n + 1] = after(rounds(chain)[n], chain[n + 1])
    BY <2>1, <1>0, RoundsAre
  <2>3. rounds(txs)[n + 1] = after(rounds(txs)[n], txs[n + 1])
    BY <2>1, <1>t
  <2> QED BY <1>0, <1>2, <2>1, <2>2, <2>3
<1> HIDE DEF Good
<1>3. Nat \subseteq Good
  BY <1>1, <1>2, AllNumbers
<1> QED BY <1>0, <1>3 DEF Good

-----------------------------------------------------------------------------
(* The summary.                                                            *)

\* Told the rows and the ending of a round, the summary is that of its accounts.
LEMMA SummaryIs ==
  ASSUME NEW p, RoundSound(p), NEW h, Told(p, h), NEW F, EndsAs(F, p)
  PROVE  /\ ResultTrue(summarize(h, F), p) /\ MoneyTrue(summarize(h, F), p)
         /\ DayTrue(F, p) /\ ScoreTrue(summarize(h, F), p)
<1> DEFINE status  == statusOf(h, F)
           owed    == IF status = "settled" /\ "win" \in F /\ h.held /\ ~h.closed /\ h.shares > 0
                      THEN h.shares * LEVEL ELSE 0
           unknown == \/ status = "settled" /\ ~(F \intersect {"win", "miss"} # {}) /\ "closed" \notin F
                         /\ h.held /\ ~h.closed /\ h.shares > 0
                      \/ status = "void" /\ h.held /\ ~h.closed /\ (h.shares > 0 \/ h.cost > 0)
                      \/ status # "running" /\ "closed" \notin F /\ h.deposit /\ ~h.claimed
           won     == h.closed /\ h.back > 0 /\ (~(F \intersect {"win", "miss"} # {}) \/ "win" \in F)
           result  == IF status = "running" THEN "open"
                      ELSE IF owed > 0 \/ unknown THEN "unclaimed"
                      ELSE IF status = "void" THEN "refunded"
                      ELSE IF won \/ (~h.held /\ h.got > h.paid) THEN "won" ELSE "missed"
           s       == summarize(h, F)
<1>1. s = [status |-> status, result |-> result, owed |-> owed, paid |-> h.paid,
           got |-> h.got, called |-> h.bought]
  BY DEF summarize
<1>2. /\ s.status = status /\ s.result = result /\ s.owed = owed /\ s.paid = h.paid
      /\ s.got = h.got /\ s.called = h.bought
  BY <1>1
<1> HIDE DEF s
<1>3. /\ p.shares \in Nat /\ p.cost \in Nat /\ p.level \in Nat /\ p.balance \in Int /\ p.bundled \in Nat
      /\ p.status \in Statuses /\ p.live \in BOOLEAN /\ p.bought \in BOOLEAN /\ p.pays \in BOOLEAN
      /\ p.deposit \in BOOLEAN /\ p.closed \in BOOLEAN
  BY DEF RoundSound, RoundRecord
<1>4. /\ h.got \in Nat /\ h.paid \in Nat /\ h.back \in Nat /\ h.shares \in Int /\ h.cost \in Int
      /\ h.held \in BOOLEAN /\ h.bought \in BOOLEAN /\ h.closed \in BOOLEAN /\ h.deposit \in BOOLEAN
      /\ h.claimed \in BOOLEAN /\ h.out \in BOOLEAN
  BY DEF Told, TallyRecord
<1>5. MoneyTrue(s, p)
  BY <1>2 DEF Told, MoneyTrue
<1>6. /\ "win" \in F <=> p.status = "Settled" /\ p.level > 0
      /\ "miss" \in F <=> p.status = "Settled" /\ p.level = 0
      /\ "void" \in F <=> p.status = "Void"
      /\ "closed" \in F <=> p.closed
  BY DEF EndsAs
<1>7. /\ h.held = p.bought /\ h.bought = p.bought /\ (h.closed <=> p.bought /\ ~p.live)
      /\ (p.live => h.shares = p.shares) /\ (h.shares = 0 => h.cost = 0)
      /\ (h.deposit <=> p.status # "None") /\ (h.claimed <=> p.status # "None" /\ ~p.deposit)
      /\ (h.out <=> h.closed \/ h.claimed)
      /\ (p.status = "Settled" /\ h.closed => (h.back > 0 <=> p.pays))
  BY DEF Told
<1>8. /\ (p.live => p.bought) /\ (~p.live => p.shares = 0 /\ p.cost = 0)
      /\ (p.shares > 0 <=> p.cost > 0) /\ (p.pays => p.level > 0 /\ p.bought)
      /\ (p.live /\ p.level > 0 => (p.pays <=> p.shares > 0))
      /\ (p.bundled > 0 => p.bought)
      /\ (~Over(p) => ~p.closed /\ (p.bought => p.live))
      /\ (p.status = "None" <=> ~p.deposit /\ ~Over(p))
      /\ (p.closed => ~p.deposit /\ ~p.live)
  BY DEF RoundSound, CallSound, StageSound
<1>9. status = IF p.status = "Void" THEN "void" ELSE IF p.status = "Settled" THEN "settled" ELSE "running"
  <2>1. F \intersect {"win", "miss", "closed"} # {} <=> "win" \in F \/ "miss" \in F \/ "closed" \in F
    OBVIOUS
  <2>2. p.status = "Settled" => "win" \in F \/ "miss" \in F
    BY <1>3, <1>6
  <2>3. ~Over(p) => ~("win" \in F \/ "miss" \in F \/ "closed" \in F) /\ ~h.out
    BY <1>3, <1>4, <1>6, <1>7, <1>8 DEF Over
  <2> QED BY <2>1, <2>2, <2>3, <1>6 DEF statusOf, Over
<1>10. F \intersect {"win", "miss"} # {} <=> p.status = "Settled"
  <2>1. F \intersect {"win", "miss"} # {} <=> "win" \in F \/ "miss" \in F
    OBVIOUS
  <2> QED BY <2>1, <1>3, <1>6
<1> HIDE DEF status
<1>11. p.status = "Settled" => redemption(p) \in Nat /\ (redemption(p) > 0 <=> p.shares > 0 /\ p.level > 0)
  BY Owes
<1>12. p.status = "Void" => redemption(p) = p.cost
  BY DEF redemption
<1>13. owed > 0 <=> p.status = "Settled" /\ redemption(p) > 0
  <2>1. h.shares > 0 => h.shares * LEVEL > 0
    <3>1. ASSUME NEW a \in Int, NEW b \in Nat, a > 0, b > 0 PROVE a * b > 0
      BY <3>1
    <3> QED BY <3>1, <1>4, Coins
  <2>2. owed > 0 <=> status = "settled" /\ "win" \in F /\ h.held /\ ~h.closed /\ h.shares > 0
    BY <2>1
  <2> HIDE DEF owed
  <2>3. h.held /\ ~h.closed <=> p.live
    BY <1>3, <1>4, <1>7, <1>8
  <2>4. status = "settled" <=> p.status = "Settled"
    BY <1>9
  <2>5. p.shares > 0 => p.live
    BY <1>3, <1>8
  <2> QED BY <2>2, <2>3, <2>4, <2>5, <1>3, <1>6, <1>7, <1>11
<1>14. unknown <=> Over(p) /\ (p.deposit \/ (p.status = "Void" /\ redemption(p) > 0))
  <2>1. h.held /\ ~h.closed <=> p.live
    BY <1>3, <1>4, <1>7, <1>8
  <2>2. status = "void" /\ h.held /\ ~h.closed /\ (h.shares > 0 \/ h.cost > 0)
        <=> p.status = "Void" /\ redemption(p) > 0
    BY <2>1, <1>3, <1>4, <1>7, <1>8, <1>9, <1>12
  <2>3. status # "running" /\ "closed" \notin F /\ h.deposit /\ ~h.claimed <=> Over(p) /\ p.deposit
    BY <1>3, <1>4, <1>6, <1>7, <1>8, <1>9 DEF Over
  <2>4. ~(status = "settled" /\ ~(F \intersect {"win", "miss"} # {}))
    BY <1>9, <1>10
  <2> QED BY <2>2, <2>3, <2>4 DEF Over
<1>15. won /\ p.status = "Settled" <=> h.closed /\ p.pays /\ p.status = "Settled"
  <2>1. p.pays => p.level > 0
    BY <1>8
  <2> QED BY <2>1, <1>6, <1>7, <1>10
<1> HIDE DEF owed, unknown, won
<1>16. p.status = "Settled" /\ redemption(p) = 0 => (won <=> p.pays)
  BY <1>3, <1>4, <1>7, <1>8, <1>11, <1>15
<1>17. ~h.held /\ h.got > h.paid <=> ~p.bought /\ p.balance > 0
  <2>1. ~p.bought => p.bundled = 0
    BY <1>3, <1>8
  <2>2. h.got - h.paid = p.balance + p.bundled
    BY DEF Told
  <2> QED BY <2>1, <2>2, <1>3, <1>4, <1>7
<1>18. ResultTrue(s, p)
  <2>1. CASE ~Over(p)
    BY <2>1, <1>2, <1>9 DEF ResultTrue, Over
  <2>2. CASE p.status = "Void"
    BY <2>2, <1>2, <1>9, <1>13, <1>14 DEF ResultTrue, Over
  <2>3. CASE p.status = "Settled"
    <3>1. result = IF owed > 0 \/ unknown THEN "unclaimed"
                   ELSE IF won \/ (~h.held /\ h.got > h.paid) THEN "won" ELSE "missed"
      BY <2>3, <1>9
    <3>2. owed > 0 \/ unknown <=> p.deposit \/ redemption(p) > 0
      BY <2>3, <1>13, <1>14 DEF Over
    <3>3. ~(redemption(p) > 0) => redemption(p) = 0
      BY <2>3, <1>11
    <3> HIDE DEF result
    <3> QED BY <3>1, <3>2, <3>3, <2>3, <1>2, <1>16, <1>17 DEF ResultTrue
  <2> QED BY <2>1, <2>2, <2>3, <1>3 DEF Over
<1>19. DayTrue(F, p)
  <2>1. F \intersect {"win", "miss", "void"} = {} <=> ~Over(p)
    <3>1. F \intersect {"win", "miss", "void"} # {} <=> "win" \in F \/ "miss" \in F \/ "void" \in F
      OBVIOUS
    <3> QED BY <3>1, <1>3, <1>6 DEF Over
  <2>2. p.level > 0 => p.status = "Settled"
    BY <1>3 DEF RoundSound, StageSound
  <2>3. ("win" \in F) = (p.level > 0) /\ ("void" \in F) = (p.status = "Void")
        /\ ("closed" \in F) = p.closed
    BY <2>2, <1>3, <1>6
  <2> QED BY <2>1, <2>3 DEF DayTrue, daysOf, Over
<1>20. ScoreTrue(s, p)
  <2>1. s.called <=> p.bought
    BY <1>2, <1>7
  <2>2. s.status = "settled" <=> p.status = "Settled"
    BY <1>2, <1>9
  <2>3. p.status = "Settled" =>
          (s.result = "unclaimed" /\ s.owed = 0 <=> p.deposit /\ ~(redemption(p) > 0))
    <3>1. p.status = "Settled" => (s.result = "unclaimed" <=> p.deposit \/ redemption(p) > 0)
      BY <1>18 DEF ResultTrue
    <3>2. owed = 0 <=> ~(owed > 0)
      <4>1. owed \in Int /\ owed >= 0
        BY <1>4, Coins DEF owed
      <4> QED BY <4>1
    <3> QED BY <3>1, <3>2, <1>2, <1>13
  <2>4. scoreAll(s) # {} <=> s.called /\ s.status = "settled" /\ ~(s.result = "unclaimed" /\ s.owed = 0)
    BY DEF scoreAll
  <2>5. ASSUME NEW e \in scoreAll(s) PROVE e.won = p.pays
    <3>1. s.called /\ s.status = "settled" /\ ~(s.result = "unclaimed" /\ s.owed = 0)
          /\ e.won = (s.result = "won" \/ s.owed > 0)
      BY <2>5 DEF scoreAll
    <3>2. p.bought /\ p.status = "Settled" /\ (p.deposit => redemption(p) > 0)
      BY <3>1, <2>1, <2>2, <2>3
    <3>3. CASE redemption(p) > 0
      <4>1. s.owed > 0
        BY <3>2, <3>3, <1>2, <1>13
      <4>2. p.pays
        BY <3>2, <3>3, <1>3, <1>8, <1>11
      <4> QED BY <3>1, <4>1, <4>2, <1>3
    <3>4. CASE ~(redemption(p) > 0)
      <4>1. ~(s.owed > 0)
        BY <3>4, <1>2, <1>13
      <4>2. s.result = "won" <=> p.pays
        BY <3>2, <3>4, <1>18 DEF ResultTrue
      <4> QED BY <3>1, <4>1, <4>2, <1>3
    <3> QED BY <3>3, <3>4
  <2> QED BY <2>1, <2>2, <2>3, <2>4, <2>5 DEF ScoreTrue
<1> QED BY <1>5, <1>18, <1>19, <1>20 DEF s

-----------------------------------------------------------------------------
(* What holds of chain, facts and cursors in every state.                  *)

\* What was filled in is what the round's account says.
FilledTrue ==
  /\ "closed" \notin filled
  /\ "win" \in filled => program(chain).status = "Settled" /\ program(chain).level > 0
  /\ "miss" \in filled => program(chain).status = "Settled" /\ program(chain).level = 0
  /\ "void" \in filled => program(chain).status = "Void"

\* Below anything read, what the backfill's cursors passed is dealt with.
Above(bf) ==
  \A s \in seen : \A i \in 1 .. s : \/ bf.tail # 0 /\ bf.tail <= i
                                    \/ bf.done /\ BACKFILL_MAX = 0
                                    => DealtWith(i)

SeenSound ==
  /\ Above(saved) /\ Above(back.bf)
  /\ back.at = "take" =>
       /\ \A s \in seen : \A i \in 1 .. s : back.sigs[1] < i => DealtWith(i)
       /\ back.bf.tail # 0 => back.sigs[1] < back.bf.tail
  /\ saved.tail # 0 => back.bf.tail # 0 /\ back.bf.tail <= saved.tail
  /\ back.at # "over" => ~saved.done

HistorySound == Legal /\ FilledTrue /\ SeenSound

-----------------------------------------------------------------------------
(* The chain and what is filled in.                                        *)

\* What is filled in is what the round's account says.
LEMMA FilledSaysTrue ==
  ASSUME LedgerSound, HistorySound, Fill PROVE FilledTrue'
<1> DEFINE f == program(chain)
<1>1. chain' = chain /\ filled' = filled \union (fromLadder(f) \ known)
  BY DEF Fill
<1>2. RoundSound(f)
  <2>1. chain \in Seq(Chained) /\ Len(chain) \in 0 .. Len(chain)
    BY DEF LedgerSound, DiskSound
  <2> QED BY <2>1, RoundsSound DEF program, HistorySound
<1>3. f.level \in Nat /\ program(chain)' = f
  BY <1>1, <1>2 DEF RoundSound, RoundRecord
<1> HIDE DEF f
<1>4. /\ "closed" \notin fromLadder(f)
      /\ "win" \in fromLadder(f) => f.status = "Settled" /\ f.level > 0
      /\ "miss" \in fromLadder(f) => f.status = "Settled" /\ f.level = 0
      /\ "void" \in fromLadder(f) => f.status = "Void"
  BY <1>3 DEF fromLadder
<1>5. FilledTrue
  BY DEF HistorySound
<1> QED BY <1>1, <1>3, <1>4, <1>5 DEF FilledTrue, f

\* A new transaction is one the program runs, and takes back no ending.
LEMMA LegalGoesOn ==
  ASSUME LedgerSound, HistorySound, Finalize PROVE Legal' /\ FilledTrue'
<1>1. PICK k \in allowed(program(chain)) : chain' = Append(chain, k)
  BY DEF Finalize
<1>2. k \in Chained /\ filled' = filled
  BY DEF allowed, Chained, Finalize, diskVars
<1>3. chain \in Seq(Chained) /\ Len(chain) \in Nat \ {0} /\ Legal
  BY DEF LedgerSound, DiskSound, HistorySound
<1> DEFINE n == Len(chain)
           p == program(chain)
<1>4. Len(chain') = n + 1 /\ chain'[n + 1] = k /\ \A i \in 1 .. n : chain'[i] = chain[i]
  BY <1>1, <1>3
<1>5. \A i \in 0 .. n : rounds(chain')[i] = rounds(chain)[i]
  BY <1>1, <1>2, <1>3, RoundsStay
<1>6. p = rounds(chain)[n] /\ RoundSound(p)
  BY <1>3, RoundsSound DEF program
<1>7. Legal'
  <2>1. chain'[1] = "create"
    BY <1>3, <1>4 DEF Legal
  <2>2. ASSUME NEW i \in 1 .. n + 1
        PROVE  chain'[i] = "failed" \/ chain'[i] \in allowed(rounds(chain')[i - 1])
    <3>1. CASE i = n + 1
      <4>1. rounds(chain')[i - 1] = p
        BY <3>1, <1>3, <1>5, <1>6
      <4> QED BY <3>1, <4>1, <1>1, <1>4
    <3>2. CASE i # n + 1
      <4>1. i \in 1 .. n /\ i - 1 \in 0 .. n
        BY <3>2, <1>3
      <4> QED BY <4>1, <1>3, <1>4, <1>5 DEF Legal
    <3> QED BY <3>1, <3>2
  <2> QED BY <2>1, <2>2, <1>4 DEF Legal
<1>8. program(chain') = after(p, k)
  <2>1. Len(chain') \in Nat /\ n + 1 \in 1 .. Len(chain') /\ n + 1 - 1 = n
    BY <1>3, <1>4
  <2>2. rounds(chain')[n + 1] = after(rounds(chain')[n], chain'[n + 1])
    BY <2>1, RoundsAre
  <2>3. rounds(chain')[n] = p
    BY <1>3, <1>5, <1>6
  <2> QED BY <2>2, <2>3, <1>4 DEF program
<1>9. FilledTrue'
  <2>1. /\ p.status \in {"Settled", "Void"} =>
             program(chain').status = p.status /\ program(chain').level = p.level
    BY <1>1, <1>6, <1>8, OverStays DEF Over
  <2>2. FilledTrue
    BY DEF HistorySound
  <2> QED BY <2>1, <2>2, <1>2 DEF FilledTrue
<1> QED BY <1>7, <1>9

-----------------------------------------------------------------------------
(* Nothing is missing below what was read.                                 *)

AboveNext(bf) ==
  \A s \in seen' : \A i \in 1 .. s : \/ bf.tail # 0 /\ bf.tail <= i
                                     \/ bf.done /\ BACKFILL_MAX = 0
                                     => DealtWith(i)'

\* Going on with a page.
LEMMA ProceedSees ==
  ASSUME SeenSound, LedgerSound, ~saved.done,
         NEW bf \in Cursor, ~bf.done, AboveNext(bf), AboveNext(saved),
         NEW sigs, NEW short \in BOOLEAN,
         sigs # <<>> => /\ \A s \in seen' : \A i \in 1 .. s : sigs[1] < i => DealtWith(i)'
                        /\ bf.tail # 0 => sigs[1] < bf.tail,
         short /\ sigs = <<>> => \A s \in seen' : \A i \in 1 .. s : DealtWith(i)',
         saved.tail # 0 => bf.tail # 0 /\ bf.tail <= saved.tail,
         proceed(bf, sigs, short)
  PROVE  SeenSound'
<1>0. saved \in Cursor
  BY DEF LedgerSound, DiskSound
<1>1. CASE sigs # <<>> /\ ~full(bf)
  <2>1. back' = [at |-> "take", bf |-> bf, sigs |-> sigs, short |-> short] /\ saved' \in {bf, saved}
    BY <1>1 DEF proceed
  <2>2. back'.at = "take" /\ back'.bf = bf /\ back'.sigs = sigs
    BY <2>1
  <2>3. Above(saved)' /\ Above(back.bf)'
    BY <2>1, <2>2 DEF Above, AboveNext
  <2>4. /\ saved'.tail # 0 => bf.tail # 0 /\ bf.tail <= saved'.tail
        /\ ~saved'.done
    BY <2>1 DEF Cursor
  <2> QED BY <2>2, <2>3, <2>4, <1>1 DEF SeenSound
<1>2. CASE ~(sigs # <<>> /\ ~full(bf))
  <2> DEFINE over == [bf EXCEPT !.done = short \/ full(bf)]
  <2>1. back' = [at |-> IF over.done THEN "over" ELSE "page", bf |-> over, sigs |-> <<>>, short |-> FALSE]
        /\ saved' = over
    BY <1>2 DEF proceed, started
  <2>2. over \in Cursor /\ over.tail = bf.tail /\ over.done = (short \/ full(bf))
    <3>1. full(bf) \in BOOLEAN
      BY DEF full
    <3> QED BY <3>1 DEF Cursor
  <2>3. ASSUME BACKFILL_MAX = 0, over.done, NEW s \in seen', NEW i \in 1 .. s PROVE DealtWith(i)'
    BY <1>2, <2>2, <2>3 DEF full
  <2>4. AboveNext(over)
    BY <2>2, <2>3 DEF AboveNext
  <2> HIDE DEF over
  <2>5. Above(saved)' /\ Above(back.bf)'
    BY <2>1, <2>4 DEF Above, AboveNext
  <2>6. over.tail \in Nat /\ over.done \in BOOLEAN
    BY <2>2 DEF Cursor
  <2>7. back'.at = (IF over.done THEN "over" ELSE "page") /\ back'.bf = over
    BY <2>1
  <2> QED BY <2>1, <2>5, <2>6, <2>7 DEF SeenSound
<1> QED BY <1>1, <1>2

\* What is dealt with stays so, under every cursor.
LEMMA AboveMore ==
  ASSUME chain' = chain, seen' = seen, passed \subseteq passed', cut \subseteq cut', NEW bf, Above(bf)
  PROVE  AboveNext(bf)
BY StaysDealtWith DEF Above, AboveNext

\* A page begins below everything the backfill's cursor has passed.
LEMMA PageSees == ASSUME LedgerSound, SeenSound, BackfillPage PROVE SeenSound'
<1> DEFINE tail == back.bf.tail
           below == IF tail = 0 THEN Len(chain) + 1 ELSE tail
           sigs == page(0, below)
           short == Len(sigs) < PAGE
<1>0. /\ chain' = chain /\ seen' = seen /\ passed' = passed /\ cut' = cut
      /\ proceed(back.bf, sigs, short) /\ back.at = "page"
  BY DEF BackfillPage, ghostVars
<1>1. /\ chain \in Seq(Chained) /\ Len(chain) \in Nat /\ back.bf \in Cursor /\ tail \in Nat
      /\ tail <= Len(chain) /\ ~back.bf.done /\ PAGE \in Nat \ {0} /\ ~saved.done
      /\ \A s \in seen : s \in Nat /\ s <= Len(chain)
  BY <1>0, LedgerConstants DEF LedgerSound, DiskSound, BackSound, Cursor, SeenSound
<1>2. below \in 1 .. Len(chain) + 1
  BY <1>1
<1>3. /\ sigs \in Seq(Nat)
      /\ Len(sigs) = IF below - 1 <= 0 THEN 0 ELSE IF below - 1 <= PAGE THEN below - 1 ELSE PAGE
      /\ \A k \in 1 .. Len(sigs) : sigs[k] = below - k
  <2> HIDE DEF below
  <2>1. /\ page(0, below) \in Seq(Nat)
        /\ Len(page(0, below)) = IF below - 1 - 0 <= 0 THEN 0
                                 ELSE IF below - 1 - 0 <= PAGE THEN below - 1 - 0 ELSE PAGE
        /\ \A k \in 1 .. Len(page(0, below)) :
             page(0, below)[k] = below - k /\ page(0, below)[k] \in 0 + 1 .. Len(chain)
    BY <1>1, <1>2, PageIsARun
  <2> HIDE DEF sigs
  <2>2. sigs = page(0, below)
    BY DEF sigs
  <2> QED BY <2>1, <2>2, <1>1, <1>2
<1> HIDE DEF below, sigs
<1>4. AboveNext(back.bf) /\ AboveNext(saved)
  BY <1>0, AboveMore DEF SeenSound
<1>5. ASSUME NEW s \in seen', NEW i \in 1 .. s, i >= below PROVE DealtWith(i)'
  <2>1. tail # 0 /\ tail <= i
    BY <1>0, <1>1, <1>5 DEF below
  <2> QED BY <2>1, <1>4, <1>5 DEF AboveNext
<1>6. sigs # <<>> => sigs[1] = below - 1
  BY <1>3
<1>7. sigs # <<>> => /\ \A s \in seen' : \A i \in 1 .. s : sigs[1] < i => DealtWith(i)'
                     /\ tail # 0 => sigs[1] < tail
  <2>1. ASSUME sigs # <<>>, NEW s \in seen', NEW i \in 1 .. s, sigs[1] < i PROVE DealtWith(i)'
    <3>1. i >= below
      BY <2>1, <1>0, <1>1, <1>2, <1>6
    <3> QED BY <3>1, <2>1, <1>5
  <2>2. sigs # <<>> /\ tail # 0 => sigs[1] < tail
    BY <1>1, <1>6 DEF below
  <2> QED BY <2>1, <2>2
<1>8. short /\ sigs = <<>> => \A s \in seen' : \A i \in 1 .. s : DealtWith(i)'
  <2>1. sigs = <<>> => below = 1
    BY <1>1, <1>2, <1>3
  <2>2. ASSUME below = 1, NEW s \in seen', NEW i \in 1 .. s PROVE DealtWith(i)'
    <3>1. i >= below
      BY <2>2, <1>0, <1>1
    <3> QED BY <3>1, <1>5
  <2> QED BY <2>1, <2>2
<1>9. saved.tail # 0 => tail # 0 /\ tail <= saved.tail
  BY DEF SeenSound
<1>10. short \in BOOLEAN
  OBVIOUS
<1> HIDE DEF short
<1> QED BY <1>0, <1>1, <1>4, <1>7, <1>8, <1>9, <1>10, ProceedSees

\* What is read is below its cursors, or has nothing missing beneath it.
LEMMA TakeSees == ASSUME LedgerSound, SeenSound, BackfillTake PROVE SeenSound'
<1>s. PICK s : s = Head(back.sigs)
  OBVIOUS
<1> DEFINE bf == moved(back.bf, s)
           rest == Tail(back.sigs)
<1>0. /\ chain' = chain /\ passed' = passed /\ cut' = cut
      /\ seen' = (IF chain[s] = "failed" THEN seen ELSE seen \union {s})
      /\ proceed(bf, rest, back.short) /\ back.at = "take"
  BY <1>s DEF BackfillTake, ghostVars
<1>1. /\ Len(chain) \in Nat /\ saved \in Cursor
      /\ back.bf \in Cursor /\ ~back.bf.done /\ back.short \in BOOLEAN /\ ~saved.done
      /\ back.sigs # <<>> /\ Falling(back.sigs)
      /\ back.short => back.sigs[Len(back.sigs)] = 1
      /\ \A t \in seen : t \in Nat
  BY <1>0 DEF LedgerSound, DiskSound, BackSound, SeenSound
<1>2. /\ s = back.sigs[1] /\ s \in 1 .. Len(chain) /\ s \in Nat /\ s # 0
      /\ rest # <<>> => rest[1] = s - 1 /\ rest[Len(rest)] = back.sigs[Len(back.sigs)]
      /\ rest = <<>> => back.sigs[Len(back.sigs)] = s
  BY <1>s, <1>1, RunsOn
<1>3. /\ \A t \in seen : \A i \in 1 .. t : s < i => DealtWith(i)
      /\ back.bf.tail # 0 => s < back.bf.tail
      /\ saved.tail # 0 => back.bf.tail # 0 /\ back.bf.tail <= saved.tail
      /\ Above(saved)
  BY <1>0, <1>2 DEF SeenSound
<1> HIDE DEF rest
<1>4. bf \in Cursor /\ bf.tail = s /\ ~bf.done
  BY <1>1, <1>2, MovedOn
<1> HIDE DEF bf
<1>5. /\ seen \subseteq seen' /\ seen' \subseteq seen \union {s} /\ DealtWith(s)'
      /\ \A i : DealtWith(i) => DealtWith(i)'
  <2>1. seen \subseteq seen' /\ seen' \subseteq seen \union {s}
    BY <1>0
  <2>2. chain'[s] = "failed" \/ s \in seen'
    BY <1>0
  <2> QED BY <2>1, <2>2, <1>0 DEF DealtWith
<1>6. ASSUME NEW t \in seen', NEW i \in 1 .. t, s <= i PROVE DealtWith(i)'
  <2>1. CASE i = s
    BY <2>1, <1>5
  <2>2. CASE i # s
    <3>1. t \in seen
      <4>1. t = s => i <= s
        BY <1>2
      <4>2. t # s
        BY <2>2, <4>1, <1>2, <1>6
      <4> QED BY <4>2, <1>5
    <3>2. t \in Nat /\ s < i
      BY <3>1, <2>2, <1>1, <1>2, <1>6
    <3> QED BY <3>1, <3>2, <1>3, <1>5
  <2> QED BY <2>1, <2>2
<1>7. AboveNext(bf)
  BY <1>4, <1>6 DEF AboveNext
<1>8. AboveNext(saved)
  <2> SUFFICES ASSUME NEW t \in seen', NEW i \in 1 .. t, saved.tail # 0, saved.tail <= i PROVE DealtWith(i)'
    BY <1>1 DEF AboveNext
  <2>1. s <= i
    <3>1. t \in Nat
      BY <1>1, <1>2, <1>5
    <3>2. saved.tail \in Nat /\ back.bf.tail \in Nat
      BY <1>1 DEF Cursor
    <3> QED BY <3>1, <3>2, <1>2, <1>3
  <2> QED BY <2>1, <1>6
<1>9. rest # <<>> => /\ \A t \in seen' : \A i \in 1 .. t : rest[1] < i => DealtWith(i)'
                     /\ bf.tail # 0 => rest[1] < bf.tail
  <2>1. ASSUME rest # <<>>, NEW t \in seen', NEW i \in 1 .. t, rest[1] < i PROVE DealtWith(i)'
    <3>1. s <= i
      <4>1. t \in Nat
        BY <1>1, <1>2, <1>5
      <4> QED BY <4>1, <2>1, <1>2
    <3> QED BY <3>1, <1>6
  <2>2. rest # <<>> => rest[1] < s
    BY <1>2
  <2> QED BY <2>1, <2>2, <1>4
<1>10. back.short /\ rest = <<>> => \A t \in seen' : \A i \in 1 .. t : DealtWith(i)'
  <2>1. back.short /\ rest = <<>> => s = 1
    BY <1>1, <1>2
  <2>2. ASSUME s = 1, NEW t \in seen', NEW i \in 1 .. t PROVE DealtWith(i)'
    <3>1. t \in Nat
      BY <1>1, <1>2, <1>5
    <3> QED BY <3>1, <2>2, <1>6
  <2> QED BY <2>1, <2>2
<1>11. saved.tail # 0 => bf.tail # 0 /\ bf.tail <= saved.tail
  <2>1. saved.tail \in Nat /\ back.bf.tail \in Nat
    BY <1>1 DEF Cursor
  <2> QED BY <2>1, <1>2, <1>3, <1>4
<1> QED BY <1>0, <1>1, <1>4, <1>7, <1>8, <1>9, <1>10, <1>11, ProceedSees

\* What is passed over is let go.
LEMMA UnservedSees == ASSUME LedgerSound, SeenSound, BackfillUnserved PROVE SeenSound'
<1>s. PICK s : s = Head(back.sigs)
  OBVIOUS
<1> DEFINE bf == back.bf
           rest == Tail(back.sigs)
<1>0. /\ chain' = chain /\ seen' = seen /\ cut' = cut /\ passed' = passed \union {s}
      /\ proceed(bf, rest, back.short) /\ back.at = "take"
  BY <1>s DEF BackfillUnserved
<1>1. /\ Len(chain) \in Nat /\ saved \in Cursor
      /\ bf \in Cursor /\ ~bf.done /\ back.short \in BOOLEAN /\ ~saved.done
      /\ back.sigs # <<>> /\ Falling(back.sigs)
      /\ back.short => back.sigs[Len(back.sigs)] = 1
      /\ \A t \in seen : t \in Nat
  BY <1>0 DEF LedgerSound, DiskSound, BackSound, SeenSound
<1>2. /\ s = back.sigs[1] /\ s \in 1 .. Len(chain) /\ s \in Nat /\ s # 0
      /\ rest # <<>> => rest[1] = s - 1 /\ rest[Len(rest)] = back.sigs[Len(back.sigs)]
      /\ rest = <<>> => back.sigs[Len(back.sigs)] = s
  BY <1>s, <1>1, RunsOn
<1>3. /\ \A t \in seen : \A i \in 1 .. t : s < i => DealtWith(i)
      /\ bf.tail # 0 => s < bf.tail
      /\ saved.tail # 0 => bf.tail # 0 /\ bf.tail <= saved.tail
      /\ Above(saved) /\ Above(bf)
  BY <1>0, <1>2 DEF SeenSound
<1> HIDE DEF rest
<1>5. DealtWith(s)' /\ \A i : DealtWith(i) => DealtWith(i)'
  BY <1>0 DEF DealtWith
<1>6. ASSUME NEW t \in seen', NEW i \in 1 .. t, s <= i PROVE DealtWith(i)'
  <2>1. CASE i = s
    BY <2>1, <1>5
  <2>2. CASE i # s
    <3>1. t \in seen /\ t \in Nat /\ s < i
      BY <2>2, <1>0, <1>1, <1>2, <1>6
    <3> QED BY <3>1, <1>3, <1>5
  <2> QED BY <2>1, <2>2
<1>7. AboveNext(bf) /\ AboveNext(saved)
  <2>1. passed \subseteq passed' /\ cut \subseteq cut'
    BY <1>0
  <2> QED BY <2>1, <1>0, <1>3, AboveMore
<1>9. rest # <<>> => /\ \A t \in seen' : \A i \in 1 .. t : rest[1] < i => DealtWith(i)'
                     /\ bf.tail # 0 => rest[1] < bf.tail
  <2>1. ASSUME rest # <<>>, NEW t \in seen', NEW i \in 1 .. t, rest[1] < i PROVE DealtWith(i)'
    <3>1. s <= i
      <4>1. t \in Nat
        BY <1>0, <1>1
      <4> QED BY <4>1, <2>1, <1>2
    <3> QED BY <3>1, <1>6
  <2>2. bf.tail \in Nat
    BY <1>1 DEF Cursor
  <2>3. rest # <<>> /\ bf.tail # 0 => rest[1] < bf.tail
    BY <2>2, <1>2, <1>3
  <2> QED BY <2>1, <2>3
<1>10. back.short /\ rest = <<>> => \A t \in seen' : \A i \in 1 .. t : DealtWith(i)'
  <2>1. back.short /\ rest = <<>> => s = 1
    BY <1>1, <1>2
  <2>2. ASSUME s = 1, NEW t \in seen', NEW i \in 1 .. t PROVE DealtWith(i)'
    <3>1. t \in Nat
      BY <1>0, <1>1
    <3> QED BY <3>1, <2>2, <1>6
  <2> QED BY <2>1, <2>2
<1> QED BY <1>0, <1>1, <1>3, <1>7, <1>9, <1>10, ProceedSees

\* Reading one more, with everything below it and beyond the head let go.
LEMMA NewlySeen ==
  ASSUME LedgerSound, chain' = chain, passed' = passed, cut \subseteq cut', seen \subseteq seen',
         NEW s \in Nat, seen' \subseteq seen \union {s},
         \A i \in 1 .. s : i <= head \/ DealtWith(i)', NEW bf, Above(bf), Covers(bf)
  PROVE  AboveNext(bf)
<1> SUFFICES ASSUME NEW t \in seen', NEW i \in 1 .. t, \/ bf.tail # 0 /\ bf.tail <= i
                                                       \/ bf.done /\ BACKFILL_MAX = 0
             PROVE  DealtWith(i)'
  BY DEF AboveNext
<1>0. head \in Nat /\ passed \subseteq passed'
  BY DEF LedgerSound, DiskSound
<1>1. CASE t \in seen
  <2>1. DealtWith(i)
    BY <1>1 DEF Above
  <2> QED BY <2>1, <1>0, StaysDealtWith
<1>2. CASE t = s
  <2>1. CASE i <= head
    <3>1. i \in 1 .. head
      BY <2>1, <1>0, <1>2
    <3>2. DealtWith(i)
      BY <3>1 DEF Covers
    <3> QED BY <3>2, <1>0, StaysDealtWith
  <2>2. CASE ~(i <= head)
    BY <2>2, <1>2
  <2> QED BY <2>1, <2>2
<1> QED BY <1>1, <1>2

\* What the poll is about to read lies beyond the head, and what is between was let go.
LEMMA PollNext ==
  ASSUME LedgerSound, poll.at = "take", NEW s, s = Head(poll.fresh)
  PROVE  s \in Nat /\ head \in Nat /\ head < s /\ \A i \in 1 .. s : i <= head \/ i \in cut \/ i = s
<1>1. /\ head \in 0 .. Len(chain) /\ poll.fresh # <<>> /\ Rising(poll.fresh) /\ head < poll.fresh[1]
      /\ head + 1 .. poll.fresh[1] - 1 \subseteq cut
  BY DEF LedgerSound, DiskSound, PollSound
<1>2. poll.fresh \in Seq(Nat) /\ s = poll.fresh[1] /\ s \in Nat
  <2>1. poll.fresh \in Seq(Nat)
    BY <1>1 DEF Rising
  <2> QED BY <2>1, <1>1
<1>3. ASSUME NEW i \in 1 .. s, ~(i <= head), i # s PROVE i \in cut
  <2>1. i \in head + 1 .. s - 1
    BY <1>1, <1>2, <1>3
  <2> QED BY <2>1, <1>1, <1>2
<1> QED BY <1>1, <1>2, <1>3

\* The backfill does not see what the poll does to what it reads.
LEMMA PollTakeSees == ASSUME LedgerSound, SeenSound, PollTake PROVE SeenSound'
<1>s. PICK s : s = Head(poll.fresh)
  OBVIOUS
<1>0. /\ chain' = chain /\ passed' = passed /\ cut' = cut /\ saved' = saved /\ back' = back
      /\ seen' = (IF chain[s] = "failed" THEN seen ELSE seen \union {s}) /\ poll.at = "take"
  BY <1>s DEF PollTake, ghostVars
<1>1. s \in Nat /\ head \in Nat /\ head < s /\ \A i \in 1 .. s : i <= head \/ i \in cut \/ i = s
  BY <1>s, <1>0, PollNext
<1>2. seen \subseteq seen' /\ seen' \subseteq seen \union {s} /\ DealtWith(s)'
  BY <1>0 DEF DealtWith
<1>3. \A i : DealtWith(i) => DealtWith(i)'
  BY <1>0, <1>2 DEF DealtWith
<1>4. \A i \in 1 .. s : i <= head \/ DealtWith(i)'
  BY <1>0, <1>1, <1>2 DEF DealtWith
<1>5. Covers(saved) /\ Covers(back.bf) /\ Above(saved) /\ Above(back.bf)
  BY DEF LedgerSound, DiskSound, BackSound, SeenSound
<1>6. AboveNext(saved) /\ AboveNext(back.bf)
  BY <1>0, <1>1, <1>2, <1>4, <1>5, NewlySeen
<1>7. Above(saved)' /\ Above(back.bf)'
  BY <1>0, <1>6 DEF Above, AboveNext
<1>8. ASSUME back.at = "take", NEW t \in seen', NEW i \in 1 .. t, back.sigs[1] < i PROVE DealtWith(i)'
  <2>1. CASE t \in seen
    BY <2>1, <1>3, <1>8 DEF SeenSound
  <2>2. CASE t = s
    <3>1. CASE i <= head
      <4>1. i \in 1 .. head
        BY <3>1, <2>2, <1>1
      <4>2. DealtWith(i)
        BY <4>1, <1>8 DEF LedgerSound, BackSound
      <4> QED BY <4>2, <1>3
    <3>2. CASE ~(i <= head)
      BY <3>2, <2>2, <1>4
    <3> QED BY <3>1, <3>2
  <2> QED BY <2>1, <2>2, <1>2
<1> QED BY <1>0, <1>7, <1>8 DEF SeenSound

\* Steps that read nothing and move no cursor.
LEMMA StillSees ==
  ASSUME SeenSound, chain' = chain, seen' = seen, saved' = saved, back' = back,
         passed \subseteq passed', cut \subseteq cut'
  PROVE  SeenSound'
<1>1. Above(saved)' /\ Above(back.bf)'
  <2>1. AboveNext(saved) /\ AboveNext(back.bf)
    BY AboveMore DEF SeenSound
  <2> QED BY <2>1 DEF Above, AboveNext
<1>2. \A i : DealtWith(i) => DealtWith(i)'
  BY DEF DealtWith
<1> QED BY <1>1, <1>2 DEF SeenSound

\* Asking for a page reads nothing.
LEMMA PollPageSees == ASSUME LedgerSound, SeenSound, PollPage PROVE SeenSound'
<1>1. /\ chain' = chain /\ seen' = seen /\ saved' = saved /\ back' = back /\ passed' = passed
      /\ cut \subseteq cut'
  BY DEF PollPage, diskVars
<1> QED BY <1>1, StillSees

\* Starting over from the saved cursor.
LEMMA StartsOverSeeing ==
  ASSUME LedgerSound, SeenSound, chain' = chain, saved' = saved, back' = started(saved), AboveNext(saved)
  PROVE  SeenSound'
<1>1. saved \in Cursor
  BY DEF LedgerSound, DiskSound
<1>2. saved.tail \in Nat /\ saved.done \in BOOLEAN
  BY <1>1 DEF Cursor
<1>3. back'.at = (IF saved.done THEN "over" ELSE "page") /\ back'.bf = saved
  BY DEF started
<1>4. Above(saved)' /\ Above(back.bf)'
  BY <1>3 DEF Above, AboveNext
<1> QED BY <1>2, <1>3, <1>4 DEF SeenSound

\* A loop that starts over does so from a cursor that is sound.
LEMMA FailsSees == ASSUME LedgerSound, SeenSound, BackfillFails PROVE SeenSound'
<1>1. /\ chain' = chain /\ seen' = seen /\ saved' = saved /\ passed' = passed /\ cut' = cut
      /\ back' = started(saved)
  BY DEF BackfillFails, diskVars, ghostVars
<1>2. AboveNext(saved)
  BY <1>1, AboveMore DEF SeenSound
<1> QED BY <1>1, <1>2, StartsOverSeeing

\* A transaction written as the process died is below the saved cursor, or just
\* beyond the head.
LEMMA RestartSees == ASSUME LedgerSound, SeenSound, Restart PROVE SeenSound'
<1>1. /\ chain' = chain /\ saved' = saved /\ passed' = passed /\ cut' = cut /\ back' = started(saved)
  BY DEF Restart, ghostVars
<1>2. PICK last \in {{}} \union (IF back.at = "take" THEN {{Head(back.sigs)}} ELSE {})
                        \union (IF poll.at = "take" THEN {{Head(poll.fresh)}} ELSE {}) :
        seen' = seen \union {s \in last : chain[s] # "failed"}
  BY DEF Restart
<1>3. seen \subseteq seen' /\ \A i : DealtWith(i) => DealtWith(i)'
  BY <1>1, <1>2 DEF DealtWith
<1>4. Above(saved) /\ Covers(saved) /\ saved \in Cursor
  BY DEF SeenSound, LedgerSound, DiskSound
<1>5. CASE last = {}
  <2>1. seen' = seen
    BY <1>2, <1>5
  <2>2. AboveNext(saved)
    BY <2>1, <1>1, <1>4, AboveMore
  <2> QED BY <2>2, <1>1, StartsOverSeeing
<1>6. CASE back.at = "take" /\ last = {Head(back.sigs)}
  <2>1. PICK s : s = Head(back.sigs)
    OBVIOUS
  <2>2. s = back.sigs[1] /\ s \in Nat /\ back.bf \in Cursor
    BY <2>1, <1>6, RunsOn DEF LedgerSound, BackSound
  <2>3. seen' \subseteq seen \union {s}
    BY <1>2, <1>6, <2>1
  <2>4. /\ back.bf.tail # 0 => s < back.bf.tail
        /\ saved.tail # 0 => back.bf.tail # 0 /\ back.bf.tail <= saved.tail
        /\ ~saved.done
    BY <2>2, <1>6 DEF SeenSound
  <2>5. ASSUME NEW t \in seen', NEW i \in 1 .. t, saved.tail # 0, saved.tail <= i PROVE DealtWith(i)'
    <3>1. CASE t \in seen
      BY <3>1, <2>5, <1>3, <1>4 DEF Above
    <3>2. CASE t = s
      <4>1. saved.tail \in Nat /\ back.bf.tail \in Nat
        BY <2>2, <1>4 DEF Cursor
      <4> QED BY <4>1, <3>2, <2>2, <2>4, <2>5
    <3> QED BY <3>1, <3>2, <2>3
  <2>6. AboveNext(saved)
    BY <2>4, <2>5 DEF AboveNext
  <2> QED BY <2>6, <1>1, StartsOverSeeing
<1>7. CASE poll.at = "take" /\ last = {Head(poll.fresh)}
  <2>1. PICK s : s = Head(poll.fresh)
    OBVIOUS
  <2>2. s \in Nat /\ head \in Nat /\ head < s /\ \A i \in 1 .. s : i <= head \/ i \in cut \/ i = s
    BY <2>1, <1>7, PollNext
  <2>3. seen' \subseteq seen \union {s} /\ (chain[s] = "failed" \/ s \in seen')
    BY <1>2, <1>7, <2>1
  <2>4. \A i \in 1 .. s : i <= head \/ DealtWith(i)'
    BY <2>2, <2>3, <1>1 DEF DealtWith
  <2>5. AboveNext(saved)
    BY <2>2, <2>3, <2>4, <1>1, <1>3, <1>4, NewlySeen
  <2> QED BY <2>5, <1>1, StartsOverSeeing
<1> QED BY <1>2, <1>5, <1>6, <1>7

\* A new transaction is beyond everything read.
LEMMA FinalizeSees == ASSUME LedgerSound, SeenSound, Finalize PROVE SeenSound'
<1>1. seen' = seen /\ saved' = saved /\ back' = back /\ passed' = passed /\ cut' = cut
  BY DEF Finalize, diskVars, ghostVars
<1>2. PICK k \in allowed(program(chain)) : chain' = Append(chain, k)
  BY DEF Finalize
<1>3. chain \in Seq(Chained) /\ \A s \in seen : s \in 1 .. Len(chain)
  BY DEF LedgerSound, DiskSound
<1>4. k \in Chained
  BY DEF allowed, Chained
<1>5. \A i \in 1 .. Len(chain) : chain'[i] = chain[i]
  BY <1>2, <1>3, <1>4
<1>6. ASSUME NEW s \in seen, NEW i \in 1 .. s, DealtWith(i) PROVE DealtWith(i)'
  <2>1. i \in 1 .. Len(chain)
    BY <1>3
  <2> QED BY <2>1, <1>1, <1>5, <1>6 DEF DealtWith
<1>7. Above(saved)' /\ Above(back.bf)'
  BY <1>1, <1>6 DEF Above, SeenSound
<1> QED BY <1>1, <1>6, <1>7 DEF SeenSound

-----------------------------------------------------------------------------

\* The invariant of complete histories: it holds at first, every step keeps it,
\* and it makes a complete history true.
LEMMA HistoryStarts == Init => HistorySound
<1> SUFFICES ASSUME Init PROVE HistorySound
  OBVIOUS
<1>1. /\ seen = {} /\ filled = {} /\ saved = NoCursor
      /\ back = [at |-> "page", bf |-> NoCursor, sigs |-> <<>>, short |-> FALSE]
  BY DEF Init, started, NoCursor
<1>2. SeenSound /\ FilledTrue
  BY <1>1 DEF SeenSound, Above, NoCursor, FilledTrue
<1>3. chain = <<"create">> \/ chain = <<"create", "failed">>
  BY DEF Init
<1>4. Len(chain) \in {1, 2} /\ chain[1] = "create" /\ (Len(chain) = 2 => chain[2] = "failed")
  BY <1>3
<1>5. "create" \in allowed(rounds(chain)[0])
  <2>1. rounds(chain)[0] = NoRound
    BY <1>4, RoundsAre
  <2> QED BY <2>1 DEF allowed, Kinds, NoRound
<1>6. Legal
  BY <1>4, <1>5 DEF Legal
<1> QED BY <1>2, <1>6 DEF HistorySound

LEMMA HistorySteps == LedgerSound /\ HistorySound /\ [Next]_vars => HistorySound'
<1> SUFFICES ASSUME LedgerSound, HistorySound, [Next]_vars PROVE HistorySound'
  OBVIOUS
<1>0. Legal /\ FilledTrue /\ SeenSound
  BY DEF HistorySound
<1>1. ASSUME chain' = chain PROVE Legal'
  BY <1>0, <1>1 DEF Legal
<1>2. ASSUME chain' = chain, filled' = filled PROVE Legal' /\ FilledTrue'
  BY <1>0, <1>1, <1>2 DEF FilledTrue
<1>3. CASE UNCHANGED vars
  <2>1. chain' = chain /\ filled' = filled /\ seen' = seen /\ saved' = saved /\ back' = back
        /\ passed' = passed /\ cut' = cut
    BY <1>3 DEF vars
  <2> QED BY <2>1, <1>0, <1>2, StillSees DEF HistorySound
<1>4. CASE Finalize
  BY <1>0, <1>4, LegalGoesOn, FinalizeSees DEF HistorySound
<1>5. CASE BackfillPage
  <2>1. chain' = chain /\ filled' = filled
    BY <1>5 DEF BackfillPage
  <2> QED BY <2>1, <1>0, <1>2, <1>5, PageSees DEF HistorySound
<1>6. CASE BackfillTake
  <2>1. chain' = chain /\ filled' = filled
    BY <1>6 DEF BackfillTake
  <2> QED BY <2>1, <1>0, <1>2, <1>6, TakeSees DEF HistorySound
<1>7. CASE BackfillUnserved
  <2>1. chain' = chain /\ filled' = filled
    BY <1>7 DEF BackfillUnserved
  <2> QED BY <2>1, <1>0, <1>2, <1>7, UnservedSees DEF HistorySound
<1>8. CASE BackfillFails
  <2>1. chain' = chain /\ filled' = filled
    BY <1>8 DEF BackfillFails, diskVars
  <2> QED BY <2>1, <1>0, <1>2, <1>8, FailsSees DEF HistorySound
<1>9. CASE PollPage
  <2>1. chain' = chain /\ filled' = filled
    BY <1>9 DEF PollPage, diskVars
  <2> QED BY <2>1, <1>0, <1>2, <1>9, PollPageSees DEF HistorySound
<1>10. CASE PollTake
  <2>1. chain' = chain /\ filled' = filled
    BY <1>10 DEF PollTake
  <2> QED BY <2>1, <1>0, <1>2, <1>10, PollTakeSees DEF HistorySound
<1>11. CASE PollStops
  <2>1. chain' = chain /\ filled' = filled /\ seen' = seen /\ saved' = saved /\ back' = back
        /\ passed' = passed /\ cut' = cut
    BY <1>11 DEF PollStops, diskVars, ghostVars
  <2> QED BY <2>1, <1>0, <1>2, StillSees DEF HistorySound
<1>12. CASE Fill
  <2>1. chain' = chain /\ seen' = seen /\ saved' = saved /\ back' = back /\ passed' = passed /\ cut' = cut
    BY <1>12 DEF Fill, ghostVars
  <2> QED BY <2>1, <1>0, <1>1, <1>12, FilledSaysTrue, StillSees DEF HistorySound
<1>13. CASE Restart
  <2>1. chain' = chain /\ filled' = filled
    BY <1>13 DEF Restart
  <2> QED BY <2>1, <1>0, <1>2, <1>13, RestartSees DEF HistorySound
<1> QED
  BY <1>3, <1>4, <1>5, <1>6, <1>7, <1>8, <1>9, <1>10, <1>11, <1>12, <1>13 DEF Next

-----------------------------------------------------------------------------
(* A complete history.                                                     *)

\* The reach of a complete history: what was read is all there is up to it, and
\* nothing beyond it.
LEMMA ReachIs ==
  ASSUME LedgerSound, HistorySound, Complete
  PROVE  /\ reach \in 1 .. Len(chain)
         /\ \A n \in 1 .. reach : n \in seen \/ chain[n] = "failed"
         /\ \A s \in seen : s <= reach
<1> DEFINE A == {i \in Txs : \A j \in 1 .. i : Read(j)}
<1>1. /\ Txs = 1 .. Len(chain) /\ Len(chain) \in Nat \ {0} /\ head \in 0 .. Len(chain)
      /\ \A s \in seen : s \in 1 .. Len(chain)
  BY TxsAre DEF LedgerSound, DiskSound
<1>2. ASSUME NEW i, DealtWith(i) PROVE Read(i)
  BY <1>2 DEF DealtWith, Read, Complete, GivenUp
<1>3. Read(1)
  <2>1. head # 0
    BY DEF LedgerSound, BackSound, Complete
  <2>2. 1 \in 1 .. head
    BY <2>1, <1>1
  <2>3. DealtWith(1)
    BY <2>2 DEF LedgerSound, DiskSound, Covers, Complete
  <2> QED BY <2>3, <1>2
<1>4. 1 \in A
  BY <1>1, <1>3
<1>5. PICK m \in A : \A i \in A : i <= m
  <2> DEFINE T == {Len(chain) - i : i \in A}
  <2>1. T \subseteq Nat /\ T # {}
    BY <1>1, <1>4
  <2>2. PICK x \in T : \A y \in T : x <= y
    <3> HIDE DEF T
    <3> QED BY <2>1, LeastNumber
  <2>3. PICK i \in A : x = Len(chain) - i
    BY <2>2
  <2>4. ASSUME NEW j \in A PROVE j <= i
    <3>1. Len(chain) - i <= Len(chain) - j
      BY <2>2, <2>3
    <3> QED BY <3>1, <1>1
  <2> QED BY <2>4
<1>6. reach = Max(A)
  BY DEF reach
<1>7. reach \in A /\ \A i \in A : i <= reach
  <2>1. A \subseteq Int
    BY <1>1
  <2>2. \A i \in A : m >= i
    BY <2>1, <1>5
  <2> HIDE DEF A
  <2>3. Max(A) \in A /\ \A i \in A : Max(A) >= i
    BY <2>2 DEF Max
  <2> QED BY <2>1, <2>3, <1>6
<1>8. reach \in 1 .. Len(chain) /\ \A j \in 1 .. reach : Read(j)
  BY <1>1, <1>7
<1>9. ASSUME NEW s \in seen PROVE s <= reach
  <2>1. s \in Txs
    BY <1>1
  <2>2. ASSUME NEW i \in 1 .. s PROVE Read(i)
    <3>1. DealtWith(i)
      BY DEF HistorySound, SeenSound, Above, Complete
    <3> QED BY <3>1, <1>2
  <2>3. s \in A
    BY <2>1, <2>2
  <2> QED BY <2>3, <1>7
<1> QED BY <1>8, <1>9 DEF Read

\* Such a history knows the facts up to its reach, and what was filled in.
LEMMA KnownIs ==
  ASSUME LedgerSound, HistorySound, Complete
  PROVE  known = filled \union EventsTo(reach)
<1> DEFINE events == UNION {facts(chain[i]) : i \in seen}
<1>1. \A n \in 1 .. reach : n \in seen \/ chain[n] = "failed"
  BY ReachIs
<1>2. \A s \in seen : s \in 1 .. reach
  <2>1. \A s \in seen : s <= reach /\ s \in 1 .. Len(chain)
    BY ReachIs DEF LedgerSound, DiskSound
  <2>2. reach \in Nat
    BY ReachIs
  <2> QED BY <2>1, <2>2
<1>3. facts("failed") = {}
  BY FailedIsNothing
<1>4. events = EventsTo(reach)
  BY <1>1, <1>2, <1>3 DEF EventsTo
<1> QED BY <1>4 DEF known

\* A round whose ending was filled in before its transaction was read: summary and
\* day are those of the moment it ended, when the deposit was still to be claimed.
LEMMA EndedSince ==
  ASSUME LedgerSound, HistorySound, Complete, ~Over(rounds(chain)[reach]),
         known \intersect {"win", "miss", "void"} # {}
  PROVE  \E n \in reach .. Len(chain) :
           ResultTrue(History, rounds(chain)[n]) /\ DayTrue(known, rounds(chain)[n])
<1> DEFINE p == rounds(chain)[reach]
           f == program(chain)
           Ends == {n \in Nat : n \in reach .. Len(chain) /\ Over(rounds(chain)[n])}
<1>1. /\ chain \in Seq(Chained) /\ Len(chain) \in Nat /\ Legal /\ FilledTrue
      /\ reach \in 1 .. Len(chain)
      /\ filled \subseteq {"terms", "grid", "win", "miss", "void"}
  BY ReachIs DEF LedgerSound, DiskSound, HistorySound
<1>2. /\ RoundSound(p) /\ EndsAs(EventsTo(reach), p) /\ p.status # "None"
      /\ \A n \in 1 .. Len(chain) : RoundSound(rounds(chain)[n])
  BY <1>1, RoundsSound
<1>3. f = rounds(chain)[Len(chain)]
  BY DEF program
<1>4. known = filled \union EventsTo(reach)
  BY KnownIs
<1>5. "win" \notin EventsTo(reach) /\ "miss" \notin EventsTo(reach) /\ "void" \notin EventsTo(reach)
      /\ "closed" \notin EventsTo(reach)
  <2>1. ~p.closed
    BY <1>2 DEF RoundSound, StageSound
  <2> QED BY <2>1, <1>2 DEF EndsAs, Over
<1>6. /\ "win" \in known => f.status = "Settled" /\ f.level > 0
      /\ "miss" \in known => f.status = "Settled" /\ f.level = 0
      /\ "void" \in known => f.status = "Void"
      /\ "closed" \notin known
      /\ "win" \in known \/ "miss" \in known \/ "void" \in known
  BY <1>1, <1>4, <1>5 DEF FilledTrue
<1>7. f.level \in Nat
  BY <1>1, <1>2, <1>3 DEF RoundSound, RoundRecord
<1>8. /\ "win" \in known <=> f.status = "Settled" /\ f.level > 0
      /\ "miss" \in known <=> f.status = "Settled" /\ f.level = 0
      /\ "void" \in known <=> f.status = "Void"
      /\ Over(f)
  BY <1>6, <1>7 DEF Over
<1>9. Ends \subseteq Nat /\ Len(chain) \in Ends
  BY <1>1, <1>3, <1>8
<1>10. PICK n \in Ends : \A i \in Ends : n <= i
  <2> HIDE DEF Ends
  <2> QED BY <1>9, LeastNumber
<1>11. n \in reach .. Len(chain) /\ Over(rounds(chain)[n]) /\ n # reach /\ n - 1 \in reach .. Len(chain)
  BY <1>1, <1>10
<1>12. ~Over(rounds(chain)[n - 1])
  <2>1. n - 1 \in Nat /\ ~(n <= n - 1)
    BY <1>1, <1>11
  <2>2. n - 1 \notin Ends
    BY <2>1, <1>10
  <2> QED BY <2>1, <2>2, <1>11
<1> DEFINE q == rounds(chain)[n]
<1>13. q.deposit /\ ~q.closed
  <2>1. n \in 1 .. Len(chain) /\ n - 1 \in 1 .. Len(chain)
    BY <1>1, <1>11
  <2>2. q = after(rounds(chain)[n - 1], chain[n]) /\ RoundSound(rounds(chain)[n - 1])
    BY <2>1, <1>1, <1>2, RoundsAre
  <2>3. chain[n] = "failed" \/ chain[n] \in allowed(rounds(chain)[n - 1])
    BY <2>1, <1>1 DEF Legal
  <2> QED BY <2>2, <2>3, <1>11, <1>12, FailedIsNothing, OverStays
<1>14. q.status = f.status /\ q.level = f.level /\ Over(q) /\ RoundSound(q)
  <2>1. n \in 0 .. Len(chain) /\ n \in 1 .. Len(chain) /\ Len(chain) \in n .. Len(chain)
    BY <1>1, <1>11
  <2> QED BY <2>1, <1>1, <1>2, <1>3, <1>11, OverForGood
<1>15. Told(p, tally)
  <2>1. reach \in 0 .. Len(chain)
    BY <1>1
  <2> QED BY <2>1, <1>1, ReachIs, PrefixTold
<1>16. tally.deposit = TRUE /\ tally.claimed = FALSE
  <2>1. p.deposit
    BY <1>2 DEF RoundSound, StageSound
  <2>2. tally.deposit \in BOOLEAN /\ tally.claimed \in BOOLEAN
    BY <1>15 DEF Told, TallyRecord
  <2> QED BY <2>1, <2>2, <1>2, <1>15 DEF Told
<1> HIDE DEF p, f, q, Ends
<1>17. statusOf(tally, known) = IF q.status = "Void" THEN "void" ELSE "settled"
  <2>1. q.status = "Settled" => "win" \in known \/ "miss" \in known
    BY <1>6, <1>8, <1>14
  <2> QED BY <2>1, <1>8, <1>14 DEF statusOf, Over
<1>18. ResultTrue(History, q)
  <2>1. History.result = "unclaimed"
    <3>1. statusOf(tally, known) # "running"
      BY <1>17
    <3> QED BY <3>1, <1>6, <1>16 DEF History, summarize
  <2> QED BY <2>1, <1>13, <1>14 DEF ResultTrue, Over
<1>19. DayTrue(known, q)
  <2>1. q.level > 0 => q.status = "Settled"
    BY <1>14, <1>7 DEF RoundSound, StageSound
  <2>2. ("win" \in known) = (q.level > 0) /\ ("void" \in known) = (q.status = "Void")
        /\ ("closed" \in known) = FALSE
    BY <2>1, <1>6, <1>8, <1>14
  <2>3. q.closed \in BOOLEAN
    BY <1>14 DEF RoundSound, RoundRecord
  <2>4. q.closed = FALSE
    BY <2>3, <1>13
  <2> QED BY <2>2, <2>4, <1>14 DEF DayTrue, daysOf, Over
<1> QED BY <1>11, <1>18, <1>19 DEF q

LEMMA SoundIsTrue == LedgerSound /\ HistorySound => HistoryTrue
<1> SUFFICES ASSUME LedgerSound, HistorySound, Complete
             PROVE  /\ MoneyTrue(History, rounds(chain)[reach])
                    /\ \E n \in reach .. Len(chain) : ResultTrue(History, rounds(chain)[n])
                    /\ \E n \in reach .. Len(chain) : DayTrue(known, rounds(chain)[n])
                    /\ filled \subseteq EventsTo(reach) => ScoreTrue(History, rounds(chain)[reach])
  BY DEF HistoryTrue, EventsTo
<1> DEFINE p == rounds(chain)[reach]
<1>1. /\ chain \in Seq(Chained) /\ Len(chain) \in Nat /\ Legal /\ FilledTrue
      /\ reach \in 1 .. Len(chain) /\ reach \in 0 .. Len(chain) /\ reach \in reach .. Len(chain)
      /\ filled \subseteq {"terms", "grid", "win", "miss", "void"}
  BY ReachIs DEF LedgerSound, DiskSound, HistorySound
<1>2. RoundSound(p) /\ EndsAs(EventsTo(reach), p)
  BY <1>1, RoundsSound
<1>3. Told(p, tally)
  BY <1>1, ReachIs, PrefixTold
<1>4. known = filled \union EventsTo(reach)
  BY KnownIs
<1>5. MoneyTrue(History, p)
  <2>1. History.got = tally.got /\ History.paid = tally.paid
    BY DEF History, summarize
  <2> QED BY <2>1, <1>3 DEF MoneyTrue, Told
<1>6. CASE EndsAs(known, p)
  BY <1>1, <1>2, <1>3, <1>5, <1>6, SummaryIs DEF History
<1>7. CASE ~EndsAs(known, p)
  <2>1. ~Over(p)
    <3> SUFFICES ASSUME Over(p) PROVE EndsAs(known, p)
      BY <1>7
    <3>1. program(chain).status = p.status /\ program(chain).level = p.level
      BY <1>1, OverForGood DEF program
    <3> QED BY <3>1, <1>1, <1>2, <1>4 DEF FilledTrue, EndsAs
  <2>2. known \intersect {"win", "miss", "void"} # {} /\ ~(filled \subseteq EventsTo(reach))
    <3>1. filled \subseteq EventsTo(reach) => known = EventsTo(reach)
      BY <1>4
    <3>2. ~(filled \subseteq EventsTo(reach))
      BY <3>1, <1>2, <1>7
    <3>3. known \intersect {"win", "miss", "void"} = {} => EndsAs(known, p)
      <4> SUFFICES ASSUME known \intersect {"win", "miss", "void"} = {} PROVE EndsAs(known, p)
        OBVIOUS
      <4>1. "win" \notin known /\ "miss" \notin known /\ "void" \notin known
        OBVIOUS
      <4>2. "closed" \in known <=> "closed" \in EventsTo(reach)
        BY <1>1, <1>4
      <4> QED BY <4>1, <4>2, <1>2, <2>1 DEF EndsAs, Over
    <3> QED BY <3>2, <3>3, <1>7
  <2> QED BY <2>1, <2>2, <1>5, EndedSince
<1> QED BY <1>6, <1>7

\* A history said to be complete is true, whatever was paged, polled, passed over,
\* interrupted or filled in on the way: its money, result, score and day are those of
\* the round's own accounts (infra/ledger's rows and summaries), for every amount,
\* page and number of transactions.
THEOREM HistoryTrueHolds == Spec => []HistoryTrue
<1> QED
  BY Starts, Steps, HistoryStarts, HistorySteps, SoundIsTrue, PTL DEF Spec
=============================================================================
