------------------------------ MODULE SimProofs ------------------------------
(***************************************************************************)
(* What the simulator's two files are worth, for fleets, amounts and       *)
(* faults of any number: no day's top-ups pass the allowance (NetCapped),  *)
(* and whatever a wallet holds is in the journal (Journaled).              *)
(*                                                                         *)
(* The money: what left on a day, and what is on its way or given up on    *)
(* and booked that day, is within the allowance; for today it is within    *)
(* what is booked.  The journal: a send given up on that may still land    *)
(* has its entry in the journal until the round is over, or is known to be *)
(* lost sight of, and a collect in hand names all there is to collect.     *)
(***************************************************************************)
EXTENDS Sim, BookLemmas, SequenceTheorems

SolOps == {"fund", "reclaim", "retire"}
Brings == {"buy", "start", "join"}
Over == round \in {"final", "closed"}
Days == 0 .. DAYS

Parts == UNION {[P -> Nat] : P \in SUBSET Wallets}
Jobs == [op : SolOps \union Brings \union {"collect"}, part : Parts,
         items : Seq(SUBSET Items), day : Days]

\* A job as it is made: whose it is, and what it carries.
Made(j) ==
  /\ j \in Jobs
  /\ j.op \notin SolOps => /\ \E w \in Wallets : DOMAIN j.part = {w}
                           /\ j.items # <<>>
  /\ j.op \in Brings => Len(j.items) = 1

\* A return out of the allowance's account, and a top-up: what it costs its day.
cost(j, d) == IF j.op = "fund" /\ j.day = d THEN sumOf(j.part) + FEE ELSE 0

WorldSound ==
  /\ day \in Days
  /\ round \in {"none", "seeding", "open", "final", "closed"}
  /\ sol \in [Wallets -> Nat] /\ holds \in [Wallets -> SUBSET Items]
  /\ journal \in [Wallets -> SUBSET Items] /\ lost \in [Wallets -> SUBSET Items]
  /\ bal \in [Wallets -> Nat] /\ net \in [Days -> Int]
  /\ spent \in Nat /\ spent_day \in 0 .. day /\ faults \in Nat

ProcessSound ==
  /\ at \in {"down", "choose", "send", "confirm"}
  /\ stage \in {"none", "turn", "rent", "reclaim", "collect", "retire"}
  /\ cur \in {"none", "flying", "landed", "failed", "dead"}
  /\ cur # "none" <=> at = "confirm"
  /\ looks \in 0 .. 1
  /\ job = None <=> at \in {"down", "choose"}
  /\ job # None => Made(job) /\ job.day <= day
  /\ who \subseteq Wallets /\ todo \subseteq Wallets /\ touched \subseteq Wallets
  /\ retired \subseteq Wallets
  /\ stage = "reclaim" => \A w \in todo : bal[w] > RECLAIM

OrphansSound ==
  /\ IsFiniteSet(orphans)
  /\ \A o \in orphans : /\ o = <<o[1], o[2]>> /\ o[2] \in Nat /\ o[2] < faults
                        /\ Made(o[1]) /\ o[1].day <= day

Sound == WorldSound /\ ProcessSound /\ OrphansSound

-----------------------------------------------------------------------------
(* The money.                                                              *)

\* On its way, and what may yet land of a day's top-ups.
underway(d) == IF job # None /\ (at = "send" \/ cur = "flying") THEN cost(job, d) ELSE 0
astray(d) == SumFunctionOnSet([o \in orphans |-> cost(o[1], d)], orphans)
out(d) == net[d] + underway(d) + astray(d)

\* Still booked, though it is back or did not go: until the send's end is seen.
unseen ==
  IF cur = "landed" /\ job.op \in {"reclaim", "retire"} THEN sumOf(job.part)
  ELSE IF cur = "failed" /\ job.op = "fund" /\ job.day = day THEN sumOf(job.part) ELSE 0

MoneySound ==
  /\ \A d \in Days : out(d) <= DAILY
  /\ \A d \in Days : d > day => net[d] = 0
  /\ out(day) + unseen <= Spent \/ out(day) <= 0

-----------------------------------------------------------------------------
(* The journal.                                                            *)

\* What a wallet got that its journal does not name yet; what a collect still fetches.
coming(w) == IF cur = "landed" /\ job.op \in Brings /\ w = owner(job) THEN Head(job.items) ELSE {}
fetched == UNION Range(IF cur = "landed" THEN Tail(job.items) ELSE job.items)

OrphansKnown ==
  \A o \in orphans : o[1].op \in Brings =>
    Over \/ Head(o[1].items) \subseteq journal[owner(o[1])] \union lost[owner(o[1])]
HoldsKnown == \A w \in Wallets : holds[w] \subseteq journal[w] \union lost[w] \union coming(w)
CollectKnown ==
  job # None /\ job.op = "collect" => Over /\ holds[owner(job)] \subseteq lost[owner(job)] \union fetched

JournalSound == OrphansKnown /\ HoldsKnown /\ CollectKnown

-----------------------------------------------------------------------------
(* Jobs and what they cost.                                                *)

LEMMA Amounts ==
  /\ MIN \in Nat /\ TARGET \in Nat /\ RECLAIM \in Nat /\ DAILY \in Nat /\ FEE \in Nat /\ RENT \in Nat
  /\ DAYS \in Nat /\ FAULTS \in Nat /\ PACK \in Nat /\ MIN <= TARGET /\ TARGET <= RECLAIM
  /\ IsFiniteSet(Wallets) /\ ACTIVE \subseteq Wallets /\ RETIRING \subseteq Wallets
BY SimConstants DEF Wallets

LEMMA JobFacts ==
  ASSUME NEW j, Made(j)
  PROVE  /\ j # None
         /\ j.part \in [DOMAIN j.part -> Nat] /\ DOMAIN j.part \subseteq Wallets
         /\ sumOf(j.part) \in Nat
         /\ \A d \in Days : cost(j, d) \in Nat
<1>1. j \in Jobs
  BY DEF Made
<1>2. PICK P \in SUBSET Wallets : j.part \in [P -> Nat]
  BY <1>1 DEF Jobs, Parts
<1>3. DOMAIN j.part = P /\ IsFiniteSet(P)
  BY <1>2, FS_Subset, Amounts
<1>4. sumOf(j.part) \in Nat
  BY <1>2, <1>3, SumNat DEF sumOf
<1>5. j # None
  <2>1. j.op # "none"
    BY <1>1 DEF Jobs, SolOps, Brings
  <2> QED BY <2>1 DEF None
<1> QED BY <1>2, <1>3, <1>4, <1>5, Amounts DEF cost

LEMMA OwnerFacts ==
  ASSUME NEW j, Made(j), j.op \notin SolOps
  PROVE  /\ owner(j) \in Wallets /\ DOMAIN j.part = {owner(j)}
         /\ j.items \in Seq(SUBSET Items) /\ j.items # <<>>
         /\ Head(j.items) \subseteq Items
         /\ Tail(j.items) \in Seq(SUBSET Items)
         /\ UNION Range(j.items) \subseteq Items
         /\ Head(j.items) \subseteq UNION Range(j.items)
<1>1. PICK w \in Wallets : DOMAIN j.part = {w}
  BY DEF Made
<1>2. owner(j) = w
  BY <1>1 DEF owner
<1>3. j.items \in Seq(SUBSET Items) /\ j.items # <<>>
  BY DEF Made, Jobs
<1>4. /\ Head(j.items) \in SUBSET Items /\ Tail(j.items) \in Seq(SUBSET Items)
      /\ Head(j.items) = j.items[1] /\ 1 \in DOMAIN j.items
      /\ DOMAIN j.items = 1 .. Len(j.items)
  BY <1>3
<1>5. \A i \in 1 .. Len(j.items) : j.items[i] \in SUBSET Items
  BY <1>3
<1> QED BY <1>1, <1>2, <1>3, <1>4, <1>5 DEF Range

LEMMA AstrayNat ==
  ASSUME OrphansSound, NEW d \in Days
  PROVE  astray(d) \in Nat
BY JobFacts, SumNat DEF OrphansSound, astray

LEMMA AstrayAdd ==
  ASSUME OrphansSound, NEW d \in Days, Made(job), faults \in Nat,
         orphans' = orphans \union {<<job, faults>>}
  PROVE  astray(d)' = astray(d) + cost(job, d)
<1> DEFINE f == [o \in orphans |-> cost(o[1], d)]
           g == [o \in orphans' |-> cost(o[1], d)]
           y == <<job, faults>>
<1>1. y \notin orphans
  BY DEF OrphansSound
<1>2. \A o \in orphans : f[o] \in Int
  BY JobFacts DEF OrphansSound
<1>6. \A o \in orphans : g[o] = f[o]
  OBVIOUS
<1>3. g[y] = cost(job, d) /\ g[y] \in Int
  BY JobFacts
<1>4. IsFiniteSet(orphans)
  BY DEF OrphansSound
<1> HIDE DEF f, g, y
<1>5. SumFunctionOnSet(g, orphans \union {y}) = SumFunctionOnSet(f, orphans) + g[y]
  <2>1. y \notin orphans BY <1>1
  <2>2. \A o \in orphans : f[o] \in Int BY <1>2
  <2>3. \A o \in orphans : g[o] = f[o] BY <1>6
  <2>4. g[y] \in Int BY <1>3
  <2>5. IsFiniteSet(orphans) BY <1>4
  <2> QED BY <2>1, <2>2, <2>3, <2>4, <2>5, SumCreated
<1>7. astray(d)' = SumFunctionOnSet(g, orphans \union {y})
  BY DEF astray, g, y
<1>8. astray(d) = SumFunctionOnSet(f, orphans)
  BY DEF astray, f
<1> QED BY <1>3, <1>5, <1>7, <1>8

LEMMA AstrayTake ==
  ASSUME OrphansSound, NEW d \in Days, NEW y \in orphans, orphans' = orphans \ {y}
  PROVE  astray(d)' = astray(d) - cost(y[1], d)
<1> DEFINE f == [o \in orphans |-> cost(o[1], d)]
           g == [o \in orphans' |-> cost(o[1], d)]
<1>1. \A o \in orphans : f[o] \in Int
  BY JobFacts DEF OrphansSound
<1>2. \A o \in orphans \ {y} : g[o] = f[o]
  OBVIOUS
<1>3. f[y] = cost(y[1], d) /\ IsFiniteSet(orphans)
  BY DEF OrphansSound
<1>4. astray(d) = SumFunctionOnSet(f, orphans)
  BY DEF astray
<1>5. astray(d)' = SumFunctionOnSet(g, orphans \ {y})
  BY DEF astray
<1> HIDE DEF f, g
<1>6. SumFunctionOnSet(g, orphans \ {y}) = SumFunctionOnSet(f, orphans) - f[y]
  BY <1>1, <1>2, <1>3, SumClosed
<1> QED BY <1>3, <1>4, <1>5, <1>6

-----------------------------------------------------------------------------
(* Sound is kept.                                                          *)

LEMMA SoundInit == Init => Sound
<1> SUFFICES ASSUME Init PROVE Sound
  OBVIOUS
<1>1. PICK x \in FUNDED, h \in {{}, Items} :
        /\ sol = [w \in Wallets |-> IF w \in ACTIVE THEN x ELSE RENT]
        /\ holds = [w \in Wallets |-> IF w \in RETIRING THEN h ELSE {}]
        /\ round = IF h = {} \/ RETIRING = {} THEN "none" ELSE "open"
  BY DEF Init
<1>2. WorldSound
  <2>1. sol \in [Wallets -> Nat]
    BY <1>1, Amounts, SimConstants
  <2>2. holds \in [Wallets -> SUBSET Items] /\ journal \in [Wallets -> SUBSET Items]
    BY <1>1 DEF Init
  <2>3. lost \in [Wallets -> SUBSET Items] /\ bal \in [Wallets -> Nat] /\ net \in [Days -> Int]
    BY DEF Init, Nobody, Days
  <2> QED BY <1>1, <2>1, <2>2, <2>3, Amounts DEF Init, WorldSound, Days
<1>4. ProcessSound
  BY DEF Init, ProcessSound
<1>3. OrphansSound
  BY FS_EmptySet DEF Init, OrphansSound
<1> QED BY <1>2, <1>3, <1>4 DEF Sound

LEMMA BookSound ==
  ASSUME WorldSound, NEW x \in Int, Book(x)
  PROVE  Spent \in Nat /\ spent' \in Nat /\ spent_day' = day /\ spent' >= Spent + x
BY DEF WorldSound, Book, Spent

\* How a job is made.
Opened == /\ Made(job)' /\ job' # None /\ job'.day <= day
          /\ at' = "send" /\ cur' = "none" /\ looks' = 0

LEMMA SendMade ==
  ASSUME WorldSound, NEW op, NEW part \in Parts, NEW items \in Seq(SUBSET Items),
         Send(op, part, items),
         \/ op \in SolOps
         \/ /\ op \in Brings \union {"collect"} /\ items # <<>>
            /\ \E w \in Wallets : DOMAIN part = {w}
            /\ op \in Brings => Len(items) = 1
  PROVE  /\ Opened
         /\ job'.op = op /\ job'.part = part /\ job'.items = items
         /\ job'.day = IF op = "fund" THEN day ELSE 0
<1>1. job' = [op |-> op, part |-> part, items |-> items, day |-> IF op = "fund" THEN day ELSE 0]
  BY DEF Send
<1>2. job' \in Jobs
  BY <1>1, Amounts DEF Jobs, WorldSound, Days, SolOps, Brings
<1>3. Made(job')
  BY <1>1, <1>2 DEF Made, SolOps, Brings
<1>4. job' # None
  BY <1>3, JobFacts
<1>5. job'.day <= day
  BY <1>1, Amounts DEF WorldSound, Days
<1> QED BY <1>1, <1>3, <1>4, <1>5 DEF Send, Opened

LEMMA OneParts ==
  ASSUME NEW w \in Wallets
  PROVE  [v \in {w} |-> 0] \in Parts /\ DOMAIN [v \in {w} |-> 0] = {w}
<1>1. {w} \in SUBSET Wallets /\ [v \in {w} |-> 0] \in [{w} -> Nat]
  OBVIOUS
<1> QED BY <1>1 DEF Parts

\* The items of a sequence made of a set.
LEMMA SeqOfSet ==
  ASSUME NEW S, IsFiniteSet(S)
  PROVE  SetToSeq(S) \in Seq(S) /\ Range(SetToSeq(S)) = S
<1> DEFINE n == Cardinality(S)
<1>1. n \in Nat /\ ExistsBijection(1 .. n, S)
  BY FS_CardinalityType
<1>2. PICK b \in Bijection(1 .. n, S) : TRUE
  BY <1>1 DEF ExistsBijection
<1>3. b \in [1 .. n -> S] /\ IsInjective(b)
  BY <1>2 DEF Bijection, Injection, IsInjective
<1>4. SetToSeq(S) \in [1 .. n -> S] /\ IsInjective(SetToSeq(S))
  BY <1>3 DEF SetToSeq
<1> DEFINE f == SetToSeq(S)
<1> HIDE DEF f
<1>5. f \in Injection(1 .. n, S)
  BY <1>4 DEF Injection, f
<1>6. f \in Surjection(1 .. n, S)
  <2>1. Cardinality(1 .. n) = n
    BY <1>1, FS_Interval
  <2>2. IsFiniteSet(S) /\ Cardinality(1 .. n) = Cardinality(S)
    BY <2>1
  <2> QED BY <1>5, <2>2, FS_Injection
<1>7. f \in [1 .. n -> S] /\ \A t \in S : \E i \in 1 .. n : f[i] = t
  BY <1>6 DEF Surjection
<1>8. f \in Seq(S)
  BY <1>1, <1>7
<1>9. Range(f) = S
  BY <1>7 DEF Range
<1> QED BY <1>8, <1>9 DEF f

\* A step of the process that leaves the chain alone.
LEMMA Quiet ==
  ASSUME WorldSound, UNCHANGED <<worldVars, historyVars>>,
         journal' \in [Wallets -> SUBSET Items], bal' \in [Wallets -> Nat],
         spent' \in Nat, spent_day' \in {spent_day, day}, faults' \in {faults, faults + 1}
  PROVE  WorldSound'
BY DEF WorldSound, worldVars, historyVars

LEMMA SameOrphans ==
  ASSUME WorldSound, OrphansSound, UNCHANGED orphans, faults' \in {faults, faults + 1},
         day' \in {day, day + 1}, day' \in Days
  PROVE  OrphansSound'
<1>1. IsFiniteSet(orphans') /\ day' >= day /\ faults' >= faults /\ {day, day'} \subseteq Int
      /\ {faults, faults'} \subseteq Nat
  <2>1. day \in Days /\ faults \in Nat /\ IsFiniteSet(orphans)
    BY DEF WorldSound, OrphansSound
  <2>2. day \in Nat /\ day' \in Nat
    BY <2>1, Amounts DEF Days
  <2>3. faults' \in Nat /\ faults' >= faults /\ day' >= day
    BY <2>1, <2>2
  <2>4. IsFiniteSet(orphans')
    BY <2>1
  <2> QED BY <2>1, <2>2, <2>3, <2>4
<1>2. ASSUME NEW o \in orphans'
      PROVE  /\ o = <<o[1], o[2]>> /\ o[2] \in Nat /\ o[2] < faults'
             /\ Made(o[1]) /\ o[1].day <= day'
  <2>1. /\ o = <<o[1], o[2]>> /\ o[2] \in Nat /\ o[2] < faults
        /\ Made(o[1]) /\ o[1].day <= day
    BY DEF OrphansSound
  <2>2. o[1].day \in Int
    BY <2>1, Amounts DEF Made, Jobs, Days
  <2> QED BY <1>1, <2>1, <2>2
<1> QED BY <1>1, <1>2 DEF OrphansSound, Made

LEMMA OrphanAdded ==
  ASSUME Sound, job # None, Fault, day' = day, orphans' = orphans \union {<<job, faults>>}
  PROVE  OrphansSound'
<1>1. IsFiniteSet(orphans')
  BY FS_AddElement DEF Sound, OrphansSound
<1>2. Made(job) /\ job.day <= day /\ faults \in Nat /\ faults' = faults + 1
  BY DEF Sound, ProcessSound, WorldSound, Fault
<1>3. \A o \in orphans : /\ o = <<o[1], o[2]>> /\ o[2] \in Nat /\ o[2] < faults
                         /\ Made(o[1]) /\ o[1].day <= day
  BY DEF Sound, OrphansSound
<1>4. ASSUME NEW o \in orphans'
      PROVE  /\ o = <<o[1], o[2]>> /\ o[2] \in Nat /\ o[2] < faults'
             /\ Made(o[1]) /\ o[1].day <= day'
  <2>1. CASE o \in orphans
    BY <2>1, <1>2, <1>3
  <2>2. CASE o = <<job, faults>>
    BY <2>2, <1>2
  <2> QED BY <2>1, <2>2
<1> QED BY <1>1, <1>4 DEF OrphansSound, Made

\* A collect is made for a wallet whose round is due, and names all there is of it.
LEMMA CollectStep ==
  ASSUME WorldSound, NEW w \in Wallets, collectAction(w)
  PROVE  \/ Rest /\ Forget(w) /\ journal[w] \intersect holds[w] = {}
         \/ /\ Opened /\ UNCHANGED journal
            /\ job'.op = "collect" /\ DOMAIN job'.part = {w}
            /\ UNION Range(job'.items) = journal[w] \intersect holds[w]
<1> DEFINE there == journal[w] \intersect holds[w]
           one == {{i} : i \in there}
<1>1. CASE there = {}
  BY <1>1 DEF collectAction
<1>2. CASE there # {}
  <2>1. there \in SUBSET Items /\ one \in SUBSET (SUBSET Items)
    BY DEF WorldSound
  <2>2. IsFiniteSet(one)
    <3>1. IsFiniteSet({{}, {"line"}, {"deposit"}, Items})
      <4>1. IsFiniteSet({{}}) /\ IsFiniteSet({{"line"}})
        BY FS_Singleton
      <4>2. IsFiniteSet({{"deposit"}}) /\ IsFiniteSet({Items})
        BY FS_Singleton
      <4>3. IsFiniteSet({{}} \union {{"line"}}) /\ IsFiniteSet({{"deposit"}} \union {Items})
        BY <4>1, <4>2, FS_Union
      <4>4. IsFiniteSet(({{}} \union {{"line"}}) \union ({{"deposit"}} \union {Items}))
        BY <4>3, FS_Union
      <4>5. {{}, {"line"}, {"deposit"}, Items} = ({{}} \union {{"line"}}) \union ({{"deposit"}} \union {Items})
        OBVIOUS
      <4> QED BY <4>4, <4>5
    <3>2. one \subseteq {{}, {"line"}, {"deposit"}, Items}
      BY <2>1 DEF Items
    <3> QED BY <3>1, <3>2, FS_Subset
  <2>3. /\ SetToSeq(one) \in Seq(SUBSET Items) /\ Range(SetToSeq(one)) = one
        /\ UNION Range(SetToSeq(one)) = there /\ SetToSeq(one) # <<>>
    <3>1. SetToSeq(one) \in Seq(one) /\ Range(SetToSeq(one)) = one
      BY <2>2, SeqOfSet
    <3>2. UNION one = there
      OBVIOUS
    <3>3. \A q \in Seq(one) : q \in Seq(SUBSET Items)
      BY <2>1
    <3>4. UNION Range(<<>>) = {}
      BY DEF Range
    <3> QED BY <3>1, <3>2, <3>3, <3>4, <1>2
  <2>4. <<there>> \in Seq(SUBSET Items) /\ UNION Range(<<there>>) = there /\ <<there>> # <<>>
    <3>1. <<there>> \in Seq(SUBSET Items) /\ <<there>> # <<>>
      BY <2>1
    <3>2. Range(<<there>>) = {there}
      BY DEF Range
    <3> QED BY <3>1, <3>2
  <2>5. PICK items \in {<<there>>, SetToSeq(one)} :
          Send("collect", [v \in {w} |-> 0], items) /\ UNCHANGED journal
    BY <1>2 DEF collectAction
  <2>6. /\ [v \in {w} |-> 0] \in Parts /\ DOMAIN [v \in {w} |-> 0] = {w}
        /\ items \in Seq(SUBSET Items) /\ items # <<>> /\ UNION Range(items) = there
    BY <2>3, <2>4, OneParts
  <2> DEFINE part == [v \in {w} |-> 0]
  <2> HIDE DEF there, one, part
  <2>7. Opened /\ job'.op = "collect" /\ job'.part = part /\ job'.items = items
    <3>1. /\ part \in Parts /\ items \in Seq(SUBSET Items) /\ Send("collect", part, items)
          /\ "collect" \notin Brings /\ items # <<>> /\ \E v \in Wallets : DOMAIN part = {v}
      BY <2>5, <2>6 DEF Brings, part
    <3> QED BY <3>1, SendMade
  <2> QED BY <2>5, <2>6, <2>7 DEF part, there
<1> QED BY <1>1, <1>2

\* Between two sends: the next one is made, none is, or the process does not get there yet.
LEMMA ChooseSound ==
  ASSUME Sound, at = "choose", UNCHANGED <<worldVars, historyVars, orphans, faults>>,
         Opened \/ Rest \/ UNCHANGED <<at, job, sendVars>>,
         journal' \in [Wallets -> SUBSET Items], bal' \in [Wallets -> Nat],
         spent' \in Nat, spent_day' \in {spent_day, day},
         stage' \in {"none", "turn", "rent", "reclaim", "collect", "retire"},
         who' \subseteq Wallets, todo' \subseteq Wallets, touched' \subseteq Wallets,
         retired' \subseteq Wallets,
         stage' = "reclaim" => \A w \in todo' : bal'[w] > RECLAIM
  PROVE  Sound'
<1>1. WorldSound'
  BY Quiet DEF Sound
<1>2. OrphansSound'
  <2>1. day' = day /\ day' \in Days /\ UNCHANGED orphans /\ faults' \in {faults, faults + 1}
    BY DEF Sound, WorldSound, worldVars
  <2> QED BY <2>1, SameOrphans DEF Sound
<1>3. job = None /\ cur = "none" /\ looks \in 0 .. 1 /\ day' = day
  BY DEF Sound, ProcessSound, worldVars
<1>4. /\ at' \in {"choose", "send"} /\ cur' = "none" /\ looks' \in 0 .. 1
      /\ job' = None <=> at' = "choose"
      /\ job' # None => Made(job)' /\ job'.day <= day'
  <2>1. CASE Opened
    BY <2>1, <1>3 DEF Opened
  <2>2. CASE Rest
    BY <2>2, <1>3 DEF Rest, sendVars
  <2>3. CASE UNCHANGED <<at, job, sendVars>>
    BY <2>3, <1>3 DEF sendVars
  <2> QED BY <2>1, <2>2, <2>3
<1>5. ProcessSound'
  BY <1>4 DEF ProcessSound
<1> QED BY <1>1, <1>2, <1>5 DEF Sound

\* What the end of a send does to the files.
LEMMA AfterBooks ==
  ASSUME Sound, job # None, NEW result, After(result)
  PROVE  /\ spent' \in Nat /\ spent_day' \in {spent_day, day}
         /\ journal' \in [Wallets -> SUBSET Items] /\ retired' \subseteq Wallets
<1>1. Made(job) /\ WorldSound
  BY DEF Sound, ProcessSound
<1>2. sumOf(job.part) \in Nat /\ DOMAIN job.part \subseteq Wallets
  BY <1>1, JobFacts
<1>3. spent \in Nat /\ day \in Nat
  BY <1>1, Amounts DEF WorldSound, Days
<1>4. spent' \in Nat /\ spent_day' \in {spent_day, day}
  <2>1. CASE job.op = "fund"
    <3>1. Release(result)
      BY <2>1 DEF After
    <3>2. releases(result) \in Int
      BY <1>2, Amounts DEF releases
    <3> QED BY <1>1, <1>3, <3>1, <3>2, BookSound DEF Release
  <2>2. CASE job.op # "fund"
    <3> DEFINE x == FEE - (IF result = "ok" /\ job.op # "collect" THEN sumOf(job.part) ELSE 0)
    <3>1. Book(x) \/ UNCHANGED <<spent, spent_day>>
      BY <2>2 DEF After
    <3>2. x \in Int
      BY <1>2, Amounts
    <3> QED BY <1>1, <1>3, <3>1, <3>2, BookSound
  <2> QED BY <2>1, <2>2
<1>5. journal' \in [Wallets -> SUBSET Items]
  <2>1. journal \in [Wallets -> SUBSET Items]
    BY <1>1 DEF WorldSound
  <2>2. CASE job.op \in Brings
    <3>1. UNION Range(job.items) \subseteq Items
      BY <1>1, <2>2, OwnerFacts DEF Brings, SolOps
    <3>2. \E held \in {{}, UNION Range(job.items)} :
            journal' = [journal EXCEPT ![owner(job)] = @ \union held]
      BY <2>2 DEF After, Brings
    <3> QED BY <2>1, <3>1, <3>2
  <2>3. CASE job.op \notin Brings
    <3>1. journal' = [journal EXCEPT ![owner(job)] = {}] \/ journal' = journal
      BY <2>3 DEF After, Brings
    <3> QED BY <2>1, <3>1
  <2> QED BY <2>2, <2>3
<1>6. retired' \subseteq Wallets
  <2>1. retired' = retired \union DOMAIN job.part \/ retired' = retired
    BY DEF After
  <2> QED BY <1>2, <2>1 DEF Sound, ProcessSound
<1> QED BY <1>4, <1>5, <1>6

\* More than one collect in hand: the next one goes out; else the process is free again.
LEMMA AfterJob ==
  ASSUME Sound, job # None, NEW result, After(result)
  PROVE  \/ /\ job.op = "collect" /\ result = "ok" /\ Len(job.items) > 1
            /\ job' = [job EXCEPT !.items = Tail(@)] /\ Opened /\ UNCHANGED journal
         \/ /\ ~(job.op = "collect" /\ result = "ok" /\ Len(job.items) > 1)
            /\ at' = "choose" /\ job' = None /\ cur' = "none" /\ looks' = 0
<1>1. CASE job.op = "collect" /\ result = "ok" /\ Len(job.items) > 1
  <2>1. /\ job' = [job EXCEPT !.items = Tail(@)] /\ at' = "send" /\ cur' = "none" /\ looks' = 0
        /\ UNCHANGED journal
    BY <1>1 DEF After
  <2>2. Made(job) /\ job.op \notin SolOps /\ job.day <= day
    BY <1>1 DEF Sound, ProcessSound, SolOps
  <2>3. Tail(job.items) \in Seq(SUBSET Items) /\ Tail(job.items) # <<>>
    <3>1. job.items \in Seq(SUBSET Items)
      BY <2>2 DEF Made, Jobs
    <3>2. ASSUME NEW q \in Seq(SUBSET Items), Len(q) > 1
          PROVE  Tail(q) \in Seq(SUBSET Items) /\ Len(Tail(q)) # 0
      <4>1. q # <<>>
        BY <3>2
      <4>2. Tail(q) \in Seq(SUBSET Items) /\ Len(Tail(q)) = Len(q) - 1
        BY <4>1, HeadTailProperties
      <4> HIDE DEF Items
      <4>3. Len(q) \in Nat
        OBVIOUS
      <4> QED BY <3>2, <4>2, <4>3, SMT
    <3>3. Len(<<>>) = 0
      OBVIOUS
    <3> QED BY <1>1, <3>1, <3>2, <3>3
  <2>4. Made(job')
    <3>1. job' \in Jobs /\ job'.op = "collect" /\ job'.part = job.part /\ job'.items # <<>>
      BY <2>1, <2>2, <2>3, <1>1 DEF Made, Jobs
    <3> QED BY <3>1, <2>2 DEF Made, Brings, SolOps
  <2>5. job' # None /\ job'.day = job.day
    BY <2>4, <2>1, <2>2, JobFacts DEF Made, Jobs
  <2> QED BY <1>1, <2>1, <2>2, <2>4, <2>5 DEF Opened
<1>2. CASE ~(job.op = "collect" /\ result = "ok" /\ Len(job.items) > 1)
  BY <1>2 DEF After
<1> QED BY <1>1, <1>2

LEMMA AfterSound ==
  ASSUME Sound, job # None, NEW result, After(result),
         UNCHANGED <<worldVars, historyVars>>, faults' \in {faults, faults + 1}, OrphansSound'
  PROVE  Sound'
<1>1. WorldSound'
  <2>1. bal' \in [Wallets -> Nat]
    <3>1. bal' \in {bal, Nobody}
      BY DEF After
    <3> QED BY <3>1 DEF Sound, WorldSound, Nobody
  <2> QED BY <2>1, AfterBooks, Quiet DEF Sound
<1>2. /\ at' \in {"choose", "send"} /\ cur' = "none" /\ looks' = 0
      /\ job' = None <=> at' = "choose"
      /\ job' # None => Made(job)' /\ job'.day <= day'
  BY AfterJob DEF Opened, worldVars
<1>3. /\ stage' \in {stage, "none"} /\ (stage' = "none" \/ bal' = bal) /\ touched' = touched
      /\ todo' \in {todo, {}} /\ who' \in {who, {}}
  BY DEF After
<1>4. ProcessSound'
  <2>1. /\ stage' \in {"none", "turn", "rent", "reclaim", "collect", "retire"}
        /\ who' \subseteq Wallets /\ todo' \subseteq Wallets /\ touched' \subseteq Wallets
        /\ retired' \subseteq Wallets
        /\ stage' = "reclaim" => \A w \in todo' : bal'[w] > RECLAIM
    BY <1>3, AfterBooks DEF Sound, ProcessSound
  <2> QED BY <1>2, <2>1 DEF ProcessSound
<1> QED BY <1>1, <1>4 DEF Sound

\* One wallet's top-up.
LEMMA OneTopUp ==
  ASSUME WorldSound, NEW w \in Wallets, NEW n \in Nat, topUp([v \in {w} |-> n])
  PROVE  /\ [v \in {w} |-> n] \in Parts /\ sumOf([v \in {w} |-> n]) = n
         /\ Opened /\ spent' \in Nat /\ spent_day' = day
<1> DEFINE part == [v \in {w} |-> n]
<1>1. part \in [{w} -> Nat] /\ {w} \in SUBSET Wallets /\ DOMAIN part = {w} /\ part[w] = n
  OBVIOUS
<1>2. Send("fund", part, <<>>) /\ Book(sumOf(part) + FEE)
  BY DEF topUp
<1> HIDE DEF part
<1>3. part \in Parts
  BY <1>1 DEF Parts
<1>4. sumOf(part) = n
  <2>1. part[w] \in Int
    BY <1>1
  <2>2. SumFunctionOnSet(part, {w}) = part[w]
    BY <2>1, SumSingle
  <2> QED BY <1>1, <2>2 DEF sumOf
<1>5. Opened
  <2>1. <<>> \in Seq(SUBSET Items) /\ "fund" \in SolOps
    BY DEF SolOps
  <2> QED BY <1>2, <1>3, <2>1, SendMade
<1>6. spent' \in Nat /\ spent_day' = day
  <2>1. sumOf(part) + FEE \in Int
    BY <1>4, Amounts
  <2> QED BY <1>2, <2>1, BookSound
<1> QED BY <1>3, <1>4, <1>5, <1>6 DEF part

LEMMA TurnSound == Sound /\ Turn => Sound'
<1> SUFFICES ASSUME Sound, Turn PROVE Sound'
  OBVIOUS
<1>1. PICK w \in ACTIVE :
        /\ stage' = "turn" /\ who' = {w} /\ UNCHANGED <<todo, touched>>
        /\ bal' = [bal EXCEPT ![w] = IF sol[w] >= MIN THEN sol[w] ELSE TARGET]
        /\ \/ Rest /\ UNCHANGED <<spent, spent_day>>
           \/ ~(sol[w] >= MIN) /\ topUp([v \in {w} |-> TARGET - sol[w]])
  BY DEF Turn
<1>2. /\ at = "choose" /\ UNCHANGED <<worldVars, historyVars, orphans, faults, journal, retired>>
  BY DEF Turn, worldVars, historyVars
<1>3. w \in Wallets /\ WorldSound /\ sol[w] \in Nat
  BY Amounts DEF Sound, WorldSound
<1>4. (Opened \/ Rest) /\ spent' \in Nat /\ spent_day' \in {spent_day, day}
  <2>1. CASE Rest /\ UNCHANGED <<spent, spent_day>>
    BY <2>1, <1>3 DEF WorldSound
  <2>2. CASE ~(sol[w] >= MIN) /\ topUp([v \in {w} |-> TARGET - sol[w]])
    <3>1. TARGET - sol[w] \in Nat
      BY <2>2, <1>3, Amounts
    <3> QED BY <2>2, <3>1, <1>3, OneTopUp
  <2> QED BY <1>1, <2>1, <2>2
<1>5. /\ journal' \in [Wallets -> SUBSET Items] /\ bal' \in [Wallets -> Nat]
      /\ who' \subseteq Wallets /\ todo' \subseteq Wallets /\ touched' \subseteq Wallets
      /\ retired' \subseteq Wallets
  BY <1>1, <1>2, <1>3, Amounts DEF Sound, WorldSound, ProcessSound
<1> QED BY <1>1, <1>2, <1>4, <1>5, ChooseSound

\* What a start asks for, when the wallet has less.
LEMMA RentNeed ==
  ASSUME Sound, NEW w \in Wallets, ~enough(w)
  PROVE  START_LAMPORTS + TARGET - bal[w] \in Nat
<1>1. bal[w] \in Nat
  BY DEF Sound, WorldSound
<1>2. START_LAMPORTS \in Nat /\ ROOM \in Nat /\ MIN \in Nat /\ TARGET \in Nat
      /\ ROOM <= MIN /\ MIN <= TARGET
  BY SimConstants
<1>3. bal[w] < START_LAMPORTS + ROOM
  BY <1>1, <1>2 DEF enough
<1> QED BY <1>1, <1>2, <1>3

LEMMA RentTopUpSound == Sound /\ rentTopUp => Sound'
<1> SUFFICES ASSUME Sound, rentTopUp PROVE Sound'
  OBVIOUS
<1>1. /\ at = "choose" /\ stage' = "rent" /\ UNCHANGED <<todo, bal, touched, who>>
      /\ UNCHANGED <<worldVars, historyVars, orphans, faults, journal, retired>>
  BY DEF rentTopUp
<1>2. PICK w \in who : ~enough(w) /\ topUp([v \in {w} |-> START_LAMPORTS + TARGET - bal[w]])
  BY DEF rentTopUp
<1>3. w \in Wallets /\ WorldSound
  BY DEF Sound, ProcessSound
<1>4. Opened /\ spent' \in Nat /\ spent_day' \in {spent_day, day}
  BY <1>2, <1>3, RentNeed, OneTopUp
<1>5. /\ journal' \in [Wallets -> SUBSET Items] /\ bal' \in [Wallets -> Nat]
      /\ who' \subseteq Wallets /\ todo' \subseteq Wallets /\ touched' \subseteq Wallets
      /\ retired' \subseteq Wallets
  BY <1>1, <1>3 DEF Sound, WorldSound, ProcessSound
<1> QED BY <1>1, <1>4, <1>5, ChooseSound

LEMMA SellSound == Sound /\ sellAction => Sound'
<1> SUFFICES ASSUME Sound, sellAction PROVE Sound'
  OBVIOUS
<1>1. /\ at = "choose" /\ at' = "choose" /\ job' = None /\ UNCHANGED sendVars /\ End
      /\ UNCHANGED <<worldVars, net, orphans, faults, retired, spent, spent_day>>
  BY DEF sellAction, Rest
<1>2. PICK w \in who :
        /\ journal' = [journal EXCEPT ![w] = @ \ {"line"}]
        /\ lost' \in {lost, [lost EXCEPT ![w] = @ \union {"line"}]}
  BY DEF sellAction
<1>3. w \in Wallets /\ WorldSound /\ {"line"} \subseteq Items
  BY DEF Sound, ProcessSound, Items
<1>4. /\ journal' \in [Wallets -> SUBSET Items] /\ lost' \in [Wallets -> SUBSET Items]
      /\ bal' \in [Wallets -> Nat]
  <2>1. journal \in [Wallets -> SUBSET Items] /\ lost \in [Wallets -> SUBSET Items]
    BY <1>3 DEF WorldSound
  <2>2. bal' = [v \in Wallets |-> 0]
    BY <1>1 DEF End, Nobody
  <2> QED BY <1>2, <1>3, <2>1, <2>2
<1>5. WorldSound'
  BY <1>1, <1>3, <1>4 DEF WorldSound, worldVars
<1>6. OrphansSound'
  <2>1. day' = day /\ day' \in Days /\ UNCHANGED orphans /\ faults' \in {faults, faults + 1}
    BY <1>1, <1>3 DEF WorldSound, worldVars
  <2> QED BY <1>3, <2>1, SameOrphans DEF Sound
<1>7. ProcessSound'
  BY <1>1 DEF Sound, ProcessSound, End, sendVars
<1> QED BY <1>5, <1>6, <1>7 DEF Sound

LEMMA ActMade ==
  ASSUME WorldSound, NEW w \in Wallets, NEW op \in Brings, NEW item \in Items, Act(w, op, item)
  PROVE  /\ Opened /\ UNCHANGED journal /\ job'.op = op
<1> DEFINE part == [v \in {w} |-> 0]
           items == <<{item}>>
<1>1. part \in Parts /\ (\E v \in Wallets : DOMAIN part = {v})
  BY OneParts
<1>2. items \in Seq(SUBSET Items) /\ items # <<>> /\ Len(items) = 1
  OBVIOUS
<1>3. Send(op, part, items) /\ UNCHANGED journal
  BY DEF Act
<1> HIDE DEF part, items
<1> QED BY <1>1, <1>2, <1>3, SendMade

LEMMA DecideSound == Sound /\ decide => Sound'
<1> SUFFICES ASSUME Sound, decide PROVE Sound'
  OBVIOUS
<1>1. /\ at = "choose" /\ End
      /\ UNCHANGED <<worldVars, historyVars, orphans, faults, retired, spent, spent_day>>
  BY DEF decide
<1>2. who \subseteq Wallets /\ WorldSound
  BY DEF Sound, ProcessSound
<1>3. PICK w \in who : \/ collectAction(w)
                       \/ startAction(w) \/ joinAction(w) \/ buyAction(w)
                       \/ Rest /\ UNCHANGED journal
  BY DEF decide
<1>4. (Opened \/ Rest) /\ journal' \in [Wallets -> SUBSET Items]
  <2>1. journal \in [Wallets -> SUBSET Items] /\ w \in Wallets
    BY <1>2, <1>3 DEF WorldSound
  <2>2. CASE collectAction(w)
    <3>1. [journal EXCEPT ![w] = {}] \in [Wallets -> SUBSET Items]
      BY <2>1
    <3> QED BY <2>1, <2>2, <3>1, <1>2, CollectStep DEF Forget
  <2>3. CASE startAction(w) \/ joinAction(w) \/ buyAction(w)
    <3>1. \E op \in Brings, item \in Items : Act(w, op, item)
      BY <2>3 DEF startAction, joinAction, buyAction, Brings, Items
    <3> QED BY <2>1, <3>1, <1>2, ActMade
  <2> QED BY <1>3, <2>1, <2>2, <2>3
<1>5. /\ bal' \in [Wallets -> Nat] /\ spent' \in Nat /\ spent_day' = spent_day
      /\ who' \subseteq Wallets /\ todo' \subseteq Wallets /\ touched' \subseteq Wallets
      /\ retired' \subseteq Wallets /\ stage' = "none"
  BY <1>1, <1>2 DEF Sound, WorldSound, ProcessSound, End, Nobody
<1> QED BY <1>1, <1>4, <1>5, ChooseSound

LEMMA FundingSound == Sound /\ fundingSweep => Sound'
<1> SUFFICES ASSUME Sound, fundingSweep PROVE Sound'
  OBVIOUS
<1>1. /\ at = "choose" /\ UNCHANGED <<worldVars, historyVars, orphans, faults>>
      /\ UNCHANGED <<at, job, sendVars>> /\ UNCHANGED <<who, fileVars>>
  BY DEF fundingSweep
<1>2. /\ stage' = "reclaim" /\ bal' = sol /\ touched' = {}
      /\ todo' = {w \in ACTIVE : sol[w] > RECLAIM}
  BY DEF fundingSweep
<1>3. \A w \in todo' : bal'[w] > RECLAIM
  BY <1>2
<1>4. /\ journal' \in [Wallets -> SUBSET Items] /\ bal' \in [Wallets -> Nat]
      /\ spent' \in Nat /\ spent_day' = spent_day
      /\ who' \subseteq Wallets /\ todo' \subseteq Wallets /\ touched' \subseteq Wallets
      /\ retired' \subseteq Wallets
  BY <1>1, <1>2, Amounts DEF Sound, WorldSound, ProcessSound, fileVars
<1> QED BY <1>1, <1>2, <1>3, <1>4, ChooseSound

LEMMA GiveBackSound == Sound /\ giveBack => Sound'
<1> SUFFICES ASSUME Sound, giveBack PROVE Sound'
  OBVIOUS
<1>1. /\ at = "choose" /\ UNCHANGED <<worldVars, historyVars, orphans, faults>>
      /\ UNCHANGED <<stage, bal, touched, who, fileVars>> /\ stage \in {"reclaim", "retire"}
  BY DEF giveBack
<1>2. PICK chunk \in chunks(todo) :
        /\ Send(stage, [w \in chunk |-> IF stage = "retire" THEN bal[w] ELSE bal[w] - TARGET], <<>>)
        /\ todo' = todo \ chunk
  BY DEF giveBack
<1>3. WorldSound /\ todo \subseteq Wallets /\ chunk \subseteq todo
  BY <1>2 DEF Sound, ProcessSound, chunks, kSubset
<1> DEFINE part == [w \in chunk |-> IF stage = "retire" THEN bal[w] ELSE bal[w] - TARGET]
<1>4. part \in Parts
  <2>1. ASSUME NEW w \in chunk
        PROVE  part[w] \in Nat
    <3>1. bal[w] \in Nat
      BY <1>3 DEF WorldSound
    <3>2. stage = "reclaim" => bal[w] > RECLAIM
      BY <1>3 DEF Sound, ProcessSound
    <3> QED BY <1>1, <3>1, <3>2, Amounts
  <2>2. part \in [chunk -> Nat] /\ chunk \in SUBSET Wallets
    BY <2>1, <1>3
  <2> HIDE DEF part
  <2> QED BY <2>2 DEF Parts
<1>5. Opened
  <2>1. Send(stage, part, <<>>) /\ <<>> \in Seq(SUBSET Items)
    BY <1>2
  <2> HIDE DEF part
  <2>2. CASE stage \in SolOps
    BY <2>1, <2>2, <1>3, <1>4, SendMade
  <2>3. CASE stage = "retire"
    BY <2>2, <2>3 DEF SolOps
  <2>4. CASE stage = "reclaim"
    BY <2>2, <2>4 DEF SolOps
  <2> QED BY <1>1, <2>3, <2>4
<1>6. /\ journal' \in [Wallets -> SUBSET Items] /\ bal' \in [Wallets -> Nat]
      /\ spent' \in Nat /\ spent_day' = spent_day
      /\ who' \subseteq Wallets /\ todo' \subseteq Wallets /\ touched' \subseteq Wallets
      /\ retired' \subseteq Wallets
      /\ stage' \in {"reclaim", "retire"}
      /\ stage' = "reclaim" => \A w \in todo' : bal'[w] > RECLAIM
  BY <1>1, <1>2, <1>3, Amounts DEF Sound, WorldSound, ProcessSound, fileVars
<1> QED BY <1>1, <1>5, <1>6, ChooseSound

\* What a sweep tops up lacks something and is covered by the allowance.
LEMMA TopUpsFit ==
  ASSUME WorldSound, NEW ws \in planTopUps
  PROVE  /\ lack(ws) \in Parts /\ sumOf(lack(ws)) \in Nat
         /\ ws # {} => sumOf(lack(ws)) + FEE <= remaining
<1> DEFINE part == lack(ws)
<1>1. ws \subseteq {w \in ACTIVE : bal[w] < MIN} /\ (ws # {} => sumOf(part) + FEE <= remaining)
  BY DEF planTopUps
<1>2. ws \in SUBSET Wallets /\ IsFiniteSet(ws)
  BY <1>1, Amounts, FS_Subset
<1>3. part \in [ws -> Nat] /\ DOMAIN part = ws
  <2>1. ASSUME NEW w \in ws PROVE TARGET - bal[w] \in Nat
    <3>1. bal[w] \in Nat /\ bal[w] < MIN
      BY <1>1, Amounts DEF WorldSound
    <3> QED BY <3>1, Amounts
  <2> QED BY <2>1 DEF lack
<1> HIDE DEF part
<1>4. part \in Parts
  BY <1>2, <1>3 DEF Parts
<1>5. sumOf(part) \in Nat
  BY <1>2, <1>3, SumNat DEF sumOf
<1> QED BY <1>1, <1>4, <1>5 DEF part

LEMMA SweepTopUpSound == Sound /\ sweepTopUp => Sound'
<1> SUFFICES ASSUME Sound, sweepTopUp PROVE Sound'
  OBVIOUS
<1>1. /\ at = "choose" /\ UNCHANGED <<worldVars, historyVars, orphans, faults>>
      /\ stage' = "collect" /\ UNCHANGED <<todo, bal, touched, who, journal, retired>>
  BY DEF sweepTopUp
<1>2. PICK ws \in planTopUps :
        \/ topUp(lack(ws))
        \/ Rest /\ UNCHANGED <<spent, spent_day>>
  BY DEF sweepTopUp
<1>3. WorldSound
  BY DEF Sound
<1>4. (Opened \/ Rest) /\ spent' \in Nat /\ spent_day' \in {spent_day, day}
  <2>1. CASE Rest /\ UNCHANGED <<spent, spent_day>>
    BY <2>1, <1>3 DEF WorldSound
  <2>2. CASE topUp(lack(ws))
    <3> DEFINE part == lack(ws)
    <3>1. part \in Parts /\ sumOf(part) \in Nat
      BY <1>3, TopUpsFit
    <3>2. Send("fund", part, <<>>) /\ Book(sumOf(part) + FEE)
      BY <2>2 DEF topUp
    <3> HIDE DEF part
    <3>3. Opened
      <4>1. <<>> \in Seq(SUBSET Items) /\ "fund" \in SolOps
        BY DEF SolOps
      <4> QED BY <3>1, <3>2, <4>1, <1>3, SendMade
    <3>4. spent' \in Nat /\ spent_day' = day
      <4>1. sumOf(part) + FEE \in Int
        BY <3>1, Amounts
      <4> QED BY <3>2, <4>1, <1>3, BookSound
    <3> QED BY <3>3, <3>4
  <2> QED BY <1>2, <2>1, <2>2
<1>5. /\ journal' \in [Wallets -> SUBSET Items] /\ bal' \in [Wallets -> Nat]
      /\ who' \subseteq Wallets /\ todo' \subseteq Wallets /\ touched' \subseteq Wallets
      /\ retired' \subseteq Wallets
  BY <1>1, <1>3 DEF Sound, WorldSound, ProcessSound
<1> QED BY <1>1, <1>4, <1>5, ChooseSound

LEMMA RetireSweepSound == Sound /\ retireSweep => Sound'
<1> SUFFICES ASSUME Sound, retireSweep PROVE Sound'
  OBVIOUS
<1>1. /\ at = "choose" /\ UNCHANGED <<worldVars, historyVars, orphans, faults>>
      /\ stage = "collect" /\ UNCHANGED <<bal, who, spent, spent_day>>
  BY DEF retireSweep
<1>2. WorldSound /\ journal \in [Wallets -> SUBSET Items]
  BY DEF Sound, WorldSound
<1>3. /\ (Opened \/ Rest) /\ journal' \in [Wallets -> SUBSET Items]
      /\ stage' \in {stage, "retire"} /\ todo' \subseteq Wallets \union todo
      /\ touched' \subseteq Wallets \union touched /\ retired' \subseteq Wallets \union retired
  <2>1. CASE \E w \in RETIRING \ (retired \union touched) :
               touched' = touched \union {w} /\ collectAction(w) /\ UNCHANGED <<stage, todo, retired>>
    <3>1. PICK w \in Wallets :
            touched' = touched \union {w} /\ collectAction(w) /\ UNCHANGED <<stage, todo, retired>>
      BY <2>1, Amounts
    <3>2. [journal EXCEPT ![w] = {}] \in [Wallets -> SUBSET Items]
      BY <1>2
    <3> QED BY <3>1, <3>2, <1>2, CollectStep DEF Forget
  <2>2. CASE /\ todo' \subseteq RETIRING /\ retired' \subseteq retired \union RETIRING
             /\ stage' = "retire" /\ Rest /\ UNCHANGED <<touched, journal>>
    BY <2>2, <1>2, Amounts
  <2> QED BY <2>1, <2>2 DEF retireSweep
<1>4. /\ bal' \in [Wallets -> Nat] /\ spent' \in Nat /\ spent_day' = spent_day
      /\ who' \subseteq Wallets /\ todo' \subseteq Wallets /\ touched' \subseteq Wallets
      /\ retired' \subseteq Wallets
  BY <1>1, <1>2, <1>3 DEF Sound, WorldSound, ProcessSound
<1> QED BY <1>1, <1>3, <1>4, ChooseSound

LEMMA SweepEndSound == Sound /\ SweepEnd => Sound'
<1> SUFFICES ASSUME Sound, SweepEnd PROVE Sound'
  OBVIOUS
<1>1. /\ at = "choose" /\ UNCHANGED <<worldVars, historyVars, orphans, faults>>
      /\ UNCHANGED <<at, job, sendVars>> /\ UNCHANGED fileVars /\ End
  BY DEF SweepEnd
<1>2. /\ journal' \in [Wallets -> SUBSET Items] /\ bal' \in [Wallets -> Nat]
      /\ spent' \in Nat /\ spent_day' = spent_day /\ stage' = "none"
      /\ who' \subseteq Wallets /\ todo' \subseteq Wallets /\ touched' \subseteq Wallets
      /\ retired' \subseteq Wallets
  BY <1>1 DEF Sound, WorldSound, ProcessSound, fileVars, End, Nobody
<1> QED BY <1>1, <1>2, ChooseSound

LEMMA SendSound == Sound /\ send => Sound'
<1> SUFFICES ASSUME Sound, send PROVE Sound'
  OBVIOUS
<1>1. at = "send" /\ UNCHANGED <<worldVars, historyVars>>
  BY DEF send
<1>2. job # None /\ WorldSound /\ OrphansSound
  BY <1>1 DEF Sound, ProcessSound
<1>3. /\ day' = day /\ day' \in {day, day + 1} /\ day' \in Days
  BY <1>1, <1>2 DEF worldVars, WorldSound
<1>4. CASE /\ \E result : After(result)
           /\ UNCHANGED orphans /\ faults' \in {faults, faults + 1}
  <2>1. OrphansSound'
    BY <1>2, <1>3, <1>4, SameOrphans
  <2> QED BY <1>1, <1>2, <1>4, <2>1, AfterSound
<1>5. CASE /\ After("maybe") /\ Fault /\ orphans' = orphans \union {<<job, faults>>}
  <2>1. OrphansSound'
    BY <1>2, <1>3, <1>5, OrphanAdded
  <2> QED BY <1>1, <1>2, <1>5, <2>1, AfterSound DEF Fault
<1>6. CASE /\ UNCHANGED <<orphans, faults>>
           /\ at' = "confirm" /\ cur' = "flying" /\ UNCHANGED <<job, looks, turnVars, fileVars>>
  <2>1. OrphansSound'
    <3>1. faults' \in {faults, faults + 1} /\ UNCHANGED orphans
      BY <1>6
    <3> QED BY <1>2, <1>3, <3>1, SameOrphans
  <2>2. WorldSound'
    BY <1>1, <1>2, <1>6 DEF WorldSound, worldVars, historyVars, turnVars, fileVars
  <2>3. ProcessSound'
    BY <1>1, <1>3, <1>6 DEF Sound, ProcessSound, turnVars, fileVars, Made
  <2> QED BY <2>1, <2>2, <2>3 DEF Sound
<1>7. \/ /\ \E result : After(result)
         /\ UNCHANGED orphans /\ (UNCHANGED faults \/ Fault)
      \/ After("maybe") /\ Fault /\ orphans' = orphans \union {<<job, faults>>}
      \/ /\ UNCHANGED <<orphans, faults>>
         /\ at' = "confirm" /\ cur' = "flying" /\ UNCHANGED <<job, looks, turnVars, fileVars>>
  BY ZenonT(20) DEF send, Refusal
<1> QED BY <1>4, <1>5, <1>6, <1>7 DEF Fault

LEMMA PollSound == Sound /\ poll => Sound'
<1> SUFFICES ASSUME Sound, poll PROVE Sound'
  OBVIOUS
<1>1. at = "confirm" /\ UNCHANGED <<worldVars, historyVars>> /\ UNCHANGED orphans
  BY DEF poll
<1>2. job # None /\ WorldSound /\ OrphansSound /\ faults' \in {faults, faults + 1}
  BY <1>1 DEF Sound, ProcessSound, poll, Fault
<1>3. day' = day /\ day' \in {day, day + 1} /\ day' \in Days
  BY <1>1, <1>2 DEF worldVars, WorldSound
<1>4. OrphansSound'
  BY <1>1, <1>2, <1>3, SameOrphans
<1>5. CASE \E result : After(result)
  BY <1>1, <1>2, <1>4, <1>5, AfterSound
<1>6. CASE \/ /\ looks' = 1 /\ UNCHANGED <<at, job, cur, turnVars, fileVars>>
           \/ /\ at' = "send" /\ cur' = "none" /\ looks' = 0 /\ UNCHANGED <<job, turnVars, fileVars>>
  <2>2. WorldSound'
    BY <1>1, <1>2, <1>6 DEF WorldSound, worldVars, historyVars, turnVars, fileVars
  <2>3. ProcessSound'
    BY <1>1, <1>3, <1>6 DEF Sound, ProcessSound, turnVars, fileVars, Made
  <2> QED BY <1>4, <2>2, <2>3 DEF Sound
<1>7. \/ \E result : After(result)
      \/ looks' = 1 /\ UNCHANGED <<at, job, cur, turnVars, fileVars>>
      \/ /\ at' = "send" /\ cur' = "none" /\ looks' = 0 /\ UNCHANGED <<job, turnVars, fileVars>>
  BY ZenonT(20) DEF poll
<1> QED BY <1>5, <1>6, <1>7

LEMMA CrashSound == Sound /\ Crash => Sound'
<1> SUFFICES ASSUME Sound, Crash PROVE Sound'
  OBVIOUS
<1>1. /\ at # "down" /\ Fault /\ UNCHANGED <<worldVars, fileVars, net>> /\ End
      /\ at' = "down" /\ cur' = "none" /\ job' = None /\ looks' = 0
      /\ orphans' = (IF cur = "flying" THEN orphans \union {<<job, faults>>} ELSE orphans)
      /\ lost' = (IF cur \in {"flying", "landed"} /\ job.op \in JOURNAL_MAYBE
                  THEN [lost EXCEPT ![owner(job)] = @ \union Head(job.items)] ELSE lost)
  BY DEF Crash
<1>2. WorldSound /\ OrphansSound /\ faults' \in {faults, faults + 1} /\ day' = day
      /\ day' \in {day, day + 1} /\ day' \in Days
  BY <1>1 DEF Sound, WorldSound, Fault, worldVars
<1>3. cur \in {"flying", "landed"} => job # None /\ Made(job)
  BY DEF Sound, ProcessSound
<1>4. OrphansSound'
  <2>1. CASE cur = "flying"
    BY <1>1, <1>2, <1>3, <2>1, OrphanAdded
  <2>2. CASE cur # "flying"
    BY <1>1, <1>2, <2>2, SameOrphans
  <2> QED BY <2>1, <2>2
<1>5. WorldSound'
  <2>1. lost' \in [Wallets -> SUBSET Items]
    <3>1. CASE cur \in {"flying", "landed"} /\ job.op \in JOURNAL_MAYBE
      <4>1. Head(job.items) \subseteq Items
        BY <1>3, <3>1, OwnerFacts DEF JOURNAL_MAYBE, SolOps
      <4> QED BY <1>1, <1>2, <3>1, <4>1 DEF WorldSound
    <3>2. CASE ~(cur \in {"flying", "landed"} /\ job.op \in JOURNAL_MAYBE)
      BY <1>1, <1>2, <3>2 DEF WorldSound
    <3> QED BY <3>1, <3>2
  <2> QED BY <1>1, <1>2, <2>1 DEF WorldSound, worldVars, fileVars, End, Nobody
<1>6. ProcessSound'
  BY <1>1 DEF Sound, ProcessSound, End, fileVars
<1> QED BY <1>4, <1>5, <1>6 DEF Sound

LEMMA StartSound == Sound /\ Start => Sound'
<1> SUFFICES ASSUME Sound, Start PROVE Sound'
  OBVIOUS
<1> USE DEF Start, worldVars, sendVars, turnVars, fileVars, historyVars
<1>1. WorldSound'
  BY DEF Sound, WorldSound
<1>2. ProcessSound'
  BY DEF Sound, ProcessSound
<1>3. OrphansSound'
  BY DEF Sound, OrphansSound, Made
<1> QED BY <1>1, <1>2, <1>3 DEF Sound

LEMMA RentNat ==
  ASSUME NEW held \in SUBSET Items
  PROVE  RENT * Cardinality(held) \in Nat
<1>1. IsFiniteSet(Items)
  <2>1. IsFiniteSet({"line"} \union {"deposit"})
    BY FS_Singleton, FS_Union
  <2>2. Items = {"line"} \union {"deposit"}
    BY DEF Items
  <2> QED BY <2>1, <2>2
<1>2. Cardinality(held) \in Nat
  BY <1>1, FS_Subset, FS_CardinalityType
<1> QED BY <1>2, Amounts

\* What lands leaves the chain sound; a top-up costs its day, a return brings some back.
LEMMA EffectSound ==
  ASSUME WorldSound, NEW j, Made(j), j.day <= day, possible(j), Effect(j)
  PROVE  /\ sol' \in [Wallets -> Nat] /\ holds' \in [Wallets -> SUBSET Items]
         /\ net' \in [Days -> Int]
         /\ round' \in {"none", "seeding", "open", "final", "closed"}
<1>1. /\ sumOf(j.part) \in Nat /\ DOMAIN j.part \subseteq Wallets
      /\ j.part \in [DOMAIN j.part -> Nat] /\ j.day \in Days
  BY JobFacts DEF Made, Jobs
<1>2. /\ sol \in [Wallets -> Nat] /\ holds \in [Wallets -> SUBSET Items] /\ net \in [Days -> Int]
      /\ day \in Days /\ round \in {"none", "seeding", "open", "final", "closed"}
  BY DEF WorldSound
<1>3. round' \in {"none", "seeding", "open", "final", "closed"}
  BY <1>2 DEF Effect
<1>4. net' \in [Days -> Int]
  <2>1. \/ net' = [net EXCEPT ![j.day] = @ + sumOf(j.part) + FEE]
        \/ net' = [net EXCEPT ![day] = @ - sumOf(j.part)]
        \/ net' = net
    BY DEF Effect
  <2>2. net[j.day] + sumOf(j.part) + FEE \in Int /\ net[day] - sumOf(j.part) \in Int
    BY <1>1, <1>2, Amounts
  <2> QED BY <1>1, <1>2, <2>1, <2>2
<1>5. holds' \in [Wallets -> SUBSET Items]
  <2>1. CASE j.op \in SolOps
    BY <1>2, <2>1 DEF Effect, SolOps
  <2>2. CASE j.op \notin SolOps
    <3>1. Head(j.items) \subseteq Items
      BY <2>2, OwnerFacts
    <3>2. \/ holds' = [holds EXCEPT ![owner(j)] = @ \ Head(j.items)]
          \/ holds' = [holds EXCEPT ![owner(j)] = @ \union Head(j.items)]
      BY <2>2 DEF Effect, SolOps
    <3> QED BY <1>2, <3>1, <3>2
  <2> QED BY <2>1, <2>2
<1>6. sol' \in [Wallets -> Nat]
  <2>1. ASSUME NEW w \in Wallets, w \in DOMAIN j.part
        PROVE  sol'[w] \in Nat
    <3>1. sol[w] \in Nat /\ j.part[w] \in Nat
      BY <1>1, <1>2, <2>1
    <3>2. CASE j.op = "fund"
      BY <2>1, <3>1, <3>2 DEF Effect
    <3>3. CASE j.op \in {"reclaim", "retire"}
      <4>1. sol[w] >= j.part[w]
        BY <2>1, <3>3 DEF possible
      <4> QED BY <2>1, <3>1, <3>3, <4>1 DEF Effect
    <3>4. CASE j.op \in Brings \union {"collect"}
      <4>1. w = owner(j) /\ Head(j.items) \subseteq Items
        BY <2>1, <3>4, OwnerFacts DEF Brings, SolOps
      <4>2. CASE j.op = "start"
        <5>1. sol[w] >= 2 * RENT /\ 2 * RENT \in Nat
          BY <4>1, <4>2, Amounts DEF possible
        <5>2. sol'[w] = sol[w] - 2 * RENT
          BY <2>1, <4>2 DEF Effect
        <5> QED BY <3>1, <5>1, <5>2
      <4>3. CASE j.op \in {"buy", "join"}
        <5>1. sol[w] >= RENT
          BY <4>1, <4>3 DEF possible
        <5>2. sol'[w] \in {sol[w], sol[w] - RENT}
          BY <2>1, <4>3 DEF Effect
        <5> QED BY <3>1, <5>1, <5>2, Amounts
      <4>4. CASE j.op = "collect"
        <5>1. sol'[w] = sol[w] + RENT * Cardinality(Head(j.items))
          BY <2>1, <4>4 DEF Effect
        <5>2. RENT * Cardinality(Head(j.items)) \in Nat
          BY <4>1, RentNat
        <5> QED BY <3>1, <5>1, <5>2
      <4> QED BY <3>4, <4>2, <4>3, <4>4 DEF Brings
    <3>5. j.op \in SolOps \union Brings \union {"collect"}
      BY DEF Made, Jobs
    <3> QED BY <3>2, <3>3, <3>4, <3>5 DEF SolOps
  <2>2. ASSUME NEW w \in Wallets, w \notin DOMAIN j.part
        PROVE  sol'[w] \in Nat
    BY <1>2, <2>2 DEF Effect
  <2>3. sol' = [w \in Wallets |-> sol'[w]]
    BY DEF Effect
  <2> QED BY <2>1, <2>2, <2>3
<1> QED BY <1>3, <1>4, <1>5, <1>6

LEMMA LandingSound == Sound /\ Landing => Sound'
<1> SUFFICES ASSUME Sound, Landing PROVE Sound'
  OBVIOUS
<1>1. /\ UNCHANGED <<day, at, job, looks, turnVars, fileVars, lost>> /\ Lands
  BY DEF Landing
<1>2. /\ WorldSound /\ OrphansSound /\ day' = day /\ day' \in {day, day + 1} /\ day' \in Days
      /\ faults \in Nat
  BY <1>1 DEF Sound, WorldSound
<1>3. ASSUME /\ \/ UNCHANGED <<round, sol, holds, net>>
                \/ \E j : Made(j) /\ j.day <= day /\ possible(j) /\ Effect(j)
             /\ faults' \in {faults, faults + 1}
      PROVE  WorldSound'
  <2>1. /\ sol' \in [Wallets -> Nat] /\ holds' \in [Wallets -> SUBSET Items]
        /\ net' \in [Days -> Int]
        /\ round' \in {"none", "seeding", "open", "final", "closed"}
    BY <1>2, <1>3, EffectSound DEF WorldSound
  <2> QED BY <1>1, <1>2, <1>3, <2>1 DEF WorldSound, turnVars, fileVars
<1>4. CASE cur = "flying" /\ UNCHANGED orphans
  <2>1. cur = "flying" /\ UNCHANGED orphans
    BY <1>4
  <2>2. job # None /\ Made(job) /\ job.day <= day /\ at = "confirm"
    BY <2>1 DEF Sound, ProcessSound
  <2>3. cur' \in {"landed", "failed", "dead"} /\ faults' \in {faults, faults + 1}
        /\ (UNCHANGED <<round, sol, holds, net>> \/ (possible(job) /\ Effect(job)))
    <3>1. \/ possible(job) /\ Effect(job) /\ cur' = "landed" /\ UNCHANGED faults
          \/ cur' = "failed" /\ Refusal /\ UNCHANGED <<round, creator, sol, holds, net>>
          \/ cur' = "dead" /\ Fault /\ UNCHANGED <<round, creator, sol, holds, net>>
          \/ UNCHANGED cur
      BY <1>1 DEF Lands
    <3>2. (UNCHANGED cur) => (\E o \in orphans : orphans' = orphans \ {o})
      BY <1>1, <2>1 DEF Lands
    <3>3. cur' # cur
      BY <2>1, <3>2
    <3> QED BY <3>1, <3>3 DEF Refusal, Fault
  <2>4. WorldSound'
    BY <1>3, <2>2, <2>3
  <2>5. OrphansSound'
    BY <1>2, <2>1, <2>3, SameOrphans
  <2>6. ProcessSound'
    BY <1>1, <1>2, <2>2, <2>3 DEF Sound, ProcessSound, turnVars, fileVars, Made
  <2> QED BY <2>4, <2>5, <2>6 DEF Sound
<1>5. CASE \E o \in orphans : /\ orphans' = orphans \ {o} /\ UNCHANGED <<cur, faults>>
                              /\ \/ possible(o[1]) /\ Effect(o[1])
                                 \/ UNCHANGED <<round, creator, sol, holds, net>>
  <2>1. PICK o \in orphans : /\ orphans' = orphans \ {o} /\ UNCHANGED <<cur, faults>>
                              /\ \/ possible(o[1]) /\ Effect(o[1])
                                 \/ UNCHANGED <<round, creator, sol, holds, net>>
    BY <1>5
  <2>2. Made(o[1]) /\ o[1].day <= day
    BY <1>2 DEF OrphansSound
  <2>3. WorldSound'
    BY <1>3, <2>1, <2>2
  <2>4. OrphansSound'
    <3>1. IsFiniteSet(orphans')
      BY <1>2, <2>1, FS_RemoveElement DEF OrphansSound
    <3>2. \A p \in orphans' : /\ p = <<p[1], p[2]>> /\ p[2] \in Nat /\ p[2] < faults
                              /\ Made(p[1]) /\ p[1].day <= day
      BY <1>2, <2>1 DEF OrphansSound
    <3> QED BY <3>1, <3>2, <1>1, <2>1 DEF OrphansSound, Made
  <2>5. ProcessSound'
    BY <1>1, <2>1 DEF Sound, ProcessSound, turnVars, fileVars, Made
  <2> QED BY <2>3, <2>4, <2>5 DEF Sound
<1> QED BY <1>1, <1>4, <1>5 DEF Lands

\* A step of the chain or of the clock that no send makes.
LEMMA ChainSound ==
  ASSUME Sound, UNCHANGED <<orphans, at, job, cur, looks, turnVars, fileVars, historyVars>>,
         sol' \in [Wallets -> Nat], holds' \in [Wallets -> SUBSET Items],
         round' \in {"none", "seeding", "open", "final", "closed"},
         day' \in {day, day + 1}, day' \in Days, faults' \in {faults, faults + 1}
  PROVE  Sound'
<1>1. WorldSound'
  <2>1. spent_day \in 0 .. day /\ day \in Nat
    BY Amounts DEF Sound, WorldSound, Days
  <2> QED BY <2>1 DEF Sound, WorldSound, turnVars, fileVars, historyVars
<1>2. OrphansSound'
  BY SameOrphans DEF Sound
<1>3. ProcessSound'
  <2>1. job # None => Made(job) /\ job.day <= day'
    <3>1. job # None => Made(job) /\ job.day <= day /\ job.day \in Days
      BY DEF Sound, ProcessSound, Made, Jobs
    <3> QED BY <3>1, Amounts DEF Sound, WorldSound, Days
  <2> QED BY <2>1 DEF Sound, ProcessSound, turnVars, fileVars, Made
<1> QED BY <1>1, <1>2, <1>3 DEF Sound

LEMMA RoundSound == Sound /\ Round => Sound'
<1> SUFFICES ASSUME Sound, Round PROVE Sound'
  OBVIOUS
<1>1. UNCHANGED <<day, faults, orphans, at, job, cur, looks, turnVars, fileVars, historyVars>>
  BY DEF Round, sendVars
<1>2. sol \in [Wallets -> Nat] /\ holds \in [Wallets -> SUBSET Items] /\ day \in Days
      /\ round \in {"none", "seeding", "open", "final", "closed"}
  BY DEF Sound, WorldSound
<1>3. round' \in {"none", "seeding", "open", "final", "closed"}
  BY <1>2 DEF Round
<1>4. sol' \in [Wallets -> Nat] /\ holds' \in [Wallets -> SUBSET Items]
  <2>1. CASE UNCHANGED <<sol, holds>>
    BY <1>2, <2>1
  <2>2. CASE \E w \in Wallets : /\ holds' = [holds EXCEPT ![w] = {}]
                                /\ sol' = [sol EXCEPT ![w] = @ + RENT * Cardinality(holds[w])]
    <3>1. PICK w \in Wallets : /\ holds' = [holds EXCEPT ![w] = {}]
                               /\ sol' = [sol EXCEPT ![w] = @ + RENT * Cardinality(holds[w])]
      BY <2>2
    <3>2. RENT * Cardinality(holds[w]) \in Nat /\ sol[w] \in Nat
      BY <1>2, RentNat
    <3>3. sol[w] + RENT * Cardinality(holds[w]) \in Nat
      BY <3>2
    <3> QED BY <1>2, <3>1, <3>3
  <2>3. CASE /\ UNCHANGED holds
             /\ sol' = [w \in Wallets |-> IF w \in creator THEN sol[w] + RENT ELSE sol[w]]
    BY <1>2, <2>3, Amounts
  <2> QED BY <2>1, <2>2, <2>3 DEF Round
<1> QED BY <1>1, <1>2, <1>3, <1>4, ChainSound

LEMMA ClockSound == Sound /\ Clock => Sound'
<1> SUFFICES ASSUME Sound, Clock PROVE Sound'
  OBVIOUS
<1>1. UNCHANGED <<round, sol, holds, orphans, at, job, cur, looks, turnVars, fileVars, historyVars>>
  BY DEF Clock, sendVars
<1>2. sol \in [Wallets -> Nat] /\ holds \in [Wallets -> SUBSET Items] /\ day \in Days
      /\ round \in {"none", "seeding", "open", "final", "closed"} /\ faults \in Nat
  BY DEF Sound, WorldSound
<1>3. (Midnight \/ UNCHANGED day) /\ (UNCHANGED faults \/ Fault)
  BY Zenon DEF Clock, Midnight, Pause, Resume
<1>4. day' \in {day, day + 1} /\ day' \in Days /\ faults' \in {faults, faults + 1}
  BY <1>2, <1>3, Amounts DEF Midnight, Fault, Days
<1> QED BY <1>1, <1>2, <1>4, ChainSound

LEMMA StillSound == Sound /\ UNCHANGED vars => Sound'
<1> SUFFICES ASSUME Sound, UNCHANGED vars PROVE Sound'
  OBVIOUS
<1>1. UNCHANGED <<orphans, at, job, cur, looks, turnVars, fileVars, historyVars,
                  sol, holds, round, day, faults>>
  BY DEF vars, worldVars, sendVars
<1> QED BY <1>1, ChainSound DEF Sound, WorldSound

LEMMA SoundStep == Sound /\ [Next]_vars => Sound'
BY TurnSound, RentTopUpSound, DecideSound, SellSound, FundingSound, GiveBackSound, SweepTopUpSound, RetireSweepSound,
   SweepEndSound, SendSound, PollSound, CrashSound, StartSound, LandingSound, RoundSound,
   ClockSound, StillSound DEF Next, Sweep

THEOREM SoundHolds == Spec => []Sound
<1>1. Init => Sound
  BY SoundInit
<1>2. Sound /\ [Next]_vars => Sound'
  BY SoundStep
<1> QED BY <1>1, <1>2, PTL DEF Spec

-----------------------------------------------------------------------------
(* The money is kept.                                                      *)

MoneyNumbers ==
  /\ \A d \in Days : net[d] \in Int /\ underway(d) \in Nat /\ astray(d) \in Nat
  /\ unseen \in Nat /\ Spent \in Nat /\ day \in Days

LEMMA MoneyTyped == Sound => MoneyNumbers
<1> SUFFICES ASSUME Sound PROVE MoneyNumbers
  OBVIOUS
<1>1. job # None => Made(job)
  BY DEF Sound, ProcessSound
<1>2. \A d \in Days : astray(d) \in Nat
  BY AstrayNat DEF Sound
<1>3. \A d \in Days : underway(d) \in Nat
  BY <1>1, JobFacts DEF underway
<1>4. cur # "none" => job # None
  BY DEF Sound, ProcessSound
<1>5. unseen \in Nat
  BY <1>1, <1>4, JobFacts DEF unseen
<1> QED BY <1>2, <1>3, <1>5 DEF MoneyNumbers, Sound, WorldSound, Spent

LEMMA MoneyTypedNext == Sound' => MoneyNumbers'
BY MoneyTyped, PTL

\* A day's money does not grow, nor today's unless it is booked.
LEMMA MoneyStep ==
  ASSUME Sound, Sound', MoneySound, NEW today \in Days, today = day, today = day',
         \A d \in Days : out(d)' <= out(d) /\ (d > today => net'[d] = net[d]),
         out(today)' + unseen' - Spent' <= out(today) + unseen - Spent
  PROVE  MoneySound'
<1>1. MoneyNumbers /\ MoneyNumbers'
  BY MoneyTyped, MoneyTypedNext
<1>2. \A d \in Days : out(d) \in Int /\ out(d)' \in Int
  BY <1>1 DEF MoneyNumbers, out
<1>3. unseen \in Int /\ unseen' \in Int /\ Spent \in Int /\ Spent' \in Int
  BY <1>1 DEF MoneyNumbers
<1>4. \A d \in Days : out(d) <= DAILY
  BY DEF MoneySound
<1>5. \A d \in Days : out(d)' <= DAILY
  BY <1>2, <1>4, Amounts
<1>6. \A d \in Days : d > today => net'[d] = 0
  BY DEF MoneySound
<1>7. out(today) + unseen <= Spent \/ out(today) <= 0
  BY DEF MoneySound
<1>8. out(today)' + unseen' <= Spent' \/ out(today)' <= 0
  BY <1>2, <1>3, <1>7
<1>9. out(day)' = out(today)'
  OBVIOUS
<1> QED BY <1>5, <1>6, <1>8, <1>9 DEF MoneySound

\* Nothing leaves the treasury and nothing is under way after it.
LEMMA MoneyIdle ==
  ASSUME Sound, Sound', MoneySound, UNCHANGED <<day, net, orphans>>,
         \A d \in Days : underway(d)' <= underway(d),
         NEW today \in Days, today = day,
         underway(today)' + unseen' - Spent' <= underway(today) + unseen - Spent
  PROVE  MoneySound'
<1>1. MoneyNumbers /\ MoneyNumbers'
  BY MoneyTyped, MoneyTypedNext
<1>2. \A d \in Days : astray(d)' = astray(d)
  BY DEF astray
<1>3. \A d \in Days : out(d)' <= out(d) /\ (d > today => net'[d] = net[d])
  BY <1>1, <1>2 DEF MoneyNumbers, out
<1>4. out(today)' + unseen' - Spent' <= out(today) + unseen - Spent
  BY <1>1, <1>2 DEF MoneyNumbers, out
<1> QED BY <1>3, <1>4, MoneyStep

\* Between two sends nothing is under way; what is made is no top-up.
LEMMA MoneyChoose ==
  ASSUME Sound, Sound', MoneySound, job = None, cur = "none",
         UNCHANGED <<day, net, orphans, spent, spent_day>>,
         cur' = "none", job' # None => job'.op # "fund"
  PROVE  MoneySound'
<1>1. \A d \in Days : underway(d) = 0 /\ underway(d)' = 0
  BY DEF underway, cost
<1>2. unseen = 0 /\ unseen' = 0 /\ Spent' = Spent
  BY DEF unseen, Spent
<1>3. PICK today \in Days : today = day
  BY DEF Sound, WorldSound
<1>4. Spent \in Nat
  BY MoneyTyped DEF MoneyNumbers
<1> QED BY <1>1, <1>2, <1>3, <1>4, MoneyIdle

\* A top-up is booked within the allowance before it goes.
LEMMA MoneyTopUp ==
  ASSUME Sound, Sound', MoneySound, job = None, cur = "none", UNCHANGED <<day, net, orphans>>,
         NEW part \in Parts, topUp(part), sumOf(part) \in Nat, sumOf(part) + FEE <= remaining
  PROVE  MoneySound'
<1> DEFINE c == sumOf(part) + FEE
<1>1. Send("fund", part, <<>>) /\ Book(c)
  BY DEF topUp
<1>2. c \in Nat /\ MoneyNumbers /\ MoneyNumbers'
  BY Amounts, MoneyTyped, MoneyTypedNext
<1>3. PICK today \in Days : today = day
  BY DEF Sound, WorldSound
<1>4. /\ job' # None /\ job'.op = "fund" /\ job'.part = part /\ job'.day = today
      /\ at' = "send" /\ cur' = "none"
  <2>1. <<>> \in Seq(SUBSET Items) /\ "fund" \in SolOps /\ WorldSound
    BY DEF SolOps, Sound
  <2> HIDE DEF c
  <2> QED BY <1>1, <1>3, <2>1, SendMade DEF Opened
<1>5. /\ \A d \in Days : underway(d) = 0
      /\ \A d \in Days : d # today => underway(d)' = 0
      /\ underway(today)' = c
  BY <1>4 DEF underway, cost
<1>6. unseen = 0 /\ unseen' = 0
  BY <1>4 DEF unseen
<1> HIDE DEF c
<1>7. Spent' = Spent + c
  BY <1>1, <1>2, <1>3 DEF MoneyNumbers, Book, Spent
<1>8. \A d \in Days : astray(d)' = astray(d)
  BY DEF astray
<1>9. /\ \A d \in Days : d # today => out(d)' = out(d)
      /\ out(today)' = out(today) + c /\ out(today) \in Int
  BY <1>2, <1>5, <1>8 DEF MoneyNumbers, out
<1>10. out(today) <= Spent \/ out(today) <= 0
  BY <1>2, <1>3, <1>6, <1>9 DEF MoneySound, MoneyNumbers
<1>11. out(today)' <= DAILY
  <2>1. c <= remaining
    BY DEF c
  <2>2. out(today) <= DAILY
    BY DEF MoneySound
  <2> QED BY <1>2, <1>9, <1>10, <2>1, <2>2, Amounts DEF MoneyNumbers, remaining
<1>12. out(today)' + unseen' <= Spent' \/ out(today)' <= 0
  BY <1>2, <1>6, <1>7, <1>9, <1>10 DEF MoneyNumbers
<1>13. \A d \in Days : out(d)' <= DAILY
  BY <1>9, <1>11 DEF MoneySound
<1>14. out(day)' = out(today)'
  BY <1>3
<1> QED BY <1>3, <1>12, <1>13, <1>14 DEF MoneySound

\* What the end of a send gives back to the allowance did not go, or came back.
LEMMA AfterMoney ==
  ASSUME Sound, job # None, NEW result, After(result), UNCHANGED day,
         result = "ok" => cur = "landed", result = "landed" => cur = "failed",
         result = "notSent" => at = "send", NEW today \in Days, today = day
  PROVE  /\ \A d \in Days : underway(d)' = 0
         /\ unseen' = 0
         /\ underway(today)' + unseen' - Spent' <= underway(today) + unseen - Spent
<1>1. Made(job) /\ sumOf(job.part) \in Nat /\ WorldSound /\ MoneyNumbers
  BY JobFacts, MoneyTyped DEF Sound, ProcessSound
<1>2. cur' = "none" /\ (job' # None => job'.op = "collect")
  <2>1. job \in Jobs
    BY <1>1 DEF Made
  <2>2. job.op = "collect" => [job EXCEPT !.items = Tail(@)].op = "collect"
    BY <2>1 DEF Jobs
  <2> QED BY AfterJob, <2>2 DEF Opened
<1>3. (\A d \in Days : underway(d)' = 0) /\ unseen' = 0
  BY <1>2 DEF underway, unseen, cost
<1>4. spent' \in Nat /\ spent_day' \in {spent_day, day}
  BY AfterBooks
<1>5. \A x \in Int : Book(x) => Spent' \in Nat /\ Spent' >= Spent + x
  BY <1>1, BookSound DEF Spent
<1>6. UNCHANGED <<spent, spent_day>> => Spent' = Spent
  BY DEF Spent
<1>7. underway(today) \in Nat /\ unseen \in Nat /\ Spent \in Nat
  BY <1>1 DEF MoneyNumbers
<1>8. CASE job.op = "fund"
  <2>1. Release(result)
    BY <1>8 DEF After
  <2>2. CASE job.day # day
    <3>1. Spent' = Spent
      BY <2>1, <2>2, <1>6 DEF Release
    <3> QED BY <1>3, <1>7, <3>1
  <2>3. CASE job.day = day
    <3>1. releases(result) \in Nat /\ releases(result) <= underway(today) + unseen
      <4>1. CASE result = "landed"
        BY <4>1, <2>3, <1>1, <1>7, <1>8 DEF releases, unseen
      <4>2. CASE result = "notSent"
        BY <4>2, <2>3, <1>1, <1>7, <1>8, Amounts DEF releases, underway, cost
      <4>3. CASE result \notin {"landed", "notSent"}
        BY <4>3, <1>7 DEF releases
      <4> QED BY <4>1, <4>2, <4>3
    <3>2. Book(-releases(result))
      BY <2>1, <2>3 DEF Release
    <3>3. Spent' \in Nat /\ Spent' >= Spent - releases(result)
      <4>1. -releases(result) \in Int
        BY <3>1
      <4>2. Spent' \in Nat /\ Spent' >= Spent + (-releases(result))
        BY <4>1, <3>2, <1>5
      <4> QED BY <4>2, <3>1, <1>7
    <3> QED BY <1>3, <1>7, <3>1, <3>3
  <2> QED BY <2>2, <2>3
<1>9. CASE job.op # "fund"
  <2> DEFINE back == IF result = "ok" /\ job.op # "collect" THEN sumOf(job.part) ELSE 0
  <2>1. \/ job.op \in {"reclaim", "retire", "collect"} /\ Book(FEE - back)
        \/ UNCHANGED <<spent, spent_day>>
    BY <1>9 DEF After
  <2>2. back \in Nat
    BY <1>1
  <2>3. CASE job.op \in {"reclaim", "retire", "collect"} /\ Book(FEE - back)
    <3>1. back <= unseen
      BY <2>3, <1>1, <1>7 DEF unseen
    <3>2. FEE - back \in Int /\ FEE - back >= -back
      BY <2>2, Amounts
    <3>3. Spent' \in Nat /\ Spent' >= Spent + (FEE - back)
      BY <2>3, <3>2, <1>5
    <3> HIDE DEF back
    <3> QED BY <2>2, <3>1, <3>3, <1>3, <1>7, Amounts
  <2>4. CASE UNCHANGED <<spent, spent_day>>
    BY <2>4, <1>3, <1>6, <1>7
  <2> QED BY <2>1, <2>3, <2>4
<1> QED BY <1>3, <1>8, <1>9

LEMMA AfterMoneyKept ==
  ASSUME Sound, Sound', MoneySound, job # None, NEW result, After(result),
         UNCHANGED <<day, net, orphans>>,
         result = "ok" => cur = "landed", result = "landed" => cur = "failed",
         result = "notSent" => at = "send"
  PROVE  MoneySound'
<1>1. PICK today \in Days : today = day
  BY DEF Sound, WorldSound
<1>2. /\ \A d \in Days : underway(d)' = 0
      /\ underway(today)' + unseen' - Spent' <= underway(today) + unseen - Spent
  BY <1>1, AfterMoney
<1>3. \A d \in Days : underway(d)' <= underway(d)
  BY <1>2, MoneyTyped DEF MoneyNumbers
<1> QED BY <1>1, <1>2, <1>3, MoneyIdle

\* A send given up on joins those that may still land.
LEMMA MoneyAstray ==
  ASSUME Sound, Sound', MoneySound, job # None, UNCHANGED <<day, net>>,
         at = "send" \/ cur = "flying", orphans' = orphans \union {<<job, faults>>},
         \A d \in Days : underway(d)' = 0,
         unseen' + Spent <= Spent'
  PROVE  MoneySound'
<1>1. MoneyNumbers /\ MoneyNumbers'
  BY MoneyTyped, MoneyTypedNext
<1>2. PICK today \in Days : today = day
  BY DEF Sound, WorldSound
<1>3. \A d \in Days : astray(d)' = astray(d) + cost(job, d)
  <2>1. Made(job) /\ OrphansSound /\ faults \in Nat
    BY DEF Sound, ProcessSound, WorldSound
  <2> QED BY <2>1, AstrayAdd
<1>4. \A d \in Days : underway(d) = cost(job, d)
  BY DEF underway
<1>5. \A d \in Days : out(d)' = out(d)
  BY <1>1, <1>3, <1>4 DEF MoneyNumbers, out
<1>6. \A d \in Days : out(d)' <= out(d) /\ (d > today => net'[d] = net[d])
  BY <1>1, <1>5 DEF MoneyNumbers, out
<1>7. out(today)' + unseen' - Spent' <= out(today) + unseen - Spent
  <2>1. out(today) \in Int
    BY <1>1 DEF MoneyNumbers, out
  <2>2. out(today)' = out(today)
    BY <1>5
  <2>3. unseen \in Nat /\ unseen' \in Nat /\ Spent \in Nat /\ Spent' \in Nat
    BY <1>1 DEF MoneyNumbers
  <2>4. ASSUME NEW o \in Int, NEW u \in Nat, NEW u1 \in Nat, NEW s \in Nat, NEW s1 \in Nat,
               u1 + s <= s1
        PROVE  o + u1 - s1 <= o + u - s
    BY <2>4
  <2> QED BY <2>1, <2>2, <2>3, <2>4
<1> QED BY <1>2, <1>6, <1>7, MoneyStep

LEMMA SendMoney == Sound /\ Sound' /\ MoneySound /\ send => MoneySound'
<1> SUFFICES ASSUME Sound, Sound', MoneySound, send PROVE MoneySound'
  OBVIOUS
<1>1. at = "send" /\ UNCHANGED <<day, net>> /\ job # None /\ cur = "none"
  BY DEF send, worldVars, historyVars, Sound, ProcessSound
<1>2. PICK today \in Days : today = day
  BY DEF Sound, WorldSound
<1>3. CASE (After("other") \/ After("notSent")) /\ UNCHANGED orphans
  BY <1>1, <1>3, AfterMoneyKept
<1>4. CASE After("maybe") /\ orphans' = orphans \union {<<job, faults>>}
  <2>1. (\A d \in Days : underway(d)' = 0) /\ unseen' = 0
    BY <1>1, <1>2, <1>4, AfterMoney
  <2>2. MoneyNumbers /\ MoneyNumbers'
    BY MoneyTyped, MoneyTypedNext
  <2>3. Spent' >= Spent
    <3>1. Book(FEE) \/ Book(0) \/ UNCHANGED <<spent, spent_day>>
      <4>1. CASE job.op = "fund"
        <5>1. Release("maybe")
          BY <1>4, <4>1 DEF After
        <5>2. releases("maybe") = 0
          BY DEF releases
        <5>3. Book(-0) \/ UNCHANGED <<spent, spent_day>>
          BY <5>1, <5>2 DEF Release, Book
        <5> QED BY <5>3 DEF Book
      <4>2. CASE job.op # "fund"
        <5>1. Book(FEE - 0) \/ UNCHANGED <<spent, spent_day>>
          BY <1>4, <4>2 DEF After
        <5>2. FEE - 0 = FEE
          BY Amounts
        <5> QED BY <5>1, <5>2
      <4> QED BY <4>1, <4>2
    <3>2. \A x \in Nat : Book(x) => Spent' >= Spent + x
      BY <1>1, BookSound DEF Sound, Spent
    <3>3. Spent \in Nat /\ Spent' \in Nat /\ FEE \in Nat
      BY <2>2, Amounts DEF MoneyNumbers
    <3>4. UNCHANGED <<spent, spent_day>> => Spent' = Spent
      BY <1>1 DEF Spent
    <3> QED BY <3>1, <3>2, <3>3, <3>4
  <2>4. unseen' + Spent <= Spent'
    BY <2>1, <2>2, <2>3 DEF MoneyNumbers
  <2> QED BY <1>1, <1>4, <2>1, <2>4, MoneyAstray
<1>5. CASE /\ UNCHANGED <<orphans, job, turnVars, fileVars>> /\ cur' = "flying"
  <2>1. \A d \in Days : underway(d)' = underway(d)
    BY <1>1, <1>5 DEF underway, cost
  <2>2. unseen' = 0 /\ Spent' = Spent
    BY <1>1, <1>5 DEF unseen, Spent, fileVars
  <2>3. UNCHANGED <<day, net, orphans>> /\ \A d \in Days : underway(d)' <= underway(d)
    BY <1>1, <1>5, <2>1, MoneyTyped DEF MoneyNumbers
  <2>4. underway(today)' + unseen' - Spent' <= underway(today) + unseen - Spent
    BY <2>1, <2>2, MoneyTyped DEF MoneyNumbers
  <2> QED BY <1>2, <2>3, <2>4, MoneyIdle
<1>6. \/ (After("other") \/ After("notSent")) /\ UNCHANGED orphans
      \/ After("maybe") /\ orphans' = orphans \union {<<job, faults>>}
      \/ UNCHANGED <<orphans, job, turnVars, fileVars>> /\ cur' = "flying"
  BY ZenonT(20) DEF send
<1> QED BY <1>3, <1>4, <1>5, <1>6

LEMMA PollMoney == Sound /\ Sound' /\ MoneySound /\ poll => MoneySound'
<1> SUFFICES ASSUME Sound, Sound', MoneySound, poll PROVE MoneySound'
  OBVIOUS
<1>1. at = "confirm" /\ UNCHANGED <<day, net, orphans>> /\ job # None /\ cur # "flying"
  BY DEF poll, worldVars, historyVars, Sound, ProcessSound
<1>2. PICK today \in Days : today = day
  BY DEF Sound, WorldSound
<1>3. CASE \/ cur = "landed" /\ After("ok")
           \/ cur = "failed" /\ After("landed")
           \/ After("other")
  BY <1>1, <1>3, AfterMoneyKept
<1>4. CASE UNCHANGED <<at, job, cur, turnVars, fileVars>>
  <2>1. \A d \in Days : underway(d)' = underway(d)
    BY <1>1, <1>4 DEF underway, cost
  <2>2. unseen' = unseen /\ Spent' = Spent
    BY <1>1, <1>4 DEF unseen, Spent, fileVars
  <2>3. \A d \in Days : underway(d)' <= underway(d)
    BY <2>1, MoneyTyped DEF MoneyNumbers
  <2>4. underway(today)' + unseen' - Spent' <= underway(today) + unseen - Spent
    BY <2>1, <2>2, MoneyTyped DEF MoneyNumbers
  <2> QED BY <1>1, <1>2, <2>3, <2>4, MoneyIdle
<1>5. CASE job.op \in RESIGN /\ cur' = "none" /\ UNCHANGED <<job, turnVars, fileVars>>
  <2>1. \A d \in Days : underway(d) = 0 /\ underway(d)' = 0
    BY <1>5 DEF underway, cost, RESIGN
  <2>2. unseen = 0 /\ unseen' = 0 /\ Spent' = Spent
    BY <1>1, <1>5 DEF unseen, Spent, fileVars, RESIGN
  <2>3. underway(today)' + unseen' - Spent' <= underway(today) + unseen - Spent
    BY <2>1, <2>2, MoneyTyped DEF MoneyNumbers
  <2>4. \A d \in Days : underway(d)' <= underway(d)
    BY <2>1
  <2> QED BY <1>1, <1>2, <2>3, <2>4, MoneyIdle
<1>6. \/ cur = "landed" /\ After("ok")
      \/ cur = "failed" /\ After("landed")
      \/ After("other")
      \/ UNCHANGED <<at, job, cur, turnVars, fileVars>>
      \/ job.op \in RESIGN /\ cur' = "none" /\ UNCHANGED <<job, turnVars, fileVars>>
  BY ZenonT(20) DEF poll
<1> QED BY <1>3, <1>4, <1>5, <1>6

LEMMA CrashMoney == Sound /\ Sound' /\ MoneySound /\ Crash => MoneySound'
<1> SUFFICES ASSUME Sound, Sound', MoneySound, Crash PROVE MoneySound'
  OBVIOUS
<1>1. /\ UNCHANGED <<day, net, spent, spent_day>> /\ job' = None /\ cur' = "none"
      /\ orphans' = (IF cur = "flying" THEN orphans \union {<<job, faults>>} ELSE orphans)
  BY DEF Crash, worldVars, fileVars
<1>2. (\A d \in Days : underway(d)' = 0) /\ unseen' = 0 /\ Spent' = Spent
  BY <1>1 DEF underway, unseen, Spent
<1>3. MoneyNumbers
  BY MoneyTyped
<1>4. CASE cur = "flying"
  <2>1. job # None
    BY <1>4 DEF Sound, ProcessSound
  <2>2. unseen' + Spent <= Spent'
    BY <1>2, <1>3 DEF MoneyNumbers
  <2> QED BY <1>1, <1>2, <1>4, <2>1, <2>2, MoneyAstray
<1>5. CASE cur # "flying"
  <2>1. PICK today \in Days : today = day
    BY DEF Sound, WorldSound
  <2>2. underway(today)' + unseen' - Spent' <= underway(today) + unseen - Spent
    BY <1>2, <1>3 DEF MoneyNumbers
  <2>3. \A d \in Days : underway(d)' <= underway(d)
    BY <1>2, <1>3 DEF MoneyNumbers
  <2> QED BY <1>1, <1>5, <2>1, <2>2, <2>3, MoneyIdle
<1> QED BY <1>4, <1>5

\* What a transaction that lands does to the days' accounts.
LEMMA EffectNet ==
  ASSUME Sound, NEW j, Made(j), Effect(j)
  PROVE  \A d \in Days :
           net'[d] = IF j.op = "fund" THEN net[d] + cost(j, d)
                     ELSE IF j.op \in {"reclaim", "retire"} /\ d = day
                     THEN net[d] - sumOf(j.part) ELSE net[d]
<1>1. net \in [Days -> Int] /\ day \in Days /\ j.day \in Days /\ sumOf(j.part) \in Nat
  BY JobFacts DEF Sound, WorldSound, Made, Jobs
<1>2. net' = IF j.op = "fund" THEN [net EXCEPT ![j.day] = @ + sumOf(j.part) + FEE]
             ELSE IF j.op \in {"reclaim", "retire"} THEN [net EXCEPT ![day] = @ - sumOf(j.part)]
             ELSE net
  BY DEF Effect
<1>3. \A d \in Days : net[d] \in Int
  BY <1>1
<1>4. CASE j.op = "fund"
  BY <1>1, <1>2, <1>3, <1>4, Amounts DEF cost
<1>5. CASE j.op # "fund"
  BY <1>1, <1>2, <1>3, <1>5
<1> QED BY <1>4, <1>5

LEMMA LandingMoney == Sound /\ Sound' /\ MoneySound /\ Landing => MoneySound'
<1> SUFFICES ASSUME Sound, Sound', MoneySound, Landing PROVE MoneySound'
  OBVIOUS
<1>1. UNCHANGED <<day, at, job, spent, spent_day>> /\ Lands
  BY DEF Landing, fileVars
<1>2. PICK today \in Days : today = day /\ today = day'
  BY <1>1 DEF Sound, WorldSound
<1>3. MoneyNumbers /\ MoneyNumbers' /\ Spent' = Spent
  BY <1>1, MoneyTyped, MoneyTypedNext DEF Spent
<1>4. \A d \in Days : out(d) = net[d] + underway(d) + astray(d)
                      /\ out(d)' = net'[d] + underway(d)' + astray(d)'
  BY DEF out
<1>5. CASE cur = "flying" /\ UNCHANGED orphans
  <2>1. cur = "flying" /\ job # None /\ Made(job) /\ at = "confirm" /\ job.day <= day
    BY <1>5 DEF Sound, ProcessSound
  <2>2. /\ \A d \in Days : underway(d) = cost(job, d) /\ astray(d)' = astray(d)
        /\ unseen = 0
    BY <1>5, <2>1 DEF underway, astray, unseen
  <2>3. sumOf(job.part) \in Nat /\ job.day \in Days /\ \A d \in Days : cost(job, d) \in Nat
    BY <2>1, JobFacts DEF Made, Jobs
  <2>4. ASSUME cur' \in {"landed", "failed", "dead"}
        PROVE  \A d \in Days : underway(d)' = 0
    BY <1>1, <2>1, <2>4 DEF underway
  <2>5. CASE possible(job) /\ Effect(job) /\ cur' = "landed"
    <3>1. \A d \in Days : net'[d] = IF job.op = "fund" THEN net[d] + cost(job, d)
                                    ELSE IF job.op \in {"reclaim", "retire"} /\ d = day
                                    THEN net[d] - sumOf(job.part) ELSE net[d]
      BY <2>1, <2>5, EffectNet
    <3>2. unseen' = IF job.op \in {"reclaim", "retire"} THEN sumOf(job.part) ELSE 0
      BY <1>1, <2>5 DEF unseen
    <3>3. \A d \in Days : d > today => cost(job, d) = 0
      BY <1>2, <2>1, <2>3, Amounts DEF cost, Days
    <3>4. \A d \in Days : job.op # "fund" => cost(job, d) = 0
      BY DEF cost
    <3>5. \A d \in Days : underway(d)' = 0
      BY <2>4, <2>5
    <3>6. \A d \in Days : out(d)' <= out(d) /\ (d > today => net'[d] = net[d])
      <4>1. ASSUME NEW d \in Days
            PROVE  net'[d] <= net[d] + cost(job, d) /\ (d > today => net'[d] = net[d])
        <5>1. net[d] \in Int /\ cost(job, d) \in Nat
          BY <1>3, <2>3 DEF MoneyNumbers
        <5>2. d > today => d # day
          BY <1>2, Amounts DEF Days
        <5> QED BY <2>3, <3>1, <3>3, <3>4, <5>1, <5>2
      <4>2. \A d \in Days : out(d)' <= out(d)
        BY <1>3, <1>4, <2>2, <2>3, <3>5, <4>1 DEF MoneyNumbers
      <4> QED BY <4>1, <4>2
    <3>7. out(today)' + unseen' - Spent' <= out(today) + unseen - Spent
      <4>1. /\ out(today) = net[today] + cost(job, today) + astray(today)
            /\ out(today)' = net'[today] + astray(today)
        BY <1>3, <1>4, <2>2, <3>5 DEF MoneyNumbers
      <4>2. net'[today] + unseen' <= net[today] + cost(job, today)
        BY <1>2, <1>3, <2>3, <3>1, <3>2, <3>4 DEF MoneyNumbers
      <4> QED BY <1>3, <2>2, <2>3, <4>1, <4>2 DEF MoneyNumbers
    <3> QED BY <1>2, <3>6, <3>7, MoneyStep
  <2>6. CASE cur' \in {"failed", "dead"} /\ UNCHANGED net
    <3>1. \A d \in Days : underway(d)' = 0
      BY <2>4, <2>6
    <3>2. unseen' <= cost(job, today)
      BY <1>1, <1>2, <2>3, <2>6, Amounts DEF unseen, cost
    <3>3. \A d \in Days : out(d)' <= out(d) /\ (d > today => net'[d] = net[d])
      BY <1>3, <1>4, <2>2, <2>3, <2>6, <3>1 DEF MoneyNumbers
    <3>4. out(today)' + unseen' - Spent' <= out(today) + unseen - Spent
      BY <1>2, <1>3, <1>4, <2>2, <2>3, <2>6, <3>1, <3>2 DEF MoneyNumbers
    <3> QED BY <1>2, <3>3, <3>4, MoneyStep
  <2>7. CASE \E o \in orphans : orphans' = orphans \ {o}
    BY <1>5, <2>7
  <2> QED BY <1>1, <2>5, <2>6, <2>7 DEF Lands
<1>6. CASE \E o \in orphans : /\ orphans' = orphans \ {o} /\ UNCHANGED cur
                              /\ \/ possible(o[1]) /\ Effect(o[1])
                                 \/ UNCHANGED net
  <2>1. PICK o \in orphans : /\ orphans' = orphans \ {o} /\ UNCHANGED cur
                             /\ \/ possible(o[1]) /\ Effect(o[1])
                                \/ UNCHANGED net
    BY <1>6
  <2>2. Made(o[1]) /\ o[1].day <= day /\ OrphansSound
    BY DEF Sound, OrphansSound
  <2>3. /\ sumOf(o[1].part) \in Nat /\ o[1].day \in Days
        /\ \A d \in Days : cost(o[1], d) \in Nat
    BY <2>2, JobFacts DEF Made, Jobs
  <2>4. \A d \in Days : astray(d)' = astray(d) - cost(o[1], d)
    BY <2>1, <2>2, AstrayTake
  <2>5. (\A d \in Days : underway(d)' = underway(d)) /\ unseen' = unseen
    BY <1>1, <2>1 DEF underway, unseen
  <2>6. \A d \in Days : d > today => cost(o[1], d) = 0
    BY <1>2, <2>2, <2>3, Amounts DEF cost, Days
  <2>7. \A d \in Days : o[1].op # "fund" => cost(o[1], d) = 0
    BY DEF cost
  <2>8. \A d \in Days : net'[d] \in {net[d], net[d] + cost(o[1], d), net[d] - sumOf(o[1].part)}
                        /\ (d > today => net'[d] = net[d])
    <3>1. CASE UNCHANGED net
      BY <3>1
    <3>2. CASE Effect(o[1])
      <4>1. \A d \in Days :
              net'[d] = IF o[1].op = "fund" THEN net[d] + cost(o[1], d)
                        ELSE IF o[1].op \in {"reclaim", "retire"} /\ d = day
                        THEN net[d] - sumOf(o[1].part) ELSE net[d]
        BY <2>2, <3>2, EffectNet
      <4>2. \A d \in Days : net[d] \in Int
        BY <1>3 DEF MoneyNumbers
      <4>3. \A d \in Days : d > today => net'[d] = net[d]
        BY <1>2, <2>3, <2>6, <4>1, <4>2, Amounts DEF Days
      <4> QED BY <4>1, <4>3
    <3> QED BY <2>1, <3>1, <3>2
  <2>9. \A d \in Days : out(d)' <= out(d) /\ (d > today => net'[d] = net[d])
    BY <1>3, <1>4, <2>3, <2>4, <2>5, <2>8 DEF MoneyNumbers
  <2>10. out(today)' + unseen' - Spent' <= out(today) + unseen - Spent
    <3>1. out(today) \in Int /\ out(today)' \in Int /\ out(today)' <= out(today)
      BY <1>3, <1>4, <2>9 DEF MoneyNumbers
    <3> QED BY <1>3, <2>5, <3>1 DEF MoneyNumbers
  <2> QED BY <1>2, <2>9, <2>10, MoneyStep
<1> QED BY <1>1, <1>5, <1>6 DEF Lands

LEMMA ClockMoney == Sound /\ Sound' /\ MoneySound /\ Clock => MoneySound'
<1> SUFFICES ASSUME Sound, Sound', MoneySound, Clock PROVE MoneySound'
  OBVIOUS
<1>1. UNCHANGED <<orphans, at, job, cur, spent, spent_day, net>> /\ (Midnight \/ UNCHANGED day)
  BY DEF Clock, sendVars, fileVars, historyVars
<1>2. MoneyNumbers /\ MoneyNumbers'
  BY MoneyTyped, MoneyTypedNext
<1>3. \A d \in Days : underway(d)' = underway(d) /\ astray(d)' = astray(d)
  BY <1>1 DEF underway, astray, cost
<1>4. CASE UNCHANGED day
  <2>1. PICK today \in Days : today = day
    BY DEF Sound, WorldSound
  <2>2. unseen' = unseen /\ Spent' = Spent
    BY <1>1, <1>4 DEF unseen, Spent
  <2>3. \A d \in Days : underway(d)' <= underway(d)
    BY <1>2, <1>3 DEF MoneyNumbers
  <2>4. underway(today)' + unseen' - Spent' <= underway(today) + unseen - Spent
    BY <1>2, <1>3, <2>2, <2>1 DEF MoneyNumbers
  <2> QED BY <1>1, <1>4, <2>1, <2>3, <2>4, MoneyIdle
<1>5. CASE Midnight
  <2>1. PICK today \in Days : today = day' /\ today > day
    BY <1>2, <1>5, Amounts DEF Midnight, MoneyNumbers, Days
  <2>2. \A d \in Days : out(d)' = out(d)
    BY <1>1, <1>3 DEF out
  <2>3. out(today) = 0
    <3>1. job # None => Made(job) /\ job.day <= day
      BY DEF Sound, ProcessSound
    <3>2. ASSUME NEW j, Made(j), j.day <= day
          PROVE  cost(j, today) = 0
      <4>1. j.day \in Days
        BY <3>2 DEF Made, Jobs
      <4> QED BY <1>2, <2>1, <3>2, <4>1, Amounts DEF cost, MoneyNumbers, Days
    <3>3. underway(today) = 0
      BY <3>1, <3>2 DEF underway
    <3>4. astray(today) = 0
      <4> DEFINE f == [o \in orphans |-> cost(o[1], today)]
      <4>1. \A o \in orphans : f[o] = 0
        BY <3>2 DEF Sound, OrphansSound
      <4>2. IsFiniteSet(orphans)
        BY DEF Sound, OrphansSound
      <4>3. SumFunctionOnSet(f, orphans) = 0
        <5> HIDE DEF f
        <5> QED BY <4>1, <4>2, SumZero
      <4> QED BY <4>3 DEF astray
    <3>5. net[today] = 0
      BY <2>1 DEF MoneySound
    <3> QED BY <3>3, <3>4, <3>5 DEF out
  <2>4. \A d \in Days : d > day' => net'[d] = 0
    BY <1>1, <1>2, <1>5, Amounts DEF MoneySound, Midnight, MoneyNumbers, Days
  <2>5. \A d \in Days : out(d)' <= DAILY
    BY <2>2 DEF MoneySound
  <2>6. out(day)' <= 0
    BY <2>1, <2>2, <2>3
  <2> QED BY <2>4, <2>5, <2>6 DEF MoneySound
<1> QED BY <1>1, <1>4, <1>5

LEMMA AtChoose == Sound /\ at = "choose" => job = None /\ cur = "none"
BY DEF Sound, ProcessSound

LEMMA TurnMoney == Sound /\ Sound' /\ MoneySound /\ Turn => MoneySound'
<1> SUFFICES ASSUME Sound, Sound', MoneySound, Turn PROVE MoneySound'
  OBVIOUS
<1>1. UNCHANGED <<day, net, orphans>> /\ job = None /\ cur = "none"
  BY AtChoose DEF Turn, worldVars, historyVars
<1>2. PICK w \in ACTIVE :
        \/ Rest /\ UNCHANGED <<spent, spent_day>>
        \/ /\ ~(sol[w] >= MIN) /\ TARGET - sol[w] + FEE <= remaining
           /\ topUp([v \in {w} |-> TARGET - sol[w]])
  BY DEF Turn
<1>3. CASE Rest /\ UNCHANGED <<spent, spent_day>>
  BY <1>1, <1>3, MoneyChoose DEF Rest, sendVars
<1>4. CASE /\ ~(sol[w] >= MIN) /\ TARGET - sol[w] + FEE <= remaining
           /\ topUp([v \in {w} |-> TARGET - sol[w]])
  <2>1. w \in Wallets /\ WorldSound /\ TARGET - sol[w] \in Nat
    <3>1. w \in Wallets /\ WorldSound /\ sol[w] \in Nat
      BY Amounts DEF Sound, WorldSound
    <3> QED BY <1>4, <3>1, Amounts
  <2> QED BY <1>1, <1>4, <2>1, OneTopUp, MoneyTopUp
<1> QED BY <1>2, <1>3, <1>4

LEMMA RentTopUpMoney == Sound /\ Sound' /\ MoneySound /\ rentTopUp => MoneySound'
<1> SUFFICES ASSUME Sound, Sound', MoneySound, rentTopUp PROVE MoneySound'
  OBVIOUS
<1>1. UNCHANGED <<day, net, orphans>> /\ job = None /\ cur = "none"
  BY AtChoose DEF rentTopUp, worldVars, historyVars
<1>2. PICK w \in who :
        /\ ~enough(w) /\ START_LAMPORTS + TARGET - bal[w] + FEE <= remaining
        /\ topUp([v \in {w} |-> START_LAMPORTS + TARGET - bal[w]])
  BY DEF rentTopUp
<1>3. w \in Wallets /\ WorldSound
  BY DEF Sound, ProcessSound
<1>4. START_LAMPORTS + TARGET - bal[w] \in Nat
  BY <1>2, <1>3, RentNeed
<1> QED BY <1>1, <1>2, <1>3, <1>4, OneTopUp, MoneyTopUp

LEMMA SellMoney == Sound /\ Sound' /\ MoneySound /\ sellAction => MoneySound'
<1> SUFFICES ASSUME Sound, Sound', MoneySound, sellAction PROVE MoneySound'
  OBVIOUS
<1>1. UNCHANGED <<day, net, orphans, spent, spent_day>> /\ job = None /\ cur = "none"
      /\ job' = None /\ cur' = "none"
  BY AtChoose DEF sellAction, Rest, worldVars, sendVars
<1> QED BY <1>1, MoneyChoose

LEMMA DecideMoney == Sound /\ Sound' /\ MoneySound /\ decide => MoneySound'
<1> SUFFICES ASSUME Sound, Sound', MoneySound, decide PROVE MoneySound'
  OBVIOUS
<1>1. UNCHANGED <<day, net, orphans, spent, spent_day>> /\ job = None /\ cur = "none"
  BY AtChoose DEF decide, worldVars, historyVars
<1>2. PICK w \in who : \/ collectAction(w)
                       \/ startAction(w) \/ joinAction(w) \/ buyAction(w)
                       \/ Rest
  BY DEF decide
<1>3. w \in Wallets /\ WorldSound
  BY DEF Sound, ProcessSound
<1>4. cur' = "none" /\ (job' # None => job'.op # "fund")
  <2>1. CASE collectAction(w)
    BY <1>1, <1>3, <2>1, CollectStep DEF Opened, Rest, sendVars
  <2>2. CASE startAction(w) \/ joinAction(w) \/ buyAction(w)
    <3>1. PICK op \in Brings, item \in Items : Act(w, op, item)
      BY <2>2 DEF startAction, joinAction, buyAction, Brings, Items
    <3> QED BY <1>3, <3>1, ActMade DEF Opened, Brings
  <2>3. CASE Rest
    BY <1>1, <2>3 DEF Rest, sendVars
  <2> QED BY <1>2, <2>1, <2>2, <2>3
<1> QED BY <1>1, <1>4, MoneyChoose

LEMMA SweepTopUpMoney == Sound /\ Sound' /\ MoneySound /\ sweepTopUp => MoneySound'
<1> SUFFICES ASSUME Sound, Sound', MoneySound, sweepTopUp PROVE MoneySound'
  OBVIOUS
<1>1. UNCHANGED <<day, net, orphans>> /\ job = None /\ cur = "none"
  BY AtChoose DEF sweepTopUp, worldVars, historyVars
<1>2. PICK ws \in planTopUps :
        \/ ws # {} /\ topUp(lack(ws))
        \/ Rest /\ UNCHANGED <<spent, spent_day>>
  BY DEF sweepTopUp
<1>3. CASE Rest /\ UNCHANGED <<spent, spent_day>>
  BY <1>1, <1>3, MoneyChoose DEF Rest, sendVars
<1>4. CASE ws # {} /\ topUp(lack(ws))
  BY <1>1, <1>4, TopUpsFit, MoneyTopUp DEF Sound
<1> QED BY <1>2, <1>3, <1>4

LEMMA RetireSweepMoney == Sound /\ Sound' /\ MoneySound /\ retireSweep => MoneySound'
<1> SUFFICES ASSUME Sound, Sound', MoneySound, retireSweep PROVE MoneySound'
  OBVIOUS
<1>1. UNCHANGED <<day, net, orphans, spent, spent_day>> /\ job = None /\ cur = "none"
  BY AtChoose DEF retireSweep, worldVars, historyVars
<1>2. cur' = "none" /\ (job' # None => job'.op # "fund")
  <2>1. CASE \E w \in RETIRING : collectAction(w)
    <3>1. PICK w \in Wallets : collectAction(w)
      BY <2>1, Amounts
    <3>2. \/ Rest
          \/ Opened /\ job'.op = "collect"
      BY <3>1, CollectStep DEF Sound
    <3> QED BY <1>1, <3>2 DEF Opened, Rest, sendVars
  <2>2. CASE Rest
    BY <1>1, <2>2 DEF Rest, sendVars
  <2> QED BY <2>1, <2>2 DEF retireSweep
<1> QED BY <1>1, <1>2, MoneyChoose

\* The steps that neither send a top-up nor end one.
LEMMA OtherMoney ==
  Sound /\ Sound' /\ MoneySound
        /\ (fundingSweep \/ giveBack \/ SweepEnd \/ Start \/ Round \/ UNCHANGED vars)
    => MoneySound'
<1> SUFFICES ASSUME Sound, Sound', MoneySound,
                    fundingSweep \/ giveBack \/ SweepEnd \/ Start \/ Round \/ UNCHANGED vars
             PROVE MoneySound'
  OBVIOUS
<1>1. UNCHANGED <<day, net, orphans, spent, spent_day>>
  BY DEF fundingSweep, giveBack, SweepEnd, Start, Round, vars, worldVars, historyVars, fileVars
<1>2. CASE giveBack
  <2>1. job = None /\ cur = "none" /\ cur' = "none" /\ job'.op = stage /\ stage # "fund"
    BY <1>2, AtChoose DEF giveBack, Send
  <2> QED BY <1>1, <2>1, MoneyChoose
<1>3. CASE UNCHANGED <<job, cur>> /\ (UNCHANGED at \/ (cur # "flying" /\ at # "send" /\ at' # "send"))
  <2>1. \A d \in Days : underway(d)' = underway(d)
    BY <1>3 DEF underway, cost
  <2>2. unseen' = unseen /\ Spent' = Spent
    BY <1>1, <1>3 DEF unseen, Spent
  <2>3. PICK today \in Days : today = day
    BY DEF Sound, WorldSound
  <2>4. \A d \in Days : underway(d)' <= underway(d)
    BY <2>1, MoneyTyped DEF MoneyNumbers
  <2>5. underway(today)' + unseen' - Spent' <= underway(today) + unseen - Spent
    BY <2>1, <2>2, <2>3, MoneyTyped DEF MoneyNumbers
  <2> QED BY <1>1, <2>3, <2>4, <2>5, MoneyIdle
<1>4. ASSUME fundingSweep \/ SweepEnd \/ Start \/ Round \/ UNCHANGED vars
      PROVE  UNCHANGED <<job, cur>> /\ (UNCHANGED at \/ (cur # "flying" /\ at # "send" /\ at' # "send"))
  <2>1. CASE fundingSweep
    BY <2>1 DEF fundingSweep, sendVars
  <2>2. CASE Start
    BY <2>2 DEF Start, sendVars, Sound, ProcessSound
  <2>3. CASE SweepEnd
    BY <2>3 DEF SweepEnd, sendVars
  <2>4. CASE Round
    <3>1. job' = job /\ cur' = cur /\ at' = at
      BY <2>4 DEF Round, sendVars
    <3> QED BY <3>1
  <2>5. CASE UNCHANGED vars
    <3>1. job' = job /\ cur' = cur /\ at' = at
      BY <2>5 DEF vars, sendVars
    <3> QED BY <3>1
  <2> QED BY <1>4, <2>1, <2>2, <2>3, <2>4, <2>5
<1> QED BY <1>2, <1>3, <1>4

LEMMA MoneyInit == Init => MoneySound
<1> SUFFICES ASSUME Init PROVE MoneySound
  OBVIOUS
<1>1. \A d \in Days : net[d] = 0 /\ underway(d) = 0
  BY DEF Init, Days, underway
<1>2. \A d \in Days : astray(d) = 0
  BY SumEmpty DEF Init, astray
<1>3. \A d \in Days : out(d) = 0
  BY <1>1, <1>2 DEF out
<1> QED BY <1>1, <1>3, SoundInit, Amounts DEF MoneySound, Sound, WorldSound

LEMMA MoneyKept == Sound /\ MoneySound /\ [Next]_vars => MoneySound'
<1> SUFFICES ASSUME Sound, MoneySound, [Next]_vars PROVE MoneySound'
  OBVIOUS
<1>1. Sound'
  BY SoundStep
<1> QED BY <1>1, TurnMoney, RentTopUpMoney, DecideMoney, SellMoney, SweepTopUpMoney, RetireSweepMoney, OtherMoney, SendMoney,
           PollMoney, CrashMoney, LandingMoney, ClockMoney DEF Next, Sweep

\* Whatever is refused, lost, late or cut short: no day's top-ups pass its allowance.
THEOREM NetCappedHolds == Spec => []NetCapped
<1>1. Init => Sound /\ MoneySound
  BY SoundInit, MoneyInit
<1>2. Sound /\ MoneySound /\ [Next]_vars => (Sound /\ MoneySound)'
  BY SoundStep, MoneyKept
<1>3. Sound /\ MoneySound => NetCapped
  <2> SUFFICES ASSUME Sound, MoneySound, NEW d \in Days PROVE net[d] <= DAILY
    BY DEF NetCapped, Days
  <2>1. net[d] \in Int /\ underway(d) \in Nat /\ astray(d) \in Nat
    BY MoneyTyped DEF MoneyNumbers
  <2>2. out(d) <= DAILY
    BY DEF MoneySound
  <2> QED BY <2>1, <2>2, Amounts DEF out
<1> QED BY <1>1, <1>2, <1>3, PTL DEF Spec

-----------------------------------------------------------------------------
(* The journal is kept.                                                    *)

\* Between two sends nothing is forgotten, or a round that is over is.
LEMMA JournalChoose ==
  ASSUME Sound, JournalSound, cur = "none", UNCHANGED <<round, holds, lost, orphans, journal>>,
         cur' = "none", job' # None => job'.op # "collect"
  PROVE  JournalSound'
<1>1. OrphansKnown'
  BY DEF JournalSound, OrphansKnown, Over
<1>2. \A w \in Wallets : coming(w) = {} /\ coming(w)' = {}
  BY DEF coming
<1>3. HoldsKnown'
  BY <1>2 DEF JournalSound, HoldsKnown
<1>4. CollectKnown'
  BY DEF CollectKnown
<1> QED BY <1>1, <1>3, <1>4 DEF JournalSound

LEMMA JournalCollect ==
  ASSUME Sound, JournalSound, job = None, cur = "none", UNCHANGED <<round, holds, lost, orphans>>,
         NEW w \in Wallets, due(w), collectAction(w)
  PROVE  JournalSound'
<1>1. Over /\ Over'
  BY DEF due, final, Over
<1>2. OrphansKnown'
  BY <1>1 DEF OrphansKnown
<1>3. \A v \in Wallets : coming(v) = {}
  BY DEF coming
<1>4. holds[w] \subseteq lost[w] \union (journal[w] \intersect holds[w])
  BY <1>3 DEF JournalSound, HoldsKnown
<1>5. journal \in [Wallets -> SUBSET Items]
  BY DEF Sound, WorldSound
<1>6. CASE Rest /\ Forget(w) /\ journal[w] \intersect holds[w] = {}
  <2>1. \A v \in Wallets : journal'[v] = IF v = w THEN {} ELSE journal[v]
    BY <1>5, <1>6 DEF Forget
  <2>2. HoldsKnown'
    BY <1>3, <1>4, <1>6, <2>1 DEF JournalSound, HoldsKnown
  <2>3. CollectKnown'
    BY <1>6 DEF CollectKnown, Rest
  <2> QED BY <1>2, <2>2, <2>3 DEF JournalSound
<1>7. CASE /\ Opened /\ UNCHANGED journal /\ job'.op = "collect" /\ DOMAIN job'.part = {w}
           /\ UNION Range(job'.items) = journal[w] \intersect holds[w]
  <2>1. owner(job') = w /\ cur' = "none"
    BY <1>7 DEF owner, Opened
  <2>2. HoldsKnown'
    BY <1>3, <1>7 DEF JournalSound, HoldsKnown
  <2>3. CollectKnown'
    BY <1>1, <1>4, <1>7, <2>1 DEF CollectKnown, fetched
  <2> QED BY <1>2, <2>2, <2>3 DEF JournalSound
<1> QED BY <1>6, <1>7, CollectStep DEF Sound

\* The entry of what landed is made; a collect whose last part landed leaves nothing.
LEMMA AfterJournal ==
  ASSUME Sound, JournalSound, job # None, NEW result, After(result), UNCHANGED <<round, holds, lost>>,
         cur = "landed" <=> result = "ok",
         \/ UNCHANGED orphans
         \/ result = "maybe" /\ orphans' = orphans \union {<<job, faults>>}
  PROVE  JournalSound'
<1>1. Made(job) /\ journal \in [Wallets -> SUBSET Items]
  BY DEF Sound, ProcessSound, WorldSound
<1>2. cur' = "none" /\ \A w \in Wallets : coming(w)' = {}
  BY AfterJob DEF Opened, coming
<1>3. Over' <=> Over
  BY DEF Over
<1>4. CASE job.op \in Brings
  <2> DEFINE held == UNION Range(job.items)
  <2>1. owner(job) \in Wallets /\ Head(job.items) \subseteq held
    BY <1>1, <1>4, OwnerFacts DEF Brings, SolOps
  <2> HIDE DEF held
  <2>2. /\ \A w \in Wallets : journal[w] \subseteq journal'[w]
        /\ result \in {"ok", "maybe"} => held \subseteq journal'[owner(job)]
    <3>1. PICK more : /\ journal' = [journal EXCEPT ![owner(job)] = @ \union more]
                      /\ result \in {"ok", "maybe"} => more = held
      BY <1>4 DEF After, Brings, JOURNAL_MAYBE, held
    <3> QED BY <1>1, <2>1, <3>1
  <2>3. HoldsKnown'
    <3>1. \A w \in Wallets : coming(w) \subseteq journal'[w]
      BY <2>1, <2>2 DEF coming
    <3> QED BY <1>2, <2>2, <3>1 DEF JournalSound, HoldsKnown
  <2>4. OrphansKnown'
    <3>1. ASSUME NEW o \in orphans, o[1].op \in Brings
          PROVE  Over' \/ Head(o[1].items) \subseteq journal'[owner(o[1])] \union lost'[owner(o[1])]
      <4>1. owner(o[1]) \in Wallets
        BY <3>1, OwnerFacts DEF Sound, OrphansSound, Brings, SolOps
      <4> QED BY <1>3, <2>2, <3>1, <4>1 DEF JournalSound, OrphansKnown
    <3>2. ASSUME result = "maybe"
          PROVE  Head(job.items) \subseteq journal'[owner(job)]
      BY <2>1, <2>2, <3>2
    <3>3. <<job, faults>>[1] = job
      OBVIOUS
    <3> QED BY <3>1, <3>2, <3>3 DEF OrphansKnown
  <2>5. CollectKnown'
    BY <1>4, AfterJob DEF CollectKnown, Brings
  <2> QED BY <2>3, <2>4, <2>5 DEF JournalSound
<1>5. CASE job.op = "collect"
  <2>1. owner(job) \in Wallets /\ Over /\ job.items \in Seq(SUBSET Items) /\ job.items # <<>>
        /\ holds[owner(job)] \subseteq lost[owner(job)] \union fetched
        /\ Tail(job.items) \in Seq(SUBSET Items)
    BY <1>1, <1>5, OwnerFacts DEF Brings, SolOps, JournalSound, CollectKnown
  <2>2. OrphansKnown'
    BY <1>3, <2>1 DEF OrphansKnown
  <2>3. \A w \in Wallets : coming(w) = {}
    BY <1>5 DEF coming, Brings
  <2>4. CASE /\ result = "ok" /\ Len(job.items) > 1
             /\ job' = [job EXCEPT !.items = Tail(@)] /\ Opened /\ UNCHANGED journal
    <3>1. HoldsKnown'
      BY <2>3, <2>4 DEF JournalSound, HoldsKnown
    <3>2. job'.items = Tail(job.items) /\ job'.part = job.part
      BY <1>1, <2>4 DEF Made, Jobs
    <3>3. CollectKnown'
      BY <1>2, <1>3, <2>1, <2>4, <3>2 DEF CollectKnown, fetched, owner
    <3> QED BY <2>2, <3>1, <3>3 DEF JournalSound
  <2>5. CASE ~(result = "ok" /\ Len(job.items) > 1)
    <3>1. job' = None
      BY <1>5, <2>5, AfterJob
    <3>2. CollectKnown'
      BY <3>1 DEF CollectKnown
    <3>3. CASE result = "ok"
      <4>1. journal' = [journal EXCEPT ![owner(job)] = {}]
        BY <1>5, <2>5, <3>3 DEF After
      <4>2. Range(Tail(job.items)) = {}
        <5>1. Len(job.items) = 1
          <6>1. Len(job.items) \in Nat \ {0}
            BY <2>1, EmptySeq
          <6>2. ~(Len(job.items) > 1)
            BY <2>5, <3>3
          <6>3. \A n \in Nat \ {0} : ~(n > 1) => n = 1
            OBVIOUS
          <6> QED BY <6>1, <6>2, <6>3, Zenon
        <5>2. Len(Tail(job.items)) = 0
          BY <2>1, <5>1, HeadTailProperties
        <5> QED BY <2>1, <5>2 DEF Range
      <4>3. holds[owner(job)] \subseteq lost[owner(job)]
        BY <2>1, <3>3, <4>2 DEF fetched
      <4>4. HoldsKnown'
        BY <1>1, <2>3, <4>1, <4>3 DEF JournalSound, HoldsKnown
      <4> QED BY <2>2, <3>2, <4>4 DEF JournalSound
    <3>4. CASE result # "ok"
      <4>1. journal' = journal
        BY <1>5, <3>4 DEF After
      <4>2. HoldsKnown'
        BY <2>3, <4>1 DEF JournalSound, HoldsKnown
      <4> QED BY <2>2, <3>2, <4>2 DEF JournalSound
    <3> QED BY <3>3, <3>4
  <2> QED BY <1>5, <2>4, <2>5, AfterJob
<1>6. CASE job.op \in SolOps
  <2>1. journal' = journal /\ job' = None
    BY <1>6, AfterJob DEF After, SolOps
  <2>2. \A w \in Wallets : coming(w) = {}
    BY <1>6 DEF coming, Brings, SolOps
  <2>3. HoldsKnown'
    BY <2>1, <2>2 DEF JournalSound, HoldsKnown
  <2>4. OrphansKnown'
    <3>1. <<job, faults>>[1].op \notin Brings
      BY <1>6 DEF Brings, SolOps
    <3>2. \A o \in orphans' : o \in orphans \/ o = <<job, faults>>
      OBVIOUS
    <3> QED BY <1>3, <2>1, <3>1, <3>2 DEF JournalSound, OrphansKnown
  <2>5. CollectKnown'
    BY <2>1 DEF CollectKnown
  <2> QED BY <2>3, <2>4, <2>5 DEF JournalSound
<1> QED BY <1>1, <1>4, <1>5, <1>6 DEF Made, Jobs

LEMMA SendJournal == Sound /\ JournalSound /\ send => JournalSound'
<1> SUFFICES ASSUME Sound, JournalSound, send PROVE JournalSound'
  OBVIOUS
<1>1. at = "send" /\ UNCHANGED <<round, holds, lost>> /\ job # None /\ cur = "none"
  BY DEF send, worldVars, historyVars, Sound, ProcessSound
<1>2. \/ (After("other") \/ After("notSent")) /\ UNCHANGED orphans
      \/ After("maybe") /\ orphans' = orphans \union {<<job, faults>>}
      \/ UNCHANGED <<orphans, job, turnVars, fileVars>> /\ cur' = "flying"
  BY ZenonT(20) DEF send
<1>3. CASE UNCHANGED <<orphans, job, turnVars, fileVars>> /\ cur' = "flying"
  <2>1. UNCHANGED <<journal, orphans, job>> /\ \A w \in Wallets : coming(w) = {} /\ coming(w)' = {}
    BY <1>1, <1>3 DEF coming, fileVars
  <2>2. OrphansKnown' /\ HoldsKnown'
    BY <1>1, <2>1 DEF JournalSound, OrphansKnown, HoldsKnown, Over
  <2>3. CollectKnown'
    BY <1>1, <1>3, <2>1 DEF JournalSound, CollectKnown, Over, fetched
  <2> QED BY <2>2, <2>3 DEF JournalSound
<1> QED BY <1>1, <1>2, <1>3, AfterJournal

LEMMA PollJournal == Sound /\ JournalSound /\ poll => JournalSound'
<1> SUFFICES ASSUME Sound, JournalSound, poll PROVE JournalSound'
  OBVIOUS
<1>1. UNCHANGED <<round, holds, lost, orphans>> /\ job # None /\ cur # "flying"
  BY DEF poll, worldVars, historyVars, Sound, ProcessSound
<1>2. \/ cur = "landed" /\ After("ok")
      \/ cur = "failed" /\ After("landed")
      \/ cur # "landed" /\ After("other")
      \/ UNCHANGED <<job, cur, journal>>
      \/ cur # "landed" /\ cur' = "none" /\ UNCHANGED <<job, journal>>
  <2>1. \/ cur = "landed" /\ After("ok")
        \/ cur = "failed" /\ After("landed")
        \/ ~gives_up /\ UNCHANGED <<at, job, cur, again, turnVars, fileVars>>
        \/ /\ gives_up /\ (cur = "dead" \/ (looks = 0 /\ cur = "landed"))
           /\ \/ After("other")
              \/ cur' = "none" /\ UNCHANGED <<job, turnVars, fileVars>>
    BY ZenonT(20) DEF poll
  <2>2. UNCHANGED fileVars => UNCHANGED journal
    BY DEF fileVars
  <2>3. gives_up => looks # 0
    BY DEF gives_up
  <2>4. "dead" # "landed"
    OBVIOUS
  <2> QED BY <2>1, <2>2, <2>3, <2>4, ZenonT(20)
<1>3. CASE UNCHANGED <<job, cur, journal>> \/ (cur # "landed" /\ cur' = "none" /\ UNCHANGED <<job, journal>>)
  <2>1. /\ UNCHANGED <<journal, orphans, job>> /\ \A w \in Wallets : coming(w)' = coming(w)
        /\ fetched' = fetched
    BY <1>1, <1>3 DEF coming, fetched
  <2>2. OrphansKnown' /\ HoldsKnown'
    BY <1>1, <2>1 DEF JournalSound, OrphansKnown, HoldsKnown, Over
  <2>3. CollectKnown'
    BY <1>1, <2>1 DEF JournalSound, CollectKnown, Over
  <2> QED BY <2>2, <2>3 DEF JournalSound
<1> QED BY <1>1, <1>2, <1>3, AfterJournal

LEMMA CrashJournal == Sound /\ JournalSound /\ Crash => JournalSound'
<1> SUFFICES ASSUME Sound, JournalSound, Crash PROVE JournalSound'
  OBVIOUS
<1>1. /\ UNCHANGED <<round, holds, journal>> /\ job' = None /\ cur' = "none"
      /\ orphans' = (IF cur = "flying" THEN orphans \union {<<job, faults>>} ELSE orphans)
      /\ lost' = (IF cur \in {"flying", "landed"} /\ job.op \in JOURNAL_MAYBE
                  THEN [lost EXCEPT ![owner(job)] = @ \union Head(job.items)] ELSE lost)
  BY DEF Crash, worldVars, fileVars
<1>2. cur \in {"flying", "landed"} => Made(job)
  BY DEF Sound, ProcessSound
<1>3. lost \in [Wallets -> SUBSET Items]
  BY DEF Sound, WorldSound
<1>4. cur \in {"flying", "landed"} /\ job.op \in Brings =>
        owner(job) \in Wallets /\ Head(job.items) \subseteq lost'[owner(job)]
  BY <1>1, <1>2, <1>3, OwnerFacts DEF Brings, SolOps, JOURNAL_MAYBE
<1>5. \A w \in Wallets : lost[w] \subseteq lost'[w]
  <2>1. CASE lost' = lost
    BY <2>1
  <2>2. CASE lost' = [lost EXCEPT ![owner(job)] = @ \union Head(job.items)]
    BY <1>3, <2>2
  <2> QED BY <1>1, <2>1, <2>2
<1>6. \A w \in Wallets : coming(w)' = {} /\ coming(w) \subseteq lost'[w]
  BY <1>1, <1>4 DEF coming
<1>7. HoldsKnown'
  BY <1>1, <1>5, <1>6 DEF JournalSound, HoldsKnown
<1>8. OrphansKnown'
  <2>1. ASSUME NEW o \in orphans, o[1].op \in Brings
        PROVE  Over' \/ Head(o[1].items) \subseteq journal'[owner(o[1])] \union lost'[owner(o[1])]
    <3>1. owner(o[1]) \in Wallets
      BY <2>1, OwnerFacts DEF Sound, OrphansSound, Brings, SolOps
    <3> QED BY <1>1, <1>5, <2>1, <3>1 DEF JournalSound, OrphansKnown, Over
  <2>2. <<job, faults>>[1] = job
    OBVIOUS
  <2> QED BY <1>1, <1>4, <2>1, <2>2 DEF OrphansKnown
<1>9. CollectKnown'
  BY <1>1 DEF CollectKnown
<1> QED BY <1>7, <1>8, <1>9 DEF JournalSound

\* What lands leaves a round that is over alone, but for what is collected.
LEMMA EffectHolds ==
  ASSUME Sound, NEW j, Made(j), possible(j), Effect(j)
  PROVE  /\ Over => Over'
         /\ j.op \in Brings => ~Over
         /\ \A w \in Wallets :
              holds'[w] = IF j.op \in Brings /\ w = owner(j) THEN holds[w] \union Head(j.items)
                          ELSE IF j.op = "collect" /\ w = owner(j) THEN holds[w] \ Head(j.items)
                          ELSE holds[w]
<1>1. holds \in [Wallets -> SUBSET Items] /\ j.op \in SolOps \union Brings \union {"collect"}
  BY DEF Sound, WorldSound, Made, Jobs
<1>2. j.op \in Brings => ~Over
  BY DEF possible, Brings, Over, tradeable, joinable
<1>3. Over => Over'
  BY <1>2 DEF Effect, Over, Brings
<1>4. CASE j.op \in SolOps
  <2>1. holds' = holds
    BY <1>4 DEF Effect, SolOps
  <2>2. j.op \notin Brings /\ j.op # "collect"
    BY <1>4 DEF SolOps, Brings
  <2> QED BY <1>3, <2>1, <2>2
<1>5. CASE j.op \in Brings
  <2>1. owner(j) \in Wallets
    BY <1>5, OwnerFacts DEF SolOps, Brings
  <2>2. holds' = [holds EXCEPT ![owner(j)] = @ \union Head(j.items)]
    BY <1>5 DEF Effect, Brings
  <2> QED BY <1>1, <1>2, <1>3, <1>5, <2>1, <2>2 DEF Brings
<1>6. CASE j.op = "collect"
  <2>1. owner(j) \in Wallets
    BY <1>6, OwnerFacts DEF SolOps
  <2>2. holds' = [holds EXCEPT ![owner(j)] = @ \ Head(j.items)]
    BY <1>6 DEF Effect
  <2> QED BY <1>1, <1>2, <1>3, <1>6, <2>1, <2>2 DEF Brings
<1> QED BY <1>1, <1>2, <1>3, <1>4, <1>5, <1>6

LEMMA UnionRange ==
  ASSUME NEW s \in Seq(SUBSET Items), s # <<>>
  PROVE  UNION Range(s) = Head(s) \union UNION Range(Tail(s))
<1>1. /\ Len(s) \in Nat \ {0} /\ Tail(s) \in Seq(SUBSET Items) /\ Len(Tail(s)) = Len(s) - 1
      /\ \A i \in 1 .. Len(Tail(s)) : Tail(s)[i] = s[i + 1]
  BY EmptySeq, HeadTailProperties
<1>2. DOMAIN s = 1 .. Len(s) /\ DOMAIN Tail(s) = 1 .. Len(Tail(s)) /\ Head(s) = s[1]
  BY <1>1
<1>3. ASSUME NEW i \in 1 .. Len(s)
      PROVE  s[i] = Head(s) \/ \E k \in 1 .. Len(Tail(s)) : s[i] = Tail(s)[k]
  <2>1. CASE i = 1
    BY <1>2, <2>1
  <2>2. CASE i # 1
    <3>1. i - 1 \in 1 .. Len(Tail(s)) /\ i = (i - 1) + 1
      BY <1>1, <2>2
    <3> QED BY <1>1, <3>1
  <2> QED BY <2>1, <2>2
<1>4. ASSUME NEW k \in 1 .. Len(Tail(s))
      PROVE  \E i \in 1 .. Len(s) : Tail(s)[k] = s[i]
  <2>1. k + 1 \in 1 .. Len(s)
    BY <1>1
  <2> QED BY <1>1, <2>1
<1>5. 1 \in 1 .. Len(s)
  BY <1>1
<1>6. Range(s) = {Head(s)} \union Range(Tail(s))
  <2>1. Range(s) = {s[i] : i \in 1 .. Len(s)} /\ Range(Tail(s)) = {Tail(s)[i] : i \in 1 .. Len(Tail(s))}
    BY <1>2 DEF Range
  <2>2. Range(s) \subseteq {Head(s)} \union Range(Tail(s))
    BY <2>1, <1>3
  <2>3. {Head(s)} \union Range(Tail(s)) \subseteq Range(s)
    BY <2>1, <1>2, <1>4, <1>5
  <2> QED BY <2>2, <2>3
<1> QED BY <1>6

LEMMA LandingJournal == Sound /\ JournalSound /\ Landing => JournalSound'
<1> SUFFICES ASSUME Sound, JournalSound, Landing PROVE JournalSound'
  OBVIOUS
<1>1. UNCHANGED <<at, job, journal, lost>> /\ Lands
  BY DEF Landing, fileVars
<1>2. ASSUME Over => Over', orphans' \subseteq orphans
      PROVE  OrphansKnown'
  BY <1>1, <1>2 DEF JournalSound, OrphansKnown
<1>3. CASE cur = "flying" /\ UNCHANGED orphans
  <2>1. cur = "flying" /\ job # None /\ Made(job)
    BY <1>3 DEF Sound, ProcessSound
  <2>2. \A w \in Wallets : coming(w) = {}
    BY <2>1 DEF coming
  <2>3. CASE possible(job) /\ Effect(job) /\ cur' = "landed"
    <3>1. /\ Over => Over'
          /\ \A w \in Wallets :
              holds'[w] = IF job.op \in Brings /\ w = owner(job) THEN holds[w] \union Head(job.items)
                          ELSE IF job.op = "collect" /\ w = owner(job) THEN holds[w] \ Head(job.items)
                          ELSE holds[w]
      BY <2>1, <2>3, EffectHolds
    <3>2. HoldsKnown'
      BY <1>1, <2>2, <2>3, <3>1 DEF JournalSound, HoldsKnown, coming
    <3>3. CollectKnown'
      <4> SUFFICES ASSUME job.op = "collect"
                   PROVE  Over' /\ holds'[owner(job)] \subseteq lost[owner(job)] \union fetched'
        BY <1>1 DEF CollectKnown
      <4>1. owner(job) \in Wallets /\ job.items \in Seq(SUBSET Items) /\ job.items # <<>>
        BY <2>1, OwnerFacts DEF SolOps
      <4>2. holds'[owner(job)] = holds[owner(job)] \ Head(job.items)
        BY <3>1, <4>1 DEF Brings
      <4>3. Over /\ holds[owner(job)] \subseteq lost[owner(job)] \union UNION Range(job.items)
        BY <2>1 DEF JournalSound, CollectKnown, fetched
      <4>4. fetched' = UNION Range(Tail(job.items))
        BY <1>1, <2>3 DEF fetched
      <4>5. UNION Range(job.items) = Head(job.items) \union UNION Range(Tail(job.items))
        BY <4>1, UnionRange
      <4> QED BY <3>1, <4>2, <4>3, <4>4, <4>5
    <3> QED BY <1>2, <1>3, <3>1, <3>2, <3>3 DEF JournalSound
  <2>4. CASE cur' \in {"failed", "dead"} /\ UNCHANGED <<round, holds>>
    <3>1. \A w \in Wallets : coming(w)' = {}
      BY <2>4 DEF coming
    <3>2. fetched' = fetched
      BY <1>1, <2>1, <2>4 DEF fetched
    <3>3. HoldsKnown'
      BY <1>1, <2>2, <2>4, <3>1 DEF JournalSound, HoldsKnown
    <3>4. CollectKnown'
      BY <1>1, <2>4, <3>2 DEF JournalSound, CollectKnown, Over
    <3> QED BY <1>2, <1>3, <2>4, <3>3, <3>4 DEF JournalSound, Over
  <2>5. CASE \E o \in orphans : orphans' = orphans \ {o}
    BY <1>3, <2>5
  <2> QED BY <1>1, <2>3, <2>4, <2>5 DEF Lands
<1>4. CASE \E o \in orphans : /\ orphans' = orphans \ {o} /\ UNCHANGED cur
                              /\ \/ possible(o[1]) /\ Effect(o[1])
                                 \/ UNCHANGED <<round, holds>>
  <2>1. PICK o \in orphans : /\ orphans' = orphans \ {o} /\ UNCHANGED cur
                             /\ \/ possible(o[1]) /\ Effect(o[1])
                                \/ UNCHANGED <<round, holds>>
    BY <1>4
  <2>2. Made(o[1])
    BY DEF Sound, OrphansSound
  <2>3. (\A w \in Wallets : coming(w)' = coming(w)) /\ fetched' = fetched
    BY <1>1, <2>1 DEF coming, fetched
  <2>4. CASE possible(o[1]) /\ Effect(o[1])
    <3> DEFINE j == o[1]
    <3>1. /\ Over => Over'
          /\ j.op \in Brings => ~Over
          /\ \A w \in Wallets :
              holds'[w] = IF j.op \in Brings /\ w = owner(j) THEN holds[w] \union Head(j.items)
                          ELSE IF j.op = "collect" /\ w = owner(j) THEN holds[w] \ Head(j.items)
                          ELSE holds[w]
      BY <2>2, <2>4, EffectHolds
    <3>2. j.op \in Brings => Head(j.items) \subseteq journal[owner(j)] \union lost[owner(j)]
      BY <3>1 DEF JournalSound, OrphansKnown
    <3>3. HoldsKnown'
      BY <1>1, <2>3, <3>1, <3>2 DEF JournalSound, HoldsKnown
    <3>4. job # None /\ job.op = "collect" => owner(job) \in Wallets
      BY OwnerFacts DEF Sound, ProcessSound, SolOps
    <3>5. Over => \A w \in Wallets : holds'[w] \subseteq holds[w]
      BY <3>1
    <3>6. CollectKnown'
      BY <1>1, <2>3, <3>1, <3>4, <3>5 DEF JournalSound, CollectKnown
    <3> QED BY <1>2, <2>1, <3>1, <3>3, <3>6 DEF JournalSound
  <2>5. CASE UNCHANGED <<round, holds>>
    <3>1. HoldsKnown'
      BY <1>1, <2>3, <2>5 DEF JournalSound, HoldsKnown
    <3>2. CollectKnown'
      BY <1>1, <2>3, <2>5 DEF JournalSound, CollectKnown, Over
    <3> QED BY <1>2, <2>1, <2>5, <3>1, <3>2 DEF JournalSound, Over
  <2> QED BY <2>1, <2>4, <2>5
<1> QED BY <1>1, <1>3, <1>4 DEF Lands

LEMMA RoundJournal == Sound /\ JournalSound /\ Round => JournalSound'
<1> SUFFICES ASSUME Sound, JournalSound, Round PROVE JournalSound'
  OBVIOUS
<1>1. UNCHANGED <<orphans, job, cur, journal, lost>>
  BY DEF Round, sendVars, fileVars, historyVars
<1>2. Over => Over'
  BY DEF Round, Over, final
<1>3. \A w \in Wallets : holds'[w] \subseteq holds[w]
  <2>1. holds \in [Wallets -> SUBSET Items]
    BY DEF Sound, WorldSound
  <2>2. CASE UNCHANGED holds
    BY <2>2
  <2>3. CASE \E w \in Wallets : holds' = [holds EXCEPT ![w] = {}]
    BY <2>1, <2>3
  <2> QED BY <2>2, <2>3 DEF Round
<1>4. OrphansKnown'
  BY <1>1, <1>2 DEF JournalSound, OrphansKnown
<1>5. \A w \in Wallets : coming(w)' = coming(w)
  BY <1>1 DEF coming
<1>6. HoldsKnown'
  BY <1>1, <1>3, <1>5 DEF JournalSound, HoldsKnown
<1>7. CollectKnown'
  <2>1. job # None /\ job.op = "collect" => owner(job) \in Wallets
    BY OwnerFacts DEF Sound, ProcessSound, SolOps
  <2>2. fetched' = fetched
    BY <1>1 DEF fetched
  <2> QED BY <1>1, <1>2, <1>3, <2>1, <2>2 DEF JournalSound, CollectKnown
<1> QED BY <1>4, <1>6, <1>7 DEF JournalSound

\* A sale that found nothing: what may still land is known to be lost sight of.
LEMMA SellJournal == Sound /\ JournalSound /\ sellAction => JournalSound'
<1> SUFFICES ASSUME Sound, JournalSound, sellAction PROVE JournalSound'
  OBVIOUS
<1>1. UNCHANGED <<round, holds, orphans>> /\ cur = "none" /\ cur' = "none" /\ job' = None
  BY AtChoose DEF sellAction, Rest, worldVars, sendVars
<1>2. PICK w \in who :
        /\ "line" \notin holds[w]
        /\ journal' = [journal EXCEPT ![w] = @ \ {"line"}]
        /\ lost' = IF stillComing(w) THEN [lost EXCEPT ![w] = @ \union {"line"}] ELSE lost
  BY DEF sellAction
<1>3. /\ w \in Wallets /\ journal \in [Wallets -> SUBSET Items]
      /\ lost \in [Wallets -> SUBSET Items]
  BY DEF Sound, WorldSound, ProcessSound
<1>4. \A v \in Wallets :
        /\ journal'[v] = IF v = w THEN journal[v] \ {"line"} ELSE journal[v]
        /\ lost'[v] = IF v = w /\ stillComing(w) THEN lost[v] \union {"line"} ELSE lost[v]
  BY <1>2, <1>3
<1>5. \A v \in Wallets : coming(v) = {} /\ coming(v)' = {}
  BY <1>1 DEF coming
<1>6. HoldsKnown'
  BY <1>1, <1>2, <1>4, <1>5 DEF JournalSound, HoldsKnown
<1>7. OrphansKnown'
  <2> SUFFICES ASSUME NEW o \in orphans, o[1].op \in Brings, ~Over
               PROVE  Head(o[1].items) \subseteq journal'[owner(o[1])] \union lost'[owner(o[1])]
    BY <1>1 DEF OrphansKnown, Over
  <2>1. owner(o[1]) \in Wallets
    BY OwnerFacts DEF Sound, OrphansSound, Brings, SolOps
  <2>2. Head(o[1].items) \subseteq journal[owner(o[1])] \union lost[owner(o[1])]
    BY DEF JournalSound, OrphansKnown
  <2>3. owner(o[1]) = w /\ "line" \in Head(o[1].items) => stillComing(w)
    BY DEF stillComing, JOURNAL_MAYBE, Brings
  <2> QED BY <1>4, <2>1, <2>2, <2>3
<1>8. CollectKnown'
  BY <1>1 DEF CollectKnown
<1> QED BY <1>6, <1>7, <1>8 DEF JournalSound

\* The steps between two sends, and those that touch neither the journal nor the round.
LEMMA ChooseJournal ==
  Sound /\ JournalSound
        /\ (Turn \/ rentTopUp \/ decide \/ fundingSweep \/ giveBack \/ sweepTopUp \/ retireSweep
             \/ SweepEnd)
    => JournalSound'
<1> SUFFICES ASSUME Sound, JournalSound,
                    Turn \/ rentTopUp \/ decide \/ fundingSweep \/ giveBack \/ sweepTopUp
                      \/ retireSweep \/ SweepEnd
             PROVE JournalSound'
  OBVIOUS
<1>1. UNCHANGED <<round, holds, lost, orphans>> /\ job = None /\ cur = "none"
  <2>1. at = "choose" /\ UNCHANGED <<round, holds, lost, orphans>>
    BY DEF Turn, rentTopUp, decide, fundingSweep, giveBack, sweepTopUp, retireSweep, SweepEnd,
           worldVars, historyVars
  <2> QED BY <2>1, AtChoose
<1>2. CASE /\ UNCHANGED journal
           /\ Rest \/ UNCHANGED <<job, sendVars>>
              \/ \E op \in SolOps \union Brings : \E part, items : Send(op, part, items)
  <2>1. cur' = "none" /\ (job' # None => job'.op # "collect")
    BY <1>1, <1>2 DEF Rest, sendVars, Send, SolOps, Brings
  <2> QED BY <1>1, <1>2, <2>1, JournalChoose
<1>3. CASE \E w \in Wallets : due(w) /\ collectAction(w)
  BY <1>1, <1>3, JournalCollect
<1>4. CASE Turn \/ rentTopUp
  <2>1. UNCHANGED journal /\ (Rest \/ \E part : Send("fund", part, <<>>))
    BY <1>4 DEF Turn, rentTopUp, topUp
  <2> QED BY <1>2, <2>1 DEF SolOps
<1>5. CASE decide
  <2>1. PICK w \in who : \/ due(w) /\ collectAction(w)
                         \/ startAction(w) \/ joinAction(w) \/ buyAction(w)
                         \/ Rest /\ UNCHANGED journal
    BY <1>5 DEF decide
  <2>2. w \in Wallets
    BY DEF Sound, ProcessSound
  <2>3. CASE startAction(w) \/ joinAction(w) \/ buyAction(w)
    <3>1. PICK op \in Brings, item \in Items : Act(w, op, item)
      BY <2>3 DEF startAction, joinAction, buyAction, Brings, Items
    <3> QED BY <1>2, <3>1 DEF Act
  <2> QED BY <1>2, <1>3, <2>1, <2>2, <2>3
<1>6. CASE fundingSweep \/ SweepEnd
  <2>1. UNCHANGED <<journal, job, cur, again, looks>>
    BY <1>6 DEF fundingSweep, SweepEnd, fileVars, sendVars
  <2> QED BY <1>2, <2>1 DEF sendVars
<1>7. CASE giveBack
  <2>1. UNCHANGED journal /\ stage \in SolOps /\ \E part : Send(stage, part, <<>>)
    BY <1>7 DEF giveBack, fileVars, SolOps
  <2> QED BY <1>2, <2>1
<1>8. CASE sweepTopUp
  <2>1. UNCHANGED journal /\ (Rest \/ \E part : Send("fund", part, <<>>))
    BY <1>8 DEF sweepTopUp, topUp
  <2> QED BY <1>2, <2>1 DEF SolOps
<1>9. CASE retireSweep
  <2>1. (\E w \in RETIRING : due(w) /\ collectAction(w)) \/ (Rest /\ UNCHANGED journal)
    BY <1>9 DEF retireSweep
  <2> QED BY <1>2, <1>3, <2>1, Amounts
<1> QED BY <1>4, <1>5, <1>6, <1>7, <1>8, <1>9

LEMMA OtherJournal == Sound /\ JournalSound /\ (Start \/ Clock \/ UNCHANGED vars) => JournalSound'
<1> SUFFICES ASSUME Sound, JournalSound, Start \/ Clock \/ UNCHANGED vars PROVE JournalSound'
  OBVIOUS
<1>1. round' = round /\ holds' = holds /\ lost' = lost /\ orphans' = orphans /\ journal' = journal
      /\ job' = job /\ cur' = cur
  <2>1. CASE Start
    BY <2>1 DEF Start, worldVars, sendVars, fileVars, historyVars
  <2>2. CASE Clock
    BY <2>2 DEF Clock, sendVars, fileVars, historyVars
  <2>3. CASE UNCHANGED vars
    BY <2>3 DEF vars, worldVars, sendVars, fileVars, historyVars
  <2> QED BY <2>1, <2>2, <2>3
<1> QED BY <1>1 DEF JournalSound, OrphansKnown, HoldsKnown, CollectKnown, coming, fetched, Over

LEMMA JournalInit == Init => JournalSound
<1> SUFFICES ASSUME Init PROVE JournalSound
  OBVIOUS
<1> QED BY DEF Init, JournalSound, OrphansKnown, HoldsKnown, CollectKnown

LEMMA JournalKept == Sound /\ JournalSound /\ [Next]_vars => JournalSound'
BY SendJournal, PollJournal, CrashJournal, LandingJournal, RoundJournal, ChooseJournal, SellJournal,
   OtherJournal DEF Next, Sweep

\* Whatever a wallet holds is in the journal, or is still waited for, or was when the process
\* died, or had been given up on when a sale forgot its line.
THEOREM JournaledHolds == Spec => []Journaled
<1>1. Init => Sound /\ JournalSound
  BY SoundInit, JournalInit
<1>2. Sound /\ JournalSound /\ [Next]_vars => (Sound /\ JournalSound)'
  BY SoundStep, JournalKept
<1>3. Sound /\ JournalSound => Journaled
  <2> SUFFICES ASSUME Sound, JournalSound, NEW w \in Wallets
               PROVE  holds[w] \ journal[w] \subseteq
                        lost[w] \union (IF job # None /\ w \in DOMAIN job.part
                                        THEN UNION Range(job.items) ELSE {})
    BY DEF Journaled
  <2>1. holds[w] \subseteq journal[w] \union lost[w] \union coming(w)
    BY DEF JournalSound, HoldsKnown
  <2>2. CASE coming(w) = {}
    BY <2>1, <2>2
  <2>3. CASE coming(w) # {}
    <3>1. /\ job # None /\ Made(job) /\ job.op \in Brings /\ w = owner(job)
          /\ coming(w) = Head(job.items)
      BY <2>3 DEF coming, Sound, ProcessSound
    <3>2. w \in DOMAIN job.part /\ Head(job.items) \subseteq UNION Range(job.items)
      BY <3>1, OwnerFacts DEF Brings, SolOps
    <3> QED BY <2>1, <3>1, <3>2
  <2> QED BY <2>2, <2>3
<1> QED BY <1>1, <1>2, <1>3, PTL DEF Spec

=============================================================================
