# Stook on Solana: a TLA+ model

Stook is a prediction market on Solana. Each day (or period) of a *series* has
one *round*: traders buy shares of bands and tents over 64 bins of tomorrow's
price, priced by a logarithmic scoring rule; depositors fund it and earn the
fees; a Pyth price settles it. A *house* is a standing pool that lends its
capital to one round of its series after another.

This directory holds the TLA+ specification of the program
(`src/packages/programs-core/programs/sooth-core`) and of the services around
it that keep state or act on it: the keeper, the indexer, the market simulator,
and what the SDK and the web app compute from the accounts. With it come the
configurations TLC checks and the theorems TLAPS proves. Paths below are inside
that crate's `src/` unless they start otherwise (`infra/`, `packages/`,
`apps/` are directories of the repository).

## The system

| Component | State it keeps | Operations | Hard behaviours | What makes it correct |
|---|---|---|---|---|
| **Round** (`instructions/ladder.rs`, `state/ladder.rs`) | schedule, curve, payout table, cash, fee books, pots, positions, tranches, vault | create, lp_join, open, trade, settle, void, redeem, sweep, claim_lp, collect_fees, close | exits in any order; gains taken before a void; roundings; absent owners; windows that meet at boundaries | books equal claims; every claim funded and never refused; depositors first in a void; ends and pays out without its owners |
| **Scoring rule** (`math/`) | 64 weights and their sum | prior, apply_trade, bin_for, liquidity_for_deposit, tranche_pnl | fixed-point transcendental arithmetic | quotes cover the worst bin; late depositors do not lean on earlier ones |
| **House** (`instructions/house.rs`, `state/house.rs`) | assets, queue totals, shares, epoch, generation, fee average; stakes; epoch records | create, deposit, withdraw, cancel, claim, start, collect | stakes booked lazily, many rounds later; a wipe-out while away; one price for a queue; a shared vault | lazy equals eager; stakes backed; nobody shut out; the share price never falls by an entry or exit |
| **Prices** (`oracle.rs`, `pool_oracle.rs`) | none: the accounts brought in | check_settlement_instant, check_live_price, observe_fit, pool averages | many updates a second, posted by anyone at any time; a push account anyone moves | no caller chooses the price or the ending |
| **Series** (`instructions/series.rs`, `state/series.rs`) | last close, variance, observations | create, set, seed, observe, rebase | closes nobody can post; jumps and restarts; late settles | closes in order; nobody chooses days; always recovers |
| **Listing** (`instructions/listing.rs`) | anchors, fee, a house's `opens_after`, a seed's lock | coin_list, coin_activate, coin_reject | activation against rejection, by a clock | a seed is free after its week or a refusal |
| **Protocol** (`instructions/protocol.rs`) | authority, nominee, treasury, paused | initialize, set_*, transfer, accept | two-step handover | one authority; a pause never holds money |
| **Token guard** (`token_guard.rs`) | none | judge a mint, gross_for, transfer_fee | the fee changes under a quote | books credited with what arrived |
| **Keeper** (`infra/ladder-crank`, `infra/vps/watchdog.sh`) | backoff of each step, what it is waiting on, counters of its loop; two health files | learn, pass over rounds, pass over houses, clear up, restart | a refused step put off past its window; sends or prices failing for a while; others acting first; dying anywhere | what is due is done in its window; trouble shows; everything open to anyone gets done |
| **SDK and web app** (`packages/sdk-solana`, `apps/stook`) | none | the next step of a round, house or series; what a wallet has; what Collect sends | computed from accounts the program books lazily, by other formulas | the numbers and the steps are the program's |
| **Indexer** (`infra/ledger`) | rows and facts of transactions, the cursors of two loops | backfill, poll, fill in from accounts; history, calendar, board | a page failing half way; a node that does not serve yet; dying between writes | no hole the cursors do not know of; a complete history is the round's |
| **Simulator** (`infra/sim`) | journal of what each wallet holds, the daily allowance, retired wallets | turns, top-ups, give-backs, retirement; one sender | a send that is lost, late, unseen, or lands after the process died | the allowance holds; nothing held is forgotten; SOL comes home |
| **RPC proxy, tape, posting bot, monitor, promo, hosts** | feeds for display, a place in the ledger | forward, serve, post, report | - | nothing rests on them |

How they interact: a house starts a round (`house_start` runs the round's own
`init_round` and `join`) inside its own token account, and takes its part home
with the round's own `take_tranche_owed`. Opening and settling read a price
account and teach the series a close; opening reads the series' variance. The
pause is read by every instruction that takes on new risk. All state on chain
is in accounts; each instruction is atomic; anyone may call almost all of them,
in any order, at any time: the interleavings are those of whole instructions.
Off chain the keeper, the simulator and the app read accounts, decide from what
they read and send instructions later: there the interleavings are between a
read and the send it led to, and between a send and the news of it. The indexer
reads finalized transactions only.

## Modules

| Module | Models |
|---|---|
| `LadderRules` | the pure rules of a round's books: fees, fee splits, basis released, shapes, void pots, the window |
| `Ladder` | one round from its start to its closing, one action per instruction |
| `LadderClient` | that round as the keeper, the SDK and the app read it |
| `House`, `HouseRules` | the house, its stakes and epoch records; share price both ways, the size of a round, the fee average |
| `HouseEager` | what a house promises: everybody settled at the collect, no records, no generations |
| `HouseClient` | a house as the house box and the keeper read it |
| `Prices` | which update opens, settles or voids a round |
| `PricesClient` | what the keeper does with a price it fetched |
| `Series` | what a series learns, from which closes, and what a round may open on |
| `SeriesClient` | the SDK's mirror of those rules |
| `Street` | a house and the rounds of its series, several at once, in their token accounts: `House` whole, the rounds cut down to one line, with `LadderRules` |
| `Keeper` | the keeper's loop, its memory, its files and the watchdog, against a cut-down chain |
| `LedgerRows` | the rows of each transaction, and the history, score and calendar day drawn from rows |
| `Ledger` | the indexer's loops, cursors and failures over those rows |
| `Sim` | the simulator's treasury, turns, sweeps, sender and files, against a cut-down chain |
| `BookLemmas` | finite sums: updating one term, grouping by a key, monotonicity, floors of parts against the whole (no code); facts of `LadderRules` for any numbers |
| `LadderProofs`, `HouseProofs` (with `Street`), `PricesProofs`, `SeriesProofs`, `LedgerProofs`, `KeeperProofs`, `SimProofs` | the theorems, each about a component and its readers |
| `MC...` | instances for TLC |

Operators written next to a definition with a name that says what they do
wrong (`void_share_up`, `book_rounding_up`, `the_update_or_same_second`, ...)
are the plausible mistakes the properties are tried against; nothing else uses
them.

### Ladder

State: every field of the `Ladder` account that a decision depends on, under
its own name; positions by (wallet, line), tranches by (owner, index), the
token account's balance as `vault`. `depth` is `b_wad` and `worst` stands for
ln(1/p_min), the only thing the books see of the weights. Each instruction is
one action: `Create`, `LpJoin`, `Open`, `Buy`/`Sell` (one handler,
`trade_handler`), `Settle`, `Void`, `Redeem`, `Sweep`, `ClaimLp`,
`CollectFees`, `Close`.

What is abstracted: the cost of a trade is *any* amount from none to the most
its shares can pay, the curve after it is any curve, a tranche's result is any
amount (the code then caps it by the pot). The program does not trust the
curve either: after each trade it compares cash with the payout table, and that
check is in the model. So what holds here holds whatever the curve says. The
0.9999 in `liquidity_for_deposit` is folded into `worst`. Settlement prices are
reduced to "some acceptable price lands in some bin" and "the update for the
close is unfit"; `Prices` has the rules. The round has a vault of its own;
`Street` has rounds in a house's shared vault.

### House

State: the `House`, `HouseStake` and `HouseEpoch` accounts, field by field
(`records` is a function on the epochs that have a record). `vault` is the
house's part of the shared token account (tokens anyone sends there unasked,
which no instruction counts, are left out). `phase` is the status of the round it
is in. `Collect(principal, fees, recorded)` takes any return a round can give.
`Administer` stands for the authority's pause and series switch, a listing's
activation or refusal and the end of a seed's lock.

`House` implements `HouseEager` under the mapping that replaces every stake by
the one `book` would make of it now: this is the property that a stake left
alone for many rounds, through wipe-outs, is worth what it would have been.

### Prices

State: the feed as printed so far (each update carries the time of the one
before it, as Pyth's do), the push account, the clock, and the round's status,
start, opening price and final price. Any printed update may be posted by
anyone, ever after: `posted`. The feed's clock may be up to `CLOCK_SKEW` ahead of
the chain's, as the live price's check allows. `Tick`, `Publish` and `Push` are the world's.

### Series

State: the account's `last_at`, `observations` and `var_wad`, the clock, and
history the properties speak of: `taken`, the closes since the series started
or restarted, `restarts`, when it was restarted, `opened`, whether a round
opened in this second. The calendar is a parameter: days without a round and
days of winter time are sets of indices. A return is any number of `Returns`
(the logarithm, its scaling to a day or to trading days are left out); which
closes a good price (`Teaching`), a poor one (`Moving`) or none at all can be
posted for are sets of indices too; a good price
on another exponent than the last moves the series on as a poor one does
(`Moving` has both), also at an opening. `SeriesObserve`, `Settle` and
`OpenAtClose` are the three handlers that teach; `Open` is an opening that
teaches nothing; `SeriesSeed` is a pool's. The active switch is in `House`,
the rounds' own schedule and status in `Ladder` and `Prices`: here an opening or
a settlement may come for any round, which covers all of them. Rounds funded
under the program's earlier rule, which open without a variance, are left out.

### The readers: LadderClient, HouseClient, SeriesClient, PricesClient

Each EXTENDS the module of its component and adds no state: it translates the
functions the SDK (`packages/sdk-solana/src/ladder`), the keeper and the app
compute from the accounts, and compares them, in every state the component can
reach, with what the program would do.

* `LadderClient` (`crank.ts`, `math.ts`, `apps/stook` `model.ts`, `LpPanel.tsx`,
  `collect.ts`): the step the keeper takes, the stage and the buttons shown,
  quotes, what each wallet is said to have, and how the claims of one press of
  Collect are packed into transactions. `ClientAgrees` joins the four.
* `HouseClient` (`house.ts`, `HouseDesk.tsx`): a stake's worth, the record to
  bring, what the house box offers, the keeper's step, and whether a collection
  makes the epoch's record.
* `SeriesClient` (`series.ts`, `crank.ts`): the calendar searched another way,
  which closes may be posted, why a round cannot open, which close is due.
* `PricesClient` (`crank.ts`, `infra/ladder-crank/src/index.mjs`): which instant
  the keeper fetches, why it drops what it fetched, and what it sends.

### Street

State: `House`'s own, the clock in days, and for each day a record of its
round (status, books, one tranche, live positions), the token accounts, and
`current`, the round the house is in. A round of the house's has its money in
the house's account (`vault_of`); any other has its own. `HouseMoves` takes the
house's actions whole; `HouseStart` and `HouseCollect` join a house action with
a round's; the rest are the round's instructions with the guards that matter
across rounds. A round of the house's stays to be cleared up after the house has
taken its part, while the next one runs: that is the composition no single
instruction checks. Each round has one line that pays 1 a share, and one
tranche; `Ladder` has the rest.

### Keeper

One action for each thing its loop does between two awaits: `Learn`, `Scan`,
`PassStep`, `PassHouse`, `PassEnd`, `ClearRound`, `ClearSend`, `ClearEnd`, and
`Tick`, the sleep. State: the chain cut down to what decides a step (status of
each day's round, what is open in it, closes taken, the house's round), the
weather (do sends land, is there a price), where the loop is and what it has
read, what it remembers between passes (`backoff`, `waitingOn`, `learning`),
the ages of the two files, and two counters the properties speak of. `Others`
is everybody else, who may take any step first; `PassThrows` a read that fails
in the middle; `Dies` the process dying and systemd starting it again, `Watchdog`
the restart on an old `beat` of a process that has been up for as long (`up`):
both begin it anew (`Restarts`); `Worsens`/`Clears` the weather. The clock is minutes, one interval
each. The chain's rules are the ones `Ladder`, `House` and `Series` have in full.

### Ledger

`LedgerRows` has a program cut down to one wallet with one call, one deposit of
the house's and every kind of transaction a round sees; `parseTransaction` gives the
rows of each, with the coin's transfer fee taken where the code takes it;
`summarize`, `DayTrue`'s calendar and the score are drawn from rows and facts.
`Ledger` has the chain of finalized transactions, what is on disk (rows read,
facts, `head`, the backfill's saved cursor), what the loops have in memory, and
one action for each await: a page, one transaction of it, a poll's pages, then
each transaction, filling in from an account, failures of a call, a transaction
not served yet, and the process dying, also after a row is written and before
the cursor is. Of the two stores it is the sqlite one.

### Sim

State: the chain cut down to which wallet holds what in one round, SOL, and who
started the round; the copy of the send in flight and those the process gave up
on, which may still land; what the process is doing; the files. The sender is
modelled with all its endings (`landed`, `failed`, `dropped`, `notSent`,
`unknown`), pauses, signing again on a new blockhash and looking again before it
gives up; `Crash` is the process dying while any of this is under way. `net`
counts what the top-ups really took out of the treasury, with their fees, by the
day they were booked on, less what came back; the fees of returns and collects,
which the code charges whatever the cap (`budget.mjs:45`), are booked and not in
`net`. `lost` is what the process was waiting for when it died, and what a sale
forgot while it could still land. A start first asks for its rent (`rentTopUp`).
A sale moves neither SOL nor an account: what is left of it is the line it does
not find and forgets (`sellAction`, at any time: an arbitrageur has no holding
time, a trader's runs from when the line was first journaled). Left out: the
collect of a round that is due but not settled yet, which the code puts off
(`j.later`), and wallets are collected for as soon as the round is final.

## What TLC checks

| Run | Properties | Question | States |
|---|---|---|---|
| `books` | `ObligationsExact`, `BasisExact`, `EveryClaimFunded`, `NoExitRefused`, `DepositorsFirst`, `ClientAgrees` | are a round's books exact, is every claim funded whoever comes first, do readers agree? | 238,856 |
| `life` | `FeePromise`, `OneRoundPerDay`, `RoundEnds`, `EveryonePaidOut` | does a funded round always end, and pay everyone, under pauses and absent owners; do fees never promise more than was collected, whatever the odds do? | 237,934 |
| `house` | `QueueExact`, `NeverShutOut`, `StakesBacked`, `VaultIsBooks`, `ClientKeepsItsWord`, `PriceNeverFalls`, `LazyIsEager`, `QueuedIsProcessed` | do queue, stakes and tokens agree; is lazy booking settling everybody at once; do withdrawals, claims and take-backs work as the readers say? | 50,218 |
| `prices_one` | `OneOpening`, `OneEnding`, `KeeperPostsWhatCounts` | is there one price to open on and one way to end, and does the keeper send exactly what counts? | 802,695 |
| `series` | `TypeOK`, `NoHoles`, `WarmByNow`, `RestartsApart`, `OpensInformed`, `MirrorAgrees`, `NeverBack`, `WarmsUp` | can anyone choose the days, hold a series cold, take it back; does it warm up; does the mirror agree? | 54,409 |
| `street` | `EveryoneCovered`, `HouseComesHome` | does a shared account cover all the books behind it; does lent money come home? | 973,902 |
| `keeper` | `OpensInTime`, `StuckIsTold`, `RoundsEnd` | is what is due done in time, trouble told, and everything cleared up? | 841,674 |
| `ledger` | `CursorsCover`, `HistoryTrue`, `CaughtUp` | is there a hole the cursors do not know of; is a complete history true? | 329,548 |
| `sim` | `NetCapped`, `Journaled`, `AllHome` | do top-ups stay within the allowance, is nothing forgotten, does a retiring wallet's SOL come home? | 303,806 |
| `house_shown` | `ShownAsBooked`, violated | see below | |
| `prices_void` | `OnlySettling`, violated | see below | |
| `ledger_skip` | `PollSeesIt`, violated | see below | |

Bounds, and why they are enough for what they look for.

* `books`: 2 traders x 2 lines that share a bin, 2 depositors, before the bell,
  between the end of the opening window and the close, and after; 3 trades of 1 or 4 shares costing 1 or 8; fees of 30% of small
  costs, so that every rounding happens. Overlapping claims need two lines that share a
  bin, with one held by two wallets; order of exits needs two of each kind.
  Wallets and deposits are interchangeable: symmetry. The odds there stay what
  the opening stored. `life`: one trader, two depositors of 3, odds that move away from the
  opening's between the trades (a depth recomputed at the exit must not follow them), an
  accumulator coarse enough that rounding it up shows,
  pauses, the clock running past the grace period.
* `house`: 2 depositors of 1, 2 virtual shares a unit, rounds that lose
  everything, come back with 3 or with fees, 2 rounds, pauses. A stake that
  sleeps through a wipe-out needs two rounds; a queue shared at one price needs
  two owners.
* `prices_one`: 4 kinds of print (two prices, one too uncertain, one on another
  exponent), 3 updates in 8 seconds: several updates in one second need two in
  the second of the close and one to open on. The feed's clock is one second ahead
  or not.
* `series`: 12 days of two seconds with winter time and days off, warm-up of 2,
  two closes nobody can post, one with no good price, one on another exponent.
  Within them a series is
  restarted twice, jumps warm and cold, goes back, and opens on a close it just
  took (each was looked for as a reachable state).
* `street`: 1 depositor, 1 trader, 2 days, 2 epochs, 2 trades of 5 shares for 3
  in all rounds standing, fees of half: enough for a round of the house's left to
  clear up while the next one, or somebody else's, runs and the house takes
  deposits and withdrawals in between.
* `keeper`: 2 days of 8 minutes, waits of 1 and 2, windows of 8, a beat stale
  after 1, 1 trouble (a refused send, a missing price, a lost pass or a death), one
  send to a clearing up. Two days are needed for an old round to be cleared up
  next to a running one.
* `ledger`: 6 transactions, 2 to a page, 2 pages to a poll, one failure or
  restart. `sim`: one wallet that acts, one that retires, one fault, one
  midnight; the wallet that acts begins with nothing or with enough to start a
  round, and gets rich by what comes back to it. Its safety was also checked with
  two faults and a rich wallet to begin with: 8.8 million states, clean.
  `RETIRED_DUST` is one unit, so that rent that comes back is worth returning, as
  it is in the code.

The constants of the code (64 bins, 10^6 virtual shares, ...) are parameters:
the theorems hold for all of them. Clocks move by one and stop at `MAX_NOW` or
`MAX_DAY`; `MAX_TRADES`, `MAX_EPOCH`, `MAX_MONEY`, `MAX_UPDATES`, `MAX_CHAIN`,
`DAYS`, `TROUBLES` and `FAULTS` bound the rest, in the guards. Symmetry is used only where
wallets and accounts are interchangeable and no liveness is checked.
`CHECK_DEADLOCK FALSE`: a closed round, a house at its last epoch, a feed or a
chain at its bound and a clock at its end really stop.

Fairness. Nobody has to trade, open or settle. `Ladder` assumes only what
anyone can do and the keeper does (`infra/ladder-crank/src/index.mjs`,
`clearUp`): the clock runs, a round voidable without proof is voided, others'
positions and deposits are paid after the grace period, fees are collected and
finished rounds closed. (The keeper skips a wallet's token account frozen by
its coin's issuer: there `EveryonePaidOut` does not hold, and no program can
make it.) `House` assumes its round ends (`RoundEnds`) and is collected.
`Street` assumes that days pass, that what cannot settle is voided and that the
house's part is collected: not that anyone clears up.
`Series` assumes the clock and the keeper's `learn`, which posts, of the closes
it can post and the program would take now, the oldest after where the series
stands, and only failing those an earlier one to start from
(`learnCandidates`). Other people's observations may come between, with one
limit: strong fairness of the postings that add an observation. A pass posts up
to ten closes in a row, and a series without a return goes back only by another
call between two of them; without the limit anyone taking a cold series back
between every two postings, for ever, would keep it cold. That later closes have good prices is in the
instance: anyone may bring a close a late print that only moves the series on
(`oracle.rs`, `observe_fit`, says so), and a series fed nothing else never warms.
`Keeper` assumes its own loop goes on, that bad weather passes, and that the
watchdog restarts it on an old `beat`; the steps of others are not assumed.
`Ledger` assumes both loops go on asking. `Sim` assumes the service goes on, is
started again and sweeps, that the chain and the keeper end the round, that
sends are decided one way or the other and that a pause ends; strong fairness
where a crash or another actor may keep interrupting (funding sweeps, landings,
the round, the end of a pause). A price, an opening, a settlement, a claim by its owner
are never assumed.

### Where code and documents disagree

* `prices_void`: the void handler's comment (`instructions/ladder.rs:1110`) and
  `docs/architecture.md` say that while a valid update exists only settling is
  possible. With the push account the settlement rule allows 30 minutes and the
  proof of a void is judged by the posted rule's 30 seconds: a first update
  one minute late allows both.
* `house_shown`: the comment on `stakeValue` says it books a stake as the
  program would. It drops shares of an old generation, but does not book an
  entry queued in an epoch since collected: until its owner's next call the app
  shows it as queued, offers neither to withdraw nor to claim it, and in the
  house's next round offers to take it back (`HouseDesk.tsx:218`), which the
  program refuses.
* `ledger_skip`: a transaction the node does not serve during the backfill is
  left out with the comment that the poll will see it; the poll asks only for
  what is newer than the head, which is already past it.

Met while modelling, and in no run (each is outside what the models keep, or
a matter of wording):

* `houseStep` (`house.ts:232`) says what a house needs next; it says "start"
  from one token of assets, and the program asks one token of what the house
  would commit, which may be a tenth of them (`house.rs:379`). The keeper
  sends, and is refused, on every pass.
* Of a send that timed out the simulator says "It may have landed: journal it
  anyway; collect drops what is not there" (`sim.mjs:411`). A sale that does not
  find the line drops it too, at once (`sim.mjs:380`), while the buy can still
  land: the line is then in no journal. `Sim` has it (`sellAction`), and
  `Journaled` names it as what may be lost.
* `docs/architecture.md:225-232` says a round opens within five minutes,
  identically whoever opens it; the code opens for an hour, past the first five
  minutes on any live price, and moves `opens_at` (`OneOpening` is about the
  first five minutes).
* `openBlocker` (`series.ts`) names a blocker when the opening itself would teach
  the last return of a warm-up, and none when the series is two closes behind;
  `BlockerIsRefusal` is about the rest. The app offers, and the program takes, a
  deposit into a seeding round whose opening window is over and that can only be
  voided (`LpPanel.tsx:44`); it comes back whole, which `ClientAgrees` says of it.
  A comment in `index.mjs` (622-635) has the watchdog log an old health file and
  restart the keeper at most once an hour; `watchdog.sh` reads only `beat` and the
  time the process has been up. The keeper never
  voids on a proof from the push account, though the program would take one.
* A backfill begun before the program's first finalized transaction gets an
  empty page, marks itself done with no head, and nothing is read after that;
  health then still says ok. `Ledger` starts with a transaction. What is further
  back than a poll's 20 pages is skipped (`cut`).
* The README of the indexer says finalized only; filling in reads at
  "confirmed". An account filled in ahead of the poll may show, for a while, a
  settled score of a call sold since. The board leaves out a settled missed call
  while the wallet's own house deposit is unclaimed, and counts house deposits
  in what was paid and came back. Transactions of one slot are ordered by
  instruction, not by their place in the block. The monitor's cursor lacks the
  signature; its two jobs read, wait and write one state file without a lock. A torn last line of the jsonl store is glued to the next append.
* A top-up booked before midnight that waits on the sender's cap may leave the
  treasury on the next day (`NetCapped` attributes it to the day it was booked).
  Between the budget gate and the broadcast the sender awaits twice, so what was
  true when it asked may not be when it sends. Taking the lock file is not
  atomic.
* The app's `send` (`apps/stook/src/lib/chain.ts:146`) gives up on an RPC error
  while it waits, though its comment says it goes on until the network confirms
  or the blockhash dies. The tape's `/prices` serves its last price without
  looking at its age.

## What is proved

`LadderProofs` (over any traders, lines, tranches, amounts, fee rates, scales
and schedules that satisfy `LadderConstants` and `RuleConstants`):

* `TypeCorrect` (nothing ever goes below zero), `AccountsCounted`, `SoldOut`,
  `OneRound`, `BasisIsExact`, `FeesArePromised`, `ObligationsAreExact`,
  `DepositorsComeFirst`, `ClaimsAreFunded`, `NoExitIsRefused`: the properties of
  the runs of the same meaning.
* `BooksHold`: the strengthening `BooksInv` itself.

The argument. The sums in the books are over finite sets of accounts that grow
and shrink; `BookLemmas` proves, from the well-foundedness of `<` on numbers,
what changing, adding or removing one term does to `SumFunctionOnSet`, and that
floored parts never exceed the whole (`SumFloors`). With these, one step per
action: `Accounts` (no shares without an account), `Solvent` (no bin owes more
than cash), `OpeningBell` and `DepthShared` (deposits are never credited more
depth than the fees were divided by) and `FeesEarned` (before any floor, the
accumulator promises no more than was collected) are inductive in that order;
`FeePromise` follows by floors, `EveryClaimFunded` in a void needs `VoidOrder`
(traders have a pot only if the depositors' pot is all they put in), because
that is what keeps the two pots' floors from drawing on each other;
`OneRoundPerDay` needs `DayOver` (a day whose account is gone is past its
close, and a round needs more than `OPEN_DELAY + LOCK_GAP_MIN` before it); `NoExitIsRefused` combines the exact
books with the fact that one term is at most the sum.

`HouseProofs` (over any depositors, amounts, results of rounds and sizing
constants): `TypeCorrect`, `HouseInvHolds`, `VaultIsBooksHolds`,
`QueueExactHolds`, `StakesBackedHolds`, `NeverShutOutHolds`,
`PriceNeverFallsHolds`, `LazyIsEagerHolds`. The invariant is `HouseInv`: to the books, the queue and
the backing it adds `Sound`, what has to be true of a stake nobody has touched
for many rounds (its entry's record exists; its queued withdrawal is within its
shares; nothing is of a generation to come; an entry of the epoch in force is of
the generation in force, without which a cancellation, which books nothing,
could revive or void shares). A depositor's call changes one stake, after
booking it: `UpToDate` says what booking yields and `OwnerStep` moves the four
sums over stakes by that one difference. A collection changes what every stake
in the queue is worth without touching one: `CollectStake` says, stake by stake,
what it would now be booked as (in the queue, asleep since an earlier epoch, or
not queued), and `MintedParts` and `PaidParts`, from `SumFloors`, that the parts
come to no more than `process_queue` counted. The cap in `assets_for` does not
break the sum because it never bites while the shares redeemed are there
(`AssetsForExact`). The price of a share follows from two inequalities, one per
rounding (`MintWorth`, `PaidWorth`).

`LazyIsEagerHolds` is the refinement: `House` implements `HouseEager`. Every
action maps to the eager one of its name, and a stutter to a stutter. An owner's
call books one stake first, which changes nothing the mapping shows
(`OwnerShows`), so it shows as a change of that owner alone. A collection
touches no stake, yet shows as everybody settled at once: `CollectStake` says so
with equality, stake by stake, for those in the queue, asleep and wiped out
alike, and `QueueShown` that the totals the eager house sums are the ones the
house kept.

`PricesProofs`: `FeedIsOrdered` (the feed is in order), then `OpeningIsOne`,
`EndingIsOne`: of an ordered feed at most one update has `prev < t <= at`; and
`EndingIsForGood`: later prints cannot be that update once there is one.

`SeriesProofs` (over any calendar with finitely many days off, any windows,
warm-up, returns and postable closes): `SeriesSoundHolds`, `NeverBackHolds`,
`NoHolesHolds`, `OpensInformedHolds`, `RestartsApartHolds`, `WarmByNowHolds`,
`TypeCorrect`. The last two need `CalendarReaches`: at any time of the clock the
search for a restart finds a close with a warm-up before it (the
code tries sixteen days, against a calendar of weekends and holidays; TLC
evaluates it on the instance). The code guards twice, in `may_observe`
and in `observe`; the proofs use both. `SeriesSound` says what marks a series
that may not go back: a return, or the negative variance of a restart, which
must survive everything but the next return. `TakenSound` describes the closes
taken since the start as those up to the last, less old ones passed over warm;
`TakeIsStartOrGoOn` is the heart: whatever `may_observe` lets through either starts
the count with nothing learned or goes on over nothing timely and, cold, over
nothing at all. `LatestIsNoEarlier` (the search for the latest close, even when
it gives up, is never behind a close taken) carries the seed and the openings.
That a series is not restarted twice in a day rests on `FrontierMoves`: from one
latest close to the next the frontier of a restart moves on by one round at
most, counted in rounds since. So the close restarted at (`Mark`) was the
frontier, or not yet old, and the next restart waits until it is
(`NextRestartWaits`). `FrontierLeavesEnough` and `StartsInTime` say, of a jump
and of a first close, that a warm-up fits between it and now.

`HouseProofs` on `Street` (over any days, traders, depositors and amounts):
`EveryoneCoveredHolds`, `StreetInvHolds`, `HouseInvInStreet`. The invariant adds
to the house's own: types; `RoundBooks` (while a round runs, what a void
would split by and a win would pay is what its holders have); and
`CurrentIsOurs` (the round the house waits for is one of its own and still has
its tranche). A step touches one round, or the house, and one account: each
lemma shows that what that round owes grows by no more than its account does.
Ending a round is where this is not plain arithmetic: a settlement turns cash
into winners' claims and the depositors' pool, a void into two pots whose
floored shares must come to no more than the pots (`SumFloors`).

`LedgerProofs` (over any page sizes, polls, chains, amounts, fees and failures):
`CursorsCoverHolds`. The invariant `LedgerSound` says what is in hand: a page
being read downwards is a run without a gap (`Falling`), a poll about to be
read upwards likewise (`Rising`), everything above the first, up to the head, is
dealt with, and between the head and the second there is only what was cut.
Both cursors, saved and in memory, cover what is beyond them; dying replaces
one by the other, which is why both are in it.
`HistoryTrueHolds`. That a history said to be complete is true of the round is
two arguments that meet. One is about rows alone and is an induction along the
chain: whatever transactions the program runs, the round after each of them is a
sound one (`RoundSound`), and the rows counted so far tell of it (`Told`: the
amounts paid and got, the coin's fee included, come to the wallet's balance and
to `bundled`, what the fee took of payments that shared a transaction; cost and
shares are the round's). `SummaryIs` says what the summary of a told round is. The other
is about the loops: `HistorySound` adds to `LedgerSound` that every chain is one
the program runs (`Legal`), that what was filled in is what the round's account
says (`FilledTrue`), and that below every transaction read there is nothing
missing, except what the cursors know of (`SeenSound`). So with the backfill done
and nothing let go, what was read is a prefix of the chain up to `reach`, and
possibly facts of an ending beyond it, which were filled in from the account before the
transaction was read: since an ending is never taken back (`EndedSince`), they are those of
a later moment of the same round. For that the sums over the chain are recursive
functions of the position (`rounds`, `tally`), not folds over a sequence built
on the way, which no prover here can induct over.

`KeeperProofs` (over any days, windows, waits, cadences and faults):
`OpensInTimeHolds`, `StuckIsToldHolds`. The invariant has the memory of the loop
in it. `Waits`: no wait is longer than the cap, and only learning ever waits without
having failed. `StillGood` and `NotLate`: while an opening is
possible, the wakings counted and those still ahead of the pass that tries it
(`ahead`) never exceed the longest wait and one more for each fault so far. `StillDue`, `Covers` and `Old`: while something due
cannot be sent, every pass that could call itself healthy has read it as due,
or has it waiting as a failure, and so counts it; this holds across the pass'
single read, because a step that was due stays due unless it is taken, and the
count starts again when it is. So the health file is as old as the trouble.

`SimProofs` (over any wallets, balances, allowance, fees and faults):
`SoundHolds`, `NetCappedHolds`, `JournaledHolds`. Money (top-ups and their fees
less returns, as above): what a day's top-ups
took and can still take (in flight, given up on, put back into the allowance)
is within the allowance, and of today within what is booked, which is released
only for a send that did not land (`unseen`: it is over, and the books do not know
yet). Journal: what a wallet holds and the file does
not know is in the send being waited for, in one given up on whose rounds the
file was told may be, or was lost with the process or by a sale.

The readers. Each is proved from the invariant of the component it reads.

* `ClientAgreesHolds` (`LadderProofs`, on `LadderClient`): the step the keeper
  takes and the stage the app shows are what the program accepts, because `Bell`
  says when a round can be in which status; the numbers of a wallet's statement
  add up to what each of its accounts is paid, though the app groups by line and
  by tranche what the program pays one by one (`SumByKey`, `StatementSum`: a sum
  does not change when it is grouped by a key); a quote is what a trade is
  charged; and the transactions of a press of Collect hold each claim once,
  within their limits. That last is an induction on the packing, whose invariant
  (`Fit`, `PackAdds`) is over the list of transactions so far; two assumptions say what
  the code relies on: a wallet is not a line or a tranche (`WalletsApart`), and
  one claim fits in a transaction (`TransactionHolds`).
* `ClientKeepsItsWordHolds` (`HouseProofs`, on `HouseClient`): withdrawals, claims,
  the take-back of a deposit whose round still runs, and the record a collection
  makes; not that the button to take back goes in time, nor that a start is
  taken: the one fails with `ShownAsBooked`, the other for small houses (above). It adds `AllAged` to
  the house's invariant, that an entry in the queue is of the epoch in force or
  of one whose record was made, so the record the app brings is there.
* `KeeperPostsHolds` (`PricesProofs`, on `PricesClient`): the update the keeper is
  given for an instant is the one the program would take, and it drops it for
  exactly the reasons the program would refuse it.
* `MirrorAgreesHolds` (`SeriesProofs`, on `SeriesClient`): the SDK searches the
  calendar forwards and the program backwards; where both find a close it is the
  same one (`SameCalendar`, `SameSearch`, `SameTargets`). So the mirror's
  judgement of a close is the program's, a blocker is a refusal, and a pending
  observation is due. It needs `MirrorReaches`: the program's search finds a
  close at any time of the clock, and `SKIP_AFTER` before it, which the code's 16
  days do against a calendar of weekends and holidays; TLC evaluates it on the
  instance.

Checked or proved under names that are in no run, because they only support the
rest: `TypeOK` of `Ladder` and `House`, `CountsExact`, `SoldOutOwedNothing`,
`BooksInv`, `HouseInv`, `EndingStays`.

Every invariant and every safety property of a step the passing runs check is a
theorem. Only model-checked: liveness (`RoundEnds`, `EveryonePaidOut`,
`QueuedIsProcessed`, `HouseComesHome`, `WarmsUp`, `RoundsEnd`, `CaughtUp`,
`AllHome`: fairness and ENABLED are beyond the prover).

## Not modelled, and why

* The scoring rule's arithmetic: fixed-point ln and exp. `Ladder` holds for any
  quotes, so nothing rests on it but prices. The logarithm of a return likewise.
* The token guard's judgement of a mint, the listing's anchors and fees, the
  authority's handover: single checks of one instruction each, tested there. A
  coin's transfer fee is in `LedgerRows`; `Ladder` and `House` take what arrives.
* The pool oracle's averages; signatures, byte layouts, rent, compute limits,
  events. Overflow of u64/u128 is a refused instruction in the code (checked
  arithmetic), never a wrong value; the models use unbounded integers and leave
  such refusals out.
* The web app's `send`: a loop of the same shape as the simulator's sender, which
  is modelled, without its files and its allowance. The rest of `apps/`, `site`,
  `infra/promo` and the bots draws, charts, animates and writes copy; it is
  most of the repository's TypeScript by length and keeps no state the
  system's correctness rests on.
* The personas, faucet and amounts traded of the simulator, what its arbitrage
  computes, several coins and
  Telegram notes in the keeper, the indexer's HTTP server and jsonl store.

What a further step would take: the scoring rule in base 2 (weights powers of
two) refining `Ladder`, so that the solvency check never fires; the pool
oracle's averages; listing and handover as modules of their own; transfer fees
in `Ladder`.
