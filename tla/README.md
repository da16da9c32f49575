# exchange-bench in TLA+

This directory holds TLA+ models of the exchange-bench benchmarking platform,
the TLC configurations that check them, and proofs checked by TLAPS. Every
module is written from the Go source in `src/`; `PROJECT.json` names the lines
that each definition stands for.

## 1. The system

exchange-bench takes a contestant's matching engine, runs it in a sandbox, sends
it a generated order flow over websockets, judges its answers against a
reference engine of its own, and publishes scores.

| Component | State it keeps | Operations | Modelled in |
|---|---|---|---|
| order book (`internal/orderbook/engine.go`, `level.go`, `types.go`) | level maps, cached best prices, id index, arena and node pool with a bump index each | Add with its matching loops, Cancel, Reset | `OrderBook`, `PriceTime` |
| engine and sequencer (`engine.go`, `sequencer.go`) | bounded command channel, atomic counter, two maps under an RWMutex | Add, Cancel, ExternalID, Reset; Submit, CancelOrder, Run | `Sequencer`, `AtomicBook` |
| validator (`internal/validator`) | reference engine, set of cancelled ids | Consume: verifyAdd, verifyCancel | `Validator` |
| closed-loop evaluation (`internal/runner/runner.go`, `runSmokeTest`, `cmd/agent`) | results channel, verdict channel, metrics | Run, collectUntilACK, Consume, counting | `ClosedLoop` |
| open-loop bot and correlator (`internal/botworker/bot.go`, `firer.go`) | in-flight map, fills per order, event channels, counters | writeLoop, readLoop, correlator | `OpenLoop` |
| reference contestant (`cmd/contestant`) | one engine per connection | ADD and CAN frames | the other end of `OpenLoop` |
| worker service (`internal/botworker/worker.go`) | state, run id and firer under a mutex; sandbox | StartSandbox, Prepare, Fire, SetRate, CollectMetrics | `Fleet` |
| coordinator (`internal/coordinator`) | per run: RPC outcomes, fan-in counters, rate | smoke test, Prepare, Fire, ramp, Collect, merge | `Fleet`, `ClosedLoop`, `Telemetry` |
| API server (`cmd/api`) | status, attempt and team maps, bounded job queue | upload, webhook, job goroutines, score row | `Jobs`, `Telemetry` |
| lambda compiler (`cmd/lambda-compiler`) | none | compile a message, notify the webhook | the other end of `Jobs` |
| telemetry (`internal/telemetry`) | channel to the producer, topic, pending batch, `telemetry_events` and half of a `run_scores` row | publish, batch, finalise a run | `Telemetry`, `Results` |
| leaderboard (`cmd/leaderboard`) | hub of clients under a mutex, last payload | poll, rank, broadcast, join, leave | `Ranking`, `Leaderboard`, `Results` |
| workload generator (`internal/workload`) | resting pool, mid price | Generate, splitting into shards | inputs of the other modules |
| wire protocol (`internal/protocol`) | none | prices and frames to text and back | not modelled |
| sandbox, compiler, command-line programs, generated gRPC code, deployment files | outside the program | I/O, wiring | not modelled |

How they interact. The sequencer turns calls of many goroutines into commands
for the one goroutine that owns the book. The validator and the contestant each
own such a pair. A benchmark run first sends the beginning of the workload
closed-loop (one tick, its whole answer, next tick); if enough answers are right
the coordinator shards the workload over the workers, has them all prepared,
fires them at once, counts their event streams and collects their metrics. A
worker runs 200 bots, each with a connection, a writer, a reader, a correlator
and a validator. The API server starts runs from a bounded queue that uploads
(local mode) or the lambda's webhook (otherwise) fill. While a run fires, its
events also go through a producer, a topic and an ingester into the database;
the run's row of `run_scores` gets one half from the ingester and the other from
the API server. The leaderboard polls these rows and shows them to browsers.

What is hard about it:

* Concurrency: callers of the sequencer, writer against reader of a bot, the
  three goroutines of a closed-loop run, runs that share workers, uploads of one
  team, two processes that write one row, a poller and its viewers behind one
  mutex. Most of it is joined by bounded channels.
* Derived state: best prices, index and level totals of the book; the maps of
  the sequencer; the validator's set of cancelled ids; percentiles of a run.
* Failure: a contestant that dies, is silent or sends frames too many; deadlines at
  every level; workers that refuse, fail or restart; notifications lost or
  repeated; a server that restarts with empty memory; an ingester that stops with
  rows in its hands, inserts that fail; a browser that no longer reads.

The properties that make each component correct are in section 4, the complete
list of hazards with the property that watches each is in `PROJECT.json`.

## 2. Modules

    PriceTime           what a price-time priority book promises
    OrderBook           the book as it is coded; implements PriceTime
    MCOrderBook         its instance for TLC
    OrderBook_proofs    its proofs
    AtomicBook          what the sequencer promises to concurrent callers
    Sequencer           the protocol as it is coded; implements AtomicBook
    Sequencer_proofs    its proofs
    Validator           verdicts on answers of an arbitrary contestant
    ClosedLoop          Runner.Run, Consume and the counting caller
    ClosedLoop_proofs   proofs about ClosedLoop and Validator
    OpenLoop            one bot, its contestant and its correlator
    OpenLoop_proofs     its proofs
    Fleet, MCFleet      coordinators and workers; symmetry for TLC
    Fleet_proofs        its proofs
    Jobs                API server, lambda and queue
    Jobs_proofs         its proofs
    Telemetry           from the fan-in to the run's row of run_scores
    Ranking             tiers, composite score and best attempt, as operators
    Leaderboard         poller, hub and viewers
    Results, MCResults  Telemetry and Leaderboard joined by run_scores
    Results_proofs      proofs about Telemetry, Ranking and the composition
    SumTheorems         lemmas on sums over finite sets, and induction over sets

The modules abstract from each other. `Sequencer` keeps of the book the set of
resting numbers; `Validator` works a command of the book in one step;
`ClosedLoop` keeps of a verdict whether fills match; `Fleet` keeps of a bot its
counts; `Jobs` keeps of a run whether it fails; `Telemetry` keeps of an event its
place in the order in which the fan-in received it.

A definition whose name has a suffix, such as `pricesCross_Strict`, is a variant
with a plausible bug. No action uses it: it is there to see the property that
guards against the bug fail.

### OrderBook

`lvls` holds the maps `bids` and `asks`, from a price to a FIFO of arena slots
with its cached total; `best` the cached prices; `orders` the index from id to
where the order is; `slab` the orders stored in the arena since the last Reset
(its length is the arena's next index) and `nodes` the next index of the node
pool. `Add` is several actions, one per iteration of its loops (`BeginAdd`,
`MakerSurvives`, `MakerFilled`, then `Rest` or `Discard`), so invariants are
checked between two fills as well; `taker` is the slot being worked. `Cancel`
(`CancelFound`, `CancelMissing`) and `Reset` are one action each.
`ArenaExhausted` is the panic of `arena.alloc`: the process is dead from then on.

The refinement mapping to `PriceTime` reads the resting orders out of the levels
in the order of their slots, which is the order of their arrival, and takes the
order in hand as it is. A step that removes nothing and fills nothing for the
caller is a stutter.

### Sequencer

A call of a client goes through the steps between which another goroutine can
run: claim a number, register it in both maps (one critical section), look it
up, send, be dispatched, take the reply. `Stop` and `Run` are the engine's
context, `Reset` is the reset between two runs. A client names an order once in
a run, as the generator does. `AtomicBook` knows no numbers: the mapping reads
resting orders and makers by the names of `revMap`, and shows of a call what its
client can see. The linearization point of an Add or a Cancel is its dispatch,
except that a Cancel of an unregistered name takes effect at its lookup;
`ImplementsAtomicBook` states it.

### Validator

Any answer to any tick: reported fills, at most `MaxFills` for an ADD and
`MaxStray` for a cancel, and an ACK or not. The reference book is a function from
the id of a resting order to its side, price and open quantity; ids are given out
in order, so the smaller id arrived first. `Worked` matches an order fill by fill,
as the loops of the engine do.

Two parts of an answer no verdict looks at: the terminal response to an ADD
(`verifyAdd` compares fills only; the comment at `protocol.go:11`, that the
validator detects a missing ACK or REJ, is not what it does) and the fills in the
answer to a cancel (`verifyCancel` compares the terminal only). Both are in the
model, and `reported` is the book that ticks and answers describe when every part
is believed: an ADD rests only if it was acknowledged, and fills count wherever
they were reported. `overlooked` remembers the orders such a part named.
`CorrectMeansSameBook` then says how far a run of correct verdicts pins the
contestant down: its book is the reference's, order by order, but for these.

### ClosedLoop

Frames carry the tick they answer, which the code does not see; that is how
`AnswersMatchTicks` can say that answers are attributed to their ticks.
`Concurrent` selects the caller: `runSmokeTest` counts verdicts while Run runs,
the agent only afterwards. `Faults` selects what the contestant may do: die, stay
silent, put garbage in the place of a terminal response (`Garbled`), or send a
frame too many, garbage or well-formed, ahead of an honest answer or behind it
(`Extra`). A second ACK ends the collection of the next answer at once, and a
stray fill becomes part of it, so `strayed` keeps the first tick to which this
happened.

### OpenLoop

`Store` and `Write` are separate, as are `ReadTerminal` and `SendEvent`, for the
reader may answer between them. The contestant is honest. Orders are for one
unit at one price: fills, resting orders and cancels all occur. A cancel names
an order of the shard or one that was added in another shard, and an order is
cancelled once, as generated. `overlap` remembers whether two ticks of one order
were ever in flight together, `cut` whether the bot's context ended before
everything was read.

### Fleet

`worker[w]` is the pair of state and run id; the current firer of a worker is the
one made for that run id, because `Prepare` sets all three together. Unary calls
may fail before or after they took effect. `Tick` is a tick with or without its
answer. `Expire` ends the fire context or the run's context. `overlap` remembers
which runs met at a worker.

### Jobs

`local` is chosen initially. An upload is `Claim`, `Store` (of the status), `Record`
(in the team's list) and an `Enqueue`, so two uploads interleave between any of
them. An upload that finds the queue full (`QueueIsFull`), or whose message could not
be sent (`SendFails`), is refused in a step of its own, `Refuse`: a message may have
been taken although `SendMessage` returned an error, and the compiler may then be
faster than the handler (`doubtful`). `Compile` is the lambda with its queue: a
message may be delivered again, a notification may be lost. `Webhook` is atomic.
`Restart` clears what is in memory.

A row of `scores` has the run id and the run that was scored. The API server writes
both (`Score`) or, without a database or after an error, neither (`ScoreLeftOut`,
remembered in `unscored`); the ingester writes the run id of any run that was
completed, at any later time and repeatedly (`Finalise`). So the run id of a row may
go back to an older run's, which is why `DoneIsScored` speaks of the score.

### Telemetry

The coordinator offers every event to `producerCh` without waiting (`FanIn`: an
event that finds the channel full is not published), then sends the sentinel
`__RUN_COMPLETE__` (`End`, the number 0), for which it does wait unless its
context is done. `Produce` hands records to the client, whose buffer `Deliver`
empties into the topic; `FailRecord` is a record whose context ended. All records
of a run have one key and stay in order. The ingester is at the `top` of its
loop, `polling`, `reading` the records a poll returned, `finalising` at a
sentinel, or `down`. The timer is only looked at at the top, as in the code. An
insert that fails drops its batch (`lost`); a stop drops what is pending, since
the final flush uses the cancelled context; a restart reads the topic from the
beginning, since the consumer has no group. The row is written in two halves:
`Score` is the API server's upsert, `Finalise` the ingester's. Its query asks for
acknowledged ticks, and `Acked` are the events that report one: a rejected tick is
published and inserted, and counts for no percentile.
Rows of `telemetry_events` are kept as a set: an event that is read again after a
restart is one element of it.

### Ranking, Leaderboard and Results

`Ranking` gives the set of boards that `buildTiers` may return for a set of rows:
the composite score relative to the maxima of a tier, compared by cross products
instead of floating point, the sort, which is not stable, and the choice of one
best attempt per team. `Leaderboard` has the hub's mutex as the queue of viewers
that `send` still has to write to: while it is not empty nobody registers,
unregisters or polls. A viewer may stop reading (`Stick`), and `Write` to it does
not return.

`Results` joins the two processes by the table: `RunRow` is the row as the query sees
it. The row is that of a submission, and both writers upsert it: when the submission
was run before (a repeated notification, or an id given out again after a restart of
the API server), the columns of the earlier run, `leftover`, stand until the half they
belong to is overwritten; else the table's defaults do.
Viewers see nothing of a run but its row, so `MCResults` interleaves the
leaderboard with the run only where the row may change: one viewer comes before
or during the run, the other when it is over, and a run with a fault or past its
deadline goes on without viewers.

## 3. Runs and bounds

| Run | Bounds | Shows |
|---|---|---|
| `orderbook` | 4 ids, handed out in order; prices 1 to 3, the third for a first sell order; 2 quantities; capacity 4 | invariants of the book between any two fills, its refinement of `PriceTime`, every Add completes |
| `sequencer` | 3 clients, 2 names, channel of 1 | naming, linearizability, every call returns, no deadlock |
| `validator` | 4 ticks, 2 prices, 2 quantities, 2 reported fills, 1 in the answer to a cancel | honest answers accepted; correct runs agree with the reference but for what no verdict looks at; the reference works every order |
| `closed_loop` | 4 ticks, channels of 1, all faults | a run ends and its counts mean what they say |
| `closed_loop_agent` | the same, no faults, caller of the agent | violation of `RunEnds` |
| `open_loop` | 5 ticks, channel of 1 | fair judgement, nothing twice, nothing dropped, the bot ends |
| `open_loop_overlap` | 4 ticks | violation of `HonestIsCorrect` |
| `fleet` | 2 runs, 2 workers, shards of 1, symmetric | barrier, agreeing counts |
| `fleet_live` | 2 runs, 1 worker, 1 crash | every run ends |
| `fleet_shared` | 2 runs, 1 worker | violation of `StateMachine` |
| `jobs` | 2 uploads, 2 goroutines, queue of 1, 1 redelivery, 1 restart | naming, delivery of results, ends |
| `results` | 2 events, channel of 1, batches of 2, 2 faults, 2 viewers, 2 possible outcomes beside a rival's row, perhaps an earlier attempt's, and perhaps over the row of an earlier run of the submission; one tick acknowledged, one rejected | complete percentiles, every run recorded, merit order, no slipping back, viewers up to date |

Why these are enough. A channel of one place is full after one send, so every
blocking send and every refusal occurs. Four orders suffice for a level of two, a
partially filled maker behind a filled one, a taker that rests after a sweep, and
a reuse of the book after Reset. Two prices give an empty level next to a
non-empty one; the third makes a rescan for a best price a choice. Five ticks of
a bot are two adds with their cancels and a trade. Two events and a batch of two
give a batch that is full, one that the sentinel flushes and one that is lost;
two faults a failed insert before a stop. One outcome of the run is worse than the
earlier attempt, and the other better than everything else in another tier. The
bounds are constants of the modules (`Capacity`, `QueueSize`, `MaxTicks`, `MaxFills`, `MaxStray`, `Ticks`,
`ResultsSize`, `VerdictsSize`, `EventsSize`, `ShardSize`, `MaxCrashes`,
`QueueDepth`, `MaxSubmissions`, `MaxRedeliveries`, `MaxRestarts`, `Events`,
`ChannelSize`, `FlushRows`, `MaxFaults`).

Deadlock is not checked where the system really stops: a process after its
panic, a workload that is over.

### Fairness

Weak fairness of steps of the program's own goroutines, which the Go scheduler
runs, and of timers and contexts with a timeout, which fire. Nothing is assumed
of contestants beyond what each run says, of the arrival of uploads, of crashes,
of restarts of the API server, or of what viewers do. In `ClosedLoop` the run ends
even with a silent contestant, because the deadline passes. In `OpenLoop` the
contestant may be as slow as it likes. In `Fleet` each goroutine of a call is fair
on its own and contexts expire. In `Jobs` the message queue delivers, but a
notification may be lost. In `Telemetry` the streams end (which `BotEnds` and
`EveryRunEnds` support), the broker takes what it is sent, and containers are
restarted.

Strong fairness stands where a goroutine waits in a queue that the runtime
serves: a send on a channel whose place is taken and freed again (`Sequencer`;
senders wait in order), and a handler waiting for the hub's mutex that the poller
takes every second (`Leaderboard`; a Go mutex in starvation mode is handed to
the waiter).

## 4. What the checks show

* The book is consistent between any two fills: index and levels name the same
  orders (`IndexAgrees`), cached bests are bests (`BestIsTop`), level totals are
  sums (`TotalsAgree`), levels are in arrival order (`TimePriority`), sides never
  cross (`NotCrossed`), no order that left comes back (`DeadStaysDead`), the node
  pool cannot run out before the arena (`NodePoolSuffices`), and what callers see
  is price-time priority (`ImplementsPriceTime`).
* The sequencer is linearizable (`ImplementsAtomicBook`) and never reports an
  order it cannot name (`EngineOrdersNamed`).
* The validator never marks an honest answer wrong (`HonestIsCorrect`). In a run
  without a wrong tick the answers describe the reference's book, but for orders
  named where no verdict looks (`CorrectMeansSameBook`): a contestant that reports
  fills in the answers to its cancels, or rejects an ADD that it need not fill, has
  another book for these orders and is correct. Other orders are not touched by it.
  The reference itself works every order until nothing is left or nobody accepts it,
  and its book is not crossed (`ReferenceWorksOrders`).
* A closed-loop run judges every tick it sent (`EverySentTickJudged`), attributes
  answers to their ticks up to the first that had a frame too many
  (`AnswersMatchTicks`: from there on answers may be shifted, unnoticed, by as much),
  and an accepted contestant answered all ticks but possibly the last one, on
  which it may have died (`AcceptedMeansAnswered`).
* A bot loses, repeats and misjudges nothing unless two ticks of one order were
  in flight together.
* A fleet fires no shard before all are prepared (`FiresAfterBarrier`). The
  counts of a finished run agree unless it shared workers, a worker crashed or a
  collection failed; in these cases they do disagree.
* Submissions are named once (`SubmissionsNamedOnce`); jobs belong to known
  submissions (`JobsKnown`), with two exceptions the checker found: a notification
  from before a restart can queue a job for an upload that is then refused, and so
  can the message of an upload whose sending was reported as failed. A submission
  that is done has its own run's score, unless the write failed or there is no
  database, which nobody is told (`DoneIsScored`). Accepted submissions end unless a
  message is lost.
* The percentiles in a row cover every measurement of an acknowledged tick that
  reached the topic, except rows that a failed insert or query left out: whatever the batches,
  the moment of the sentinel and the restarts are (`PercentilesComplete`). Without
  faults every run gets both halves of its row unless its context ended first
  (`EveryRunRecorded`).
* A board never ranks an entry behind one of its tier that it dominates
  (`MeritOrder`). A team that is on the board stays there with no worse an attempt,
  although the row of its next attempt appears half written (`NeverSlipsBack`): the
  query picks by `composite_score`, which is zero until the API server's half is
  there. One thing takes a score from a team: a second run of the same submission,
  whose upsert replaces the score of the first by a lower one. Viewers that read end with a board of the final scores unless one that
  does not read holds up the hub (`EveryViewerUpToDate`); that exception is real,
  since the write has no deadline and happens under the mutex.

Three runs show disagreements between code and documentation:

* `closed_loop_agent`: `cmd/agent` reads verdicts only after `Run` has returned.
  A workload longer than the two channels together never ends, and its deadline
  does not help because the blocked send watches no context.
* `open_loop_overlap`: the in-flight map is keyed by order id, so a cancel sent
  before the answer to its ADD was read replaces the ADD's entry, and an honest
  contestant is reported wrong.
* `fleet_shared`: the API server gives all workers to every concurrent run, and
  `Prepare` and the end of `Fire` set a worker's state unconditionally. A worker
  goes from firing to prepared to done, and the second run's `Fire` is refused.

Reading the code for the models also showed, without a run of its own:

* `DESIGN_DOC.md:413` says broadcasts are suppressed when data has not changed. The
  compared text holds `UpdatedAt`, the time of the poll in seconds, so polls a
  second apart always differ (`SameJSON`).
* `DESIGN_DOC.md:360` and `:462` describe a critical flag that violations set. The
  only write of the column is a constant false (`cmd/api/main.go`), so the comparison
  of flagged entries in the sort never decides.
* A row whose API half is missing has language `unknown` and belongs to the gc
  tier; one whose ingester half is missing has a p99 of zero and so the full
  latency term.
* An ingester that is stopped flushes with a context that is already cancelled; one
  that starts reads the whole topic again, and finalises old runs again.
* The flush timer is looked at only after a poll that waits for records, so the
  last rows of a batch wait for the next record, or the sentinel, to be written.
* The comment at `coordinator.go:213` gives the peak as the highest window before
  saturation; windows after it count too. The first window closes at the first
  event that is a second late. `botInterval` rounds an aggregate rate down to a multiple
  of the number of bots, and at least one tick per bot and second. `SetRate` does
  not compare the run id of the request with the worker's.

## 5. What is proved

Each theorem holds for every value of the constants that satisfies its module's
assumptions: any ids, prices and capacities, any number of clients, runs,
workers, job goroutines or viewers, any length of a workload, any size of a
channel, any number of crashes, restarts or faults. Each proof has the same
outline: an inductive invariant, a lemma per action that keeps it, and the
properties as consequences.

**Sums.** `TotalsAgree`, `AccountsAgree` and the validator's books add up values over
a set, with the fold of the community modules. A fold is a recursive function, of
which the library promises nothing, and its induction theorems take a predicate
as a parameter, which the provers cannot be given. `SumTheorems` therefore states
induction over the natural numbers and over the subsets of a finite set for the
*set* of values that have a property, builds the fold's function from smaller to
larger subsets (`FoldExists`), and derives what proofs need: a sum of integers is
an integer, an element can be taken out or added, one value can change, sums are
monotonic. From these facts on, no proof looks into a fold.

**OrderBook.** `IInv` is the conjunction of the checked invariants with what they
need from each other: an arena slot is taken by one order (`UniqueIds`), and the
order in hand is the newest slot and not yet in the book (`TakerInHand`). None of
the parts is inductive alone. `TimePriority` needs `TakerInHand`, or an order
could be pushed behind a younger one; `NotCrossed` needs `BestIsTop`, since the
loop compares the order in hand with the cached best price only and then lets it
rest; `NodePoolSuffices` needs `TakerInHand`, because a node is drawn for an order
that already has its slot. Proved: `TypeOK`, `IndexAgrees`, `BestIsTop`,
`TimePriority`, `NotCrossed`, `NodePoolSuffices`; `DeadStaysDead`, because every
action reaches an order through the index or is working on it; and the refinement
`ImplementsPriceTime`. For the refinement the order at the front of the best level
has to be the first by price and arrival among all resting orders, which
`BestIsTop` and `TimePriority` give, and the filled quantity of a resting order has
to stay below its quantity. `TotalsAgree` is kept on top of `IInv`: each of push,
partial fill, removal and cancel changes the total of one level by what it changes
of one summand or takes out of the sum, which needs that no slot is twice in a level.

Two theorems are about an Add as a whole. `AddRunsOut`: each iteration of the
matching loop fills at least one unit of the order in hand, and a level that the
loop looks at has an order, so the loop ends after at most as many iterations as the
order has units; `AddCompletes` adds the fairness. `BookOfSequencer`: `Sequencer` and
`AtomicBook` replace the book by a set of numbers and one step per command, and this
theorem says that `OrderBook` is such a book. An Add trades with orders that rested
when it began, fills all of them but perhaps one, rests itself only if it filled them
all, and touches no other; a Cancel removes the order it names and answers by whether
it rested (`SeenFromOutside`; `FillsOrdered` is the invariant that carries it).

**Sequencer.** `IInv` adds three facts to the checked invariants: a command is in
the channel exactly while its one caller waits (`CallersWait`), an order that was
sent or is about to be is in the maps (`SentOrdersNamed`), and an engine that has
stopped has no work (`StoppedIsQuiet`, which holds because the contexts of the
program end between runs). Numbers stay unique because the counter is above every
claimed number and `Reset` happens only when nobody is in a call. Proved: `TypeOK`,
`OneNumberOneOrder`, `EngineOrdersNamed` and the refinement: with a second
invariant on the answers (`LInv`) every step is a step of `AtomicBook` or unseen,
with `Dispatch`, or the lookup that finds no name, as the linearization point.
The names of resting orders are unique because the maps invert each other.

`CallsNeverHang` is the safety half of `EveryCallReturns`: a call has at most five
steps before it (`StepsOf`), every step that moves it lowers that number, and while
a call is under way somebody can go on, because a caller that waits has its command
in the channel (`SentIsInChannel`), a full channel is not empty, and the engine is
not stopped under a call. Which of the senders a full channel serves next is the
fairness that stays with TLC.

**ClosedLoop.** Counted verdicts, waiting verdicts, the result under judgement and
waiting results, read one after the other, are the ticks in order (`InOrder`), as
many as are counted as sent but for the one Run is about to emit (`Tally`). Only
the last result carries an error (`LastErr`). Until a frame strays the answer to the
current tick is all there is on the connection (`Lockstep`), so that results, and
with them the verdicts, are right (`RightAnswers`); and while the tick whose answer
had the first stray frame is the current one, all that is on the connection are
frames of its answer (`Apart`). Proved: types and all four invariants of the run.

Of `RunEnds` the part that is about states and steps is proved as well. Every
step lowers the natural number `StepsLeft`, which weighs what is still to be sent,
answered, read, judged and counted and starts at `10 * Ticks + 3` (`LoopRunsOut`);
and after the deadline some goroutine's guard holds until the caller has every
verdict (`LoopNeverStuck`), provided that the caller drains concurrently or the
workload is at most `ResultsSize + VerdictsSize + 1`. That bound is sharp: with one
tick more, `closed_loop_agent` is stuck. What is left to TLC is that fair goroutines
do take the steps they can.

**Validator** (in `ClosedLoop_proofs`). `Worked` is a recursive function over the
number of trades, so the proof first builds it (`TradesExist`) and shows by induction
over the trades what holds halfway through an order (`Halfway`): the reference book
has lost exactly what the fills so far say, and the order too. There are enough
steps: each but the last fills a resting order, and there are no more than `idx`
(`TradeFills`, `WorkedIsDone`). A verdict is correct exactly if the reported fills are
the reference fills, field by field (`CorrectMeansEqual`, `EqualIsCorrect`), so taking
the reported fills from the reported book changes the orders that are not overlooked
as the reference's own fills change them (`LessenedAgrees`), and fills in the answer
to a cancel change none of these (`NothingTaken`). Proved: the three invariants of
the run for any prices, quantities, ticks and number of fills. `ReferenceIsABook` is
the one about the reference itself: each order is worked to its end, and the book is
never crossed, because what rests of an order has been refused by everybody.

**OpenLoop.** The proof gives every frame on the connection the tick it answers
and keeps the history of the contestant's book, one per tick worked: ticks up to
some `r` have been read by the bot (`Line`), each frame carries what the engine
owes its tick in the book of that moment (`Answers`), and the fills the bot keeps
are those of the answer it is reading (`Kept`). No tick is in two places (`Once`),
overlap or not; without overlap the in-flight map holds exactly the ticks in
flight, so events come in the order of the ticks and the reference stands where
the contestant stood (`InOrder`). Proved: the three invariants of the run.

**Fleet.** A worker that has answered Prepare has had a firer for the run
(`PreparedOnce`), which only a crash takes from it and which then counts as lost; a
run that fires has had all these answers (`BarrierPassed`). Proved: types and
`FiresAfterBarrier`.

For `AccountsAgree` the invariant has two halves (`Accounts`). Answers: what the
fan-in has counted and what is on its streams is never more than the firers had
answered, and exactly that while the run fires undisturbed (`AnswersCounted`).
Ticks: in a run that shares no worker and saw no crash a worker belongs to the run
until it has ended (`KeepsWorkers`), so what was collected are the final counts of
the run's own firers (`CollectedSum`), and a run that collected from all has their
sum. `Workers` is finite (`WorkersAssumption`): the fleet is a list of addresses.

**Jobs.** An id is given out once between restarts (`NamesFresh`), so a status has
one run id and every queued job carries it (`JobsCurrent`); the upload that may
still be refused has no job, unless a notification from before a restart queued
one or its message was sent after all (`UploadsAlone`); the score of a job that is
about to report is there if it was not left out, whatever the ingester writes to the
row (`RowsWritten`). Proved: types, `SubmissionsNamedOnce`, `JobsKnown`, `DoneIsScored`.
For `EndedStays` no state invariant of the run suffices: it needs that a submission
the compiler was heard of less than twice has at most one job, in the queue or in
one goroutine, and none once it has ended, and that one whose upload is still under
way has none at all (`EndedAlone`). A restart keeps this because it empties queue
and goroutines; only a second notification breaks it, which is the exception of the
property.

**Telemetry.** The sentinel is behind every record of its run, wherever they are
(`SentinelLast`); what the ingester has read is in the table, pending or lost
(`ReadIsKept`), and nothing is pending when it computes percentiles
(`FlushedFirst`). Proved: types, `PercentilesComplete`, and that nothing follows
the sentinel on the topic.

**Results.** An entry that dominates another has the greater composite score
whatever the maxima of its tier are (`DominatingScoresMore`: arithmetic over the
cross products), so every list the sort may return has it first. An entry on the
board is a finished row or was made from the run's (`LastIsBacked`), whose score is
zero, or the earlier run's, until it is given its own (`RowStep`); so the table
holds for each entry what it is worth (`WorthIsThere`), and a board built from the
table has a row for every team of no lower score (`PolledBoard`). Proved: `MeritOrder`, `NeverSlipsBack`, and
`PercentilesComplete` for the composition.

Only model-checked:

* liveness (`AddCompletes`, `EveryCallReturns`, `RunEnds`, `BotEnds`,
  `EveryRunEnds`, `EveryJobEnds`, `EveryRunRecorded`, `EveryViewerUpToDate`):
  fairness and ENABLED are outside the prover.

## 6. Not modelled

* Latencies, their histogram, percentile arithmetic and the rounding of floating
  point: no control flow but the ranking depends on them, and there they are
  numbers that are compared.
* The wire protocol: splitting and formatting of one frame, without state. A frame
  that cannot be parsed is one of the faults of `ClosedLoop`.
* The workload generator: sequential code around a random source. What the other
  modules use of it (an order is named once and cancelled once, and its cancel may
  be cut from it by the shards) is part of their inputs.
* The rate ramp and the saturation detector of the coordinator and `SetRate` of a
  worker. They compare event counts with wall-clock seconds, and nothing but the
  reported peak depends on the outcome: the pace of the bots is arbitrary in
  `OpenLoop` and `Fleet`.
* `StartSandbox`, the container runtime, the compiler's tool chains and the cloud
  services: outside the program. They appear, if at all, as nondeterministic
  outcomes.
* Malformed frames at the reference contestant, and its arena of 16384 orders per
  connection, which is never reset: `OpenLoop` stays below it. What happens at the
  limit is `ArenaExhausted` of `OrderBook`.
* Read-only handlers, the checks of an uploaded form, static pages; command-line
  wiring; generated gRPC code.
* Data races on the fields of a status that is encoded while a job updates it: an
  update is one step in `Jobs`.
* A caller that names two orders alike: the generator does not.

## 7. Plan

What is left, in this order:

1. The ramp: `coordinator.go` 175-280 with `SetRate` and the firer's rate, as a
   module over rounds (each one interval of the ramp and one window of the fan-in),
   for the race of the last `SetRate` with a saturation that has just been found,
   and for `SetRate` of one run reaching the firer of another.
2. Generator and shards: that the two splits partition the workload, and which
   cancels they cut from their adds.
3. The safety half of the liveness properties of `OpenLoop`, `Fleet`, `Jobs` and
   `Results`, as `AddRunsOut`, `CallsNeverHang`, `LoopRunsOut` and `LoopNeverStuck`
   are for the book, the Sequencer and the closed loop.
4. The engine of the reference contestant at its capacity, in `OpenLoop`.
