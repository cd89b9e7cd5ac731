# AUTOBOT in TLA+

AUTOBOT (`src/src/autobot/v2/`, below abbreviated `v2/`) is an asynchronous
trading runtime on one SQLite file, with a large research tree around it. The
repository describes itself as a research and shadow platform that cannot
execute: while `PROGRAM_EXECUTION_LOCKED` (`v2/execution_authorization.py:10`) stands,
neither the paper nor the live executor can be had
(`v2/runtime_execution_mode.py:50`) and the runtime only observes. The order path is
in the source all the same, for both executors, with its positions, reservations and
recovery; its models say what it does once a reviewed change lifts the lock. The
market data and the research registries run under the lock too. This directory holds
formal models of the parts that keep state under concurrency and failure, what TLC
checks of them and what TLAPS proves.

| Module | What it is |
| --- | --- |
| `OrderStatus` | the status graph and the acceptance rule of one ledger write, as operators |
| `OrderLedger` | the tables `orders` and `order_state_transitions`, submitters, recovery passes, crashes |
| `OrderOutcome` | abstract: what readers of the orders table may rely on |
| `PositionExit` | how a position leaves the book: signals, exits, reductions, executors, instances |
| `KillSwitch` | the handlers' switches, their shared row, signals, the operator's thread, restarts |
| `HaltLatch` | abstract: what a halt promises |
| `FeedConnection` | the public websocket: receive loops, heartbeat, reconnections, health check |
| `TickPath` | ring buffer, its reader and dispatch task, bounded queues, consumers |
| `MarketData` | the composition of the two |
| `LossyFeed` | abstract: a feed that may skip ticks, but never repeats or reorders them, nor misses the last |
| `ExperimentRegistry` | the research registry: successors, trials, holdout review, stage gates |
| `BoundedResearch` | the unattended coordinator on top of the registry |
| `ShadowLedger` | the append-only shadow OMS ledger kept by several processes |
| `Totals` | totals of quantities, counted unit by unit |
| `...Proofs` | theorems about the module they name, for every value of the constants; `PositionLedgerProofs` builds on `PositionExitProofs`, `RegistryProofs` is about `ExperimentRegistry` and `BoundedResearch` |
| `...MC` | instances for TLC |

`PositionExit` writes its orders through the same `Accepts` / `Commits` /
`Updated` of `OrderStatus` that the theorems about `OrderLedger` rest on;
`BoundedResearch` takes its steps beside every step of `ExperimentRegistry`;
`FeedConnection` and `TickPath` meet in the one action `Receive` of `MarketData`.
Sums (of fills, sales, credits, trial floors) are totals of `Totals`: the number of
units `<<x, 1>> .. <<x, f[x]>>`. A cardinality has library theorems to reason with; a
fold over a set would need an induction that the installed provers cannot instantiate.

## 1. Inventory

### Components, their state and their operations

**Order status graph and ledger** (`v2/order_lifecycle.py`,
`OrderRepository` in `v2/persistence.py`, `v2/order_state_machine.py`). State:
one row per order (status, cumulative fill, exchange id) and an append-only table
of transitions. Operations: `new_order`, `transition_order_state` (validates the
quantity, recognises a retry, checks the graph, writes both tables in one
transaction), `recover_to_terminal` and `mark_recovery_unknown` (replay the hops
the graph does not let one skip, each in its own transaction),
`is_duplicate_active`. Hard: the procedures of recovery read first and then await
several writes; a submitter may still be writing. Correct when the log is the
exact history, an outcome is decided once, a reply is true, and recovery never
gets stuck half way.

**Positions, trades and instance state** (`v2/persistence.py`). State: position
rows (open / closing / closed), sell trades, one capital row per instance id.
Operations: `reserve_position_close` (a compare-and-set), `release_position_close`,
`close_position_and_record_trade` (three tables in one transaction),
`save_instance_state`. Writes share one `asyncio.Lock`; a busy database is retried
after a sleep *outside* it. Correct when the three tables move together, once.

**TradingInstanceAsync** (`v2/instance_async.py`). State: positions and capital in
memory under one lock, a status. Operations: `start`, `recover_state`,
`open_position`, `reserve_position_close`, `release_position_close`,
`close_position`, `save_state`, `emergency_stop`. Its lock is not held across the
writes of a reservation, so row and memory are moved in two steps. Correct when
memory never runs ahead of the table, and at most one coroutine owns a position.

**SignalHandlerAsync** (`v2/signal_handler_async.py`). One task per signal.
`_execute_sell` walks a snapshot of the open positions: duplicate guard,
reservation, NEW, SENT, executor call, ACK, partial / full / zero / over-fill,
close. `recover` settles the orders a former life left open: by exchange id, by
userref, or by proof of absence. Ends in a kill-switch trigger whenever it cannot
know what happened.

**OrchestratorAsync** (`v2/orchestrator_async.py`). Owns instances, the executor
and the loops; `_execute_position_exit` is a second sell path (take-profit,
stop-loss, trailing) with the same steps in another order: NEW and SENT come
*before* the reservation, so an exit that loses must withdraw its order.

**RebalanceManager** (`v2/rebalance_manager.py`). `_reduce_position` closes half of
the open positions of an instance in drawdown, through `close_position` directly.

**Executors** (`v2/order_executor_async.py`, `v2/paper_trading.py`,
`v2/observation_executor.py`). One `execute_market_order` each: live (AddOrder with
retries, then polling up to a minute), paper (fills at once and saves a trade row),
observation (refuses everything).

**Kill switches** (`v2/kill_switch.py`, `v2/global_kill_switch.py`,
`v2/api/dashboard.py`). A local flag and failure counts per handler, one persisted
row for all. Operations: `trigger` (writes the row, then stops the instance),
`record_api_failure`, the check at the head of a signal, `acknowledge_recovery` from
the dashboard's own thread, start-up recovery, the preflight and the
reconciliation that trip the row alone. Hard: the row may fail to be written, the
callback waits for a lock, the acknowledgement interleaves with all of it, and the
process may die. Correct when a halt, once seen, refuses every signal until an
operator clears it.

**Market data** (`v2/websocket_async.py`, `v2/ring_buffer.py`,
`v2/ring_buffer_dispatcher.py`, `v2/async_dispatcher.py`, `v2/instance_queue.py`).
State: the connection, its receive task, a breaker and its attempts; a ring per
pair with one reader; one bounded queue per instance. Operations: `connect`,
`_recv_loop`, `_heartbeat_loop`, `_reconnect`, `subscribe`, `write`, `poll_batch`,
`_dispatch_loop`, `put_nowait_drop_oldest`. Hard: reconnections overlap, silent
connections, overflow at two places, instances that come and go. Correct when the
feed comes back by itself and instances hear the newest tick, in order.

**Experiment registry and bounded coordinator**
(`v2/research/experiment_registry.py`, `bounded_research_coordinator.py`). State:
append-only tables of experiments, trials, gates, holdout reservations and claims,
written by several processes. Operations: register (also as a successor), record a
trial, review the holdout, record a gate, claim a snapshot and an execution, run.
Hard: reads outside the transaction that acts on them, deaths between claim and
act, wall-clock order. Correct when evidence cannot be spent twice, hidden,
relabelled or undercounted.

**Shadow OMS ledger** (`v2/research/oms_ledger.py`). State: append-only intents, risk
decisions, order events, fills and cost attributions. Operations: one `record_...`
for each, and `register_intent`. Hard: what a fill is checked against is read before
its transaction opens. Correct when fills and events agree and stay within what was
approved.

**Not modelled**: see section 5.

### How they interact

    strategy --signal--> SignalHandlerAsync --+                 +--> executor --> venue
    orchestrator exit check ------------------+--> instance ----+
    RebalanceManager -------------------------+   (lock, memory)+--> SQLite (write lock)
    start() --> recover() --> ledger, executor lookups
    any UNKNOWN, failed close --> kill switch --> emergency_stop, shared row
    dashboard thread --acknowledge--> shared row, every handler's switch
    Kraken --websocket--> ring --dispatch--> queue of each instance --> strategy

    bounded coordinator, command line --> experiment registry   (processes, SQLite)
    shadow bridge, command line -------> shadow OMS ledger      (processes, SQLite)

The runtime is one event loop: an interleaving point is an `await` that really
waits; only the dashboard has a thread of its own. Shared state is the database, the
venue, the kill switches, the connection and, inside an instance, its memory. The
research tools are processes that meet in SQLite alone: their interleaving points
are the statements outside a common transaction.

### What is hard, and the properties it calls for

Two sellers of one position; two instances that loaded the same row; a process
death between any two awaits; a failing or busy database; an executor whose answer
is lost, partial or too large; recovery that races the runtime or another recovery;
a checkpoint written from a stale copy; an acknowledgement that runs through a trip;
overlapping reconnections; two processes that read before either writes. The full list, each at its line and with the
properties that cover it (or the reason none does), is under "hazards" in
`PROJECT.json`.

## 2. The models and the code

### OrderStatus

`AllowedTransitions` is `_ALLOWED_TRANSITIONS`; `IsAllowed` is
`is_allowed_order_transition`; `FillFits`, `Repeats`, `Accepts`, `Commits` and
`Updated` split `transition_order_state` by the question each part answers: is the
quantity consistent, is it a retry, what is the reply, does the call write, and
what. `NextHop` is the table of hops inside `recover_to_terminal` and
`mark_recovery_unknown`. Quantities are whole lots. The code compares floats with a
relative tolerance of 1e-9, so quantities are equal or differ; lots are the
difference that counts.

### OrderLedger

`orders` and `transitions` are the two tables. `writers` is the set of orders whose
submitting coroutine still runs: it may ask for any of the calls in the code
(`RuntimeCalls`), in any order, which covers buys, sells and exits without repeating
their control. Each recovery pass is a record of the locals of `recover()` and of the
procedure it is in: the snapshot it works through, the order, the goal, `at` (the
status the procedure believes), and the reply. `RecoverRead` reads, `RecoverHop`
writes one hop, and anything may come between. What the exchange answered is free
(any goal with any quantity), so what holds does so whatever the exchange says.
`RecoverReadFails` and `RecoverHopFails` are SQLite raising; `Crash` drops coroutines
and keeps tables.

### OrderOutcome

Readers of the orders table see none, unsent, working, or one final outcome, and a
quantity. The refinement maps SENT, ACK, PARTIAL and UNKNOWN to working.

### PositionExit

One process, its tables, its venue. A task's `pc` names the step it is about to
take; a step is the code between two awaits that wait:

| Steps | Code |
| --- | --- |
| `Begin`, `BeginReduction`, `TakeNext`, `CheckDuplicate` | entry of the three paths, loop over the snapshot, `is_duplicate_active` |
| `Reserve`, `ReserveRow`, `ReserveMemory` | `reserve_position_close`: check under the lock, UPDATE, set memory under the lock |
| `NewOrder`, `LedgerWrite` | `new_order` and every `transition` call; `Asked`, `AskedFill` give its arguments, `AfterWrite` where the coroutine goes with the answer |
| `Refuse`, `PaperFill`, `PaperRaises`, `LiveAdd`, `LiveAnswer`, `ExchangeSettles` | the three executors and the venue |
| `Close`, `Commit` | `close_position`, which holds the instance lock across its transaction |
| `Release`, `ReleaseRow`, `ReleaseMemory` | `release_position_close` |
| `SaveState`, `SaveWrites` | `save_state`: copy under the lock, write later |
| `Crash`, `Preflight`, `StartInstance`, `RecoverLookup`, `RecoverHop` | death of the process, the orchestrator's cold-recovery preflight, `start()` with `recover_state` and `recover()` |
| `Stop`, `Acknowledge` | kill switch and operator |

A write that meets a busy database is expressed by `BusyStore`: with it, the writes
between the two halves of a reservation, release or checkpoint may be overtaken;
without it the two halves are still separate steps, but the write lock serves them
in order of arrival, and a checkpoint then writes what its instance row already
holds, so it is left out. The
refused reservation, withdrawn order, failed acknowledgement and dead signal task of
the code are branches of `OnRefused`, `AfterWrite` and `NewOrder`.

Abstracted: prices, fees and profit (capital counts how often each position was
credited, which is what "booked once" means); wording; which positions are sold
(any choice the selection of a path allows). All positions have one symbol and one
volume. Buying is not modelled: a run starts from positions already bought.

### KillSwitch and HaltLatch

`switch` is each handler's `KillSwitch` object, `row` the line of
`global_kill_state`. `trigger` is split at its write: `Triggers` sets the flag and
takes `tripping`, `FinishTrigger` writes the row (or fails to) and stops the
instance unless a close holds its lock, in which case the calling task is left
`stopping` and `EmergencyStop` follows. Signals go `Emit`, `Check`, `Sell`,
`Answered`, `Reconcile`, once per position, without looking at the switches again,
as in the code. The dashboard's thread is `BeginReview`, `AckStore`, `AckHandler`,
`ClearHandler`, and may act while the loop waits. `TripsStoreOnly` is the preflight
and the reconciliation. The refinement to `HaltLatch` says that a handler is halted
if its own switch or the row says so, and that a durable halt is the row. In the latch
a signal takes off only if its own handler, `HandlerOf[s]`, is not halted: a handler
halted in its memory alone, because the store refused the trip or an acknowledgement
has cleared the row, grounds its signals while the others go on. A model whose check
reads the shared row only does not implement the latch.

### FeedConnection, TickPath, MarketData and LossyFeed

`workers[w]` is where a heartbeat, a reconnection spawned by a receive loop, or the
health check stands between the awaits of `_reconnect` and `connect`. `ws`, `recv` and
`loops` differ on purpose: `_ws` and `_recv_task` are overwritten by whoever comes
last, and a loop nobody refers to any more goes on reading. Time is abstracted: a
heartbeat may find the feed stale whenever nothing live is subscribed. In `TickPath`
a tick is its number; `Dispatch` reads the ring out in one go because the dispatch
task does not await before it is empty. `Receive` writes each tick once, also while two
loops are alive, where the code would write it once per loop. `Subscribe` is the
ticker channel; the book subscriptions (`v2/websocket_async.py:567`), whose
failure leaves the attempt count unreset, are left out.

### ExperimentRegistry and BoundedResearch

A call that runs inside `BEGIN IMMEDIATE` is one action; `record_trial`, the final
holdout review and the artifact of the trial count are several, with the place of the
process in `call[w]`. The wall clock may be set back: a gate is inserted anywhere in
the list that `_state` orders by time (`RecordedAt`). An experiment stands for its
fingerprint, so all its immutable spec is constant, its snapshot (`SnapshotOf`)
included; the execution claim therefore excludes no run that the snapshot claim would
admit, and `OneRunPerSnapshot` rests on the latter. The coordinator adds its claims,
plan, run and evidence as steps of `run[c]`, and `ran` counts runner starts.

### ShadowLedger

`record_order_event` is `RecordOrderEvent` (all reads) and `AppendEvent` (the INSERT);
`record_fill` is `RecordFill` (fill id, decision, latest event), `WeighFill` (the sum)
and `InsertFill` (fill and order event in one transaction). Quantities are notionals
and time stamps are what the callers say. The fills and reports callers may bring are
constants, also several fills with one id, so that a conflicting retry is possible.

## 3. The runs

| Run | Question | Bounds |
| --- | --- | --- |
| `ledger` | is the audit trail exact, is recovery honest, does it always reach its verdict? | 1 order, its submitter and 1 recovery pass; request 2, fills to 3; no new call after 5 transitions |
| `exit_paper` | is a position sold and booked once? | paper; 2 instances, 2 signals, exit, reduction, 2 orders, failing store, 2 crashes |
| `exit_live` | is what the book and ledger claim covered by the exchange? | live; 2 signals, exit, request 2, fills to 3, busy and failing store, 1 crash |
| `exit_settles` | does everything end without faults? | paper; 2 positions, a signal that may come again, exit |
| `kill_switch` | does a halt hold, against the operator's thread, a failing store and a crash? | 2 handlers, 2 signals of the first, storm at 2 failures or 1 nonce error; 1 review, 1 outage, 1 crash |
| `market_data` | does the feed recover, in order and up to the last tick? | 6 sockets, 3 heartbeats, 1 spawned reconnection, breaker after 2, 2 faults; 2 instances, ring 1, queue 1, 2 ticks |
| `registry` | can evidence be spent twice, hidden or undercounted? | 2 processes, 3 experiments, 1 holdout, the clock may go back |
| `bounded_research` | does a snapshot pay for one run, corrected for its own plan? | 2 invocations, 1 person, 4 experiments, 2 snapshots |
| `shadow_ledger` | do fills, events and caps agree? | 2 processes, an order they share and one of a single writer, 9 fills, 11 reports |
| `exit_lost_answer`, `exit_reduction`, `shadow_cap` | disagreements below | smallest instance that shows each |

Why the bounds are enough.

* Orders never interact in `OrderLedger`: every action names one order, and a pass
  handles one at a time. One order with a submitter and a pass has the race of
  recovery against the runtime; the theorems cover any number of passes. Fills from 0
  to 3 with a request of 2 give zero, partial, full and over. `MaxTransitions` is the
  bound on starting a new call, and a pass in progress still finishes.
* In `PositionExit` two tasks are needed for a race, a third to disturb the winner's
  release or close, a crash to leave a reservation behind, a second crash to leave it
  again while it is being recovered; two instances share a row only after a crash. Two
  orders allow the second sale that is asked to be impossible.
* In `KillSwitch` both signals belong to the first handler, so that a storm of one
  meets the close of the other; the second handler trips through its own start-up
  recovery and is halted through the row. One signal closes two positions, so that a
  trip can fall between them.
* In `MarketData` the breaker's limit is 20 in the code. Two is the smallest limit
  that overlapping reconnections of one fault do not reach by themselves. With a limit of
  one, or three faults at limit two, the untimed model has cycles in which
  reconnections keep closing each other's connection, which the backoff delays of the
  code rule out. Names of sockets and heartbeats are used again once nothing refers
  to them; six and three are never all in use. With ring and queue of one every
  second tick overflows both.
* In the registry two processes suffice for each read-then-write pair; the third
  experiment is the successor. `MaxGates` bounds the gates of each experiment, five for
  one of them, which is all stages.
* In `ShadowLedger` the shared order has fills that together exceed the cap or the
  target, with equal, ascending and descending time stamps, and two with one id.

`Orders`, `MaxFill`, `MaxCrashes`, `MaxTransitions`, `MaxReviews`, `MaxOutages`,
`MaxPositions`, `MaxFaults`, `MaxWrites` and `MaxGates` are the bounds; the other
constants are parameters of the code. Deadlock is not checked: every one of these systems rightly
stops when there is nothing left to do. Symmetry is used only in runs without
liveness properties, over identities that are interchangeable in the initial states.

What the properties say (each is stated above its definition):

* `AuditTrailIsExact`, `AppendsOnlyNews`: the log of an order is a walk from NEW to
  its status, and grows exactly when a status or cumulative fill is new.
* `FilledIsEarned`, `OutcomeIsDecidedOnce`: FILLED only for the whole quantity and
  after a logged submission; a decided order never changes.
* `RecoveryReplyIsTrue`, `ColdRecoverySettles`: True means so; hops never dead-end.
* `ExclusiveReservation`, `AtMostOneSale`: one owner of a position at any time across
  instances, and never more sold than held, over crashes and failures.
* `SoldStaysReserved`, `RejectedMeansUnsold`: nothing that was executed is ever open
  again or declared rejected (paper).
* `ClosedMeansSold`, `LedgerNeverOverstates`: neither book nor ledger claims more than
  the exchange did (live, with partial fills and overfills).
* `CloseIsWholeOnce`: row, trade and capital move together, once.
* `MemoryAgrees`, `ReservationEnds`, `OrdersSettle`: no fault, no leftover.
* `TrippedIsStopped`, `StormIsPersisted`, `HaltQuiesces`, `ImplementsLatch`: a trip
  stops its instance, reaches the store unless the store fails, grounds the signals
  in flight in the end and refuses every later one until an operator clears it.
* `Watched`, `FeedRecovers`, `LastTickGetsThrough`, `ImplementsFeed`: a dead feed is
  always noticed and replaced, and the promise of `LossyFeed` is kept.
* `SuccessorsFollowMissingData`, `HoldoutReviewedForOneExperiment`,
  `GatesAreAnUnbrokenRun`, `ShadowReviewIsEarned`, `StressCountIsCurrent`: a rejection
  is final, an experiment with a successor stays ended for want of data, a sealed
  holdout is looked at for one experiment, no stage is skipped or repeated, and
  statistics count the candidates of the campaign other processes recorded meanwhile.
  (The rows of other dimensions and the inherited floor are part of the count,
  `ValidationTrialCount`, but not of the property.)
* `OneRunPerSnapshot`, `RunnerCountsItsOwnPlan`: one run per snapshot over crashes and
  a second timer, and never corrected for fewer trials than it makes.
* `FillsAreLogged`, `CompletionIsEarned`, `SoleWriterIsSafe`: fills and events are one
  history; an order completes itself only on enough fills; with one writer per order,
  cap and state graph hold whatever it retries.

### Disagreements found

The violation runs record where the code and its own documents disagree;
`PROJECT.json` quotes the lines.

1. `exit_lost_answer`. The live executor turns "no answer" into
   `success=False`; both sell paths take that for a rejection and re-open the
   position, although the comment beside the code calls a timeout after SENT an
   uncertain state. Locked today, since live execution is.
2. `exit_reduction`. The drawdown reduction closes positions that another coroutine
   has reserved and is selling.
3. `shadow_cap`. Two fills recorded at the same time are each compared with the
   approved notional before either is written, and pass it together. With one writer
   per order the cap holds (`SoleWriterIsSafe`).

Two more weaknesses, listed as hazards without a property, contradict no document and have no run of their own; set
`BusyStore = TRUE` in a configuration to see them. In `PositionExitPaper.cfg`
`CloseIsWholeOnce` then fails: `save_state` writes the copy of the capital it took
before (`v2/instance_async.py:345`), and if it sleeps out a busy database, a close that
commits meanwhile is undone in `instance_state`. In `PositionExitSettles.cfg`
`ReservationEnds` and `MemoryAgrees` fail: a release can overtake a reservation
(`v2/instance_async.py:740`), the row stays closing, nobody owns it, and every later
exit is refused. A reduction breaks two more properties than the runs show: with two
instances, two positions and a crash it commits a close that another instance has
already booked (`CloseIsWholeOnce`), and with a failing store it marks a position
closing in memory that a release has just re-opened (`MemoryAgrees`). `ExclusiveReservation` with a reduction is checked
for a single position in `exit_paper`, where the reduction closes at once what it
just saw open, and fails with several in `exit_reduction`, where the rest of its
snapshot has grown old.

### Fairness

Weak fairness, everywhere, of a coroutine that is ready: the event loop runs it, and
its awaited SQLite call or socket operation returns.

* `ledger`: of `RecoverHop`. Nothing is assumed of the submitter or of the exchange;
  a failing store or a crash ends the obligation.
* `exit_settles`: of `Step(t)` for each started task; every wait inside is for
  SQLite, or for an executor that answers or times out. Nothing forces a task to
  *begin*, an instance to be stopped or saved, or the exchange to fill.
* `kill_switch`: of `FinishTrigger` and of each signal's steps. Nothing forces the
  operator, a start or a new signal.
* `market_data`: of each worker of the connection, of the health check of the main
  loop, of the dispatch task, of each consumer, and of the start that follows a creation.
  `Receive` is fair as well: an exchange that has a live subscription keeps ticking.
  Faults are never forced and are bounded, so what is claimed holds once they cease.

## 4. What is proved

Every theorem holds for every value of the constants, from the named assumptions of
the modules only (`RequestedAssumption`, `LedgerAssumption`, `ExitAssumption`,
`SwitchAssumption` and their like: what kinds of things the constants are, that
different kinds of tasks are disjoint, that `None` is none of them; `OrdersFinite`:
the orders table is a finite set, so that totals over it exist), and from the
hypotheses named in the table. No bound of section 3 is assumed.

| Module | Theorem | Statement |
| --- | --- | --- |
| `OrderLedgerProofs` | `LedgerInvariant` | `Spec => []IInv` |
| | `TypeCorrect` | `Spec => []TypeOK` |
| | `AuditTrail` | `Spec => []AuditTrailIsExact` |
| | `FilledEarned` | `Spec => []FilledIsEarned` |
| | `RecoveryReply` | `Spec => []RecoveryReplyIsTrue` |
| | `AppendsNews` | `Spec => AppendsOnlyNews` |
| | `OutcomeRefinement` | `Spec => OutcomeIsDecidedOnce`: the ledger implements `OrderOutcome` |
| `PositionExitProofs` | `ExitTypes`, `TypeCorrect` | `Spec => []TypeInv`, `Spec => []TypeOK` |
| | `Exclusion` | `Spec => []ExclusionInv` |
| | `ReservationExcludes` | `Spec => []ExclusiveReservation`, if there are no reductions |
| `PositionLedgerProofs` | `LedgerInvariant` | `Spec => []LedgerInv` |
| | `NeverOverstated` | `Spec => []LedgerNeverOverstates` |
| | `PaperInvariant` | `Spec => []PaperInv`, if the executor is not live |
| | `SoldOnceOnly` | `Spec => []AtMostOneSale`, likewise |
| | `SoldIsReserved` | `Spec => []SoldStaysReserved`, likewise |
| | `RejectedIsUnsold` | `Spec => []RejectedMeansUnsold`, likewise |
| | `ClosedIsSold` | `Spec => []ClosedMeansSold`, if there are no reductions |
| | `ClosesWholeOnce` | `Spec => []CloseIsWholeOnce`, if there are no reductions and no busy store |
| | `SingleMemoryAgrees` | `Spec => []MemoryAgrees`, likewise, for a single instance |
| `KillSwitchProofs` | `SwitchInvariant`, `TypeCorrect` | `Spec => []IInv`, `Spec => []TypeOK` |
| | `TrippedStops` | `Spec => []TrippedIsStopped` |
| | `LatchRefinement` | `Spec => ImplementsLatch`: the switches implement `HaltLatch` |
| `MarketDataProofs` | `MarketDataInvariant`, `TypeCorrect` | `Spec => []IInv`, `Spec => []TypeOK` |
| | `FeedWatched` | `Spec => []Watched` |
| | `FeedRefinement` | `Spec => Feed!FeedSafety`: the safety half of `LossyFeed` |
| `RegistryProofs` | `RegistryInvariant`, `RegistryTypes` | `Spec => []IInv`, `Spec => []TypeOK` |
| | `OneReviewer` | `Spec => []HoldoutReviewedForOneExperiment` |
| | `ReviewEarned` | `Spec => []ShadowReviewIsEarned` |
| | `SuccessorsFollow` | `Spec => []SuccessorsFollowMissingData` |
| | `UnbrokenRun` | `Spec => []GatesAreAnUnbrokenRun` |
| | `StressCountCurrent` | `Spec => StressCountIsCurrent` |
| | `BoundedInvariant`, `CountInvariant` | `BoundedSpec => []RunInv`, `BoundedSpec => []CountInv` |
| | `RunPaidOnce` | `BoundedSpec => []OneRunPerSnapshot` |
| | `RunnerCounts` | `BoundedSpec => []RunnerCountsItsOwnPlan` |
| `ShadowLedgerProofs` | `ShadowInvariant`, `FillInvariant` | `Spec => []IInv`, `Spec => []FillInv` |
| | `ShadowTypes` | `Spec => []TypeOK` |
| | `EveryFillLogged` | `Spec => []FillsAreLogged` |
| | `CompletionEarned` | `Spec => []CompletionIsEarned` |
| | `SoleWriterSafe` | `Spec => []SoleWriterIsSafe` |

`TotalsProofs` holds lemmas only: what one unit more adds to a total, that a total
covers each of its parts, and what it is when one part or none is not zero.

None of the properties is inductive alone. What had to be added to each, and why:

**Order ledger.** `FilledIsEarned` needs to
know that an order that is SENT, ACK, PARTIAL, UNKNOWN or EXPIRED was submitted too,
since FILLED is reached from those; that its log is a `Trail` gives the last entry
from which the next must start. `RecoveryReplyIsTrue` needs that a pass with the reply
True names a real order and that no write ever touches a decided one
(`WriteKeepsDecided`). `IInv` is the conjunction of `TablesInv` (both tables, whoever
writes) and `PassesInv` (locals of a pass that still matters). Every action either
goes through `Write` with a `GoodCall`, places a new order, or leaves the tables alone,
so the invariance of `TablesInv` is proved once for `Write` and used by each action.
The refinement adds that a commit moves an open order along an edge of the graph
(`CommitMovesOpen`), which is a `Work` or a `Decide` step of `OrderOutcome`.

**Positions and their orders.** `TypeInv` adds to the types what a coroutine holds at
each step (`LocalsFit`: whoever sells has a position of its instance, an order once
there is one, an answer once it was given; `StartsFit` the same of a start). The
invariants below rest on it, in two modules.

* Exclusion (`ExclusionInv`). `reserve_position_close` moves the row and the memory in
  two steps, and `release_position_close` and `close_position` move both back at
  different times, so that "one owner" must be said of every stage: no two *sellers*
  (signals and exits) own a row, and nobody finds it open meanwhile (`SellersExclude`);
  the memory of the owner's instance does not offer it (`KnownExclusively`); a seller
  reserves before it has an answer (`ReservesFirst`); after a crash no task owns
  anything (`DownTogether`). None of this needs an assumption about reductions: they
  send no orders, and never open what a seller has reserved. That the row *says
  closing* does, since `close_position` accepts a position another coroutine
  reserved; hence `Reductions = {}` in `ReservationExcludes`, and `exit_reduction` shows
  that it cannot be dropped. The same property *with* one reduction of one position
  stays checked in `exit_paper`.
* The ledger's claims (`LedgerInv`). Orders of different tasks differ (`OrdersDiffer`);
  an answer in a coroutine's hands is covered by the venue (`AnswersTrue`); what was
  never sent is unknown there (`UnsentAbsent`), a task does not execute before its row
  is SENT (`RowsFirst`), and what recovery looked up is still so when it writes
  (`RecoveryFits`), because executed quantities only grow. All writes of fills go
  through one lemma, `WritesTruth`. Reductions send no orders and need no exception.
* Steps. The proofs that follow speak of sellers only. `Courses` and `Effects` reduce
  the seventeen actions of a coroutine to the pairs of places it may pass between
  (`Course`) and what it may write to its own row, order and position; `StepKinds` shows
  that every step of the system is such an act of one seller (`Acts`) or happens
  `Elsewhere`: recovery, the exchange, a crash, a start, the reduction.
* One sale (`PaperInv`). A seller that owns a position and has no fill yet owns an
  *unsold* one; an open position is unsold; at most one order of a position has
  executed; rejections and releases happen after a refusal only, and recovery never
  holds a proof of absence (`NoProof`). `AtMostOneSale`, `SoldStaysReserved` and
  `RejectedMeansUnsold` follow. A live exchange violates it, by the lost answer of
  `exit_lost_answer`; that the executor is not live is therefore a hypothesis, not a
  simplification. Crashes, failing and busy stores and reductions are all allowed.
* Closed means sold (`SalesInv`). Whoever is on the way to a commit has the answer
  that all was executed (`Closers`), and the order that sold a closed position keeps
  its row and its fill (`ClosedSold`). It holds with the live exchange as well. The
  reduction closes without an order, so it must be absent.
* Whole and once (`BookInv`). Each instance's row of `instance_state` is what the
  instance holds in memory, and the rows of later lives are empty (`CapitalSaved`); a
  closed position is credited in exactly one row, any other in none (`BookedOnce`). A
  save that sleeps out a busy database writes an older copy, and a reduction commits a
  position for the second time: both violate the property (section 3), and both are
  excluded by hypothesis.
* Memory (`MemoryInv`). Between the halves of a reservation the memory still says open
  and the row closing; between those of a release the row is open, the memory closing,
  and nobody reserves the position meanwhile (`HandsOn`). The last part is what the
  order of arrival at the write lock gives, so the store must not be busy. Another
  instance makes a memory stale and a failed reduction writes a wrong one, so that
  both hypotheses are needed.

**Kill switches.** The trigger that waits for its write will find the instance's lock
free, or leaves behind the task that stops it (`TripIsFollowed`). This needs the
`Bookkeeping` around it: failure counts stay below their limits while untripped, a
process that is down has clear switches, only recovered handlers have signals in
flight, and one in flight has a position left to sell. For the refinement, every step of the
loop keeps each halt, `Check` is the only step that starts a sale, and the review only
ever clears.

**Market data.** While the feed counts as running some heartbeat is at some place of
its loop, or the health check is about to start one (`SomeoneWatches`): a
heartbeat that called a reconnection returns to its loop as long as `_running` is set,
and one that finds it cleared and ends leaves nothing to watch. Order and
non-repetition of ticks follow from `QueuesFit`: the queue of an instance ascends, lies
above the last tick the instance handled, and nowhere passes the reader of the ring.

**Registry and coordinator.** A call in progress owns the claim it took
(`record_final_holdout_review`, snapshot and execution claims), claims are never
changed, and the reviewer of a holdout is the claimant. `GatesAreAnUnbrokenRun` is kept
by an insertion anywhere in the list because its stages differ (`StagesDiffer`) and the
new one is the next of the whole run. The coordinator adds that a run in progress has
both claims (`ClaimsExclude`), hence is paid for by a snapshot no other run has
(`RunsPaid`). Its steps leave the registry alone or are steps of it.
`StressCountIsCurrent` needs no more than that the gate is inserted and the trials are
counted in one transaction, and that the floor of the predecessors is a number.
`RunnerCountsItsOwnPlan` adds that the tables are finite, that the plan is on record in
full when the floor is read, and that nothing else sets a floor (`FloorsCover`,
`FloorsStay`).

**Shadow ledger.** An order that one process records for has a latest event at any
time (`HasLatest`), and what its process read before the INSERT is still the latest
(`AppendsFollow`), so that the log it extends stays a path of the graph (`Extends`).
For the cap, what `record_fill` weighed is still so when it inserts (`Weighed`), since
nobody else fills the order and its decision is final; an inserted fill adds exactly
its quantity to the total. `CompletionIsEarned` holds for any number of writers: the
transaction of the fill decides about FILLED itself, and later fills only add.

Only model-checked: the liveness properties (`ColdRecoverySettles`, `ReservationEnds`,
`OrdersSettle`, `StormIsPersisted`, `HaltQuiesces`, `FeedRecovers`,
`LastTickGetsThrough`, and the liveness half of `ImplementsFeed`), since fairness and
ENABLED are beyond the prover. Every safety property a passing run checks is also a
theorem, with two qualifications: the hypotheses of the table (no run needs more than
they allow, except that `exit_paper` checks its properties with one reduction of
one position, where `ExclusiveReservation` and `CloseIsWholeOnce` happen to survive),
and that quantities are whole lots. No module declares a RECURSIVE operator, so the
provers can be used on all of them.

## 5. Not modelled, and the plan

Not modelled, with a reason for each component in `PROJECT.json`:

* Buying. `_legacy_direct_execution_enabled` (`v2/signal_handler_async.py:765-774`)
  always answers False, so the buy path returns before its first order; sizing,
  admission, budgets and the audit chain it alone writes to are unreachable with it.
* `OrderRouter`, its limiter and queue: the runtime submits nothing to it.
* Stop losses: no caller registers a position with the manager.
* Reconciliation, allocation, the fleet's planners: they compare or propose numbers;
  their one effect on modelled state, halting the row, is in `KillSwitch`.
* Research analytics, backtests, statistics, indicators, strategies, data collectors,
  shadow labs, reports, dashboards and the command line. This is by far the largest part of the
  repository (some 150,000 lines): floating-point computation, file formats and
  presentation, without concurrent state. The share of lines that can be modelled is
  therefore small, and the models cover the stateful core rather than a share of it.
* The retired threaded runtime (its constructors raise).

Left in the plan, in this order: an `Executor` with retries, userref and nonces under
`PositionExit` in place of `LiveAdd`, when live execution is unlocked; `OrderRouter`
when it is wired; capital between instances. For the proofs: which of the theorems
about the paper executor survive with a live one that never loses an answer, and the
exact part of `CloseIsWholeOnce` that a reduction leaves intact.

## 6. Running it

    tlc -workers 2 -config OrderLedgerMC.cfg OrderLedgerMC
    tlc -workers 2 -config PositionExitPaper.cfg PositionExitMC
    tlapm OrderLedgerProofs.tla

and likewise for every `...MC` module with its configurations and every `...Proofs`
module. `PositionExitProofs` and `PositionLedgerProofs` are by far the longest.
