------------------------------ MODULE KillSwitch ------------------------------
(* The switches that halt trading: one in each instance's signal handler, in *)
(* memory, and one row of SQLite they share.  Signal tasks, the start of the *)
(* instances and the reconciliation trip them on the event loop; meanwhile   *)
(* an operator's acknowledgement runs in the thread of the dashboard.  The   *)
(* process may die at any step; the row survives.  Entries are locked by     *)
(* _execute_buy itself, so what a signal may send is the exit of positions,  *)
(* one after the other (in detail: PositionExit).                            *)
EXTENDS Integers, FiniteSets

CONSTANTS
    Handlers,               \* one per instance
    Signals,                \* signal tasks, reused
    HandlerOf,              \* the instance each of them belongs to
    MaxApiFailures, MaxNonceErrors,
    MaxPositions,           \* bound: positions each signal closes at most
    MaxReviews,             \* bound on acknowledgements
    MaxOutages,             \* bound on failures of the shared store
    MaxCrashes              \* bound on process deaths

None == "none"              \* no handler

ASSUME SwitchAssumption ==
    /\ None \notin Handlers
    /\ {MaxApiFailures, MaxNonceErrors} \subseteq Nat \ {0}
    /\ HandlerOf \in [Signals -> Handlers]
    /\ MaxPositions \in [Signals -> Nat \ {0}]
    /\ {MaxReviews, MaxOutages, MaxCrashes} \subseteq Nat

VARIABLES
    row,                    \* global_kill_state.tripped
    switch,                 \* each handler's KillSwitch: tripped and its counts
    status,                 \* InstanceStatus; "down" before start()
    recovered,              \* start() got past recover(): ticks are consumed
    tasks,                  \* locals of each signal task
    tripping,               \* the handler whose trigger() holds the event loop
    review,                 \* progress of the acknowledgement
    reviews, outages, crashes

vars == <<row, switch, status, recovered, tasks, tripping, review, reviews,
          outages, crashes>>
loop == <<switch, status, recovered, tasks, tripping>>
operator == <<review, reviews>>

Clear == [tripped |-> FALSE, api |-> 0, nonces |-> 0]
Rest == [pc |-> "idle", left |-> 0]
NoReview == [at |-> "idle", todo |-> {}, handler |-> None]

Init ==
    /\ row = FALSE
    /\ switch = [h \in Handlers |-> Clear]
    /\ status = [h \in Handlers |-> "down"]
    /\ recovered = {}
    /\ tasks = [s \in Signals |-> Rest]
    /\ tripping = None
    /\ review = NoReview
    /\ reviews = 0 /\ outages = 0 /\ crashes = 0
-----------------------------------------------------------------------------
\* The dashboard reads and writes while trigger() waits for SQLite; no other
\* coroutine does.
LoopIsFree == tripping = None
StoreWorks == UNCHANGED outages
StoreFails == outages < MaxOutages /\ outages' = outages + 1

\* GlobalKillSwitchStore.trip: a failure is logged and answered False.
TripStore ==
    \/ StoreWorks /\ row' = TRUE
    \/ StoreFails /\ UNCHANGED row

\* trigger, up to the write: nothing if the switch is tripped already.
Triggers(h, counted) ==
    IF counted.tripped
    THEN switch' = [switch EXCEPT ![h] = counted] /\ UNCHANGED tripping
    ELSE /\ switch' = [switch EXCEPT ![h] = [counted EXCEPT !.tripped = TRUE]]
         /\ tripping' = h

\* Mutant: the trigger has no callback.
StopsNothing(h) == UNCHANGED status

Stops(h) == status' = [status EXCEPT ![h] = "STOPPED"]

\* close_position keeps the lock of its instance while SQLite commits.
LockIsFree(h) == \A s \in Signals : tasks[s].pc = "closing" => HandlerOf[s] # h

\* The callback, emergency_stop, runs on without a yield, stored or not; only
\* for a lock that is taken does it wait.
FinishTrigger ==
    /\ tripping # None /\ tripping' = None
    /\ TripStore
    /\ IF LockIsFree(tripping) THEN Stops(tripping) ELSE UNCHANGED status
    /\ UNCHANGED <<switch, recovered, tasks, operator, crashes>>

\* Mutant: the limit itself is still tolerated.
ToleratesTheLimit(counted) ==
    counted.api > MaxApiFailures \/ counted.nonces > MaxNonceErrors

IsStorm(counted) ==
    counted.api >= MaxApiFailures \/ counted.nonces >= MaxNonceErrors

\* Mutant: a tripped switch goes on counting.
CountsOn(h, nonce) ==
    LET counted == [switch[h] EXCEPT !.api = @ + 1,
                                     !.nonces = IF nonce THEN @ + 1 ELSE @]
    IN IF IsStorm(counted) THEN Triggers(h, counted)
       ELSE switch' = [switch EXCEPT ![h] = counted] /\ UNCHANGED tripping

\* record_api_failure; no exit resets the count when it succeeds.
RecordApiFailure(h, nonce) ==
    LET counted == [switch[h] EXCEPT !.api = @ + 1,
                                     !.nonces = IF nonce THEN @ + 1 ELSE @]
    IN IF switch[h].tripped THEN UNCHANGED <<switch, tripping>>
       ELSE IF IsStorm(counted) THEN Triggers(h, counted)
       ELSE switch' = [switch EXCEPT ![h] = counted] /\ UNCHANGED tripping
-----------------------------------------------------------------------------
\* start(), one instance after the other.
Start(h) ==
    /\ LoopIsFree /\ status[h] = "down"
    /\ \A other \in Handlers \ {h} : status[other] = "down" \/ other \in recovered
    /\ status' = [status EXCEPT ![h] = "RUNNING"]
    /\ switch' = [switch EXCEPT ![h] = Clear]
    /\ UNCHANGED <<row, recovered, tasks, tripping, operator, outages, crashes>>

\* recover(): an unreadable ledger or an order nobody can account for trips.
Recover(h) ==
    /\ LoopIsFree /\ status[h] # "down" /\ h \notin recovered
    /\ recovered' = recovered \cup {h}
    /\ Triggers(h, switch[h]) \/ UNCHANGED <<switch, tripping>>
    /\ UNCHANGED <<row, status, tasks, operator, outages, crashes>>

\* _preflight_instance_cold_recovery halts and gives up the start; what the
\* reconciliation finds halts the store alone, and stops no instance.
TripsStoreOnly ==
    /\ LoopIsFree
    /\ (\A h \in Handlers : status[h] = "down") \/ recovered = Handlers
    /\ TripStore
    /\ UNCHANGED <<loop, operator, crashes>>
-----------------------------------------------------------------------------
Goto(s, pc) == tasks' = [tasks EXCEPT ![s].pc = pc]
Finish(s) == tasks' = [tasks EXCEPT ![s] = Rest]

\* On to the next of the positions, whatever the switch says by now.
Proceed(s) ==
    IF tasks[s].left = 1 THEN Finish(s)
    ELSE tasks' = [tasks EXCEPT ![s].pc = "sell", ![s].left = @ - 1]

\* A running strategy emits a signal; its task runs later.
Emit(s) ==
    /\ LoopIsFree /\ tasks[s] = Rest
    /\ status[HandlerOf[s]] = "RUNNING" /\ HandlerOf[s] \in recovered
    /\ Goto(s, "ready")
    /\ UNCHANGED <<row, switch, status, recovered, tripping, operator, outages,
                   crashes>>

\* Mutant: only the handler's own switch is read.
ReadsOwnSwitch(h) == switch[h].tripped
\* Mutant: only the shared switch is read.
ReadsSharedSwitch(h) == row

IsHalted(h) == switch[h].tripped \/ row

\* The check at the head of _on_signal; an unreadable store counts as tripped.
\* What passes takes a snapshot of the positions to close.
Check(s) ==
    /\ LoopIsFree /\ tasks[s].pc = "ready"
    /\ \/ /\ ~IsHalted(HandlerOf[s]) /\ StoreWorks
          /\ \E left \in 1..MaxPositions[s] :
                tasks' = [tasks EXCEPT ![s].pc = "sell", ![s].left = left]
       \/ IsHalted(HandlerOf[s]) /\ StoreWorks /\ Finish(s)
       \/ ~switch[HandlerOf[s]].tripped /\ StoreFails /\ Finish(s)
    /\ UNCHANGED <<row, switch, status, recovered, tripping, operator, crashes>>

\* Guards, reservation and ledger of one position, each awaited.  The cooldown,
\* the locked entry, nothing to sell or a raise end the signal.
Sell(s) ==
    /\ LoopIsFree /\ tasks[s].pc = "sell"
    /\ Proceed(s) \/ Finish(s) \/ Goto(s, "sent")
    /\ UNCHANGED <<row, switch, status, recovered, tripping, operator, outages,
                   crashes>>

IsStopping(h) == \E s \in Signals : HandlerOf[s] = h /\ tasks[s].pc = "stopping"

\* A trigger keeps the task that called it until the instance is stopped.
TripsAndWaits(s) ==
    LET h == HandlerOf[s] IN
    IF tripping' # tripping THEN Goto(s, "stopping") ELSE Proceed(s)

\* The order has reached the venue.  It is filled and the position is closed,
\* behind a trigger that already waits for the lock; or it is refused locally;
\* or it is an API failure.
Answered(s) ==
    LET h == HandlerOf[s] IN
    /\ LoopIsFree /\ tasks[s].pc = "sent"
    /\ \/ /\ LockIsFree(h)
          /\ IsStopping(h) => status[h] = "STOPPED"
          /\ Goto(s, "closing") /\ UNCHANGED <<switch, tripping>>
       \/ Proceed(s) /\ UNCHANGED <<switch, tripping>>
       \/ /\ \E nonce \in BOOLEAN : RecordApiFailure(h, nonce)
          /\ TripsAndWaits(s)
    /\ UNCHANGED <<row, status, recovered, operator, outages, crashes>>

\* The close is over.  _post_trade_reconcile of a live account, which follows
\* an uncertain order as well, may find a mismatch.
Reconcile(s) ==
    LET h == HandlerOf[s] IN
    /\ LoopIsFree /\ tasks[s].pc = "closing"
    /\ \/ Proceed(s) /\ UNCHANGED <<switch, tripping>>
       \/ Triggers(h, switch[h]) /\ TripsAndWaits(s)
    /\ UNCHANGED <<row, status, recovered, operator, outages, crashes>>

\* emergency_stop gets the lock, or has had it: the signal goes on.
EmergencyStop(s) ==
    /\ LoopIsFree /\ tasks[s].pc = "stopping"
    /\ LockIsFree(HandlerOf[s]) /\ Stops(HandlerOf[s])
    /\ Proceed(s)
    /\ UNCHANGED <<row, switch, recovered, tripping, operator, outages, crashes>>

Step(s) == Check(s) \/ Sell(s) \/ Answered(s) \/ Reconcile(s) \/ EmergencyStop(s)
-----------------------------------------------------------------------------
\* The dashboard's thread.  An unconfirmed write ends the acknowledgement where
\* it is.
BeginReview ==
    /\ review = NoReview /\ reviews < MaxReviews
    /\ \E h \in Handlers : status[h] # "down"
    /\ review' = [NoReview EXCEPT !.at = "store"] /\ reviews' = reviews + 1
    /\ UNCHANGED <<row, loop, outages, crashes>>

\* GlobalKillSwitchStore.acknowledge_recovery, then on in the acknowledgement.
Acknowledge(next) ==
    \/ StoreWorks /\ row' = FALSE /\ review' = next
    \/ StoreFails /\ UNCHANGED row /\ review' = NoReview

AckStore ==
    /\ review.at = "store"
    /\ Acknowledge([NoReview EXCEPT !.at = "handlers", !.todo = Handlers])
    /\ UNCHANGED <<loop, reviews, crashes>>

EndOfReview(todo) == IF todo = {} THEN NoReview
                     ELSE [NoReview EXCEPT !.at = "handlers", !.todo = todo]

\* Each handler's acknowledge_recovery: the store once more, then its memory.
AckHandler(h) ==
    /\ review.at = "handlers" /\ h \in review.todo
    /\ IF status[h] = "down"
       THEN review' = EndOfReview(review.todo \ {h}) /\ UNCHANGED <<row, outages>>
       ELSE Acknowledge([at |-> "memory", todo |-> review.todo \ {h}, handler |-> h])
    /\ UNCHANGED <<loop, reviews, crashes>>

\* Nothing resumes the instance that was stopped.
ClearHandler ==
    /\ review.at = "memory"
    /\ switch' = [switch EXCEPT ![review.handler] = Clear]
    /\ review' = EndOfReview(review.todo)
    /\ UNCHANGED <<row, status, recovered, tasks, tripping, reviews, outages, crashes>>

Crash ==
    /\ crashes < MaxCrashes /\ crashes' = crashes + 1
    /\ switch' = [h \in Handlers |-> Clear]
    /\ status' = [h \in Handlers |-> "down"] /\ recovered' = {}
    /\ tasks' = [s \in Signals |-> Rest]
    /\ tripping' = None /\ review' = NoReview
    /\ UNCHANGED <<row, reviews, outages>>

Next ==
    \/ \E h \in Handlers : Start(h) \/ Recover(h) \/ AckHandler(h)
    \/ \E s \in Signals : Emit(s) \/ Step(s)
    \/ FinishTrigger \/ TripsStoreOnly
    \/ BeginReview \/ AckStore \/ ClearHandler
    \/ Crash

Spec == Init /\ [][Next]_vars

\* The event loop runs a task that is ready and a call that has returned.
LiveSpec ==
    Spec /\ WF_vars(FinishTrigger) /\ \A s \in Signals : WF_vars(Step(s))
-----------------------------------------------------------------------------
(* Correctness of kill_switch.py and global_kill_switch.py under concurrency *)

Pcs == {"idle", "ready", "sell", "sent", "closing", "stopping"}

\* The type invariant.
TypeOK ==
    /\ row \in BOOLEAN
    /\ switch \in [Handlers -> [tripped : BOOLEAN, api : 0..MaxApiFailures,
                                nonces : 0..MaxNonceErrors]]
    /\ status \in [Handlers -> {"down", "RUNNING", "STOPPED"}]
    /\ recovered \subseteq Handlers
    /\ tasks \in [Signals -> [pc : Pcs, left : Nat]]
    /\ \A s \in Signals : tasks[s].left <= MaxPositions[s]
    /\ tripping \in Handlers \cup {None}
    /\ review \in [at : {"idle", "store", "handlers", "memory"},
                   todo : SUBSET Handlers, handler : Handlers \cup {None}]
    /\ reviews \in 0..MaxReviews
    /\ outages \in 0..MaxOutages /\ crashes \in 0..MaxCrashes

\* A tripped switch and a running instance are seen together only while the
\* trigger that will stop it holds the loop or waits for a close to let go of
\* the lock, whatever the operator does meanwhile and whether or not the store
\* took the trip.
TrippedIsStopped ==
    \A h \in Handlers : switch[h].tripped =>
        status[h] = "STOPPED" \/ tripping = h \/ IsStopping(h)

Flying == {s \in Signals : tasks[s].pc \notin {"idle", "ready"}}

Latch == INSTANCE HaltLatch WITH
    halted <- IF row THEN Handlers ELSE {h \in Handlers : switch[h].tripped},
    durable <- row,
    flying <- Flying,
    reviewing <- review # NoReview

\* Threads, tables and tasks implement the latch: a handler halted in its own
\* memory, even alone because the store failed, or by the store refuses every
\* later signal of its own until an operator acknowledges it, and a restart
\* forgets only a trip that never reached the store.
ImplementsLatch == Latch!Spec

\* A storm of failures is persisted and stops the instance, also when an
\* acknowledgement clears the handler's memory half way; unless the store
\* failed or the process died.
StormIsPersisted ==
    \A h \in Handlers :
        LET storm == /\ status[h] = "RUNNING"
                     /\ \/ switch[h].api >= MaxApiFailures
                        \/ switch[h].nonces >= MaxNonceErrors
                     /\ tripping = h \/ ~IsStopping(h)
        IN /\ storm ~> row \/ outages > 0 \/ status[h] = "down"
           /\ storm ~> status[h] \in {"STOPPED", "down"}

\* The check is made once, ahead of several awaits and several orders: a halt
\* nobody clears still grounds every signal in the end.
HaltQuiesces == <>[]row => <>[](Flying = {})
=============================================================================
