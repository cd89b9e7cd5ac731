--------------------------- MODULE KillSwitchProofs ---------------------------
(* Proofs about KillSwitch for every set of handlers and signals, all limits *)
(* and all bounds.                                                           *)
EXTENDS KillSwitch, TLAPS

\* The counts of an untripped switch are below their limits, a handler that is
\* down has a clear switch, and only a recovered one has signals under way.
Bookkeeping ==
    /\ \A h \in Handlers :
          /\ ~switch[h].tripped => ~IsStorm(switch[h])
          /\ status[h] = "down" => switch[h] = Clear
    /\ \A h \in recovered : status[h] # "down"
    /\ \A s \in Signals :
          /\ tasks[s].pc # "idle" => HandlerOf[s] \in recovered
          /\ tasks[s].pc \notin {"idle", "ready"} => tasks[s].left > 0

\* The trigger that holds the loop finds the lock free, or leaves behind a task
\* that waits for it.
TripIsFollowed ==
    tripping # None => LockIsFree(tripping) \/ IsStopping(tripping)

IInv == TypeOK /\ Bookkeeping /\ TripIsFollowed /\ TrippedIsStopped
-----------------------------------------------------------------------------
\* What triggers leave of the switches, whoever calls them.
Switch == [tripped : BOOLEAN, api : 0..MaxApiFailures, nonces : 0..MaxNonceErrors]

LEMMA TriggersTypes ==
    ASSUME switch \in [Handlers -> Switch], tripping \in Handlers \cup {None},
           NEW h \in Handlers, NEW counted \in Switch, Triggers(h, counted)
    PROVE  switch' \in [Handlers -> Switch] /\ tripping' \in Handlers \cup {None}
  <1>1. [counted EXCEPT !.tripped = TRUE] \in Switch
    BY DEF Switch
  <1> QED BY <1>1 DEF Triggers

LEMMA InitInv == Init => IInv
  <1> SUFFICES ASSUME Init PROVE IInv
    OBVIOUS
  <1>1. TypeOK
    <2>1. Clear \in Switch
      BY SwitchAssumption DEF Clear, Switch
    <2>2. Rest \in [pc : Pcs, left : Nat] /\ Rest.left = 0
      BY DEF Rest, Pcs
    <2>3. NoReview \in [at : {"idle", "store", "handlers", "memory"},
                        todo : SUBSET Handlers, handler : Handlers \cup {None}]
      BY DEF NoReview
    <2>4. \A s \in Signals : tasks[s].left <= MaxPositions[s]
      BY <2>2, SwitchAssumption DEF Init
    <2>5. row \in BOOLEAN /\ switch \in [Handlers -> Switch]
      BY <2>1 DEF Init
    <2>6. tasks \in [Signals -> [pc : Pcs, left : Nat]]
      BY <2>2 DEF Init
    <2>7. /\ status \in [Handlers -> {"down", "RUNNING", "STOPPED"}]
          /\ recovered \subseteq Handlers /\ tripping \in Handlers \cup {None}
      BY DEF Init
    <2>8. reviews \in 0..MaxReviews /\ outages \in 0..MaxOutages /\ crashes \in 0..MaxCrashes
      BY SwitchAssumption DEF Init
    <2> QED
      BY <2>3, <2>4, <2>5, <2>6, <2>7, <2>8 DEF Init, TypeOK, Switch
  <1>2. Bookkeeping
    BY SwitchAssumption DEF Init, Bookkeeping, IsStorm, Clear, Rest
  <1> QED BY <1>1, <1>2 DEF Init, IInv, TripIsFollowed, TrippedIsStopped, Clear
-----------------------------------------------------------------------------
(* What the steps of the event loop do to a switch and to a task.            *)

Task == [pc : Pcs, left : Nat]
InFlight == {"sell", "sent", "closing", "stopping"}

\* A switch is left alone, counts, or trips and takes the loop.  None of them
\* clears one.
SwitchMove(h) ==
    /\ switch' \in [Handlers -> Switch] /\ tripping' \in {tripping, h}
    /\ \A x \in Handlers \ {h} : switch'[x] = switch[x]
    /\ switch[h].tripped => switch'[h].tripped
    /\ switch'[h].tripped => switch[h].tripped \/ tripping' = h
    /\ ~switch'[h].tripped => ~IsStorm(switch'[h])

\* A task is given locals that fit together.
TaskMove(s) ==
    \E new \in Task :
        /\ tasks' = [tasks EXCEPT ![s] = new]
        /\ new.left <= MaxPositions[s]
        /\ new.pc \notin {"idle", "ready"} => new.left > 0

LEMMA TriggersMove ==
    ASSUME IInv, LoopIsFree, NEW h \in Handlers, NEW counted \in Switch,
           Triggers(h, counted), ~counted.tripped \/ counted = switch[h]
    PROVE  SwitchMove(h)
  <1>1. switch \in [Handlers -> Switch] /\ tripping \in Handlers \cup {None}
    BY DEF IInv, TypeOK, Switch
  <1>2. switch' \in [Handlers -> Switch] /\ tripping' \in {tripping, h}
    BY <1>1, TriggersTypes DEF Triggers
  <1>3. CASE counted.tripped
    BY <1>1, <1>2, <1>3 DEF Triggers, SwitchMove, Switch
  <1>4. CASE ~counted.tripped
    <2>1. [counted EXCEPT !.tripped = TRUE].tripped
      BY DEF Switch
    <2> QED BY <1>1, <1>2, <1>4, <2>1 DEF Triggers, SwitchMove
  <1> QED BY <1>3, <1>4

LEMMA FailureMoves ==
    ASSUME IInv, LoopIsFree, NEW h \in Handlers, NEW nonce \in BOOLEAN,
           RecordApiFailure(h, nonce)
    PROVE  SwitchMove(h)
  <1> DEFINE counted == [switch[h] EXCEPT !.api = @ + 1,
                                          !.nonces = IF nonce THEN @ + 1 ELSE @]
  <1>1. switch \in [Handlers -> Switch] /\ tripping \in Handlers \cup {None}
    BY DEF IInv, TypeOK, Switch
  <1>2. CASE switch[h].tripped
    BY <1>1, <1>2 DEF RecordApiFailure, SwitchMove
  <1>3. CASE ~switch[h].tripped
    <2>1. counted \in Switch /\ ~counted.tripped
      <3>1. ~IsStorm(switch[h])
        BY <1>3 DEF IInv, Bookkeeping
      <3>2. /\ switch[h].api \in Nat /\ switch[h].api + 1 \in 0..MaxApiFailures
            /\ switch[h].nonces \in Nat /\ switch[h].nonces + 1 \in 0..MaxNonceErrors
            /\ switch[h].nonces \in 0..MaxNonceErrors
        BY <1>1, <3>1, SwitchAssumption DEF Switch, IsStorm
      <3>3. (IF nonce THEN switch[h].nonces + 1 ELSE switch[h].nonces) \in 0..MaxNonceErrors
        BY <3>2
      <3>4. counted \in Switch
        BY <1>1, <3>2, <3>3 DEF Switch
      <3>5. counted.tripped = switch[h].tripped
        BY <1>1 DEF Switch
      <3> QED BY <1>3, <3>4, <3>5
    <2>2. CASE IsStorm(counted)
      BY <1>3, <2>1, <2>2, TriggersMove DEF RecordApiFailure
    <2>3. CASE ~IsStorm(counted)
      <3>1. switch' = [switch EXCEPT ![h] = counted] /\ tripping' = tripping
        BY <1>3, <2>3 DEF RecordApiFailure
      <3> QED BY <1>1, <2>1, <2>3, <3>1 DEF SwitchMove
    <2> QED BY <2>2, <2>3
  <1> QED BY <1>2, <1>3

LEMMA UnchangedMoves ==
    ASSUME IInv, NEW h \in Handlers, UNCHANGED <<switch, tripping>>
    PROVE  SwitchMove(h)
  BY DEF IInv, TypeOK, Bookkeeping, SwitchMove, Switch

LEMMA TaskMoves ==
    ASSUME IInv, NEW s \in Signals,
           \/ Finish(s)
           \/ tasks[s].pc \in InFlight /\ Proceed(s)
           \/ \E pc \in InFlight : tasks[s].pc \in InFlight /\ Goto(s, pc)
    PROVE  TaskMove(s)
  <1>1. /\ tasks \in [Signals -> Task] /\ tasks[s].left <= MaxPositions[s]
        /\ tasks[s].pc \in InFlight => tasks[s].left > 0
        /\ MaxPositions[s] \in Nat
    BY SwitchAssumption DEF IInv, TypeOK, Task, Bookkeeping, InFlight
  <1>2. CASE Finish(s)
    <2>1. Rest \in Task /\ Rest.left = 0 /\ Rest.pc = "idle"
      BY DEF Rest, Task, Pcs
    <2>2. tasks' = [tasks EXCEPT ![s] = Rest] /\ Rest.left <= MaxPositions[s]
      BY <1>1, <1>2, <2>1 DEF Finish
    <2> QED BY <2>1, <2>2 DEF TaskMove
  <1>3. CASE tasks[s].pc \in InFlight /\ Proceed(s)
    <2>1. CASE tasks[s].left = 1
      BY <1>2, <1>3, <2>1 DEF Proceed
    <2>2. CASE tasks[s].left # 1
      <3> DEFINE new == [tasks[s] EXCEPT !.pc = "sell", !.left = @ - 1]
      <3>1. tasks' = [tasks EXCEPT ![s] = new]
        BY <1>1, <1>3, <2>2 DEF Proceed
      <3>2. /\ tasks[s].left - 1 \in Nat /\ tasks[s].left - 1 > 0
            /\ tasks[s].left - 1 <= MaxPositions[s]
        BY <1>1, <1>3, <2>2 DEF Task
      <3>3. new \in Task /\ new.left = tasks[s].left - 1
        BY <1>1, <3>2 DEF Task, Pcs
      <3> QED BY <3>1, <3>2, <3>3 DEF TaskMove
    <2> QED BY <2>1, <2>2
  <1>4. ASSUME NEW pc \in InFlight, tasks[s].pc \in InFlight, Goto(s, pc)
        PROVE  TaskMove(s)
    <2> DEFINE new == [tasks[s] EXCEPT !.pc = pc]
    <2>1. tasks' = [tasks EXCEPT ![s] = new]
      BY <1>1, <1>4 DEF Goto
    <2>2. new \in Task /\ new.left <= MaxPositions[s] /\ new.left > 0
      BY <1>1, <1>4 DEF Task, Pcs, InFlight
    <2> QED BY <2>1, <2>2 DEF TaskMove
  <1> QED BY <1>2, <1>3, <1>4

LEMMA CheckMoves ==
    ASSUME IInv, NEW s \in Signals, NEW left \in 1..MaxPositions[s],
           tasks' = [tasks EXCEPT ![s].pc = "sell", ![s].left = left]
    PROVE  TaskMove(s) /\ tasks'[s].pc = "sell"
  <1> DEFINE new == [tasks[s] EXCEPT !.pc = "sell", !.left = left]
  <1>1. tasks[s] \in Task /\ tasks' = [tasks EXCEPT ![s] = new]
    BY DEF IInv, TypeOK, Task
  <1>2. left \in Nat /\ left > 0 /\ left <= MaxPositions[s]
    <2>1. MaxPositions[s] \in Nat
      BY SwitchAssumption
    <2> QED BY <2>1
  <1>3. new.left = left /\ new.pc = "sell"
    BY <1>1 DEF Task
  <1>4. new \in Task
    BY <1>1, <1>2 DEF Task, Pcs
  <1>5. tasks'[s] = new
    BY <1>1 DEF IInv, TypeOK
  <1> QED BY <1>1, <1>2, <1>3, <1>4, <1>5 DEF TaskMove

-----------------------------------------------------------------------------
(* The invariant is kept by a signal's step, which may count or trip.         *)

LEMMA TaskMoveTypes ==
    ASSUME IInv, NEW s \in Signals, TaskMove(s)
    PROVE  /\ tasks' \in [Signals -> Task]
           /\ \A t \in Signals : tasks'[t].left <= MaxPositions[t]
           /\ \A t \in Signals :
                 tasks'[t].pc \notin {"idle", "ready"} => tasks'[t].left > 0
           /\ \A t \in Signals \ {s} : tasks'[t] = tasks[t]
  BY DEF IInv, TypeOK, Bookkeeping, TaskMove, Task

LEMMA SignalSteps ==
    ASSUME IInv, LoopIsFree, NEW s \in Signals, TaskMove(s), SwitchMove(HandlerOf[s]),
           tasks[s].pc \in {"ready", "sell", "sent", "closing"},
           UNCHANGED <<row, status, recovered, operator, crashes>>,
           outages' \in 0..MaxOutages,
           tripping' # None => tasks'[s].pc = "stopping"
    PROVE  IInv'
  <1> DEFINE h == HandlerOf[s]
  <1>1. h \in Handlers /\ h \in recovered /\ status[h] # "down"
    BY SwitchAssumption DEF IInv, Bookkeeping
  <1>2. tripping = None /\ tripping' \in {None, h}
    BY DEF LoopIsFree, SwitchMove
  <1>3. TypeOK'
    BY <1>1, <1>2, TaskMoveTypes DEF IInv, TypeOK, SwitchMove, Switch, Task, operator
  <1>4. Bookkeeping'
    <2>1. ASSUME NEW x \in Handlers
          PROVE  /\ ~switch'[x].tripped => ~IsStorm(switch'[x])
                 /\ status'[x] = "down" => switch'[x] = Clear
      BY <1>1 DEF IInv, Bookkeeping, SwitchMove
    <2>2. \A x \in recovered' : status'[x] # "down"
      BY DEF IInv, Bookkeeping
    <2>3. ASSUME NEW t \in Signals
          PROVE  /\ tasks'[t].pc # "idle" => HandlerOf[t] \in recovered'
                 /\ tasks'[t].pc \notin {"idle", "ready"} => tasks'[t].left > 0
      BY <1>1, TaskMoveTypes DEF IInv, Bookkeeping
    <2> QED BY <2>1, <2>2, <2>3 DEF Bookkeeping, IsStorm
  <1>5. TripIsFollowed'
    BY <1>2 DEF TripIsFollowed, IsStopping
  <1>6. TrippedIsStopped'
    <2> SUFFICES ASSUME NEW x \in Handlers, switch'[x].tripped
                 PROVE  status'[x] = "STOPPED" \/ tripping' = x \/ IsStopping(x)'
      BY DEF TrippedIsStopped
    <2>1. CASE ~switch[x].tripped
      BY <2>1, <1>1 DEF SwitchMove
    <2>2. CASE switch[x].tripped
      <3>1. status[x] = "STOPPED" \/ IsStopping(x)
        BY <2>2, <1>2, SwitchAssumption DEF IInv, TrippedIsStopped
      <3>2. ASSUME IsStopping(x) PROVE IsStopping(x)'
        BY <3>2, TaskMoveTypes DEF IsStopping
      <3> QED BY <3>1, <3>2
    <2> QED BY <2>1, <2>2
  <1> QED BY <1>3, <1>4, <1>5, <1>6 DEF IInv

LEMMA StepInv ==
    ASSUME IInv, NEW s \in Signals, Step(s)
    PROVE  IInv'
  <1> DEFINE h == HandlerOf[s]
  <1>1. h \in Handlers /\ tasks[s] \in Task
    BY SwitchAssumption DEF IInv, TypeOK, Task
  <1>2. outages \in 0..MaxOutages /\ (StoreFails => outages' \in 0..MaxOutages)
    BY SwitchAssumption DEF IInv, TypeOK, StoreFails
  <1>3. CASE Check(s)
    <2>1. TaskMove(s)
      BY <1>3, CheckMoves, TaskMoves DEF Check
    <2>2. SwitchMove(h) /\ tripping' = None
      BY <1>1, <1>3, UnchangedMoves DEF Check, LoopIsFree
    <2> QED BY <1>2, <1>3, <2>1, <2>2, SignalSteps DEF Check, StoreWorks
  <1>4. CASE Sell(s)
    <2>1. TaskMove(s)
      BY <1>4, TaskMoves DEF Sell, InFlight
    <2>2. SwitchMove(h) /\ tripping' = None
      BY <1>1, <1>4, UnchangedMoves DEF Sell, LoopIsFree
    <2> QED BY <1>2, <1>4, <2>1, <2>2, SignalSteps DEF Sell
  <1>5. ASSUME LoopIsFree, tasks[s].pc \in InFlight, TripsAndWaits(s),
               SwitchMove(h)
        PROVE  TaskMove(s) /\ (tripping' # None => tasks'[s].pc = "stopping")
    <2>1. CASE tripping' # tripping
      BY <1>1, <1>5, <2>1, TaskMoves DEF TripsAndWaits, Goto, InFlight, IInv, TypeOK, Task
    <2>2. CASE tripping' = tripping
      BY <1>5, <2>2, TaskMoves DEF TripsAndWaits, LoopIsFree
    <2> QED BY <2>1, <2>2
  <1>6. CASE Answered(s)
    <2>1. TaskMove(s) /\ SwitchMove(h) /\ (tripping' # None => tasks'[s].pc = "stopping")
      <3>1. CASE (Goto(s, "closing") \/ Proceed(s)) /\ UNCHANGED <<switch, tripping>>
        BY <1>1, <1>6, <3>1, TaskMoves, UnchangedMoves DEF Answered, LoopIsFree, InFlight
      <3>2. CASE (\E nonce \in BOOLEAN : RecordApiFailure(h, nonce)) /\ TripsAndWaits(s)
        BY <1>1, <1>5, <1>6, <3>2, FailureMoves DEF Answered, InFlight
      <3> QED BY <1>6, <3>1, <3>2 DEF Answered
    <2> QED BY <1>2, <1>6, <2>1, SignalSteps DEF Answered
  <1>7. CASE Reconcile(s)
    <2>1. TaskMove(s) /\ SwitchMove(h) /\ (tripping' # None => tasks'[s].pc = "stopping")
      <3>1. CASE Proceed(s) /\ UNCHANGED <<switch, tripping>>
        BY <1>1, <1>7, <3>1, TaskMoves, UnchangedMoves DEF Reconcile, LoopIsFree, InFlight
      <3>2. CASE Triggers(h, switch[h]) /\ TripsAndWaits(s)
        <4>1. switch[h] \in Switch
          BY <1>1 DEF IInv, TypeOK, Switch
        <4> QED BY <1>1, <1>5, <1>7, <3>2, <4>1, TriggersMove DEF Reconcile, InFlight
      <3> QED BY <1>7, <3>1, <3>2 DEF Reconcile
    <2> QED BY <1>2, <1>7, <2>1, SignalSteps DEF Reconcile
  <1>8. CASE EmergencyStop(s)
    <2>1. TaskMove(s)
      BY <1>8, TaskMoves DEF EmergencyStop, InFlight
    <2>2. status' = [status EXCEPT ![h] = "STOPPED"]
      BY <1>8 DEF EmergencyStop, Stops
    <2>3. TypeOK'
      BY <1>1, <1>8, <2>1, <2>2, TaskMoveTypes
         DEF EmergencyStop, IInv, TypeOK, Task, operator
    <2>4. Bookkeeping'
      BY <1>1, <1>8, <2>1, <2>2, TaskMoveTypes
         DEF EmergencyStop, IInv, TypeOK, Bookkeeping, IsStorm
    <2>5. TripIsFollowed'
      BY <1>8 DEF EmergencyStop, LoopIsFree, TripIsFollowed
    <2>6. TrippedIsStopped'
      <3> SUFFICES ASSUME NEW x \in Handlers, switch'[x].tripped
                   PROVE  status'[x] = "STOPPED" \/ tripping' = x \/ IsStopping(x)'
        BY DEF TrippedIsStopped
      <3>1. CASE x = h
        BY <1>1, <2>2, <3>1 DEF IInv, TypeOK
      <3>2. CASE x # h
        <4>1. status[x] = "STOPPED" \/ IsStopping(x)
          BY <1>8, SwitchAssumption DEF EmergencyStop, LoopIsFree, IInv, TrippedIsStopped
        <4>2. ASSUME IsStopping(x) PROVE IsStopping(x)'
          BY <2>1, <3>2, <4>2, TaskMoveTypes DEF IsStopping
        <4> QED BY <1>1, <2>2, <3>2, <4>1, <4>2 DEF IInv, TypeOK
      <3> QED BY <3>1, <3>2
    <2> QED BY <2>3, <2>4, <2>5, <2>6 DEF IInv
  <1> QED BY <1>3, <1>4, <1>6, <1>7, <1>8 DEF Step
-----------------------------------------------------------------------------
(* And by everything else.                                                    *)

LEMMA LoopInv ==
    ASSUME IInv, NEW h \in Handlers, Start(h) \/ Recover(h)
    PROVE  IInv'
  <1>1. Clear \in Switch /\ ~IsStorm(Clear) /\ ~Clear.tripped
    BY SwitchAssumption DEF Clear, Switch, IsStorm
  <1>2. CASE Start(h)
    <2>1. /\ status' = [status EXCEPT ![h] = "RUNNING"]
          /\ switch' = [switch EXCEPT ![h] = Clear]
          /\ status[h] = "down" /\ tripping = None
          /\ UNCHANGED <<row, recovered, tasks, tripping, operator, outages, crashes>>
      BY <1>2 DEF Start, LoopIsFree
    <2>2. TypeOK'
      BY <1>1, <2>1 DEF IInv, TypeOK, Switch, operator
    <2>3. Bookkeeping'
      BY <1>1, <2>1 DEF IInv, TypeOK, Bookkeeping, IsStorm
    <2>4. TripIsFollowed'
      BY <2>1 DEF TripIsFollowed
    <2>5. TrippedIsStopped'
      BY <1>1, <2>1 DEF IInv, TypeOK, TrippedIsStopped, IsStopping
    <2> QED BY <2>2, <2>3, <2>4, <2>5 DEF IInv
  <1>3. CASE Recover(h)
    <2>1. /\ LoopIsFree /\ status[h] # "down" /\ h \notin recovered
          /\ recovered' = recovered \cup {h}
          /\ UNCHANGED <<row, status, tasks, operator, outages, crashes>>
      BY <1>3 DEF Recover
    <2>2. SwitchMove(h)
      <3>1. switch[h] \in Switch
        BY DEF IInv, TypeOK, Switch
      <3> QED BY <1>3, <2>1, <3>1, TriggersMove, UnchangedMoves DEF Recover
    <2>3. tripping = None /\ tripping' \in {None, h}
      BY <2>1, <2>2 DEF LoopIsFree, SwitchMove
    <2>4. TypeOK'
      BY <2>1, <2>2, <2>3 DEF IInv, TypeOK, SwitchMove, Switch, operator
    <2>5. Bookkeeping'
      BY <2>1, <2>2 DEF IInv, TypeOK, Bookkeeping, SwitchMove, IsStorm
    <2>6. LockIsFree(h)
      BY <2>1 DEF IInv, Bookkeeping, LockIsFree
    <2>7. TripIsFollowed'
      BY <2>1, <2>3, <2>6 DEF TripIsFollowed, LockIsFree
    <2>8. TrippedIsStopped'
      BY <2>1, <2>2, <2>3, SwitchAssumption
         DEF IInv, TrippedIsStopped, SwitchMove, IsStopping
    <2> QED BY <2>4, <2>5, <2>7, <2>8 DEF IInv
  <1> QED BY <1>2, <1>3

LEMMA EmitInv ==
    ASSUME IInv, NEW s \in Signals, Emit(s)
    PROVE  IInv'
  <1>1. /\ tasks[s] = Rest /\ tasks' = [tasks EXCEPT ![s].pc = "ready"]
        /\ HandlerOf[s] \in recovered
        /\ UNCHANGED <<row, switch, status, recovered, tripping, operator, outages,
                       crashes>>
    BY DEF Emit, Goto
  <1>2. /\ tasks \in [Signals -> Task] /\ tasks' \in [Signals -> Task]
        /\ tasks'[s].pc = "ready" /\ tasks'[s].left = tasks[s].left
        /\ \A t \in Signals \ {s} : tasks'[t] = tasks[t]
    BY <1>1 DEF IInv, TypeOK, Task, Pcs
  <1>3. TypeOK'
    BY <1>1, <1>2 DEF IInv, TypeOK, Task, operator
  <1>4. Bookkeeping'
    BY <1>1, <1>2 DEF IInv, Bookkeeping, IsStorm
  <1>5. tasks[s].pc = "idle"
    BY <1>1 DEF Rest
  <1>6. \A h : /\ IsStopping(h) => IsStopping(h)'
               /\ LockIsFree(h) => LockIsFree(h)'
    BY <1>2, <1>5 DEF IsStopping, LockIsFree
  <1>7. TripIsFollowed' /\ TrippedIsStopped'
    <2>1. \A h : LockIsFree(h)' \/ IsStopping(h)' \/ ~(LockIsFree(h) \/ IsStopping(h))
      BY <1>6
    <2>2. TrippedIsStopped'
      BY <1>1, <1>6 DEF IInv, TrippedIsStopped
    <2>3. TripIsFollowed'
      BY DEF Emit, LoopIsFree, TripIsFollowed
    <2> QED BY <2>2, <2>3
  <1> QED BY <1>3, <1>4, <1>7 DEF IInv

LEMMA FinishTriggerInv ==
    ASSUME IInv, FinishTrigger
    PROVE  IInv'
  <1>1. /\ tripping # None /\ tripping' = None /\ tripping \in Handlers
        /\ UNCHANGED <<switch, recovered, tasks, operator, crashes>>
        /\ row' \in BOOLEAN
    BY DEF FinishTrigger, TripStore, IInv, TypeOK
  <1>2. outages' \in 0..MaxOutages
    BY SwitchAssumption DEF FinishTrigger, TripStore, StoreWorks, StoreFails, IInv, TypeOK
  <1>3. \/ status' = [status EXCEPT ![tripping] = "STOPPED"]
        \/ UNCHANGED status /\ IsStopping(tripping)
    BY <1>1 DEF FinishTrigger, Stops, IInv, TripIsFollowed
  <1>4. TypeOK'
    BY <1>1, <1>2, <1>3 DEF IInv, TypeOK, operator
  <1>5. Bookkeeping'
    BY <1>1, <1>3 DEF IInv, TypeOK, Bookkeeping, IsStorm
  <1>6. TripIsFollowed'
    BY <1>1 DEF TripIsFollowed
  <1>7. TrippedIsStopped'
    BY <1>1, <1>3 DEF IInv, TypeOK, TrippedIsStopped, IsStopping
  <1> QED BY <1>4, <1>5, <1>6, <1>7 DEF IInv

Review == [at : {"idle", "store", "handlers", "memory"},
           todo : SUBSET Handlers, handler : Handlers \cup {None}]

\* What leaves switches, instances and tasks alone.
LEMMA OutsideInv ==
    ASSUME IInv, UNCHANGED loop, row' \in BOOLEAN, outages' \in 0..MaxOutages,
           reviews' \in 0..MaxReviews, crashes' = crashes, review' \in Review
    PROVE  IInv'
  <1>1. TypeOK'
    BY DEF IInv, TypeOK, loop, Review
  <1>2. Bookkeeping'
    BY DEF IInv, Bookkeeping, IsStorm, loop
  <1>3. TripIsFollowed' /\ TrippedIsStopped'
    BY DEF IInv, TripIsFollowed, TrippedIsStopped, LockIsFree, IsStopping, loop
  <1> QED BY <1>1, <1>2, <1>3 DEF IInv

LEMMA ReviewTypes ==
    ASSUME IInv
    PROVE  /\ NoReview \in Review /\ [NoReview EXCEPT !.at = "store"] \in Review
           /\ \A todo \in SUBSET Handlers :
                 /\ EndOfReview(todo) \in Review
                 /\ [NoReview EXCEPT !.at = "handlers", !.todo = todo] \in Review
                 /\ \A h \in Handlers :
                       [at |-> "memory", todo |-> todo, handler |-> h] \in Review
  <1>1. NoReview \in Review
    BY DEF NoReview, Review
  <1>2. [NoReview EXCEPT !.at = "store"] \in Review
    BY DEF NoReview, Review
  <1>3. ASSUME NEW todo \in SUBSET Handlers
        PROVE  [NoReview EXCEPT !.at = "handlers", !.todo = todo] \in Review
    BY <1>1, <1>3 DEF Review
  <1>4. ASSUME NEW todo \in SUBSET Handlers, NEW h \in Handlers
        PROVE  [at |-> "memory", todo |-> todo, handler |-> h] \in Review
    BY <1>4 DEF Review
  <1> QED BY <1>1, <1>2, <1>3, <1>4 DEF EndOfReview

LEMMA StoreInv ==
    ASSUME IInv,
           \/ TripsStoreOnly \/ BeginReview \/ AckStore
           \/ \E h \in Handlers : AckHandler(h)
    PROVE  IInv'
  <1>1. /\ row \in BOOLEAN /\ outages \in 0..MaxOutages /\ review \in Review
        /\ reviews \in 0..MaxReviews
        /\ StoreWorks => outages' \in 0..MaxOutages
        /\ StoreFails => outages' \in 0..MaxOutages
    BY SwitchAssumption DEF IInv, TypeOK, Review, StoreWorks, StoreFails
  <1>2. ASSUME NEW next \in Review, Acknowledge(next)
        PROVE  row' \in BOOLEAN /\ outages' \in 0..MaxOutages /\ review' \in Review
    BY <1>1, <1>2, ReviewTypes DEF Acknowledge
  <1>3. CASE TripsStoreOnly
    BY <1>1, <1>3, OutsideInv DEF TripsStoreOnly, TripStore, operator, Review
  <1>4. CASE BeginReview
    <2>1. reviews' \in 0..MaxReviews
      BY <1>1, <1>4, SwitchAssumption DEF BeginReview
    <2>2. review' \in Review
      BY <1>4, ReviewTypes DEF BeginReview
    <2> QED BY <1>1, <1>4, <2>1, <2>2, OutsideInv DEF BeginReview, Review
  <1>5. CASE AckStore
    <2>1. [NoReview EXCEPT !.at = "handlers", !.todo = Handlers] \in Review
      BY ReviewTypes
    <2> QED BY <1>1, <1>2, <1>5, <2>1, OutsideInv DEF AckStore, Review
  <1>6. ASSUME NEW h \in Handlers, AckHandler(h) PROVE IInv'
    <2>1. review.todo \ {h} \in SUBSET Handlers
      BY <1>1 DEF Review
    <2>2. /\ row' \in BOOLEAN /\ outages' \in 0..MaxOutages /\ review' \in Review
          /\ UNCHANGED <<loop, reviews, crashes>>
      <3>1. CASE status[h] = "down"
        BY <1>1, <1>6, <2>1, <3>1, ReviewTypes DEF AckHandler
      <3>2. CASE status[h] # "down"
        BY <1>2, <1>6, <2>1, <3>2, ReviewTypes DEF AckHandler
      <3> QED BY <3>1, <3>2
    <2> QED BY <1>1, <2>2, OutsideInv DEF Review
  <1> QED BY <1>3, <1>4, <1>5, <1>6

LEMMA ClearHandlerInv ==
    ASSUME IInv, ClearHandler
    PROVE  IInv'
  <1>1. Clear \in Switch /\ ~IsStorm(Clear) /\ ~Clear.tripped
    BY SwitchAssumption DEF Clear, Switch, IsStorm
  <1>2. switch' = [switch EXCEPT ![review.handler] = Clear]
    BY DEF ClearHandler
  <1>3. review' \in Review
    BY ReviewTypes DEF ClearHandler, IInv, TypeOK
  <1>4. TypeOK'
    <2>1. switch' \in [Handlers -> Switch]
      BY <1>1, <1>2 DEF IInv, TypeOK, Switch
    <2> QED BY <1>3, <2>1 DEF ClearHandler, IInv, TypeOK, Switch, Review
  <1>5. Bookkeeping'
    BY <1>1, <1>2 DEF ClearHandler, IInv, TypeOK, Bookkeeping, IsStorm
  <1>6. TripIsFollowed' /\ TrippedIsStopped'
    BY <1>1, <1>2
       DEF ClearHandler, IInv, TypeOK, TripIsFollowed, TrippedIsStopped, LockIsFree,
           IsStopping
  <1> QED BY <1>4, <1>5, <1>6 DEF IInv

LEMMA CrashInv ==
    ASSUME IInv, Crash
    PROVE  IInv'
  <1>1. Clear \in Switch /\ ~IsStorm(Clear) /\ ~Clear.tripped
    BY SwitchAssumption DEF Clear, Switch, IsStorm
  <1>2. Rest \in Task /\ Rest.left = 0 /\ Rest.pc = "idle"
    BY DEF Rest, Task, Pcs
  <1>3. NoReview \in Review
    BY ReviewTypes
  <1>4. \A s \in Signals : MaxPositions[s] \in Nat
    BY SwitchAssumption
  <1>5. crashes' \in 0..MaxCrashes
    BY SwitchAssumption DEF Crash, IInv, TypeOK
  <1>6. TypeOK'
    BY <1>1, <1>2, <1>3, <1>4, <1>5 DEF Crash, IInv, TypeOK, Switch, Task, Review
  <1>7. Bookkeeping'
    BY <1>1, <1>2 DEF Crash, Bookkeeping, IsStorm
  <1>8. TripIsFollowed' /\ TrippedIsStopped'
    BY <1>1 DEF Crash, TripIsFollowed, TrippedIsStopped
  <1> QED BY <1>6, <1>7, <1>8 DEF IInv
-----------------------------------------------------------------------------
LEMMA NextInv == IInv /\ [Next]_vars => IInv'
  <1> SUFFICES ASSUME IInv, [Next]_vars PROVE IInv'
    OBVIOUS
  <1>1. CASE UNCHANGED vars
    BY <1>1 DEF vars, IInv, TypeOK, Bookkeeping, IsStorm, TripIsFollowed,
                TrippedIsStopped, LockIsFree, IsStopping
  <1>2. CASE Next
    BY <1>2, StepInv, LoopInv, EmitInv, FinishTriggerInv, StoreInv, ClearHandlerInv,
       CrashInv DEF Next
  <1> QED BY <1>1, <1>2

\* Types, bookkeeping, and who follows a trip: the switches of all instances,
\* the signals under way and the stored latch always fit together.
THEOREM SwitchInvariant == Spec => []IInv
  BY InitInv, NextInv, PTL DEF Spec

\* Types of switches, tasks and the acknowledgement, and counts that stop at
\* their limits.
THEOREM TypeCorrect == Spec => []TypeOK
  BY SwitchInvariant, PTL DEF IInv

\* A tripped switch belongs to a stopped instance, or to one whose trigger is
\* on its way: whatever the operator, the store and other triggers do.
THEOREM TrippedStops == Spec => []TrippedIsStopped
  BY SwitchInvariant, PTL DEF IInv
-----------------------------------------------------------------------------
(* The refinement of HaltLatch.                                               *)

Halted == IF row THEN Handlers ELSE {h \in Handlers : switch[h].tripped}

LEMMA LatchInit == Init => Latch!Init
  <1> SUFFICES ASSUME Init PROVE Latch!Init
    OBVIOUS
  <1>1. Halted = {}
    BY DEF Init, Halted, Clear
  <1>2. Flying = {}
    BY DEF Init, Flying, Rest
  <1> QED BY <1>1, <1>2 DEF Init, Latch!Init, Halted

\* Steps of the event loop under which no halt is lost and no signal takes off.
LEMMA HaltsRefine ==
    ASSUME IInv, \A h \in Handlers : switch[h].tripped => switch'[h].tripped,
           row' \in BOOLEAN, row => row', Flying' \subseteq Flying, UNCHANGED review
    PROVE  Latch!Halt
  <1>1. /\ Halted \subseteq Halted' /\ Halted' \subseteq Handlers
        /\ row' => Halted' = Handlers
    BY DEF Halted
  <1> QED BY <1>1 DEF Latch!Halt, Halted

LEMMA SwitchMoveKeeps ==
    ASSUME NEW h \in Handlers, SwitchMove(h)
    PROVE  \A x \in Handlers : switch[x].tripped => switch'[x].tripped
  BY DEF SwitchMove

LEMMA SignalRefines ==
    ASSUME IInv, NEW s \in Signals, Step(s), ~Check(s)
    PROVE  Latch!Halt
  <1> DEFINE h == HandlerOf[s]
  <1>1. h \in Handlers /\ switch[h] \in Switch
    BY SwitchAssumption DEF IInv, TypeOK, Switch
  <1>2. /\ LoopIsFree /\ tasks[s].pc \in InFlight
        /\ UNCHANGED <<row, review>> /\ row \in BOOLEAN
    BY DEF Step, Sell, Answered, Reconcile, EmergencyStop, InFlight, operator,
           IInv, TypeOK
  <1>3. TaskMove(s)
    BY <1>2, TaskMoves
       DEF Step, Sell, Answered, Reconcile, EmergencyStop, TripsAndWaits, InFlight
  <1>4. Flying' \subseteq Flying
    BY <1>2, <1>3, TaskMoveTypes DEF Flying, InFlight
  <1>5. SwitchMove(h)
    BY <1>1, <1>2, TriggersMove, FailureMoves, UnchangedMoves
       DEF Step, Sell, Answered, Reconcile, EmergencyStop
  <1> QED BY <1>1, <1>2, <1>4, <1>5, SwitchMoveKeeps, HaltsRefine

LEMMA CheckRefines ==
    ASSUME IInv, NEW s \in Signals, Check(s)
    PROVE  [Latch!Next]_(Latch!vars)
  <1>1. /\ UNCHANGED <<row, switch, review>> /\ HandlerOf[s] \in Handlers
        /\ tasks[s].pc = "ready"
    BY SwitchAssumption DEF Check, operator
  <1>2. TaskMove(s)
    <2>1. CASE Finish(s)
      BY <2>1, TaskMoves
    <2>2. CASE ~Finish(s)
      BY <2>2, CheckMoves DEF Check
    <2> QED BY <2>1, <2>2
  <1>3. Halted' = Halted
    BY <1>1 DEF Halted
  <1>4. CASE Finish(s)
    <2>1. tasks'[s] = Rest
      BY <1>4 DEF Finish, IInv, TypeOK
    <2>2. Flying' = Flying
      BY <1>1, <1>2, <2>1, TaskMoveTypes DEF Flying, Rest
    <2> QED BY <1>1, <1>3, <2>2 DEF Latch!vars, Halted
  <1>5. CASE ~IsHalted(HandlerOf[s]) /\ tasks'[s].pc = "sell"
    <2>1. HandlerOf[s] \notin Halted
      BY <1>1, <1>5 DEF IsHalted, Halted
    <2>2. s \notin Flying /\ Flying' = Flying \cup {s}
      BY <1>1, <1>2, <1>5, TaskMoveTypes DEF Flying
    <2>3. Latch!TakeOff(s)
      BY <1>1, <1>3, <2>1, <2>2 DEF Latch!TakeOff, Halted
    <2> QED BY <1>1, <2>3 DEF Latch!Next
  <1> QED BY <1>4, <1>5 DEF Check, IInv, TypeOK

LEMMA ReviewRefines ==
    ASSUME IInv, BeginReview \/ AckStore \/ ClearHandler \/ \E h \in Handlers : AckHandler(h)
    PROVE  Latch!Next
  <1>1. /\ Flying' = Flying /\ row' \in BOOLEAN /\ (row' => row)
        /\ review # NoReview \/ review' # NoReview
    <2>1. [NoReview EXCEPT !.at = "store"] # NoReview
      BY DEF NoReview
    <2>2. review.at \in {"store", "handlers", "memory"} => review # NoReview
      BY DEF NoReview
    <2>3. UNCHANGED tasks
      BY DEF BeginReview, AckStore, ClearHandler, AckHandler, loop
    <2>4. Flying' = Flying
      BY <2>3 DEF Flying
    <2>5. row' \in BOOLEAN /\ (row' => row)
      <3>1. row \in BOOLEAN
        BY DEF IInv, TypeOK
      <3>2. \A next : Acknowledge(next) => row' = FALSE \/ row' = row
        BY DEF Acknowledge
      <3>3. row' = FALSE \/ row' = row
        BY <3>2 DEF BeginReview, AckStore, ClearHandler, AckHandler
      <3>4. CASE row' = FALSE
        BY <3>4
      <3>5. CASE row' = row
        BY <3>1, <3>5, Zenon
      <3> QED BY <3>3, <3>4, <3>5
    <2>6. review # NoReview \/ review' # NoReview
      BY <2>1, <2>2 DEF BeginReview, AckStore, ClearHandler, AckHandler
    <2> QED BY <2>4, <2>5, <2>6
  <1>2. \A h \in Handlers : switch'[h].tripped => switch[h].tripped
    <2>1. CASE ClearHandler
      BY <2>1 DEF ClearHandler, IInv, TypeOK, Clear
    <2>2. CASE ~ClearHandler
      BY <2>2 DEF BeginReview, AckStore, AckHandler, loop
    <2> QED BY <2>1, <2>2
  <1>3. /\ Halted' \in SUBSET Halted /\ (row' => Halted' = Handlers)
    BY <1>1, <1>2 DEF Halted
  <1>4. CASE review' # NoReview
    BY <1>1, <1>3, <1>4 DEF Latch!Next, Latch!Review, Halted
  <1>5. CASE review' = NoReview
    BY <1>1, <1>3, <1>5 DEF Latch!Next, Latch!EndReview, Halted
  <1> QED BY <1>4, <1>5

LEMMA CrashRefines ==
    ASSUME IInv, Crash
    PROVE  Latch!Next
  <1>1. Flying' = {} /\ row' = row /\ review' = NoReview
    BY DEF Crash, Flying, Rest
  <1>2. Halted' = IF row THEN Handlers ELSE {}
    BY DEF Crash, Halted, Clear
  <1> QED BY <1>1, <1>2 DEF Latch!Next, Latch!Crash, Halted

LEMMA LatchStep == IInv /\ [Next]_vars => [Latch!Next]_(Latch!vars)
  <1> SUFFICES ASSUME IInv, Next PROVE [Latch!Next]_(Latch!vars)
    BY DEF vars, Latch!vars, Flying
  <1>1. ASSUME NEW s \in Signals, Step(s) PROVE [Latch!Next]_(Latch!vars)
    BY <1>1, CheckRefines, SignalRefines DEF Latch!Next
  <1>2. ASSUME NEW s \in Signals, Emit(s) PROVE [Latch!Next]_(Latch!vars)
    <2>1. UNCHANGED <<row, switch, review>> /\ Flying' = Flying
      BY <1>2 DEF Emit, Goto, operator, Flying, Rest, IInv, TypeOK
    <2> QED BY <2>1 DEF Latch!vars
  <1>3. ASSUME NEW h \in Handlers, Start(h) PROVE [Latch!Next]_(Latch!vars)
    <2>1. switch[h] = Clear /\ switch' = [switch EXCEPT ![h] = Clear]
      BY <1>3 DEF Start, IInv, Bookkeeping
    <2>2. UNCHANGED <<row, switch, tasks, review>>
      BY <1>3, <2>1 DEF Start, operator, IInv, TypeOK
    <2> QED BY <2>2 DEF Latch!vars, Flying
  <1>4. ASSUME NEW h \in Handlers, Recover(h) PROVE Latch!Next
    <2>1. LoopIsFree /\ UNCHANGED <<row, tasks, review>> /\ switch[h] \in Switch
      BY <1>4 DEF Recover, operator, IInv, TypeOK, Switch
    <2>2. SwitchMove(h)
      BY <1>4, <2>1, TriggersMove, UnchangedMoves DEF Recover
    <2> QED BY <2>1, <2>2, SwitchMoveKeeps, HaltsRefine DEF Latch!Next, Flying, IInv, TypeOK
  <1>5. ASSUME FinishTrigger \/ TripsStoreOnly PROVE Latch!Next
    <2>1. /\ UNCHANGED <<switch, tasks, review>>
          /\ row' \in BOOLEAN /\ (row => row')
      BY <1>5 DEF FinishTrigger, TripsStoreOnly, TripStore, operator, loop, IInv, TypeOK
    <2> QED BY <2>1, HaltsRefine DEF Latch!Next, Flying
  <1> QED BY <1>1, <1>2, <1>3, <1>4, <1>5, ReviewRefines, CrashRefines DEF Next

\* The switches implement the latch: a handler halted in its own memory, even
\* alone, or by the store refuses every later signal of its own until an
\* operator acknowledges it, and a restart forgets only what never reached the
\* store.
THEOREM LatchRefinement == Spec => ImplementsLatch
  BY LatchInit, LatchStep, SwitchInvariant, PTL DEF Spec, ImplementsLatch, Latch!Spec
=============================================================================
