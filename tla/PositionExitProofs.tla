-------------------------- MODULE PositionExitProofs --------------------------
(* Proofs about PositionExit for every executor, all sets of instances,       *)
(* positions, orders and tasks and all bounds, with and without faults.       *)
EXTENDS PositionExit, TLAPS

Row == [status : Statuses \cup {"none"}, filled : 0..MaxFill,
        position : Positions \cup {None}, txid : BOOLEAN]
Placed == [state : {"absent", "open", "closed", "canceled"},
           executed : 0..MaxFill, userref : BOOLEAN]
Task == [pc : Pcs, instance : Instances \cup {None}, todo : SUBSET Positions,
         position : Positions \cup {None}, order : Orders \cup {None},
         got : NotAnswered..MaxFill]
Start == [phase : {"down", "loaded", "recovering", "tripped", "started", "stopped"},
          pending : SUBSET (Orders \X BOOLEAN), order : Orders \cup {None},
          goal : Statuses \cup {None}, fill : NoFill..MaxFill,
          at : Statuses \cup {None, "direct"}]
Held == {"absent", "open", "closing", "closed"}

\* Between two positions a task has none; otherwise it knows its instance and
\* position and, unless it is the reduction, its order.
Free == {"idle", "next"}
Busy(t) == tasks[t].pc \notin Free

\* The reduction runs close_position and nothing else; a failed order is only
\* rejected and given back; a quantity is recorded, and a signal closes, only
\* after an answer.
ByBook == {"close", "reserve", "reserve row", "reserve memory", "commit"}
Refusing == {"reject", "release", "release row", "release memory"}
Answered(t) == {"ack", "hold", "partial", "filled"}
               \cup (IF t \in Signals THEN {"close", "commit"} ELSE {})
Fit(t, pc, got) ==
    /\ pc \in Pcs \ Free
    /\ t \in Reductions => pc \in ByBook
    /\ got = Failed => pc \in Refusing
    /\ pc \in Answered(t) => got >= 0

LocalsFit ==
    \A t \in Tasks :
        /\ Busy(t) => /\ tasks[t].instance \in Instances
                      /\ tasks[t].position \in Positions
                      /\ t \notin Reductions => tasks[t].order \in Orders
                      /\ Fit(t, tasks[t].pc, tasks[t].got)
        /\ ~Busy(t) => tasks[t].order = None /\ tasks[t].got = NotAnswered
        /\ tasks[t].pc # "idle" => tasks[t].instance \in Instances

\* Only recover() has orders to go on with, and it knows what it writes.
StartsFit ==
    \A i \in Instances :
        /\ recovery[i].order # None \/ recovery[i].pending # {}
              => recovery[i].phase \in {"recovering", "tripped"}
        /\ recovery[i].order # None => recovery[i].goal \in Statuses

TypeInv == TypeOK /\ LocalsFit /\ StartsFit
-----------------------------------------------------------------------------
(* The ways in which a step changes the locals of one task.                   *)

SameLocals(t) == /\ tasks'[t].instance = tasks[t].instance
                 /\ tasks'[t].position = tasks[t].position
                 /\ tasks'[t].order = tasks[t].order

\* The task is done with its position, or goes on to one of the places.
Moves(t, places) ==
    /\ tasks' \in [Tasks -> Task]
    /\ \A u \in Tasks \ {t} : tasks'[u] = tasks[u]
    /\ \/ /\ tasks'[t].pc \in Free /\ tasks'[t].order = None
          /\ tasks'[t].got = NotAnswered
          /\ tasks'[t].pc = "idle" \/ tasks'[t].instance = tasks[t].instance
       \/ /\ tasks'[t].pc \in places /\ SameLocals(t)

Keeps(t) == tasks'[t].pc \in Free \/ tasks'[t].got = tasks[t].got

LEMMA Typing ==
    TypeOK <=>
      /\ positions \in [Positions -> {"open", "closing", "closed"}]
      /\ trades \in [Positions -> Nat]
      /\ capital \in [RowIds -> [Positions -> Nat]]
      /\ memory \in [Instances -> [Positions -> Held]]
      /\ held \in [Instances -> [Positions -> Nat]]
      /\ \A i \in Instances : saving[i] \subseteq [Positions -> Nat]
      /\ orders \in [Orders -> Row]
      /\ exchange \in [Orders -> Placed]
      /\ tasks \in [Tasks -> Task]
      /\ recovery \in [Instances -> Start]
      /\ halted \in BOOLEAN /\ crashes \in 0..MaxCrashes
  BY DEF TypeOK, Held, Row, Placed, Task, Start

LEMMA Records ==
    /\ Rest \in Task /\ NoRow \in Row /\ Unplaced \in Placed
    /\ {Down, Loaded, Started, Stopped} \subseteq Start
    /\ Zero \in [Positions -> Nat]
  <1> USE ExitAssumption, RequestedAssumption
  <1>1. Rest \in Task
    BY DEF Rest, Task, Pcs, NotAnswered
  <1>2. NoRow \in Row
    BY DEF NoRow, Row, None
  <1>3. Unplaced \in Placed
    BY DEF Unplaced, Placed
  <1>4. Down \in Start
    BY DEF Down, Start, NoFill
  <1>5. Loaded \in Start /\ Started \in Start /\ Stopped \in Start
    BY <1>4 DEF Loaded, Started, Stopped, Down, Start
  <1> QED BY <1>1, <1>2, <1>3, <1>4, <1>5 DEF Zero

LEMMA GotoMoves ==
    ASSUME tasks \in [Tasks -> Task], NEW t \in Tasks, NEW pc \in Pcs, Goto(t, pc)
    PROVE  Moves(t, {pc}) /\ Keeps(t) /\ tasks'[t].pc = pc /\ SameLocals(t)
  <1> DEFINE new == [tasks[t] EXCEPT !.pc = pc]
  <1>1. tasks[t] \in Task
    OBVIOUS
  <1>2. /\ new \in Task /\ new.pc = pc /\ new.instance = tasks[t].instance
        /\ new.position = tasks[t].position /\ new.order = tasks[t].order
        /\ new.got = tasks[t].got
    BY <1>1 DEF Task
  <1>3. tasks' = [tasks EXCEPT ![t] = new]
    BY DEF Goto
  <1> HIDE DEF new
  <1>4. /\ tasks' \in [Tasks -> Task] /\ tasks'[t] = new
        /\ \A u \in Tasks \ {t} : tasks'[u] = tasks[u]
    BY <1>2, <1>3
  <1> QED BY <1>2, <1>4 DEF Moves, Keeps, SameLocals

LEMMA RestMoves ==
    ASSUME tasks \in [Tasks -> Task], NEW t \in Tasks, tasks' = [tasks EXCEPT ![t] = Rest]
    PROVE  \A places : Moves(t, places) /\ Keeps(t)
  <1>1. tasks' \in [Tasks -> Task]
    BY Records
  <1>2. tasks'[t] = Rest
    OBVIOUS
  <1> QED BY <1>1, <1>2 DEF Moves, Keeps, Rest, Free

LEMMA DoneMoves ==
    ASSUME tasks \in [Tasks -> Task], NEW t \in Tasks, Done(t)
    PROVE  \A places : Moves(t, places) /\ Keeps(t)
  <1> DEFINE new == [tasks[t] EXCEPT !.pc = "next", !.position = None, !.order = None,
                                     !.got = NotAnswered]
  <1>1. CASE tasks[t].todo = {}
    <2>1. tasks' = [tasks EXCEPT ![t] = Rest]
      BY <1>1 DEF Done
    <2> QED BY <2>1, RestMoves
  <1>2. CASE tasks[t].todo # {}
    <2>1. tasks[t] \in Task
      OBVIOUS
    <2>2. /\ new \in Task /\ new.pc = "next" /\ new.order = None
          /\ new.got = NotAnswered /\ new.instance = tasks[t].instance
      <3>1. "next" \in Pcs /\ NotAnswered \in NotAnswered..MaxFill
        BY ExitAssumption, RequestedAssumption DEF Pcs, NotAnswered
      <3>2. new \in Task
        BY <2>1, <3>1 DEF Task
      <3> QED BY <2>1, <3>2 DEF Task
    <2>3. tasks' = [tasks EXCEPT ![t] = new]
      BY <1>2 DEF Done
    <2> HIDE DEF new
    <2>4. /\ tasks' \in [Tasks -> Task] /\ tasks'[t] = new
          /\ \A u \in Tasks \ {t} : tasks'[u] = tasks[u]
      BY <2>2, <2>3
    <2> QED BY <2>2, <2>4 DEF Moves, Keeps, Free
  <1> QED BY <1>1, <1>2

LEMMA ContinueMoves ==
    ASSUME tasks \in [Tasks -> Task], NEW t \in Tasks, NEW pc \in Pcs \cup {"done"},
           Continue(t, pc)
    PROVE  Moves(t, {pc} \ {"done"}) /\ Keeps(t)
  <1>1. CASE pc = "done"
    <2>1. Done(t)
      BY <1>1 DEF Continue
    <2> QED BY <2>1, DoneMoves
  <1>2. CASE pc # "done"
    <2>1. Goto(t, pc) /\ pc \in Pcs
      BY <1>2 DEF Continue
    <2>2. Moves(t, {pc}) /\ Keeps(t)
      BY <2>1, GotoMoves
    <2> QED BY <1>2, <2>2 DEF Moves
  <1> QED BY <1>1, <1>2
-----------------------------------------------------------------------------
(* Where each step of a task leads.                                           *)

LEMMA Targets ==
    ASSUME NEW t \in Tasks
    PROVE  /\ CloseFailed(t) = IF t \in Signals THEN "hold" ELSE "done"
           /\ OnReserved(t) \in {"commit"} \cup (IF t \in Signals THEN {"new"} ELSE {})
                                \cup (IF t \in Exits THEN {"submit"} ELSE {})
           /\ OnRefused(t) \in {"done"} \cup (IF t \in Exits THEN {"withdraw"} ELSE {})
                \cup (IF t \in Signals /\ tasks[t].got # NotAnswered
                      THEN {"hold"} ELSE {})
  BY ExitAssumption DEF CloseFailed, OnReserved, OnRefused, Closing, Tasks

\* After the ledger has replied, by kind of task.
LEMMA Replies ==
    ASSUME NEW t \in Tasks, tasks[t].got \in NotAnswered..MaxFill,
           tasks[t].pc \in DOMAIN Asked, tasks[t].pc = "ack" => tasks[t].got >= 0,
           NEW ok \in BOOLEAN, NEW pc \in AfterWrite(t, ok)
    PROVE  /\ tasks[t].pc = "send" => pc \in {"done"}
                \cup (IF t \in Signals THEN {"submit"} ELSE {})
                \cup (IF t \in Exits THEN {"reserve"} ELSE {})
           /\ tasks[t].pc = "ack" => pc \in {"done", "hold", "partial"}
                \cup (IF t \in Signals THEN {"unknown", "close"} ELSE {"reject", "filled"})
           /\ tasks[t].pc = "ack" /\ pc \in {"close", "filled"} => tasks[t].got = Requested
           /\ tasks[t].pc = "ack" /\ pc = "reject" => tasks[t].got = 0
           /\ tasks[t].pc = "reject" => pc \in {"done", "release"}
           /\ tasks[t].pc = "filled" => pc \in {"done"}
                \cup (IF t \in Exits THEN {"close"} ELSE {})
           /\ tasks[t].pc \in {"withdraw", "unknown", "hold", "partial"} => pc = "done"
  <1> USE ExitAssumption, RequestedAssumption
  <1>1. CASE tasks[t].pc = "ack"
    <2>1. CASE ~ok
      BY <1>1, <2>1 DEF AfterWrite
    <2>2. CASE ok
      <3>1. pc \in Acknowledged(t)
        BY <1>1, <2>2 DEF AfterWrite
      <3>2. tasks[t].got = 0 \/ tasks[t].got > Requested \/ tasks[t].got = Requested
            \/ tasks[t].got \in 1..(Requested - 1)
        BY <1>1
      <3>3. CASE tasks[t].got = 0
        BY <1>1, <3>1, <3>3 DEF Acknowledged
      <3>4. CASE tasks[t].got > Requested
        BY <1>1, <3>1, <3>4 DEF Acknowledged
      <3>5. CASE tasks[t].got \in 1..(Requested - 1)
        BY <1>1, <3>1, <3>5 DEF Acknowledged
      <3>6. CASE tasks[t].got = Requested
        BY <1>1, <3>1, <3>6 DEF Acknowledged
      <3> QED BY <3>2, <3>3, <3>4, <3>5, <3>6
    <2> QED BY <2>1, <2>2
  <1>2. CASE tasks[t].pc # "ack"
    BY <1>2 DEF AfterWrite, Asked
  <1> QED BY <1>1, <1>2

\* A reply moves a task that has submitted.
LEMMA ReplyMoves ==
    ASSUME tasks \in [Tasks -> Task], NEW t \in Tasks, NEW got \in Failed..MaxFill,
           Reply(t, got)
    PROVE  /\ Moves(t, {IF got = Failed THEN "reject" ELSE "ack"})
           /\ tasks'[t].pc \notin Free /\ tasks'[t].got = got
  <1> DEFINE pc == IF got = Failed THEN "reject" ELSE "ack"
             new == [tasks[t] EXCEPT !.got = got, !.pc = pc]
  <1>1. tasks[t] \in Task
    OBVIOUS
  <1>2. pc \in Pcs \ Free /\ got \in NotAnswered..MaxFill
    BY ExitAssumption DEF Pcs, Asked, Free, Failed, NotAnswered
  <1>3. tasks' = [tasks EXCEPT ![t] = new]
    BY DEF Reply
  <1> HIDE DEF pc
  <1>4. /\ new \in Task /\ new.pc = pc /\ new.got = got
        /\ new.instance = tasks[t].instance /\ new.position = tasks[t].position
        /\ new.order = tasks[t].order
    BY <1>1, <1>2 DEF Task
  <1> HIDE DEF new
  <1>5. /\ tasks' \in [Tasks -> Task] /\ tasks'[t] = new
        /\ \A u \in Tasks \ {t} : tasks'[u] = tasks[u]
    BY <1>3, <1>4
  <1> QED BY <1>2, <1>4, <1>5 DEF Moves, SameLocals, pc

\* What a task goes on to fits it when each of the places does.
LEMMA MovesFit ==
    ASSUME TypeOK, LocalsFit, NEW t \in Tasks, Busy(t), NEW places,
           Moves(t, places), Keeps(t),
           \A pc \in places : Fit(t, pc, tasks[t].got)
    PROVE  LocalsFit'
  <1>1. \A u \in Tasks \ {t} : tasks'[u] = tasks[u]
    BY DEF Moves
  <1>2. CASE tasks'[t].pc \in Free
    <2>1. Free \cap places = {}
      BY DEF Fit
    <2>2. /\ tasks'[t].order = None /\ tasks'[t].got = NotAnswered
          /\ tasks'[t].pc = "idle" \/ tasks'[t].instance = tasks[t].instance
      BY <1>2, <2>1 DEF Moves
    <2>3. tasks[t].instance \in Instances
      BY DEF LocalsFit
    <2> QED BY <1>1, <1>2, <2>2, <2>3 DEF LocalsFit, Busy
  <1>3. CASE tasks'[t].pc \notin Free
    <2>1. tasks'[t].pc \in places /\ SameLocals(t) /\ tasks'[t].got = tasks[t].got
      BY <1>3 DEF Moves, Keeps
    <2>2. Fit(t, tasks'[t].pc, tasks'[t].got)
      BY <2>1
    <2> QED BY <1>1, <1>3, <2>1, <2>2 DEF LocalsFit, Busy, SameLocals, Free
  <1> QED BY <1>2, <1>3

LEMMA ReplyFits ==
    ASSUME TypeOK, LocalsFit, NEW t \in Tasks, Busy(t), t \notin Reductions,
           NEW got \in Failed..MaxFill, Reply(t, got)
    PROVE  LocalsFit'
  <1>1. tasks \in [Tasks -> Task]
    BY Typing
  <1>2. /\ Moves(t, {IF got = Failed THEN "reject" ELSE "ack"})
        /\ tasks'[t].pc \notin Free /\ tasks'[t].got = got
    BY <1>1, ReplyMoves
  <1>3. /\ tasks'[t].pc = IF got = Failed THEN "reject" ELSE "ack"
        /\ SameLocals(t) /\ \A u \in Tasks \ {t} : tasks'[u] = tasks[u]
    BY <1>2 DEF Moves
  <1>4. Fit(t, tasks'[t].pc, got)
    <2>1. {"reject", "ack"} \subseteq Pcs \ Free
      BY DEF Pcs, Asked, Free
    <2>2. CASE got = Failed
      BY <1>3, <2>1, <2>2 DEF Fit, Failed, Refusing, Answered
    <2>3. CASE got # Failed
      <3>1. got >= 0
        BY <2>3, ExitAssumption DEF Failed
      <3> QED BY <1>3, <2>1, <2>3, <3>1 DEF Fit
    <2> QED BY <2>2, <2>3
  <1> QED BY <1>2, <1>3, <1>4 DEF LocalsFit, Busy, SameLocals, Free
-----------------------------------------------------------------------------
(* Where each step of a task leads, in terms of Moves.                        *)

Refused(t) == (IF t \in Exits THEN {"withdraw"} ELSE {})
              \cup (IF t \in Signals /\ tasks[t].got # NotAnswered
                    THEN {"hold"} ELSE {})
Failing(t) == IF t \in Signals THEN {"hold"} ELSE {}

LEMMA Leads ==
    ASSUME tasks \in [Tasks -> Task], NEW t \in Tasks
    PROVE  /\ CheckDuplicate(t) =>
                /\ Moves(t, {IF t \in Signals THEN "reserve" ELSE "new"}) /\ Keeps(t)
           /\ Reserve(t) => Moves(t, {"reserve row"} \cup Refused(t)) /\ Keeps(t)
           /\ ReserveRow(t) =>
                Moves(t, {"reserve memory"} \cup Refused(t)) /\ Keeps(t)
           /\ ReserveMemory(t) => Moves(t, {OnReserved(t)} \cup Refused(t)) /\ Keeps(t)
           /\ NewOrder(t) => Moves(t, {"send"}) /\ Keeps(t)
           /\ Close(t) => Moves(t, {"commit", "reserve"} \cup Failing(t)) /\ Keeps(t)
           /\ Commit(t) => Moves(t, IF t \in Signals THEN {"filled", "hold"} ELSE {})
                           /\ Keeps(t)
           /\ Release(t) => Moves(t, {"release row"}) /\ Keeps(t)
           /\ ReleaseRow(t) => Moves(t, {"release memory"}) /\ Keeps(t)
           /\ ReleaseMemory(t) => Moves(t, {}) /\ Keeps(t)
  <1>p. {"reserve", "new", "reserve row", "reserve memory", "send", "commit",
         "hold", "withdraw", "release row", "release memory", "submit", "filled",
         "done"} \subseteq Pcs \cup {"done"}
    BY DEF Pcs, Asked
  <1>1. CheckDuplicate(t) =>
            Moves(t, {IF t \in Signals THEN "reserve" ELSE "new"}) /\ Keeps(t)
    BY <1>p, GotoMoves, DoneMoves DEF CheckDuplicate
  <1>2. OnRefused(t) \in {"done"} \cup Refused(t)
    BY Targets DEF Refused
  <1>r. ASSUME Continue(t, OnRefused(t))
        PROVE  Moves(t, Refused(t)) /\ Keeps(t)
    <2>1. OnRefused(t) \in Pcs \cup {"done"}
      BY <1>2, <1>p DEF Refused
    <2>2. Moves(t, {OnRefused(t)} \ {"done"}) /\ Keeps(t)
      BY <1>r, <2>1, ContinueMoves
    <2> QED BY <1>2, <2>2 DEF Moves
  <1>3. ASSUME Reserve(t)
        PROVE  Moves(t, {"reserve row"} \cup Refused(t)) /\ Keeps(t)
    <2>1. CASE Mine(t) = "open"
      <3>1. Continue(t, "reserve row")
        BY <1>3, <2>1 DEF Reserve
      <3>2. Moves(t, {"reserve row"} \ {"done"}) /\ Keeps(t)
        BY <1>p, <3>1, ContinueMoves
      <3> QED BY <3>2 DEF Moves
    <2>2. CASE Mine(t) # "open"
      <3>1. Continue(t, OnRefused(t))
        BY <1>3, <2>2 DEF Reserve
      <3> QED BY <1>r, <3>1 DEF Moves
    <2> QED BY <2>1, <2>2
  <1>4. ASSUME ReserveRow(t)
        PROVE  Moves(t, {"reserve memory"} \cup Refused(t)) /\ Keeps(t)
    <2>1. CASE Goto(t, "reserve memory")
      <3>1. Moves(t, {"reserve memory"}) /\ Keeps(t)
        BY <1>p, <2>1, GotoMoves
      <3> QED BY <3>1 DEF Moves
    <2>2. CASE Continue(t, OnRefused(t))
      BY <1>r, <2>2 DEF Moves
    <2> QED BY <1>4, <2>1, <2>2 DEF ReserveRow
  <1>5. ASSUME ReserveMemory(t)
        PROVE  Moves(t, {OnReserved(t)} \cup Refused(t)) /\ Keeps(t)
    <2>1. CASE Goto(t, OnReserved(t))
      <3>1. OnReserved(t) \in Pcs
        BY Targets, <1>p
      <3>2. Moves(t, {OnReserved(t)}) /\ Keeps(t)
        BY <2>1, <3>1, GotoMoves
      <3> QED BY <3>2 DEF Moves
    <2>2. CASE Continue(t, OnRefused(t))
      BY <1>r, <2>2 DEF Moves
    <2> QED BY <1>5, <2>1, <2>2 DEF ReserveMemory
  <1>6. NewOrder(t) => Moves(t, {"send"}) /\ Keeps(t)
    BY <1>p, GotoMoves, DoneMoves, RestMoves DEF NewOrder
  <1>f. CloseFailed(t) \in {"done"} \cup Failing(t) /\ CloseFailed(t) \in Pcs \cup {"done"}
    BY <1>p, Targets DEF Failing
  <1>7. ASSUME Close(t)
        PROVE  Moves(t, {"commit", "reserve"} \cup Failing(t)) /\ Keeps(t)
    <2>1. \/ Continue(t, "commit") \/ Continue(t, "reserve")
          \/ Continue(t, CloseFailed(t))
      BY <1>7 DEF Close
    <2>2. PICK pc \in {"commit", "reserve", CloseFailed(t)} : Continue(t, pc)
      BY <2>1
    <2>3. pc \in Pcs \cup {"done"}
      BY <1>p, <1>f
    <2>4. Moves(t, {pc} \ {"done"}) /\ Keeps(t)
      BY <2>2, <2>3, ContinueMoves
    <2> QED BY <1>f, <2>4 DEF Moves
  <1>8. ASSUME Commit(t)
        PROVE  Moves(t, IF t \in Signals THEN {"filled", "hold"} ELSE {}) /\ Keeps(t)
    <2>1. \/ Continue(t, IF t \in Signals THEN "filled" ELSE "done")
          \/ Continue(t, CloseFailed(t))
      BY <1>8 DEF Commit
    <2>2. PICK pc \in {IF t \in Signals THEN "filled" ELSE "done", CloseFailed(t)} :
            Continue(t, pc)
      BY <2>1
    <2>3. pc \in Pcs \cup {"done"}
      BY <1>p, <1>f
    <2>4. Moves(t, {pc} \ {"done"}) /\ Keeps(t)
      BY <2>2, <2>3, ContinueMoves
    <2> QED BY <1>f, <2>4 DEF Moves, Failing
  <1>9. ASSUME Release(t)
        PROVE  Moves(t, {"release row"}) /\ Keeps(t)
    <2>1. PICK pc \in {"release row", "done"} : Continue(t, pc)
      BY <1>9 DEF Release
    <2>2. Moves(t, {pc} \ {"done"}) /\ Keeps(t)
      BY <1>p, <2>1, ContinueMoves
    <2> QED BY <2>2 DEF Moves
  <1>10. ReleaseRow(t) => Moves(t, {"release memory"}) /\ Keeps(t)
    BY <1>p, GotoMoves, DoneMoves DEF ReleaseRow
  <1>11. ReleaseMemory(t) => Moves(t, {}) /\ Keeps(t)
    BY DoneMoves DEF ReleaseMemory
  <1> QED BY <1>1, <1>3, <1>4, <1>5, <1>6, <1>7, <1>8, <1>9, <1>10, <1>11

\* A ledger call changes its own order at most, and that to what was asked.
LEMMA Transitions ==
    ASSUME orders \in [Orders -> Row], NEW o, NEW to \in Statuses,
           NEW fill \in NoFill..MaxFill, NEW known \in BOOLEAN, NEW ok \in BOOLEAN,
           Transition(o, to, fill, known, ok)
    PROVE  /\ orders' \in [Orders -> Row]
           /\ \A n \in Orders : orders'[n] = orders[n]
                \/ /\ n = o /\ ok
                   /\ orders[n].status \in Statuses
                   /\ FillFits(orders[n], to, fill)
                   /\ orders'[n].status = to
                   /\ orders'[n].filled = IF fill = NoFill THEN orders[n].filled
                                                           ELSE fill
                   /\ orders'[n].position = orders[n].position
  <1> DEFINE row == orders[o]
             new == [Updated(row, to, fill) EXCEPT !.txid = @ \/ known]
             quantity == IF fill = NoFill THEN row.filled ELSE fill
  <1>1. CASE orders' = orders
    BY <1>1
  <1>2. CASE o \notin Orders /\ orders' = [orders EXCEPT ![o] = new]
    BY <1>2
  <1>3. CASE /\ o \in Orders /\ orders' = [orders EXCEPT ![o] = new]
             /\ Accepts(row, to, fill) /\ ok
    <2>1. row \in Row
      BY <1>3
    <2>2. quantity \in 0..MaxFill
      BY <2>1, ExitAssumption, RequestedAssumption DEF NoFill, Row
    <2>3. Updated(row, to, fill) = [row EXCEPT !.status = to, !.filled = quantity]
      BY DEF Updated
    <2> HIDE DEF quantity
    <2>4. DEFINE mid == [row EXCEPT !.status = to, !.filled = quantity]
    <2>5. /\ mid \in Row /\ mid.status = to /\ mid.filled = quantity
          /\ mid.position = row.position
      BY <2>1, <2>2 DEF Row
    <2>6. new = [mid EXCEPT !.txid = mid.txid \/ known]
      BY <2>3
    <2> HIDE DEF mid, new
    <2>7. mid.txid \/ known \in BOOLEAN
      OBVIOUS
    <2>8. /\ new \in Row /\ new.status = to /\ new.filled = quantity
          /\ new.position = row.position
      BY <2>5, <2>6, <2>7 DEF Row
    <2>9. orders' \in [Orders -> Row] /\ orders'[o] = new
          /\ \A n \in Orders \ {o} : orders'[n] = orders[n]
      BY <1>3, <2>8
    <2>10. row.status \in Statuses /\ FillFits(row, to, fill)
      BY <1>3 DEF Accepts
    <2> QED BY <1>3, <2>8, <2>9, <2>10 DEF quantity
  <1>4. orders' = orders \/ /\ orders' = [orders EXCEPT ![o] = new]
                            /\ Accepts(row, to, fill) /\ ok
    <2>1. CASE ~ok \/ ~Commits(row, to, fill)
      BY <2>1 DEF Transition
    <2>2. CASE ok /\ Commits(row, to, fill)
      <3>1. Accepts(row, to, fill)
        BY <2>2 DEF Commits
      <3>2. orders' = [orders EXCEPT ![o] = new]
        BY <2>2 DEF Transition
      <3> HIDE DEF new
      <3> QED BY <2>2, <3>1, <3>2
    <2> QED BY <2>1, <2>2
  <1> QED BY <1>1, <1>2, <1>3, <1>4

\* Where a task goes after its ledger call.
LEMMA Writes ==
    ASSUME TypeOK, LocalsFit, NEW t \in Tasks, LedgerWrite(t)
    PROVE  /\ t \notin Reductions /\ tasks[t].order \in Orders
           /\ Asked[tasks[t].pc] \in Statuses /\ AskedFill(t) \in NoFill..MaxFill
           /\ \E ok \in BOOLEAN, pc \in Pcs \cup {"done"} :
                /\ Transition(tasks[t].order, Asked[tasks[t].pc], AskedFill(t),
                              tasks[t].got >= 0, ok)
                /\ Moves(t, {pc} \ {"done"}) /\ Keeps(t)
                /\ tasks[t].pc = "send" => pc \in {"done"}
                     \cup (IF t \in Signals THEN {"submit"} ELSE {})
                     \cup (IF t \in Exits THEN {"reserve"} ELSE {})
                /\ tasks[t].pc = "ack" => pc \in {"done", "hold", "partial"}
                     \cup (IF t \in Signals THEN {"unknown", "close"}
                           ELSE {"reject", "filled"})
                /\ tasks[t].pc = "ack" /\ pc \in {"close", "filled"}
                     => tasks[t].got = Requested
                /\ tasks[t].pc = "ack" /\ pc = "reject" => tasks[t].got = 0
                /\ tasks[t].pc = "reject" => pc \in {"done", "release"}
                /\ tasks[t].pc = "filled" => pc \in {"done"}
                     \cup (IF t \in Exits THEN {"close"} ELSE {})
                /\ tasks[t].pc \in {"withdraw", "unknown", "hold", "partial"}
                     => pc = "done"
  <1>1. tasks \in [Tasks -> Task] /\ tasks[t] \in Task
    BY Typing
  <1>2. tasks[t].pc \in DOMAIN Asked
    BY DEF LedgerWrite
  <1>3. tasks[t].pc \notin Free /\ tasks[t].pc \notin ByBook
    BY <1>2 DEF Asked, Free, ByBook
  <1>4. /\ t \notin Reductions /\ tasks[t].order \in Orders
        /\ Fit(t, tasks[t].pc, tasks[t].got)
    BY <1>3 DEF LocalsFit, Busy, Fit
  <1>5. Asked[tasks[t].pc] \in Statuses
    BY <1>2 DEF Asked, Statuses, Open, Terminal
  <1>6. tasks[t].got \in NotAnswered..MaxFill
    BY <1>1 DEF Task
  <1>7. AskedFill(t) \in NoFill..MaxFill
    <2>1. CASE tasks[t].pc \in {"hold", "partial", "filled"}
      BY <1>4, <1>6, <2>1, ExitAssumption, RequestedAssumption
         DEF AskedFill, Fit, Answered, NoFill, NotAnswered
    <2>2. CASE tasks[t].pc \notin {"hold", "partial", "filled"}
      BY <2>2, ExitAssumption DEF AskedFill, NoFill
    <2> QED BY <2>1, <2>2
  <1>8. PICK ok \in BOOLEAN :
            /\ Transition(tasks[t].order, Asked[tasks[t].pc], AskedFill(t),
                          tasks[t].got >= 0, ok)
            /\ \E pc \in AfterWrite(t, ok) : Continue(t, pc)
    BY DEF LedgerWrite
  <1>9. PICK pc \in AfterWrite(t, ok) : Continue(t, pc)
    BY <1>8
  <1>10. tasks[t].pc = "ack" => tasks[t].got >= 0
    BY <1>4 DEF Fit, Answered
  <1>11. /\ tasks[t].pc = "send" => pc \in {"done"}
                \cup (IF t \in Signals THEN {"submit"} ELSE {})
                \cup (IF t \in Exits THEN {"reserve"} ELSE {})
         /\ tasks[t].pc = "ack" => pc \in {"done", "hold", "partial"}
                \cup (IF t \in Signals THEN {"unknown", "close"} ELSE {"reject", "filled"})
         /\ tasks[t].pc = "ack" /\ pc \in {"close", "filled"} => tasks[t].got = Requested
         /\ tasks[t].pc = "ack" /\ pc = "reject" => tasks[t].got = 0
         /\ tasks[t].pc = "reject" => pc \in {"done", "release"}
         /\ tasks[t].pc = "filled" => pc \in {"done"}
                \cup (IF t \in Exits THEN {"close"} ELSE {})
         /\ tasks[t].pc \in {"withdraw", "unknown", "hold", "partial"} => pc = "done"
    BY <1>2, <1>6, <1>10, Replies
  <1>12. tasks[t].pc \in {"send", "ack", "reject", "filled", "withdraw", "unknown",
                          "hold", "partial"}
    BY <1>2 DEF Asked
  <1>13. pc \in Pcs \cup {"done"}
    BY <1>11, <1>12 DEF Pcs, Asked
  <1>14. Moves(t, {pc} \ {"done"}) /\ Keeps(t)
    BY <1>1, <1>9, <1>13, ContinueMoves
  <1> QED BY <1>4, <1>5, <1>7, <1>8, <1>11, <1>13, <1>14
-----------------------------------------------------------------------------
(* Type correctness.                                                          *)

\* A task that begins, or takes the next position, has what fits it.
LEMMA Beginnings ==
    ASSUME TypeInv, NEW t \in Tasks, NEW i \in Instances,
           Begin(t, i) \/ BeginReduction(t, i)
    PROVE  /\ tasks' \in [Tasks -> Task] /\ LocalsFit'
           /\ \A u \in Tasks \ {t} : tasks'[u] = tasks[u]
           /\ tasks'[t].pc \in {"next", "close", "reserve"}
           /\ t \notin Reductions => tasks'[t].pc = "next"
           /\ tasks'[t].order = None /\ tasks'[t].got = NotAnswered
           /\ recovery[i] \in {Started, Stopped}
           /\ UNCHANGED <<book, orders, venue>>
  <1>1. tasks \in [Tasks -> Task] /\ Rest \in Task
    BY Typing, Records DEF TypeInv
  <1>2. recovery[i] \in {Started, Stopped} /\ UNCHANGED <<book, orders, venue>>
    BY DEF Begin, BeginReduction, MayBegin, Up
  <1>3. CASE Begin(t, i)
    <2>1. t \notin Reductions
      BY <1>3 DEF Begin
    <2>2. PICK todo \in Chosen(t, {p \in Positions : memory[i][p] = "open"}) \ {{}} :
            tasks' = [tasks EXCEPT
                ![t] = [Rest EXCEPT !.pc = "next", !.instance = i, !.todo = todo]]
      BY <1>3 DEF Begin
    <2>3. todo \in SUBSET Positions
      BY <2>1, <2>2 DEF Chosen, Tasks
    <2> DEFINE new == [Rest EXCEPT !.pc = "next", !.instance = i, !.todo = todo]
    <2>4. "next" \in Pcs
      BY DEF Pcs
    <2>5. /\ new \in Task /\ new.pc = "next" /\ new.instance = i
          /\ new.order = None /\ new.got = NotAnswered
      BY <1>1, <2>3, <2>4 DEF Task, Rest
    <2> HIDE DEF new
    <2>6. /\ tasks' \in [Tasks -> Task] /\ tasks'[t] = new
          /\ \A u \in Tasks \ {t} : tasks'[u] = tasks[u]
      BY <1>1, <2>2, <2>5 DEF new
    <2>7. LocalsFit'
      BY <2>5, <2>6 DEF TypeInv, LocalsFit, Busy, Free
    <2> QED BY <1>2, <2>5, <2>6, <2>7
  <1>4. CASE BeginReduction(t, i)
    <2>1. t \in Reductions
      BY <1>4 DEF BeginReduction
    <2>a. PICK todo \in Chosen(t, {q \in Positions : memory[i][q] = "open"}) :
             \E p \in todo :
                tasks' = [tasks EXCEPT ![t] = [Rest EXCEPT
                    !.pc = IF \E u \in Tasks : /\ tasks[u].pc = "commit"
                                               /\ tasks[u].instance = i
                           THEN "close" ELSE "reserve",
                    !.instance = i, !.todo = todo \ {p}, !.position = p]]
      BY <1>4 DEF BeginReduction
    <2>2. PICK p \in todo, pc \in {"close", "reserve"} :
            tasks' = [tasks EXCEPT ![t] = [Rest EXCEPT !.pc = pc,
                        !.instance = i, !.todo = todo \ {p}, !.position = p]]
      BY <2>a
    <2>3. todo \in SUBSET Positions /\ p \in Positions
      BY <2>1, <2>a, ExitAssumption DEF Chosen, Tasks
    <2> DEFINE new == [Rest EXCEPT !.pc = pc,
                        !.instance = i, !.todo = todo \ {p}, !.position = p]
    <2>4. pc \in Pcs \ Free /\ pc \in ByBook
      BY DEF Pcs, Free, ByBook
    <2>5. /\ new \in Task /\ new.pc = pc /\ new.instance = i /\ new.position = p
          /\ new.order = None /\ new.got = NotAnswered
      BY <1>1, <2>3, <2>4 DEF Task, Rest
    <2> HIDE DEF new
    <2>6. /\ tasks' \in [Tasks -> Task] /\ tasks'[t] = new
          /\ \A u \in Tasks \ {t} : tasks'[u] = tasks[u]
      BY <1>1, <2>2, <2>5 DEF new
    <2>7. Fit(t, pc, NotAnswered)
      BY <2>1, <2>4, ExitAssumption DEF Fit, NotAnswered, Failed, Answered
    <2>8. LocalsFit'
      BY <2>1, <2>3, <2>4, <2>5, <2>6, <2>7 DEF TypeInv, LocalsFit, Busy, Free
    <2> QED BY <1>2, <2>1, <2>5, <2>6, <2>8
  <1> QED BY <1>3, <1>4

LEMMA Takings ==
    ASSUME TypeInv, NEW t \in Tasks, NEW p \in Positions, NEW o \in Orders,
           TakeNext(t, p, o)
    PROVE  /\ tasks' \in [Tasks -> Task] /\ LocalsFit'
           /\ \A u \in Tasks \ {t} : tasks'[u] = tasks[u]
           /\ tasks'[t].pc = IF t \in Reductions THEN "close" ELSE "dup"
           /\ tasks'[t].order = o /\ tasks'[t].got = NotAnswered
           /\ UNCHANGED <<book, orders, venue>>
  <1> DEFINE pc == IF t \in Reductions THEN "close" ELSE "dup"
             new == [tasks[t] EXCEPT !.pc = pc, !.todo = tasks[t].todo \ {p},
                                     !.position = p, !.order = o]
  <1>1. tasks \in [Tasks -> Task] /\ tasks[t] \in Task
    BY Typing DEF TypeInv
  <1>2. /\ tasks[t].pc = "next" /\ tasks' = [tasks EXCEPT ![t] = new]
        /\ UNCHANGED <<book, orders, venue>>
    BY DEF TakeNext
  <1>3. tasks[t].instance \in Instances /\ tasks[t].got = NotAnswered
    BY <1>2 DEF TypeInv, LocalsFit, Busy, Free
  <1>4. pc \in Pcs \ Free /\ (t \in Reductions => pc \in ByBook)
        /\ pc \notin Answered(t)
    BY ExitAssumption DEF Pcs, Free, ByBook, Answered
  <1>5. pc = IF t \in Reductions THEN "close" ELSE "dup"
    OBVIOUS
  <1> HIDE DEF pc
  <1>6. /\ new \in Task /\ new.pc = pc /\ new.instance = tasks[t].instance
        /\ new.position = p /\ new.order = o /\ new.got = NotAnswered
    BY <1>1, <1>3, <1>4 DEF Task
  <1> HIDE DEF new
  <1>7. /\ tasks' \in [Tasks -> Task] /\ tasks'[t] = new
        /\ \A u \in Tasks \ {t} : tasks'[u] = tasks[u]
    BY <1>1, <1>2, <1>6
  <1>8. Fit(t, pc, NotAnswered)
    BY <1>4 DEF Fit, NotAnswered, Failed
  <1>9. LocalsFit'
    BY <1>3, <1>4, <1>6, <1>7, <1>8 DEF TypeInv, LocalsFit, Busy
  <1> QED BY <1>2, <1>5, <1>6, <1>7, <1>9

\* An answer of the executor, or none yet.
Answers(t) == Refuse(t) \/ PaperFill(t) \/ PaperRaises(t) \/ LiveAdd(t) \/ LiveAnswer(t)

LEMMA Answering ==
    ASSUME TypeInv, NEW t \in Tasks, Answers(t)
    PROVE  /\ Busy(t) /\ t \notin Reductions /\ tasks[t].pc \in {"submit", "wait"}
           /\ \/ \E got \in Failed..MaxFill : Reply(t, got)
              \/ \E pc \in {"wait", "unknown"} : Goto(t, pc)
              \/ tasks' = [tasks EXCEPT ![t] = Rest]
           /\ exchange' \in [Orders -> Placed]
           /\ UNCHANGED <<book, orders, recovery, halted, crashes>>
  <1>1. /\ tasks \in [Tasks -> Task] /\ exchange \in [Orders -> Placed]
        /\ LocalsFit
    BY Typing DEF TypeInv
  <1>2. tasks[t].pc \in {"submit", "wait"}
    BY DEF Answers, Refuse, PaperFill, PaperRaises, LiveAdd, LiveAnswer
  <1>3. Busy(t) /\ t \notin Reductions
    BY <1>1, <1>2 DEF LocalsFit, Busy, Free, Fit, ByBook
  <1>4. tasks[t].order \in Orders
    BY <1>1, <1>3 DEF LocalsFit
  <1>5. Failed \in Failed..MaxFill /\ Requested \in Failed..MaxFill
        /\ 0 \in 0..MaxFill /\ Requested \in 0..MaxFill
    BY ExitAssumption, RequestedAssumption DEF Failed
  <1>6. exchange[tasks[t].order].executed \in Failed..MaxFill
    <2>1. exchange[tasks[t].order].executed \in 0..MaxFill
      BY <1>1, <1>4 DEF Placed
    <2> QED BY <2>1, ExitAssumption DEF Failed
  <1>7. ASSUME NEW state \in {"open", "closed"}, NEW got \in 0..MaxFill, Place(t, state, got)
        PROVE  exchange' \in [Orders -> Placed]
    <2> DEFINE new == [state |-> state, executed |-> got, userref |-> t \in Signals]
    <2>1. new \in Placed
      BY DEF Placed
    <2>2. exchange' = [exchange EXCEPT ![tasks[t].order] = new]
      BY <1>7 DEF Place
    <2> HIDE DEF new
    <2> QED BY <1>1, <2>1, <2>2
  <1>8. CASE Refuse(t)
    BY <1>1, <1>2, <1>3, <1>5, <1>8 DEF Refuse, venue
  <1>9. CASE PaperFill(t)
    BY <1>2, <1>3, <1>5, <1>7, <1>9 DEF PaperFill
  <1>10. CASE PaperRaises(t)
    <2>1. \/ tasks' = [tasks EXCEPT ![t] = Rest]
          \/ Goto(t, "unknown")
      BY <1>10 DEF PaperRaises, Goto
    <2> QED BY <1>1, <1>2, <1>3, <1>10, <2>1 DEF PaperRaises, venue
  <1>11. CASE LiveAdd(t)
    BY <1>2, <1>3, <1>5, <1>7, <1>11 DEF LiveAdd
  <1>12. CASE LiveAnswer(t)
    BY <1>1, <1>2, <1>3, <1>5, <1>6, <1>12 DEF LiveAnswer, venue
  <1> QED BY <1>8, <1>9, <1>10, <1>11, <1>12 DEF Answers

LEMMA StepTasks ==
    ASSUME TypeInv, NEW t \in Tasks, Step(t)
    PROVE  tasks' \in [Tasks -> Task] /\ LocalsFit'
  <1>0. tasks \in [Tasks -> Task] /\ tasks[t] \in Task /\ TypeOK /\ LocalsFit
    BY Typing DEF TypeInv
  <1>f. ASSUME Busy(t)
        PROVE  Fit(t, tasks[t].pc, tasks[t].got) /\ tasks[t].got \in NotAnswered..MaxFill
    BY <1>0, <1>f DEF LocalsFit, Task
  <1>p. {"reserve", "new", "reserve row", "reserve memory", "send", "commit", "wait",
         "hold", "withdraw", "release row", "release memory", "submit", "filled",
         "close", "reject", "unknown", "partial", "release"} \subseteq Pcs \ Free
    BY DEF Pcs, Asked, Free
  <1>m. \A places : Moves(t, places) => tasks' \in [Tasks -> Task]
    BY DEF Moves
  <1>1. CASE \E p \in Positions, o \in Orders : TakeNext(t, p, o)
    BY <1>1, Takings
  <1>2. CASE CheckDuplicate(t)
    <2>1. Busy(t) /\ tasks[t].pc = "dup"
      BY <1>2 DEF CheckDuplicate, Busy, Free
    <2>2. Moves(t, {IF t \in Signals THEN "reserve" ELSE "new"}) /\ Keeps(t)
      BY <1>0, <1>2, Leads
    <2>3. \A pc \in {IF t \in Signals THEN "reserve" ELSE "new"} : Fit(t, pc, tasks[t].got)
      BY <1>f, <1>p, <2>1 DEF Fit, ByBook, Refusing, Answered
    <2> QED BY <1>0, <1>m, <2>1, <2>2, <2>3, MovesFit
  <1>r. ASSUME tasks[t].pc \in {"reserve", "reserve row", "reserve memory"}
        PROVE  /\ Busy(t)
               /\ \A pc \in Refused(t) \cup {OnReserved(t), "reserve row", "reserve memory"} :
                    Fit(t, pc, tasks[t].got)
    <2>1. Busy(t)
      BY <1>r DEF Busy, Free
    <2>2. tasks[t].got # Failed /\ tasks[t].got \in NotAnswered..MaxFill
      BY <1>f, <1>r, <2>1 DEF Fit, Refusing
    <2>3. tasks[t].got # NotAnswered => tasks[t].got >= 0
      BY <2>2, ExitAssumption DEF NotAnswered, Failed
    <2>4. \A pc \in Refused(t) : Fit(t, pc, tasks[t].got)
      BY <1>p, <2>2, <2>3, ExitAssumption DEF Fit, Refused, Answered
    <2>5. Fit(t, OnReserved(t), tasks[t].got)
      <3>1. CASE Closing(t)
        BY <1>p, <2>2, <2>3, <3>1, ExitAssumption DEF OnReserved, Closing, Fit, Answered, ByBook
      <3>2. CASE ~Closing(t)
        BY <1>p, <2>2, <3>2 DEF OnReserved, Closing, Fit, Answered
      <3> QED BY <3>1, <3>2
    <2>6. \A pc \in {"reserve row", "reserve memory"} : Fit(t, pc, tasks[t].got)
      BY <1>p, <2>2 DEF Fit, Answered, ByBook
    <2> QED BY <2>1, <2>4, <2>5, <2>6
  <1>3. CASE Reserve(t)
    <2>1. Moves(t, {"reserve row"} \cup Refused(t)) /\ Keeps(t)
      BY <1>0, <1>3, Leads
    <2>2. tasks[t].pc = "reserve"
      BY <1>3 DEF Reserve
    <2> QED BY <1>0, <1>m, <1>r, <2>1, <2>2, MovesFit
  <1>4. CASE ReserveRow(t)
    <2>1. Moves(t, {"reserve memory"} \cup Refused(t)) /\ Keeps(t)
      BY <1>0, <1>4, Leads
    <2>2. tasks[t].pc = "reserve row"
      BY <1>4 DEF ReserveRow
    <2> QED BY <1>0, <1>m, <1>r, <2>1, <2>2, MovesFit
  <1>5. CASE ReserveMemory(t)
    <2>1. Moves(t, {OnReserved(t)} \cup Refused(t)) /\ Keeps(t)
      BY <1>0, <1>5, Leads
    <2>2. tasks[t].pc = "reserve memory"
      BY <1>5 DEF ReserveMemory
    <2> QED BY <1>0, <1>m, <1>r, <2>1, <2>2, MovesFit
  <1>6. CASE NewOrder(t)
    <2>1. Busy(t) /\ tasks[t].pc = "new"
      BY <1>6 DEF NewOrder, Busy, Free
    <2>2. Moves(t, {"send"}) /\ Keeps(t)
      BY <1>0, <1>6, Leads
    <2>3. \A pc \in {"send"} : Fit(t, pc, tasks[t].got)
      BY <1>f, <1>p, <2>1 DEF Fit, ByBook, Refusing, Answered
    <2> QED BY <1>0, <1>m, <2>1, <2>2, <2>3, MovesFit
  <1>7. CASE LedgerWrite(t)
    <2>1. tasks[t].pc \in {"send", "ack", "reject", "filled", "withdraw", "unknown",
                           "hold", "partial"}
      BY <1>7 DEF LedgerWrite, Asked
    <2>2. Busy(t)
      BY <2>1 DEF Busy, Free
    <2>3. t \notin Reductions
      BY <1>0, <1>7, Writes
    <2>4. PICK pc \in Pcs \cup {"done"} :
                /\ Moves(t, {pc} \ {"done"}) /\ Keeps(t)
                /\ tasks[t].pc = "send" => pc \in {"done"}
                     \cup (IF t \in Signals THEN {"submit"} ELSE {})
                     \cup (IF t \in Exits THEN {"reserve"} ELSE {})
                /\ tasks[t].pc = "ack" => pc \in {"done", "hold", "partial"}
                     \cup (IF t \in Signals THEN {"unknown", "close"}
                           ELSE {"reject", "filled"})
                /\ tasks[t].pc = "reject" => pc \in {"done", "release"}
                /\ tasks[t].pc = "filled" => pc \in {"done"}
                     \cup (IF t \in Exits THEN {"close"} ELSE {})
                /\ tasks[t].pc \in {"withdraw", "unknown", "hold", "partial"}
                     => pc = "done"
      BY <1>0, <1>7, Writes
    <2>5. CASE tasks[t].pc = "ack"
      <3>1. tasks[t].got >= 0 /\ tasks[t].got # Failed
        BY <1>f, <2>2, <2>5 DEF Fit, Answered, Refusing
      <3>2. \A n \in {pc} \ {"done"} : Fit(t, n, tasks[t].got)
        BY <1>p, <2>3, <2>4, <2>5, <3>1 DEF Fit
      <3> QED BY <1>0, <1>m, <2>2, <2>4, <3>2, MovesFit
    <2>6. CASE tasks[t].pc = "reject"
      <3>1. \A n \in {pc} \ {"done"} : Fit(t, n, tasks[t].got)
        BY <1>p, <2>3, <2>4, <2>6 DEF Fit, Refusing, Answered
      <3> QED BY <1>0, <1>m, <2>2, <2>4, <3>1, MovesFit
    <2>7. CASE tasks[t].pc \in {"send", "filled"}
      <3>1. tasks[t].got # Failed
        BY <1>f, <2>2, <2>7 DEF Fit, Refusing
      <3>2. {pc} \ {"done"} \subseteq (IF t \in Signals THEN {"submit"} ELSE {})
                \cup (IF t \in Exits THEN {"reserve", "close"} ELSE {})
        BY <2>4, <2>7
      <3>3. \A n \in {pc} \ {"done"} : Fit(t, n, tasks[t].got)
        BY <1>p, <2>3, <3>1, <3>2, ExitAssumption DEF Fit, Answered
      <3> QED BY <1>0, <1>m, <2>2, <2>4, <3>3, MovesFit
    <2>8. CASE tasks[t].pc \in {"withdraw", "unknown", "hold", "partial"}
      <3>1. {pc} \ {"done"} = {}
        BY <2>4, <2>8
      <3> QED BY <1>0, <1>m, <2>2, <2>4, <3>1, MovesFit
    <2> QED BY <2>1, <2>5, <2>6, <2>7, <2>8
  <1>8. CASE Answers(t)
    <2>1. /\ Busy(t) /\ t \notin Reductions /\ tasks[t].pc \in {"submit", "wait"}
          /\ \/ \E got \in Failed..MaxFill : Reply(t, got)
             \/ \E pc \in {"wait", "unknown"} : Goto(t, pc)
             \/ tasks' = [tasks EXCEPT ![t] = Rest]
      BY <1>8, Answering
    <2>2. CASE \E got \in Failed..MaxFill : Reply(t, got)
      <3>1. PICK got \in Failed..MaxFill : Reply(t, got)
        BY <2>2
      <3>2. LocalsFit'
        BY <1>0, <2>1, <3>1, ReplyFits
      <3>3. Moves(t, {IF got = Failed THEN "reject" ELSE "ack"})
        BY <1>0, <3>1, ReplyMoves
      <3> QED BY <1>0, <1>m, <3>2, <3>3
    <2>3. CASE \E pc \in {"wait", "unknown"} : Goto(t, pc)
      <3>1. PICK pc \in {"wait", "unknown"} : Goto(t, pc)
        BY <2>3
      <3>2. Moves(t, {pc}) /\ Keeps(t)
        <4>1. pc \in Pcs
          BY <1>p
        <4> QED BY <1>0, <3>1, <4>1, GotoMoves
      <3>3. \A n \in {pc} : Fit(t, n, tasks[t].got)
        BY <1>f, <1>p, <2>1 DEF Fit, Answered, Refusing
      <3> QED BY <1>0, <1>m, <2>1, <3>2, <3>3, MovesFit
    <2>4. CASE tasks' = [tasks EXCEPT ![t] = Rest]
      <3>1. Moves(t, {}) /\ Keeps(t)
        BY <1>0, <2>4, RestMoves
      <3> QED BY <1>0, <1>m, <2>1, <3>1, MovesFit
    <2> QED BY <2>1, <2>2, <2>3, <2>4
  <1>9. CASE Close(t)
    <2>1. Busy(t) /\ tasks[t].pc = "close"
      BY <1>9 DEF Close, Busy, Free
    <2>2. Moves(t, {"commit", "reserve"} \cup Failing(t)) /\ Keeps(t)
      BY <1>0, <1>9, Leads
    <2>3. \A pc \in {"commit", "reserve"} \cup Failing(t) : Fit(t, pc, tasks[t].got)
      BY <1>f, <1>p, <2>1, ExitAssumption DEF Fit, ByBook, Refusing, Answered, Failing
    <2> QED BY <1>0, <1>m, <2>1, <2>2, <2>3, MovesFit
  <1>10. CASE Commit(t)
    <2>1. Busy(t) /\ tasks[t].pc = "commit"
      BY <1>10 DEF Commit, Busy, Free
    <2>2. Moves(t, IF t \in Signals THEN {"filled", "hold"} ELSE {}) /\ Keeps(t)
      BY <1>0, <1>10, Leads
    <2>3. \A pc \in IF t \in Signals THEN {"filled", "hold"} ELSE {} :
            Fit(t, pc, tasks[t].got)
      BY <1>f, <1>p, <2>1, ExitAssumption DEF Fit, Refusing, Answered
    <2> QED BY <1>0, <1>m, <2>1, <2>2, <2>3, MovesFit
  <1>11. CASE Release(t)
    <2> DEFINE places == {"release row"}
    <2>1. Busy(t) /\ tasks[t].pc = "release"
      BY <1>11 DEF Release, Busy, Free
    <2>2. Moves(t, places) /\ Keeps(t)
      BY <1>0, <1>11, Leads
    <2>3. \A pc \in places : Fit(t, pc, tasks[t].got)
      BY <1>f, <1>p, <2>1 DEF Fit, ByBook, Refusing, Answered
    <2> HIDE DEF places
    <2>4. LocalsFit'
      BY <1>0, <2>1, <2>2, <2>3, MovesFit
    <2> QED BY <1>0, <1>m, <2>2, <2>4
  <1>12. CASE ReleaseRow(t)
    <2> DEFINE places == {"release memory"}
    <2>1. Busy(t) /\ tasks[t].pc = "release row"
      BY <1>12 DEF ReleaseRow, Busy, Free
    <2>2. Moves(t, places) /\ Keeps(t)
      BY <1>0, <1>12, Leads
    <2>3. \A pc \in places : Fit(t, pc, tasks[t].got)
      BY <1>f, <1>p, <2>1 DEF Fit, ByBook, Refusing, Answered
    <2> HIDE DEF places
    <2>4. LocalsFit'
      BY <1>0, <2>1, <2>2, <2>3, MovesFit
    <2> QED BY <1>0, <1>m, <2>2, <2>4
  <1>13. CASE ReleaseMemory(t)
    <2>1. Busy(t)
      BY <1>13 DEF ReleaseMemory, Busy, Free
    <2>2. Moves(t, {}) /\ Keeps(t)
      BY <1>0, <1>13, Leads
    <2> QED BY <1>0, <1>m, <2>1, <2>2, MovesFit
  <1> QED BY <1>1, <1>2, <1>3, <1>4, <1>5, <1>6, <1>7, <1>8, <1>9, <1>10, <1>11,
             <1>12, <1>13 DEF Step, Answers

LEMMA StepTypes ==
    ASSUME TypeInv, NEW t \in Tasks, Step(t)
    PROVE  TypeInv'
  <1> USE DEF TypeInv
  <1>1. tasks' \in [Tasks -> Task] /\ LocalsFit'
    BY StepTasks
  <1>2. recovery' = recovery /\ halted' = halted /\ crashes' = crashes
    BY DEF Step, TakeNext, CheckDuplicate, Reserve, ReserveRow, ReserveMemory,
           NewOrder, LedgerWrite, Refuse, PaperFill, PaperRaises, LiveAdd, LiveAnswer,
           Close, Commit, Release, ReleaseRow, ReleaseMemory, venue
  <1>3. tasks \in [Tasks -> Task]
    BY Typing
  <1>4. /\ positions \in [Positions -> {"open", "closing", "closed"}]
        /\ trades \in [Positions -> Nat]
        /\ capital \in [RowIds -> [Positions -> Nat]]
        /\ memory \in [Instances -> [Positions -> Held]]
        /\ held \in [Instances -> [Positions -> Nat]]
        /\ \A i \in Instances : saving[i] \subseteq [Positions -> Nat]
        /\ orders \in [Orders -> Row] /\ exchange \in [Orders -> Placed]
        /\ crashes \in 0..MaxCrashes
    BY Typing
  <1>b. tasks[t].pc \notin Free =>
            tasks[t].instance \in Instances /\ tasks[t].position \in Positions
    BY DEF LocalsFit, Busy
  <1>5. saving' = saving
    BY DEF Step, TakeNext, CheckDuplicate, Reserve, ReserveRow, ReserveMemory,
           NewOrder, LedgerWrite, Refuse, PaperFill, PaperRaises, LiveAdd, LiveAnswer,
           Close, Commit, Release, ReleaseRow, ReleaseMemory, venue, book
  <1>6. /\ positions' \in [Positions -> {"open", "closing", "closed"}]
        /\ memory' \in [Instances -> [Positions -> Held]]
    <2>1. CASE UNCHANGED <<positions, memory>>
      BY <1>4, <2>1
    <2>r. ASSUME NEW status \in Held, Remember(t, status), tasks[t].pc \notin Free
          PROVE  memory' \in [Instances -> [Positions -> Held]]
      BY <1>4, <1>b, <2>r DEF Remember
    <2>2. CASE ReserveRow(t)
      BY <1>4, <2>2 DEF ReserveRow
    <2>3. CASE ReserveMemory(t)
      BY <1>4, <2>3, <2>r DEF ReserveMemory, Free, Held
    <2>4. CASE Commit(t)
      <3>1. positions' \in [Positions -> {"open", "closing", "closed"}]
        BY <1>4, <2>4 DEF Commit
      <3> QED BY <1>4, <2>4, <2>r, <3>1 DEF Commit, Free, Held
    <2>5. CASE ReleaseRow(t)
      BY <1>4, <2>5 DEF ReleaseRow
    <2>6. CASE ReleaseMemory(t)
      BY <1>4, <2>6, <2>r DEF ReleaseMemory, Free, Held
    <2>7. \/ UNCHANGED <<positions, memory>>
          \/ ReserveRow(t) \/ ReserveMemory(t) \/ Commit(t) \/ ReleaseRow(t)
          \/ ReleaseMemory(t)
      BY DEF Step, TakeNext, CheckDuplicate, Reserve, NewOrder, LedgerWrite, Refuse,
             PaperFill, PaperRaises, LiveAdd, LiveAnswer, Close, Release, book
    <2> QED BY <2>1, <2>2, <2>3, <2>4, <2>5, <2>6, <2>7
  <1>7. /\ trades' \in [Positions -> Nat]
        /\ capital' \in [RowIds -> [Positions -> Nat]]
        /\ held' \in [Instances -> [Positions -> Nat]]
    <2>1. CASE UNCHANGED <<trades, capital, held>>
      BY <1>4, <2>1
    <2>2. CASE Commit(t) /\ ~UNCHANGED <<trades, capital, held>>
      <3> DEFINE i == tasks[t].instance
                 p == tasks[t].position
      <3>1. i \in Instances /\ p \in Positions
        BY <1>b, <2>2 DEF Commit, Free
      <3>2. /\ RecordSale(p) /\ held' = [held EXCEPT ![i][p] = @ + 1]
            /\ capital' = [capital EXCEPT ![RowId(i)] = held'[i]]
        BY <2>2 DEF Commit
      <3> HIDE DEF i, p
      <3>3. held[i] \in [Positions -> Nat] /\ held[i][p] \in Nat
        BY <1>4, <3>1
      <3>4. held' \in [Instances -> [Positions -> Nat]]
        <4> DEFINE row == held[i]
                   n == row[p] + 1
        <4>a. row \in [Positions -> Nat] /\ n \in Nat
          BY <3>3
        <4>b. held' = [held EXCEPT ![i] = [row EXCEPT ![p] = n]]
          BY <3>2
        <4> HIDE DEF row, n
        <4>1. [row EXCEPT ![p] = n] \in [Positions -> Nat]
          BY <4>a
        <4> QED BY <1>4, <4>b, <4>1
      <3>5. held'[i] \in [Positions -> Nat]
        BY <3>1, <3>4
      <3>6. capital' \in [RowIds -> [Positions -> Nat]]
        BY <1>4, <3>2, <3>5
      <3>7. trades' \in [Positions -> Nat]
        BY <1>4, <3>2 DEF RecordSale
      <3> QED BY <3>4, <3>6, <3>7
    <2>3. \/ UNCHANGED <<trades, capital, held>>
          \/ Commit(t) /\ ~UNCHANGED <<trades, capital, held>>
      BY DEF Step, TakeNext, CheckDuplicate, Reserve, ReserveRow, ReserveMemory,
             NewOrder, LedgerWrite, Refuse, PaperFill, PaperRaises, LiveAdd, LiveAnswer,
             Close, Release, ReleaseRow, ReleaseMemory, book
    <2> QED BY <2>1, <2>2, <2>3
  <1>8. orders' \in [Orders -> Row]
    <2>1. CASE orders' = orders
      BY <1>4, <2>1
    <2>2. CASE NewOrder(t)
      <3> DEFINE new == [NoRow EXCEPT !.status = "NEW", !.position = tasks[t].position]
      <3>1. tasks[t].position \in Positions
        BY <1>b, <2>2 DEF NewOrder, Free
      <3>2. new \in Row
        BY <3>1, Records DEF Row, Statuses, Open
      <3>3. orders' = orders \/ orders' = [orders EXCEPT ![tasks[t].order] = new]
        BY <2>2 DEF NewOrder
      <3> HIDE DEF new
      <3> QED BY <1>4, <3>2, <3>3
    <2>3. CASE LedgerWrite(t)
      <3>1. PICK ok \in BOOLEAN :
                Transition(tasks[t].order, Asked[tasks[t].pc], AskedFill(t),
                           tasks[t].got >= 0, ok)
        BY <2>3 DEF LedgerWrite
      <3>2. Asked[tasks[t].pc] \in Statuses /\ AskedFill(t) \in NoFill..MaxFill
        BY <2>3, Writes
      <3>3. PICK known \in BOOLEAN :
                Transition(tasks[t].order, Asked[tasks[t].pc], AskedFill(t), known, ok)
        <4>1. CASE tasks[t].got >= 0
          <5>1. (tasks[t].got >= 0) = TRUE
            BY <4>1
          <5> QED BY <3>1, <5>1, Zenon
        <4>2. CASE ~(tasks[t].got >= 0)
          <5>1. (tasks[t].got >= 0) = FALSE
            BY <4>2
          <5> QED BY <3>1, <5>1, Zenon
        <4> QED BY <4>1, <4>2
      <3> DEFINE o == tasks[t].order
                 to == Asked[tasks[t].pc]
                 fill == AskedFill(t)
      <3>4. to \in Statuses /\ fill \in NoFill..MaxFill /\ Transition(o, to, fill, known, ok)
        BY <3>2, <3>3
      <3> HIDE DEF o, to, fill
      <3> QED BY <1>4, <3>4, Transitions DEF Transition
    <2> QED BY <2>1, <2>2, <2>3
            DEF Step, TakeNext, CheckDuplicate, Reserve, ReserveRow, ReserveMemory,
                Refuse, PaperFill, PaperRaises, LiveAdd, LiveAnswer, Close, Commit,
                Release, ReleaseRow, ReleaseMemory
  <1>9. exchange' \in [Orders -> Placed]
    <2>1. CASE exchange' = exchange
      BY <1>4, <2>1
    <2>2. CASE Answers(t)
      BY <2>2, Answering
    <2> QED BY <2>1, <2>2
            DEF Step, Answers, TakeNext, CheckDuplicate, Reserve, ReserveRow,
                ReserveMemory, NewOrder, LedgerWrite, Close, Commit, Release,
                ReleaseRow, ReleaseMemory, venue
  <1>10. TypeOK'
    BY <1>1, <1>2, <1>4, <1>5, <1>6, <1>7, <1>8, <1>9, Typing
       DEF TypeOK, Held, Row, Placed, Task, Start
  <1>11. StartsFit'
    BY <1>2 DEF StartsFit
  <1> QED BY <1>1, <1>10, <1>11

\* What recover() keeps while it goes on with its list.
StartFits(r) ==
    /\ r.order # None \/ r.pending # {} => r.phase \in {"recovering", "tripped"}
    /\ r.order # None => r.goal \in Statuses

LEMMA Resuming ==
    ASSUME NEW phase \in {"recovering", "tripped"},
           NEW pending \in SUBSET (Orders \X BOOLEAN)
    PROVE  /\ Resume(phase, pending) \in Start /\ StartFits(Resume(phase, pending))
           /\ Resume(phase, pending) # Down
           /\ Resume(phase, pending).fill = NoFill
           /\ Resume(phase, pending).order = None
  <1> DEFINE new == [Down EXCEPT !.phase = phase, !.pending = pending]
  <1>1. Down \in Start /\ Started \in Start /\ Stopped \in Start
    BY Records
  <1>2. CASE pending # {}
    <2>1. Resume(phase, pending) = new
      BY <1>2 DEF Resume
    <2>2. new \in Start
      BY <1>1 DEF Start
    <2>3. /\ new.phase = phase /\ new.pending = pending /\ new.order = None
          /\ new.fill = NoFill
      BY DEF Down
    <2> HIDE DEF new
    <2> QED BY <1>2, <2>1, <2>2, <2>3 DEF StartFits, Down
  <1>3. CASE pending = {}
    <2>1. Resume(phase, pending) = Started \/ Resume(phase, pending) = Stopped
      BY <1>3 DEF Resume
    <2> QED BY <1>1, <2>1 DEF StartFits, Started, Stopped, Down
  <1> QED BY <1>2, <1>3

LEMMA Verdict ==
    ASSUME exchange \in [Orders -> Placed], NEW o \in Orders, NEW txid,
           NEW v \in Verdicts(o, txid)
    PROVE  /\ v[1] \in Statuses /\ v[2] \in NoFill..MaxFill
           /\ v[2] # NoFill => /\ v = Found(exchange[o])
                               /\ exchange[o].state \in {"closed", "canceled"}
                               /\ v[2] = exchange[o].executed
           /\ v[1] = "FILLED" => v[2] # NoFill
           /\ v[1] = "CANCELED" => v[2] # NoFill
  <1>1. exchange[o].executed \in 0..MaxFill
    BY DEF Placed
  <1>2. {"UNKNOWN", "REJECTED", "FILLED", "CANCELED", "ACK"} \subseteq Statuses
    BY DEF Statuses, Open, Terminal
  <1>3. CASE v = Found(exchange[o])
    BY <1>1, <1>2, <1>3, ExitAssumption DEF Found, NoFill
  <1>4. CASE v \in {<<"UNKNOWN", NoFill>>, <<"REJECTED", NoFill>>}
    BY <1>2, <1>4, ExitAssumption DEF NoFill
  <1> QED BY <1>3, <1>4 DEF Verdicts

\* How the start of an instance changes: it goes on, or takes up one order.
LEMMA RecoverTypes ==
    ASSUME TypeInv, NEW i \in Instances, Recover(i)
    PROVE  /\ TypeInv'
           /\ recovery'[i] # Down /\ \A j \in Instances \ {i} : recovery'[j] = recovery[j]
           /\ recovery[i] # Down
           /\ UNCHANGED <<book, tasks, exchange, crashes>>
  <1> USE DEF TypeInv
  <1>1. /\ recovery \in [Instances -> Start] /\ orders \in [Orders -> Row]
        /\ exchange \in [Orders -> Placed] /\ recovery[i] \in Start /\ halted \in BOOLEAN
        /\ Stopped \in Start /\ StartFits(recovery[i])
    BY Typing, Records DEF StartsFit, StartFits
  <1>2. UNCHANGED <<book, tasks, exchange, crashes>>
    BY DEF Recover, StartInstance, RecoverLookup, RecoverHop
  <1>3. SUFFICES /\ \E new \in Start : /\ recovery' = [recovery EXCEPT ![i] = new]
                                       /\ StartFits(new) /\ new # Down
                 /\ orders' \in [Orders -> Row] /\ halted' \in BOOLEAN
                 /\ recovery[i] # Down
    <2>1. PICK new \in Start : /\ recovery' = [recovery EXCEPT ![i] = new]
                               /\ StartFits(new) /\ new # Down
      BY <1>3
    <2>2. /\ recovery' \in [Instances -> Start] /\ recovery'[i] = new
          /\ \A j \in Instances \ {i} : recovery'[j] = recovery[j]
      BY <1>1, <2>1
    <2>3. StartsFit'
      BY <2>1, <2>2 DEF StartsFit, StartFits
    <2>4. LocalsFit'
      BY <1>2 DEF LocalsFit, Busy
    <2>5. TypeOK'
      <3>1. /\ positions' = positions /\ trades' = trades /\ capital' = capital
            /\ memory' = memory /\ held' = held /\ saving' = saving
            /\ tasks' = tasks /\ exchange' = exchange /\ crashes' = crashes
        BY <1>2 DEF book
      <3> QED BY <1>3, <2>2, <3>1 DEF TypeOK, Row, Start
    <2> QED BY <1>2, <1>3, <2>1, <2>2, <2>3, <2>4, <2>5
  <1>4. CASE StartInstance(i)
    <2>1. recovery[i] # Down
      BY <1>4 DEF StartInstance, Loaded, Down
    <2>2. orders' = orders /\ halted' \in BOOLEAN
      BY <1>1, <1>4 DEF StartInstance
    <2>3. CASE recovery' = [recovery EXCEPT ![i] = Stopped]
      BY <1>1, <2>1, <2>2, <2>3 DEF StartFits, Stopped, Down
    <2>4. CASE recovery' # [recovery EXCEPT ![i] = Stopped]
      <3> DEFINE pending == {<<o, orders[o].txid>> : o \in {n \in Orders : orders[n].status \in Open}}
      <3>1. recovery' = [recovery EXCEPT ![i] = Resume("recovering", pending)]
        BY <1>4, <2>4 DEF StartInstance
      <3>2. pending \in SUBSET (Orders \X BOOLEAN)
        BY <1>1 DEF Row
      <3> HIDE DEF pending
      <3>3. /\ Resume("recovering", pending) \in Start
            /\ StartFits(Resume("recovering", pending))
            /\ Resume("recovering", pending) # Down
        BY <3>2, Resuming
      <3> QED BY <1>1, <2>1, <2>2, <3>1, <3>3
    <2> QED BY <2>3, <2>4
  <1>5. CASE \E o \in Orders, txid \in BOOLEAN : RecoverLookup(i, o, txid)
    <2>1. PICK o \in Orders, txid \in BOOLEAN : RecoverLookup(i, o, txid)
      BY <1>5
    <2> DEFINE rest == recovery[i].pending \ {<<o, txid>>}
               phase(v) == IF v[1] = "UNKNOWN" THEN "tripped" ELSE recovery[i].phase
    <2>2. recovery[i].pending # {}
      BY <2>1 DEF RecoverLookup
    <2>3. /\ recovery[i].phase \in {"recovering", "tripped"}
          /\ recovery[i] # Down /\ rest \in SUBSET (Orders \X BOOLEAN)
      BY <1>1, <2>2 DEF StartFits, Down, Start
    <2>4. orders' = orders /\ halted' \in BOOLEAN
      BY <1>1, <2>1 DEF RecoverLookup
    <2>5. PICK v \in Verdicts(o, txid) :
            \/ recovery' = [recovery EXCEPT ![i] =
                    [@ EXCEPT !.pending = rest, !.order = o, !.goal = v[1],
                        !.fill = v[2], !.at = IF v[1] \in {"ACK", "REJECTED"}
                                              THEN "direct" ELSE orders[o].status]]
            \/ recovery' = [recovery EXCEPT ![i] = Resume(phase(v), rest)]
      BY <2>1 DEF RecoverLookup
    <2>6. v[1] \in Statuses /\ v[2] \in NoFill..MaxFill
      BY <1>1, Verdict
    <2>7. CASE recovery' = [recovery EXCEPT ![i] = Resume(phase(v), rest)]
      <3>1. phase(v) \in {"recovering", "tripped"}
        BY <2>3
      <3> HIDE DEF phase, rest
      <3>2. /\ Resume(phase(v), rest) \in Start /\ StartFits(Resume(phase(v), rest))
            /\ Resume(phase(v), rest) # Down
        BY <2>3, <3>1, Resuming
      <3> QED BY <1>1, <2>3, <2>4, <2>7, <3>2
    <2>8. CASE recovery' # [recovery EXCEPT ![i] = Resume(phase(v), rest)]
      <3> DEFINE at == IF v[1] \in {"ACK", "REJECTED"} THEN "direct" ELSE orders[o].status
                 new == [recovery[i] EXCEPT !.pending = rest, !.order = o, !.goal = v[1],
                                            !.fill = v[2], !.at = at]
      <3>1. at \in Statuses \cup {None, "direct"}
        BY <1>1 DEF Row, None
      <3>2. recovery' = [recovery EXCEPT ![i] = new]
        BY <2>5, <2>8
      <3> HIDE DEF at, rest
      <3>3. /\ new \in Start /\ new.order = o /\ new.goal = v[1]
            /\ new.phase = recovery[i].phase
        BY <1>1, <2>3, <2>6, <3>1 DEF Start
      <3> HIDE DEF new
      <3>4. o # None
        BY ExitAssumption
      <3>5. StartFits(new) /\ new # Down
        BY <2>3, <2>6, <3>3, <3>4 DEF StartFits, Down
      <3> QED BY <1>1, <2>3, <2>4, <3>2, <3>3, <3>5
    <2> QED BY <2>7, <2>8
  <1>6. CASE RecoverHop(i)
    <2> DEFINE r == recovery[i]
               hop == NextHop(r.at, r.goal)
               phase == IF r.goal = "UNKNOWN" THEN "tripped" ELSE r.phase
    <2>1. r.order # None
      BY <1>6 DEF RecoverHop
    <2>2. /\ r.phase \in {"recovering", "tripped"} /\ r.goal \in Statuses
          /\ r # Down /\ r.pending \in SUBSET (Orders \X BOOLEAN)
      BY <1>1, <2>1 DEF StartFits, Down, Start
    <2>3. hop \in Statuses
      BY <2>2 DEF NextHop, Statuses, Open, Terminal
    <2>4. PICK ok \in BOOLEAN :
            /\ Transition(r.order, hop, r.fill, r.goal \in {"ACK", "FILLED", "CANCELED"}, ok)
            /\ \/ recovery' = [recovery EXCEPT ![i].at = hop]
               \/ recovery' = [recovery EXCEPT ![i] = Resume(phase, r.pending)]
            /\ halted' = halted \/ halted' = (halted \/ r.goal = "UNKNOWN")
      BY <1>6 DEF RecoverHop
    <2>5. halted' \in BOOLEAN
      BY <1>1, <2>4
    <2>6. orders' \in [Orders -> Row]
      <3> DEFINE o == r.order
                 to == hop
                 fill == r.fill
      <3>1. to \in Statuses /\ fill \in NoFill..MaxFill
        BY <1>1, <2>3 DEF Start
      <3>2. PICK known \in BOOLEAN : Transition(o, to, fill, known, ok)
        <4>1. CASE r.goal \in {"ACK", "FILLED", "CANCELED"}
          <5>1. (r.goal \in {"ACK", "FILLED", "CANCELED"}) = TRUE
            BY <4>1
          <5> QED BY <2>4, <5>1, Zenon
        <4>2. CASE ~(r.goal \in {"ACK", "FILLED", "CANCELED"})
          <5>1. (r.goal \in {"ACK", "FILLED", "CANCELED"}) = FALSE
            BY <4>2
          <5> QED BY <2>4, <5>1, Zenon
        <4> QED BY <4>1, <4>2
      <3> HIDE DEF o, to, fill
      <3> QED BY <1>1, <3>1, <3>2, Transitions DEF Transition
    <2>7. CASE recovery' = [recovery EXCEPT ![i].at = hop]
      <3> DEFINE new == [r EXCEPT !.at = hop]
      <3>1. recovery' = [recovery EXCEPT ![i] = new]
        BY <2>7
      <3> HIDE DEF hop
      <3>2. /\ new \in Start /\ new.order = r.order /\ new.goal = r.goal
            /\ new.phase = r.phase
        BY <1>1, <2>3 DEF Start
      <3> HIDE DEF new
      <3>3. StartFits(new) /\ new # Down
        BY <2>1, <2>2, <3>2 DEF StartFits, Down
      <3> QED BY <1>1, <2>2, <2>5, <2>6, <3>1, <3>2, <3>3
    <2>8. CASE recovery' = [recovery EXCEPT ![i] = Resume(phase, r.pending)]
      <3>1. phase \in {"recovering", "tripped"}
        BY <2>2
      <3> HIDE DEF phase
      <3>2. /\ Resume(phase, r.pending) \in Start /\ StartFits(Resume(phase, r.pending))
            /\ Resume(phase, r.pending) # Down
        BY <2>2, <3>1, Resuming
      <3> QED BY <1>1, <2>2, <2>5, <2>6, <2>8, <3>2
    <2> QED BY <2>4, <2>7, <2>8
  <1> QED BY <1>4, <1>5, <1>6 DEF Recover

LEMMA InitTypes == Init => TypeInv
  <1> SUFFICES ASSUME Init PROVE TypeInv
    OBVIOUS
  <1>1. memory \in [Instances -> [Positions -> Held]]
    BY DEF Init, Held
  <1>2. /\ capital \in [RowIds -> [Positions -> Nat]]
        /\ held \in [Instances -> [Positions -> Nat]] /\ trades \in [Positions -> Nat]
        /\ positions \in [Positions -> {"open", "closing", "closed"}]
    BY Records DEF Init
  <1>3. /\ \A i \in Instances : saving[i] \subseteq [Positions -> Nat]
        /\ orders \in [Orders -> Row] /\ exchange \in [Orders -> Placed]
        /\ tasks \in [Tasks -> Task] /\ recovery \in [Instances -> Start]
    BY Records DEF Init
  <1>4. halted \in BOOLEAN /\ crashes \in 0..MaxCrashes
    <2>1. MaxCrashes \in Nat
      BY ExitAssumption
    <2>2. crashes \in 0..MaxCrashes
      <3>1. crashes = 0
        BY DEF Init
      <3> QED BY <2>1, <3>1
    <2>3. halted \in BOOLEAN
      BY DEF Init
    <2> QED BY <2>2, <2>3
  <1>5. TypeOK
    BY <1>1, <1>2, <1>3, <1>4, Typing
  <1>6. LocalsFit
    BY DEF Init, LocalsFit, Busy, Free, Rest
  <1>7. StartsFit
    BY DEF Init, StartsFit, Started, Down
  <1> QED BY <1>5, <1>6, <1>7 DEF TypeInv

LEMMA NextTypes == TypeInv /\ [Next]_vars => TypeInv'
  <1> SUFFICES ASSUME TypeInv, [Next]_vars PROVE TypeInv'
    OBVIOUS
  <1>0. /\ TypeOK /\ LocalsFit /\ StartsFit
        /\ positions \in [Positions -> {"open", "closing", "closed"}]
        /\ trades \in [Positions -> Nat]
        /\ capital \in [RowIds -> [Positions -> Nat]]
        /\ memory \in [Instances -> [Positions -> Held]]
        /\ held \in [Instances -> [Positions -> Nat]]
        /\ \A i \in Instances : saving[i] \subseteq [Positions -> Nat]
        /\ orders \in [Orders -> Row] /\ exchange \in [Orders -> Placed]
        /\ tasks \in [Tasks -> Task] /\ recovery \in [Instances -> Start]
        /\ halted \in BOOLEAN /\ crashes \in 0..MaxCrashes
    BY Typing DEF TypeInv
  <1>l. tasks' = tasks => LocalsFit'
    BY <1>0 DEF LocalsFit, Busy
  <1>s. recovery' = recovery => StartsFit'
    BY <1>0 DEF StartsFit
  <1>1. CASE \E t \in Tasks, i \in Instances : Begin(t, i) \/ BeginReduction(t, i)
    <2>1. /\ tasks' \in [Tasks -> Task] /\ LocalsFit'
          /\ UNCHANGED <<book, orders, venue>>
      BY <1>1, Beginnings
    <2>2. TypeOK'
      BY <1>0, <2>1, Typing DEF TypeOK, Task, book, venue
    <2> QED BY <1>s, <2>1, <2>2 DEF TypeInv, venue
  <1>2. CASE \E t \in Tasks : Step(t)
    BY <1>2, StepTypes
  <1>3. CASE \E i \in Instances : SaveState(i)
    <2>1. PICK i \in Instances : SaveState(i)
      BY <1>3
    <2>2. /\ saving' = [saving EXCEPT ![i] = @ \cup {held[i]}]
          /\ UNCHANGED <<positions, trades, capital, memory, held, orders, tasks, venue>>
      BY <2>1 DEF SaveState
    <2>3. \A j \in Instances : saving'[j] \subseteq [Positions -> Nat]
      BY <1>0, <2>2
    <2>4. TypeOK'
      BY <1>0, <2>2, <2>3 DEF TypeOK, venue
    <2> QED BY <1>l, <1>s, <2>2, <2>4 DEF TypeInv, venue
  <1>4. CASE \E i \in Instances : SaveWrites(i)
    <2>1. PICK i \in Instances : SaveWrites(i)
      BY <1>4
    <2>2. PICK copy \in saving[i] :
            /\ saving' = [saving EXCEPT ![i] = @ \ {copy}]
            /\ capital' = [capital EXCEPT ![RowId(i)] = copy] \/ UNCHANGED capital
      BY <2>1 DEF SaveWrites
    <2>3. UNCHANGED <<positions, trades, memory, held, orders, tasks, venue>>
      BY <2>1 DEF SaveWrites
    <2>4. copy \in [Positions -> Nat]
      BY <1>0, <2>2
    <2>5. capital' \in [RowIds -> [Positions -> Nat]]
      BY <1>0, <2>2, <2>4
    <2>6. \A j \in Instances : saving'[j] \subseteq [Positions -> Nat]
      BY <1>0, <2>2
    <2>7. TypeOK'
      BY <1>0, <2>3, <2>5, <2>6 DEF TypeOK, venue
    <2> QED BY <1>l, <1>s, <2>3, <2>7 DEF TypeInv, venue
  <1>5. CASE \E i \in Instances : Stop(i)
    <2>1. PICK i \in Instances : Stop(i)
      BY <1>5
    <2>2. /\ recovery' = [recovery EXCEPT ![i] = Stopped] /\ halted' \in BOOLEAN
          /\ UNCHANGED <<book, orders, exchange, tasks, crashes>>
      BY <1>0, <2>1 DEF Stop
    <2>3. recovery' \in [Instances -> Start]
      BY <1>0, <2>2, Records
    <2>4. TypeOK'
      BY <1>0, <2>2, <2>3 DEF TypeOK, book, Start
    <2>5. StartsFit'
      BY <1>0, <2>2, <2>3 DEF StartsFit, Stopped, Down
    <2> QED BY <1>l, <2>2, <2>4, <2>5 DEF TypeInv
  <1>6. CASE \E i \in Instances : Recover(i)
    BY <1>6, RecoverTypes
  <1>7. CASE \E o \in Orders : ExchangeSettles(o)
    <2>1. PICK o \in Orders, state \in {"closed", "canceled"}, q \in 0..MaxFill :
            exchange' = [exchange EXCEPT ![o].state = state, ![o].executed = q]
      <3>1. 0..(Requested - 1) \subseteq 0..MaxFill
        BY ExitAssumption, RequestedAssumption
      <3> QED BY <1>7, <3>1 DEF ExchangeSettles
    <2>2. UNCHANGED <<book, orders, tasks, recovery, halted, crashes>>
      BY <1>7 DEF ExchangeSettles
    <2> DEFINE new == [exchange[o] EXCEPT !.state = state, !.executed = q]
    <2>3. exchange' = [exchange EXCEPT ![o] = new]
      BY <2>1
    <2>4. new \in Placed
      BY <1>0 DEF Placed
    <2> HIDE DEF new
    <2>5. exchange' \in [Orders -> Placed]
      BY <1>0, <2>3, <2>4
    <2>6. TypeOK'
      BY <1>0, <2>2, <2>5 DEF TypeOK, book, Placed
    <2> QED BY <1>l, <1>s, <2>2, <2>6 DEF TypeInv
  <1>8. CASE Crash
    <2>1. /\ tasks' \in [Tasks -> Task] /\ recovery' \in [Instances -> Start]
          /\ memory' \in [Instances -> [Positions -> Held]]
          /\ held' \in [Instances -> [Positions -> Nat]]
          /\ \A i \in Instances : saving'[i] \subseteq [Positions -> Nat]
          /\ crashes' \in 0..MaxCrashes
      <3>1. "absent" \in Held
        BY DEF Held
      <3> QED BY <1>0, <1>8, <3>1, Records, ExitAssumption DEF Crash
    <2>2. UNCHANGED <<positions, trades, capital, orders, exchange, halted>>
      BY <1>8 DEF Crash
    <2>3. TypeOK'
      BY <1>0, <2>1, <2>2 DEF TypeOK, Held, Task, Start
    <2>4. LocalsFit'
      BY <1>8 DEF Crash, LocalsFit, Busy, Free, Rest
    <2>5. StartsFit'
      BY <1>8 DEF Crash, StartsFit, Down
    <2> QED BY <2>3, <2>4, <2>5 DEF TypeInv
  <1>9. CASE Preflight
    <2>1. /\ recovery' \in [Instances -> Start]
          /\ memory' \in [Instances -> [Positions -> Held]] /\ halted' \in BOOLEAN
      <3>1. \A p \in Positions :
                (IF positions[p] = "closed" THEN "absent" ELSE positions[p]) \in Held
        BY <1>0 DEF Held
      <3>2. CASE /\ recovery' = [i \in Instances |-> Loaded] /\ UNCHANGED halted
                 /\ memory' = [i \in Instances |-> [p \in Positions |->
                        IF positions[p] = "closed" THEN "absent" ELSE positions[p]]]
        <4>1. Loaded \in Start
          BY Records
        <4>2. recovery' \in [Instances -> Start]
          BY <3>2, <4>1
        <4> QED BY <1>0, <3>1, <3>2, <4>2
      <3>3. CASE halted' = TRUE /\ UNCHANGED <<memory, recovery>>
        BY <1>0, <3>3
      <3> QED BY <1>9, <3>2, <3>3 DEF Preflight
    <2>2. UNCHANGED <<positions, trades, capital, held, saving, orders, tasks,
                      exchange, crashes>>
      BY <1>9 DEF Preflight
    <2>3. TypeOK'
      BY <1>0, <2>1, <2>2 DEF TypeOK, Held, Start
    <2>4. StartsFit'
      <3>1. CASE recovery' = recovery
        BY <1>s, <3>1
      <3>2. CASE recovery' = [i \in Instances |-> Loaded]
        BY <3>2 DEF StartsFit, Loaded, Down
      <3> QED BY <1>9, <3>1, <3>2 DEF Preflight
    <2> QED BY <1>l, <2>2, <2>3, <2>4 DEF TypeInv
  <1>10. CASE Acknowledge
    <2>1. /\ UNCHANGED <<book, orders, exchange, tasks, recovery, crashes>>
          /\ halted' \in BOOLEAN
      BY <1>10 DEF Acknowledge
    <2>2. TypeOK'
      BY <1>0, <2>1 DEF TypeOK, book
    <2> QED BY <1>l, <1>s, <2>1, <2>2 DEF TypeInv
  <1>11. CASE UNCHANGED vars
    <2>1. TypeOK'
      BY <1>0, <1>11 DEF TypeOK, vars
    <2> QED BY <1>l, <1>s, <1>11, <2>1 DEF TypeInv, vars
  <1> QED BY <1>1, <1>2, <1>3, <1>4, <1>5, <1>6, <1>7, <1>8, <1>9, <1>10, <1>11
          DEF Next

\* The locals of every coroutine, and of every start, stay fit for where it is.
THEOREM ExitTypes == Spec => []TypeInv
  BY InitTypes, NextTypes, PTL DEF Spec

\* The tables, both memories and the locals of every coroutine keep their types:
\* no step of PositionExit writes what the code could not have written.
THEOREM TypeCorrect == Spec => []TypeOK
  <1>1. TypeInv => TypeOK
    BY DEF TypeInv
  <1> QED BY <1>1, ExitTypes, PTL
-----------------------------------------------------------------------------
(* The durable reservation excludes, among all who send an order.            *)

\* The reduction closes positions in the book without an order.
Sellers == Signals \cup Exits

LEMMA TwoKinds ==
    /\ Tasks = Sellers \cup Reductions /\ Sellers \cap Reductions = {}
    /\ Sellers \subseteq Tasks /\ Signals \cap Exits = {}
  BY ExitAssumption DEF Sellers, Tasks

\* The task has made the reservation known to its instance, and the instance
\* has not forgotten it.
Keeping(t) == \/ Owns(t) /\ tasks[t].pc # "reserve memory"
              \/ tasks[t].pc = "release memory"

\* While a seller owns a position no other seller does, and nobody finds its row
\* open; only the reduction, which sends no order, may have closed it meanwhile.
SellersExclude ==
    \A t \in Sellers : Owns(t) =>
        /\ positions[tasks[t].position] # "open"
        /\ Reductions = {} => positions[tasks[t].position] = "closing"
        /\ \A u \in Sellers \ {t} : Owns(u) => tasks[u].position # tasks[t].position

\* While it is known, no other seller of the instance takes the position.
KnownExclusively ==
    \A t \in Sellers : Keeping(t) =>
        /\ Mine(t) # "open"
        /\ Reductions = {} => Mine(t) = "closing"
        /\ \A u \in Sellers \ {t} : Keeping(u) =>
              \/ tasks[u].instance # tasks[t].instance
              \/ tasks[u].position # tasks[t].position

\* A seller reserves before it has an answer, never to close.
Before == {"dup", "new", "send", "reserve", "reserve row", "reserve memory"}

ReservesFirst ==
    \A t \in Sellers : tasks[t].pc \in Before => tasks[t].got = NotAnswered

\* The process is down as a whole, and nothing runs in it.
DownTogether ==
    \A i \in Instances : recovery[i] = Down =>
        /\ \A j \in Instances : recovery[j] = Down
        /\ \A t \in Tasks : tasks[t].pc = "idle"

ExclusionInv ==
    /\ TypeInv /\ SellersExclude /\ KnownExclusively /\ ReservesFirst
    /\ DownTogether

\* The task gains nothing, and nobody's position or memory of it changes.
Quiet(t) ==
    /\ \A u \in Sellers \ {t} : tasks'[u] = tasks[u]
    /\ Owns(t)' => Owns(t) /\ SameLocals(t)
    /\ Keeping(t)' => Keeping(t) /\ SameLocals(t)
    /\ \A p \in Positions : positions'[p] = positions[p]
    /\ \A i \in Instances, p \in Positions : memory'[i][p] = memory[i][p]

LEMMA Places ==
    ASSUME LocalsFit, NEW t \in Tasks, Owns(t) \/ Keeping(t)
    PROVE  tasks[t].instance \in Instances /\ tasks[t].position \in Positions
  BY DEF LocalsFit, Busy, Free, Owns, Keeping

LEMMA QuietExcludes ==
    ASSUME ExclusionInv, NEW t \in Tasks, Quiet(t)
    PROVE  SellersExclude' /\ KnownExclusively'
  <1> USE TwoKinds DEF ExclusionInv, TypeInv
  <1>1. \A u \in Sellers : Owns(u)' => /\ Owns(u) /\ SameLocals(u)
    BY DEF Quiet, Owns, SameLocals
  <1>2. \A u \in Sellers : Keeping(u)' => /\ Keeping(u) /\ SameLocals(u)
    BY DEF Quiet, Keeping, Owns, SameLocals
  <1>3. SellersExclude'
    BY <1>1, Places DEF SellersExclude, SameLocals, Quiet
  <1>4. KnownExclusively'
    BY <1>2, Places DEF KnownExclusively, SameLocals, Quiet, Mine
  <1> QED BY <1>3, <1>4

\* A move of an owner is quiet unless it gives the row back.
LEMMA QuietOwner ==
    ASSUME tasks \in [Tasks -> Task], NEW t \in Tasks, NEW places, Moves(t, places),
           UNCHANGED <<positions, memory>>,
           Owns(t), tasks[t].pc # "reserve memory", "release memory" \notin places
    PROVE  Quiet(t)
  <1>1. CASE tasks'[t].pc \in Free
    BY <1>1, TwoKinds DEF Quiet, Moves, Owns, Keeping, Free
  <1>2. CASE tasks'[t].pc \notin Free
    BY <1>2, TwoKinds DEF Quiet, Moves, Owns, Keeping, SameLocals
  <1> QED BY <1>1, <1>2

\* So is a move to a place where the task owns nothing.
Outside(t) == {"dup", "reserve", "reserve row", "withdraw"}
              \cup (IF t \in Signals THEN {} ELSE {"new", "send"})

LEMMA QuietOutside ==
    ASSUME tasks \in [Tasks -> Task], NEW t \in Tasks, NEW places, Moves(t, places),
           UNCHANGED <<positions, memory>>, places \subseteq Outside(t)
    PROVE  Quiet(t)
  <1>1. CASE tasks'[t].pc \in Free
    BY <1>1, TwoKinds DEF Quiet, Moves, Owns, Keeping, Free
  <1>2. CASE tasks'[t].pc \notin Free
    BY <1>2, TwoKinds DEF Quiet, Moves, Owns, Keeping, SameLocals, Outside
  <1> QED BY <1>1, <1>2

\* Who owns after a step that writes no position owned it before, or the like.
LEMMA OwnersStay ==
    ASSUME SellersExclude, UNCHANGED positions,
           \A u \in Sellers : Owns(u)' => Owns(u) /\ SameLocals(u)
    PROVE  SellersExclude'
  <1>1. \A u \in Sellers : Owns(u)' =>
            /\ positions'[tasks'[u].position] # "open"
            /\ Reductions = {} => positions'[tasks'[u].position] = "closing"
    BY DEF SellersExclude, SameLocals
  <1>2. \A u, v \in Sellers : Owns(u)' /\ Owns(v)' /\ u # v
            => tasks'[v].position # tasks'[u].position
    BY DEF SellersExclude, SameLocals
  <1> QED BY <1>1, <1>2 DEF SellersExclude

LEMMA KeepersStay ==
    ASSUME KnownExclusively, UNCHANGED memory,
           \A u \in Sellers : Keeping(u)' => Keeping(u) /\ SameLocals(u)
    PROVE  KnownExclusively'
  <1>1. \A u \in Sellers : Keeping(u)' =>
            /\ Mine(u)' # "open"
            /\ Reductions = {} => Mine(u)' = "closing"
    BY DEF KnownExclusively, SameLocals, Mine
  <1>2. \A u, v \in Sellers : Keeping(u)' /\ Keeping(v)' /\ u # v
            => \/ tasks'[v].instance # tasks'[u].instance
               \/ tasks'[v].position # tasks'[u].position
    BY DEF KnownExclusively, SameLocals
  <1> QED BY <1>1, <1>2 DEF KnownExclusively

\* A task that writes its own position, which nobody else has.
LEMMA OwnerWrites ==
    ASSUME SellersExclude, NEW t \in Sellers, NEW p \in Positions,
           \A u \in Sellers \ {t} :
                /\ tasks'[u] = tasks[u]
                /\ Owns(u) => tasks[u].position \in Positions \ {p},
           \A q \in Positions \ {p} : positions'[q] = positions[q],
           Owns(t)' => tasks'[t].position = p /\ positions'[p] = "closing"
    PROVE  SellersExclude'
  <1>0. \A u \in Sellers \ {t} : Owns(u)' => Owns(u)
    BY DEF Owns
  <1>1. \A u \in Sellers : Owns(u)' =>
            /\ positions'[tasks'[u].position] # "open"
            /\ Reductions = {} => positions'[tasks'[u].position] = "closing"
    BY <1>0 DEF SellersExclude
  <1>2. \A u, v \in Sellers : Owns(u)' /\ Owns(v)' /\ u # v
            => tasks'[v].position # tasks'[u].position
    BY <1>0 DEF SellersExclude
  <1> QED BY <1>1, <1>2 DEF SellersExclude

LEMMA KeeperWrites ==
    ASSUME KnownExclusively, NEW t \in Sellers, NEW p \in Positions, NEW i \in Instances,
           \A u \in Sellers \ {t} :
                /\ tasks'[u] = tasks[u]
                /\ Keeping(u) => /\ tasks[u].position \in Positions
                                 /\ tasks[u].instance \in Instances
                                 /\ tasks[u].instance # i \/ tasks[u].position # p,
           \A j \in Instances, q \in Positions : j # i \/ q # p => memory'[j][q] = memory[j][q],
           Keeping(t)' => /\ tasks'[t].position = p /\ tasks'[t].instance = i
                          /\ memory'[i][p] = "closing"
    PROVE  KnownExclusively'
  <1>0. \A u \in Sellers \ {t} : Keeping(u)' => Keeping(u)
    BY DEF Keeping, Owns
  <1>1. \A u \in Sellers : Keeping(u)' =>
            /\ Mine(u)' # "open"
            /\ Reductions = {} => Mine(u)' = "closing"
    BY <1>0 DEF KnownExclusively, Mine
  <1>2. \A u, v \in Sellers : Keeping(u)' /\ Keeping(v)' /\ u # v
            => \/ tasks'[v].instance # tasks'[u].instance
               \/ tasks'[v].position # tasks'[u].position
    BY <1>0 DEF KnownExclusively
  <1> QED BY <1>1, <1>2 DEF KnownExclusively

LEMMA StepExcludes ==
    ASSUME ExclusionInv, NEW t \in Sellers, Step(t)
    PROVE  SellersExclude' /\ KnownExclusively' /\ ReservesFirst'
  <1> USE TwoKinds
  <1>0. /\ tasks \in [Tasks -> Task] /\ positions \in [Positions -> {"open", "closing", "closed"}]
        /\ memory \in [Instances -> [Positions -> Held]]
        /\ TypeOK /\ LocalsFit /\ TypeInv /\ SellersExclude /\ KnownExclusively /\ ReservesFirst
    BY Typing DEF ExclusionInv, TypeInv
  <1>e. SellersExclude /\ KnownExclusively
    BY <1>0
  <1>k. t \in Signals \cup Exits
    BY DEF Sellers
  <1>q. ASSUME Quiet(t) PROVE SellersExclude' /\ KnownExclusively'
    BY <1>q, QuietExcludes
  \* What the signal knows before it reserves.
  <1>r. ASSUME NEW places, Moves(t, places), Keeps(t),
               places \cap Before # {} => tasks[t].got = NotAnswered
        PROVE  ReservesFirst'
    BY <1>0, <1>r DEF ReservesFirst, Moves, Keeps, Free, Before
  <1>s. tasks[t].pc \in {"reserve", "reserve row", "reserve memory"}
            => Refused(t) \subseteq {"withdraw"} /\ tasks[t].got = NotAnswered
    BY <1>0 DEF ReservesFirst, Refused, Before
  <1>1. CASE \E p \in Positions, o \in Orders : TakeNext(t, p, o)
    <2>1. /\ \A u \in Sellers \ {t} : tasks'[u] = tasks[u]
          /\ tasks'[t].pc \in {"dup", "close"} /\ (t \notin Reductions => tasks'[t].pc = "dup")
          /\ tasks'[t].got = NotAnswered /\ UNCHANGED <<positions, memory>>
      BY <1>0, <1>1, Takings DEF book
    <2>2. Quiet(t)
      BY <1>k, <2>1 DEF Quiet, Owns, Keeping
    <2>3. ReservesFirst'
      BY <1>0, <1>k, <2>1 DEF ReservesFirst
    <2> QED BY <1>q, <2>2, <2>3
  <1>2. CASE CheckDuplicate(t)
    <2> DEFINE places == {IF t \in Signals THEN "reserve" ELSE "new"}
    <2>1. tasks[t].pc = "dup" /\ UNCHANGED <<positions, memory>>
      BY <1>2 DEF CheckDuplicate, book
    <2>2. Moves(t, places) /\ Keeps(t)
      BY <1>0, <1>2, Leads
    <2>3. Quiet(t)
      <3>1. places \subseteq Outside(t)
        BY DEF Outside
      <3> HIDE DEF places
      <3> QED BY <1>0, <2>1, <2>2, <3>1, QuietOutside
    <2>4. tasks[t].got = NotAnswered
      BY <1>0, <2>1 DEF ReservesFirst, Before
    <2> HIDE DEF places
    <2> QED BY <1>q, <1>r, <2>2, <2>3, <2>4
  <1>3. CASE Reserve(t)
    <2> DEFINE places == {"reserve row"} \cup Refused(t)
    <2>1. tasks[t].pc = "reserve" /\ UNCHANGED <<positions, memory>>
      BY <1>3 DEF Reserve, book
    <2>2. Moves(t, places) /\ Keeps(t)
      BY <1>0, <1>3, Leads
    <2>3. places \subseteq Outside(t)
      BY <1>s, <2>1 DEF Outside
    <2> HIDE DEF places
    <2>4. Quiet(t)
      BY <1>0, <2>1, <2>2, <2>3, QuietOutside
    <2> QED BY <1>q, <1>r, <1>s, <2>1, <2>2, <2>4
  <1>4. CASE ReserveRow(t)
    <2>1. tasks[t].pc = "reserve row" /\ UNCHANGED memory
      BY <1>4 DEF ReserveRow
    <2> DEFINE p == tasks[t].position
    <2>r. ReservesFirst'
      <3> DEFINE places == {"reserve memory"} \cup Refused(t)
      <3>1. Moves(t, places) /\ Keeps(t)
        BY <1>0, <1>4, Leads
      <3> HIDE DEF places
      <3> QED BY <1>r, <1>s, <2>1, <3>1
    <2>2. CASE /\ positions[p] = "open"
               /\ positions' = [positions EXCEPT ![p] = "closing"]
               /\ Goto(t, "reserve memory")
      <3>1. p \in Positions
        BY <1>0, <2>1 DEF LocalsFit, Busy, Free
      <3>2. /\ \A u \in Sellers \ {t} : tasks'[u] = tasks[u]
            /\ tasks'[t].pc = "reserve memory" /\ SameLocals(t)
        <4>1. "reserve memory" \in Pcs
          BY DEF Pcs
        <4> QED BY <1>0, <2>2, <4>1, GotoMoves DEF Moves
      <3>3. /\ positions'[p] = "closing"
            /\ \A q \in Positions \ {p} : positions'[q] = positions[q]
        BY <1>0, <2>2, <3>1
      <3>4. \A u \in Sellers \ {t} : Owns(u) => tasks[u].position \in Positions \ {p}
        BY <1>0, <2>2, Places DEF SellersExclude
      <3>5. SellersExclude'
        <4>1. tasks'[t].position = p
          BY <3>2 DEF SameLocals
        <4>2. \A u \in Sellers \ {t} :
                /\ tasks'[u] = tasks[u]
                /\ Owns(u) => tasks[u].position \in Positions \ {p}
          BY <3>2, <3>4
        <4>3. Owns(t)' => tasks'[t].position = p /\ positions'[p] = "closing"
          BY <3>3, <4>1
        <4>4. \A q \in Positions \ {p} : positions'[q] = positions[q]
          BY <3>3
        <4> HIDE DEF p
        <4> QED BY <1>e, <3>1, <4>2, <4>3, <4>4, OwnerWrites
      <3>6. KnownExclusively'
        <4>1. \A u \in Sellers : Keeping(u)' => Keeping(u) /\ SameLocals(u)
          BY <3>2 DEF Keeping, Owns, SameLocals
        <4> QED BY <1>e, <2>1, <4>1, KeepersStay
      <3> QED BY <2>r, <3>5, <3>6
    <2>3. CASE Continue(t, OnRefused(t)) /\ UNCHANGED positions
      <3>1. OnRefused(t) \in {"done", "withdraw"}
        BY <1>s, <2>1, Targets DEF Refused
      <3>2. OnRefused(t) \in Pcs \cup {"done"}
        BY <3>1 DEF Pcs, Asked
      <3> DEFINE places == {OnRefused(t)} \ {"done"}
      <3>3. Moves(t, places)
        BY <1>0, <2>3, <3>2, ContinueMoves
      <3>4. places \subseteq Outside(t)
        BY <3>1 DEF Outside
      <3> HIDE DEF places
      <3>5. Quiet(t)
        BY <1>0, <2>1, <2>3, <3>3, <3>4, QuietOutside
      <3> QED BY <1>q, <2>r, <3>5
    <2> QED BY <1>4, <2>2, <2>3 DEF ReserveRow
  <1>5. CASE ReserveMemory(t)
    <2>1. tasks[t].pc = "reserve memory" /\ UNCHANGED positions /\ Owns(t)
      BY <1>5 DEF ReserveMemory, Owns
    <2> DEFINE p == tasks[t].position
               i == tasks[t].instance
    <2>m. p \in Positions /\ i \in Instances
      BY <1>0, <2>1, Places
    <2>r. ReservesFirst'
      <3> DEFINE places == {OnReserved(t)} \cup Refused(t)
      <3>2. Moves(t, places) /\ Keeps(t)
        BY <1>0, <1>5, Leads
      <3> HIDE DEF places
      <3> QED BY <1>r, <1>s, <2>1, <3>2
    <2>2. CASE Mine(t) = "open" /\ Remember(t, "closing") /\ Goto(t, OnReserved(t))
      <3>1. /\ memory'[i][p] = "closing"
            /\ \A j \in Instances, q \in Positions :
                    j # i \/ q # p => memory'[j][q] = memory[j][q]
        BY <1>0, <2>2, <2>m DEF Remember
      <3>2. /\ \A u \in Sellers \ {t} : tasks'[u] = tasks[u]
            /\ SameLocals(t)
        <4>1. OnReserved(t) \in Pcs
          BY DEF OnReserved, Pcs
        <4> QED BY <1>0, <2>2, <4>1, GotoMoves DEF Moves
      <3>3. SellersExclude'
        <4>1. \A u \in Sellers : Owns(u)' => Owns(u) /\ SameLocals(u)
          BY <2>1, <3>2 DEF Owns, SameLocals
        <4> QED BY <1>e, <2>1, <4>1, OwnersStay
      <3>4. \A u \in Sellers \ {t} : Keeping(u) =>
                /\ tasks[u].position \in Positions /\ tasks[u].instance \in Instances
                /\ tasks[u].instance # i \/ tasks[u].position # p
        <4>1. \A u \in Sellers \ {t} : Keeping(u) => Mine(u) # "open"
          BY <1>e DEF KnownExclusively
        <4>2. \A u \in Sellers \ {t} : Keeping(u) =>
                tasks[u].position \in Positions /\ tasks[u].instance \in Instances
          BY <1>0, Places
        <4> QED BY <2>2, <4>1, <4>2 DEF Mine
      <3>5. KnownExclusively'
        <4>1. tasks'[t].position = p /\ tasks'[t].instance = i
          BY <3>2 DEF SameLocals
        <4> HIDE DEF p, i
        <4> QED BY <1>e, <2>m, <3>1, <3>2, <3>4, <4>1, KeeperWrites
      <3> QED BY <2>r, <3>3, <3>5
    <2>3. CASE Continue(t, OnRefused(t)) /\ UNCHANGED memory
      <3>1. OnRefused(t) \in {"done", "withdraw"}
        BY <1>s, <2>1, Targets DEF Refused
      <3>2. OnRefused(t) \in Pcs \cup {"done"}
        BY <3>1 DEF Pcs, Asked
      <3> DEFINE places == {OnRefused(t)} \ {"done"}
      <3>3. Moves(t, places)
        BY <1>0, <2>3, <3>2, ContinueMoves
      <3>4. places \subseteq Outside(t)
        BY <3>1 DEF Outside
      <3> HIDE DEF places
      <3>5. Quiet(t)
        BY <1>0, <2>1, <2>3, <3>3, <3>4, QuietOutside
      <3> QED BY <1>q, <2>r, <3>5
    <2> QED BY <1>5, <2>2, <2>3 DEF ReserveMemory
  <1>6. CASE NewOrder(t)
    <2> DEFINE places == {"send"}
    <2>1. tasks[t].pc = "new" /\ UNCHANGED <<positions, memory>>
      BY <1>6 DEF NewOrder, book
    <2>2. Moves(t, places) /\ Keeps(t)
      BY <1>0, <1>6, Leads
    <2>3. \A pc \in places : pc = "send"
      OBVIOUS
    <2> HIDE DEF places
    <2>4. Quiet(t)
      <3>1. CASE t \in Signals
        <4>1. Owns(t) /\ "release memory" \notin places
          BY <2>1, <2>3, <3>1 DEF Owns
        <4> QED BY <1>0, <2>1, <2>2, <4>1, QuietOwner
      <3>2. CASE t \notin Signals
        <4>1. places \subseteq Outside(t)
          BY <2>3, <3>2 DEF Outside
        <4> QED BY <1>0, <2>1, <2>2, <4>1, QuietOutside
      <3> QED BY <3>1, <3>2
    <2>5. tasks[t].got = NotAnswered
      BY <1>0, <2>1 DEF ReservesFirst, Before
    <2> QED BY <1>q, <1>r, <2>2, <2>4, <2>5
  <1>7. CASE LedgerWrite(t)
    <2>1. tasks[t].pc \in {"send", "ack", "reject", "filled", "withdraw", "unknown",
                           "hold", "partial"}
          /\ UNCHANGED <<positions, memory>>
      BY <1>7 DEF LedgerWrite, Asked, book
    <2>2. PICK pc \in Pcs \cup {"done"} :
                /\ Moves(t, {pc} \ {"done"}) /\ Keeps(t)
                /\ tasks[t].pc = "send" => pc \in {"done"}
                     \cup (IF t \in Signals THEN {"submit"} ELSE {})
                     \cup (IF t \in Exits THEN {"reserve"} ELSE {})
                /\ tasks[t].pc = "ack" => pc \in {"done", "hold", "partial"}
                     \cup (IF t \in Signals THEN {"unknown", "close"}
                           ELSE {"reject", "filled"})
                /\ tasks[t].pc = "reject" => pc \in {"done", "release"}
                /\ tasks[t].pc = "filled" => pc \in {"done"}
                     \cup (IF t \in Exits THEN {"close"} ELSE {})
                /\ tasks[t].pc \in {"withdraw", "unknown", "hold", "partial"}
                     => pc = "done"
      BY <1>0, <1>7, Writes
    <2> DEFINE places == {pc} \ {"done"}
    <2>3. Moves(t, places) /\ Keeps(t)
      BY <2>2
    <2>4. \A n \in places : /\ n # "release memory"
                            /\ n \in Before => tasks[t].pc \in Before
      BY <2>1, <2>2 DEF Before
    <2>5. \/ Owns(t) /\ tasks[t].pc # "reserve memory"
          \/ places \subseteq Outside(t)
      BY <1>k, <2>1, <2>2 DEF Owns, Outside
    <2> HIDE DEF places
    <2>6. Quiet(t)
      <3>1. "release memory" \notin places
        BY <2>4
      <3> QED BY <1>0, <2>1, <2>3, <2>5, <3>1, QuietOwner, QuietOutside
    <2>7. places \cap Before # {} => tasks[t].got = NotAnswered
      BY <1>0, <2>4 DEF ReservesFirst
    <2> QED BY <1>q, <1>r, <2>3, <2>6, <2>7
  <1>8. CASE Answers(t)
    <2>1. /\ tasks[t].pc \in {"submit", "wait"} /\ UNCHANGED <<positions, memory>>
          /\ \/ \E got \in Failed..MaxFill : Reply(t, got)
             \/ \E pc \in {"wait", "unknown"} : Goto(t, pc)
             \/ tasks' = [tasks EXCEPT ![t] = Rest]
      BY <1>0, <1>8, Answering DEF book
    <2> DEFINE places == {"reject", "ack", "wait", "unknown"}
    <2>2. Moves(t, places)
      <3>1. CASE \E got \in Failed..MaxFill : Reply(t, got)
        <4>1. PICK got \in Failed..MaxFill : Reply(t, got)
          BY <3>1
        <4>2. Moves(t, {IF got = Failed THEN "reject" ELSE "ack"})
          BY <1>0, <4>1, ReplyMoves
        <4> QED BY <4>2 DEF Moves
      <3>2. CASE \E pc \in {"wait", "unknown"} : Goto(t, pc)
        <4>1. PICK pc \in {"wait", "unknown"} : Goto(t, pc)
          BY <3>2
        <4>2. pc \in Pcs
          BY DEF Pcs, Asked
        <4>3. Moves(t, {pc})
          BY <1>0, <4>1, <4>2, GotoMoves
        <4> QED BY <4>3 DEF Moves
      <3>3. CASE tasks' = [tasks EXCEPT ![t] = Rest]
        BY <1>0, <3>3, RestMoves
      <3> QED BY <2>1, <3>1, <3>2, <3>3
    <2>3. "release memory" \notin places /\ places \cap Before = {}
      BY DEF Before
    <2> HIDE DEF places
    <2>4. Owns(t) /\ tasks[t].pc # "reserve memory"
      BY <2>1 DEF Owns
    <2>5. Quiet(t)
      BY <1>0, <2>1, <2>2, <2>3, <2>4, QuietOwner
    <2>6. ReservesFirst'
      BY <1>0, <2>2, <2>3 DEF ReservesFirst, Moves, Free, Before
    <2> QED BY <1>q, <2>5, <2>6
  <1>9. CASE Close(t)
    <2>1. /\ tasks[t].pc = "close" /\ UNCHANGED <<positions, memory>> /\ Owns(t)
      BY <1>9, <1>k DEF Close, book, Owns
    <2>2. Mine(t) # "open"
      BY <1>0, <2>1 DEF KnownExclusively, Keeping
    <2>3. PICK pc \in {"commit", "hold", "done"} : Continue(t, pc)
      BY <1>9, <2>2, Targets DEF Close
    <2> DEFINE places == {pc} \ {"done"}
    <2>4. Moves(t, places) /\ Keeps(t)
      <3>1. pc \in Pcs \cup {"done"}
        BY DEF Pcs, Asked
      <3> QED BY <1>0, <2>3, <3>1, ContinueMoves
    <2>5. "release memory" \notin places /\ places \cap Before = {}
      BY DEF Before
    <2> HIDE DEF places
    <2>6. Quiet(t)
      BY <1>0, <2>1, <2>4, <2>5, QuietOwner
    <2> QED BY <1>q, <1>r, <2>4, <2>5, <2>6
  <1>10. CASE Commit(t)
    <2>1. tasks[t].pc = "commit" /\ Owns(t) /\ Keeping(t)
      BY <1>10 DEF Commit, Owns, Keeping
    <2>2. Mine(t) # "open"
      BY <1>0, <2>1 DEF KnownExclusively
    <2> DEFINE p == tasks[t].position
               i == tasks[t].instance
               places == IF t \in Signals THEN {"filled", "hold"} ELSE {}
    <2>3. p \in Positions /\ i \in Instances
      BY <1>0, <2>1, Places
    <2>4. Moves(t, places) /\ Keeps(t)
      BY <1>0, <1>10, Leads
    <2>r. ReservesFirst'
      <3>1. places \cap Before = {}
        BY DEF Before
      <3> HIDE DEF places
      <3> QED BY <1>r, <2>4, <3>1
    <2>5. CASE /\ positions' = [positions EXCEPT ![p] = "closed"]
               /\ Remember(t, "closed")
               /\ Continue(t, IF t \in Signals THEN "filled" ELSE "done")
      <3>1. \A u \in Sellers \ {t} : tasks'[u] = tasks[u]
        BY <2>4 DEF Moves
      <3>2. tasks'[t].pc \in Free \/ (t \in Signals /\ tasks'[t].pc = "filled")
        <4>1. CASE t \in Signals
          <5>1. Goto(t, "filled") /\ "filled" \in Pcs
            BY <2>5, <4>1 DEF Continue, Pcs, Asked
          <5> QED BY <1>0, <4>1, <5>1, GotoMoves
        <4>2. CASE t \notin Signals
          <5>1. Done(t)
            BY <2>5, <4>2 DEF Continue
          <5>2. Moves(t, Free)
            BY <1>0, <5>1, DoneMoves
          <5> QED BY <5>2 DEF Moves
        <4> QED BY <4>1, <4>2
      <3>3. ~Owns(t)' /\ ~Keeping(t)'
        BY <1>k, <3>2 DEF Owns, Keeping, Free
      <3>4. \A q \in Positions \ {p} : positions'[q] = positions[q]
        BY <1>0, <2>5
      <3>5. \A j \in Instances, q \in Positions : j # i \/ q # p => memory'[j][q] = memory[j][q]
        BY <1>0, <2>5 DEF Remember
      <3>6. \A u \in Sellers \ {t} : Owns(u) => tasks[u].position \in Positions \ {p}
        BY <1>0, <2>1, Places DEF SellersExclude
      <3>7. \A u \in Sellers \ {t} : Keeping(u) =>
                /\ tasks[u].position \in Positions /\ tasks[u].instance \in Instances
                /\ tasks[u].instance # i \/ tasks[u].position # p
        BY <1>0, <2>1, Places DEF KnownExclusively
      <3> HIDE DEF p, i
      <3>8. SellersExclude'
        BY <1>e, <2>3, <3>1, <3>3, <3>4, <3>6, OwnerWrites
      <3>9. KnownExclusively'
        BY <1>e, <2>3, <3>1, <3>3, <3>5, <3>7, KeeperWrites
      <3> QED BY <2>r, <3>8, <3>9
    <2>6. CASE \/ /\ Mine(t) \in {"open", "closing"} /\ Remember(t, "closing")
                  /\ UNCHANGED positions
               \/ UNCHANGED <<positions, memory>>
      <3>1. \A j \in Instances, q \in Positions : memory'[j][q] = memory[j][q]
        BY <1>0, <2>2, <2>3, <2>6 DEF Remember, Mine
      <3>2. Quiet(t)
        <4>1. "release memory" \notin places
          OBVIOUS
        <4> HIDE DEF places
        <4>2. tasks'[t].pc \in Free => ~Owns(t)' /\ ~Keeping(t)'
          BY DEF Owns, Keeping, Free
        <4>3. tasks'[t].pc \notin Free => SameLocals(t)
          BY <2>4 DEF Moves
        <4>4. \A u \in Sellers \ {t} : tasks'[u] = tasks[u]
          BY <2>4 DEF Moves
        <4> QED BY <2>1, <2>6, <3>1, <4>2, <4>3, <4>4 DEF Quiet
      <3> QED BY <1>q, <2>r, <3>2
    <2> QED BY <1>10, <2>2, <2>5, <2>6 DEF Commit
  <1>11. CASE Release(t)
    <2> DEFINE places == {"release row"}
    <2>1. /\ tasks[t].pc = "release" /\ UNCHANGED <<positions, memory>> /\ Owns(t)
      BY <1>11 DEF Release, book, Owns
    <2>2. Moves(t, places) /\ Keeps(t)
      BY <1>0, <1>11, Leads
    <2>3. "release memory" \notin places /\ places \cap Before = {}
      BY DEF Before
    <2> HIDE DEF places
    <2>4. Quiet(t)
      BY <1>0, <2>1, <2>2, <2>3, QuietOwner
    <2> QED BY <1>q, <1>r, <2>2, <2>3, <2>4
  <1>12. CASE ReleaseRow(t)
    <2> DEFINE places == {"release memory"}
               p == tasks[t].position
    <2>1. tasks[t].pc = "release row" /\ UNCHANGED memory /\ Owns(t) /\ Keeping(t)
      BY <1>12 DEF ReleaseRow, Owns, Keeping
    <2>2. Moves(t, places) /\ Keeps(t)
      BY <1>0, <1>12, Leads
    <2>3. places \cap Before = {} /\ \A pc \in places : pc = "release memory"
      BY DEF Before
    <2> HIDE DEF places
    <2>4. ReservesFirst'
      BY <1>r, <2>2, <2>3
    <2>5. /\ \A u \in Sellers \ {t} : tasks'[u] = tasks[u]
          /\ ~Owns(t)' /\ (Keeping(t)' => SameLocals(t))
      BY <2>2, <2>3 DEF Moves, Owns, Keeping, Free
    <2>6. \A q \in Positions \ {p} : positions'[q] = positions[q]
      BY <1>0, <1>12 DEF ReleaseRow
    <2>7. \A u \in Sellers \ {t} : Owns(u) => tasks[u].position \in Positions \ {p}
      BY <1>0, <2>1, Places DEF SellersExclude
    <2>p. p \in Positions
      BY <1>0, <2>1, Places
    <2>8. SellersExclude'
      <3> HIDE DEF p
      <3> QED BY <1>e, <2>p, <2>5, <2>6, <2>7, OwnerWrites
    <2>9. \A u \in Sellers : Keeping(u)' => Keeping(u) /\ SameLocals(u)
      BY <2>1, <2>5 DEF Keeping, Owns, SameLocals
    <2>10. KnownExclusively'
      BY <1>e, <2>1, <2>9, KeepersStay
    <2> QED BY <2>4, <2>8, <2>10
  <1>13. CASE ReleaseMemory(t)
    <2> DEFINE p == tasks[t].position
               i == tasks[t].instance
    <2>1. tasks[t].pc = "release memory" /\ UNCHANGED positions /\ Keeping(t)
      BY <1>13 DEF ReleaseMemory, Keeping
    <2>2. Moves(t, {}) /\ Keeps(t)
      BY <1>0, <1>13, Leads
    <2>3. /\ \A u \in Sellers \ {t} : tasks'[u] = tasks[u]
          /\ ~Owns(t)' /\ ~Keeping(t)'
      BY <2>2 DEF Moves, Owns, Keeping, Free
    <2>r. ReservesFirst'
      <3>1. tasks'[t].pc \in Free
        BY <2>2 DEF Moves
      <3> QED BY <1>0, <2>3, <3>1 DEF ReservesFirst, Free, Before
    <2>4. \A j \in Instances, q \in Positions : j # i \/ q # p => memory'[j][q] = memory[j][q]
      <3>1. CASE Remember(t, "open")
        BY <1>0, <3>1 DEF Remember
      <3>2. CASE UNCHANGED memory
        BY <3>2
      <3> QED BY <1>13, <3>1, <3>2 DEF ReleaseMemory
    <2>5. \A u \in Sellers : Owns(u)' => Owns(u) /\ SameLocals(u)
      BY <2>3 DEF Owns, SameLocals
    <2>6. \A u \in Sellers \ {t} : Keeping(u) =>
                /\ tasks[u].position \in Positions /\ tasks[u].instance \in Instances
                /\ tasks[u].instance # i \/ tasks[u].position # p
      BY <1>0, <2>1, Places DEF KnownExclusively
    <2>p. p \in Positions /\ i \in Instances
      BY <1>0, <2>1, Places
    <2> HIDE DEF p, i
    <2>7. SellersExclude'
      BY <1>e, <2>1, <2>5, OwnersStay
    <2>8. KnownExclusively'
      BY <1>e, <2>p, <2>3, <2>4, <2>6, KeeperWrites
    <2> QED BY <2>r, <2>7, <2>8
  <1> QED BY <1>1, <1>2, <1>3, <1>4, <1>5, <1>6, <1>7, <1>8, <1>9, <1>10, <1>11,
             <1>12, <1>13 DEF Step, Answers

LEMMA ReductionMoves ==
    ASSUME TypeInv, NEW t \in Reductions, Step(t)
    PROVE  \A u \in Tasks \ {t} : tasks'[u] = tasks[u]
  <1>1. tasks \in [Tasks -> Task] /\ LocalsFit /\ t \in Tasks
    BY Typing, TwoKinds DEF TypeInv
  <1>2. tasks[t].pc \in Free \cup ByBook
    BY <1>1 DEF LocalsFit, Busy, Fit
  <1>3. CASE \E p \in Positions, o \in Orders : TakeNext(t, p, o)
    BY <1>1, <1>3, Takings
  <1>4. CASE ~\E p \in Positions, o \in Orders : TakeNext(t, p, o)
    <2>1. Reserve(t) \/ ReserveRow(t) \/ ReserveMemory(t) \/ Close(t) \/ Commit(t)
      BY <1>2, <1>4
         DEF Step, Free, ByBook, CheckDuplicate, NewOrder, LedgerWrite, Asked, Refuse,
             PaperFill, PaperRaises, LiveAdd, LiveAnswer, Release, ReleaseRow,
             ReleaseMemory
    <2>2. \E places : Moves(t, places)
      BY <1>1, <2>1, Leads
    <2> QED BY <2>2 DEF Moves
  <1> QED BY <1>3, <1>4

\* The reduction opens no position and writes nobody else's locals.
LEMMA ReductionExcludes ==
    ASSUME ExclusionInv, NEW t \in Reductions, Step(t)
    PROVE  SellersExclude' /\ KnownExclusively' /\ ReservesFirst'
  <1>0. /\ tasks \in [Tasks -> Task] /\ positions \in [Positions -> {"open", "closing", "closed"}]
        /\ memory \in [Instances -> [Positions -> Held]]
        /\ LocalsFit /\ SellersExclude /\ KnownExclusively /\ ReservesFirst
        /\ t \in Tasks /\ t \notin Sellers /\ Sellers \subseteq Tasks
    BY Typing, TwoKinds DEF ExclusionInv, TypeInv
  <1>1. tasks[t].pc \in Free \cup ByBook
    BY <1>0 DEF LocalsFit, Busy, Fit
  <1>2. tasks[t].pc \notin Free =>
            tasks[t].instance \in Instances /\ tasks[t].position \in Positions
    BY <1>0 DEF LocalsFit, Busy
  <1>3. \A u \in Tasks \ {t} : tasks'[u] = tasks[u]
    BY ReductionMoves DEF ExclusionInv
  <1>4. \A u \in Sellers : tasks'[u] = tasks[u]
    BY <1>0, <1>3
  <1>r. ASSUME NEW status \in {"closing", "closed"}, Remember(t, status),
               tasks[t].pc \notin Free
        PROVE  \A i \in Instances, p \in Positions :
                    memory'[i][p] = memory[i][p] \/ memory'[i][p] # "open"
    BY <1>0, <1>2, <1>r DEF Remember
  <1>5. /\ \A p \in Positions : positions'[p] = positions[p] \/ positions'[p] # "open"
        /\ \A i \in Instances, p \in Positions :
                memory'[i][p] = memory[i][p] \/ memory'[i][p] # "open"
    <2>1. CASE ReserveRow(t)
      BY <1>0, <1>2, <2>1 DEF ReserveRow, Free
    <2>2. CASE ReserveMemory(t)
      BY <1>r, <2>2 DEF ReserveMemory, Free
    <2>3. CASE Commit(t)
      <3>1. \A p \in Positions : positions'[p] = positions[p] \/ positions'[p] # "open"
        BY <1>0, <1>2, <2>3 DEF Commit, Free
      <3>2. \/ Remember(t, "closed") \/ Remember(t, "closing") \/ memory' = memory
        BY <2>3 DEF Commit
      <3>3. tasks[t].pc \notin Free
        BY <2>3 DEF Commit, Free
      <3> QED BY <1>r, <3>1, <3>2, <3>3
    <2>4. CASE ~ReserveRow(t) /\ ~ReserveMemory(t) /\ ~Commit(t)
      <3>1. UNCHANGED <<positions, memory>>
        BY <1>1, <2>4 DEF Step, Free, ByBook, TakeNext, CheckDuplicate, Reserve, NewOrder,
              LedgerWrite, Refuse, PaperFill, PaperRaises, LiveAdd, LiveAnswer, Close,
              Release, ReleaseRow, ReleaseMemory, book
      <3> QED BY <3>1
    <2> QED BY <2>1, <2>2, <2>3, <2>4
  <1>6. SellersExclude'
    <2>1. \A u \in Sellers : Owns(u)' => Owns(u) /\ tasks[u].position \in Positions
      BY <1>0, <1>4, Places DEF Owns
    <2> QED BY <1>0, <1>4, <1>5, <2>1 DEF SellersExclude
  <1>7. KnownExclusively'
    <2>1. \A u \in Sellers : Keeping(u)' => /\ Keeping(u) /\ tasks[u].position \in Positions
                                           /\ tasks[u].instance \in Instances
      BY <1>0, <1>4, Places DEF Keeping, Owns
    <2> QED BY <1>0, <1>4, <1>5, <2>1 DEF KnownExclusively, Mine
  <1>8. ReservesFirst'
    BY <1>0, <1>4 DEF ReservesFirst
  <1> QED BY <1>6, <1>7, <1>8

LEMMA InitExcludes == Init => ExclusionInv
  <1> SUFFICES ASSUME Init PROVE ExclusionInv
    OBVIOUS
  <1>1. TypeInv
    BY InitTypes
  <1>2. \A t \in Tasks : tasks[t].pc = "idle"
    BY DEF Init, Rest
  <1>3. SellersExclude /\ KnownExclusively /\ ReservesFirst
    BY <1>2, TwoKinds DEF SellersExclude, KnownExclusively, ReservesFirst, Owns, Keeping, Before
  <1>4. DownTogether
    BY DEF Init, DownTogether, Started, Down
  <1> QED BY <1>1, <1>3, <1>4 DEF ExclusionInv

LEMMA NextExcludes ==
    ASSUME ExclusionInv, [Next]_vars
    PROVE  ExclusionInv'
  <1> USE TwoKinds
  <1>0. /\ TypeInv /\ TypeOK /\ LocalsFit /\ SellersExclude /\ KnownExclusively
        /\ ReservesFirst /\ DownTogether /\ recovery \in [Instances -> Start]
    BY Typing DEF ExclusionInv, TypeInv
  <1>t. TypeInv'
    BY <1>0, NextTypes
  <1>d. Loaded # Down /\ Started # Down /\ Stopped # Down
    BY DEF Loaded, Started, Stopped, Down
  <1>s. ASSUME SellersExclude', KnownExclusively', ReservesFirst', DownTogether'
        PROVE  ExclusionInv'
    BY <1>s, <1>t DEF ExclusionInv
  \* Steps that leave the coroutines and the reservations as they are.
  <1>u. ASSUME UNCHANGED <<positions, memory, tasks>>
        PROVE  SellersExclude' /\ KnownExclusively' /\ ReservesFirst'
    <2>1. \A u \in Sellers : Owns(u)' => Owns(u) /\ SameLocals(u)
      BY <1>u DEF Owns, SameLocals
    <2>2. \A u \in Sellers : Keeping(u)' => Keeping(u) /\ SameLocals(u)
      BY <1>u DEF Keeping, Owns, SameLocals
    <2>3. ReservesFirst'
      BY <1>0, <1>u DEF ReservesFirst
    <2> QED BY <1>0, <1>u, <2>1, <2>2, <2>3, OwnersStay, KeepersStay
  <1>1. CASE \E t \in Tasks, i \in Instances : Begin(t, i) \/ BeginReduction(t, i)
    <2>1. PICK t \in Tasks, i \in Instances : Begin(t, i) \/ BeginReduction(t, i)
      BY <1>1
    <2>2. /\ \A u \in Sellers \ {t} : tasks'[u] = tasks[u]
          /\ tasks'[t].pc \in {"next", "close", "reserve"}
          /\ t \in Sellers => tasks'[t].pc = "next"
          /\ recovery[i] \in {Started, Stopped}
          /\ UNCHANGED <<book, orders, venue>>
      BY <1>0, <2>1, Beginnings
    <2>3. Quiet(t)
      BY <2>2 DEF Quiet, Owns, Keeping, book, Sellers
    <2>4. SellersExclude' /\ KnownExclusively'
      BY <2>3, QuietExcludes
    <2>5. ReservesFirst'
      BY <1>0, <2>2 DEF ReservesFirst, Before
    <2>6. \A j \in Instances : recovery'[j] = recovery[j] /\ recovery[j] # Down
      BY <1>0, <1>d, <2>2 DEF DownTogether, venue
    <2>7. DownTogether'
      BY <2>6 DEF DownTogether
    <2> QED BY <1>s, <2>4, <2>5, <2>7
  <1>2. CASE \E t \in Tasks : Step(t)
    <2>1. PICK t \in Tasks : Step(t)
      BY <1>2
    <2>2. SellersExclude' /\ KnownExclusively' /\ ReservesFirst'
      BY <2>1, StepExcludes, ReductionExcludes
    <2>3. tasks[t].pc # "idle" /\ recovery' = recovery
      BY <2>1 DEF Step, TakeNext, CheckDuplicate, Reserve, ReserveRow, ReserveMemory,
                  NewOrder, LedgerWrite, Refuse, PaperFill, PaperRaises, LiveAdd,
                  LiveAnswer, Close, Commit, Release, ReleaseRow, ReleaseMemory, venue,
                  Asked
    <2>4. \A j \in Instances : recovery[j] # Down
      BY <1>0, <2>1, <2>3 DEF DownTogether
    <2>5. DownTogether'
      BY <2>3, <2>4 DEF DownTogether
    <2> QED BY <1>s, <2>2, <2>5
  <1>3. CASE \E i \in Instances : SaveState(i) \/ SaveWrites(i)
    <2>1. UNCHANGED <<positions, memory, tasks, recovery>>
      BY <1>3 DEF SaveState, SaveWrites, venue
    <2>2. DownTogether'
      BY <1>0, <2>1 DEF DownTogether
    <2> QED BY <1>s, <1>u, <2>1, <2>2
  <1>4. CASE \E i \in Instances : Stop(i)
    <2>1. PICK i \in Instances : Stop(i)
      BY <1>4
    <2>2. /\ recovery[i] = Started /\ recovery' = [recovery EXCEPT ![i] = Stopped]
          /\ UNCHANGED <<book, tasks>>
      BY <2>1 DEF Stop, Up
    <2>3. \A j \in Instances : recovery[j] # Down
      BY <1>0, <1>d, <2>2 DEF DownTogether
    <2>4. \A j \in Instances : recovery'[j] # Down
      BY <1>0, <1>d, <2>2, <2>3
    <2>5. DownTogether'
      BY <2>4 DEF DownTogether
    <2> QED BY <1>s, <1>u, <2>2, <2>5 DEF book
  <1>5. CASE \E i \in Instances : Recover(i)
    <2>1. PICK i \in Instances : Recover(i)
      BY <1>5
    <2>2. /\ recovery'[i] # Down /\ recovery[i] # Down
          /\ \A j \in Instances \ {i} : recovery'[j] = recovery[j]
          /\ UNCHANGED <<book, tasks, exchange, crashes>>
      BY <1>0, <2>1, RecoverTypes
    <2>3. DownTogether'
      BY <1>0, <2>2 DEF DownTogether
    <2> QED BY <1>s, <1>u, <2>2, <2>3 DEF book
  <1>6. CASE \/ \E o \in Orders : ExchangeSettles(o)
             \/ Acknowledge
             \/ UNCHANGED vars
    <2>1. UNCHANGED <<positions, memory, tasks, recovery>>
      BY <1>6 DEF ExchangeSettles, Acknowledge, vars, book
    <2>2. DownTogether'
      BY <1>0, <2>1 DEF DownTogether
    <2> QED BY <1>s, <1>u, <2>1, <2>2
  <1>7. CASE Crash
    <2>1. /\ \A t \in Tasks : tasks'[t].pc = "idle"
          /\ \A i \in Instances : recovery'[i] = Down
      BY <1>7 DEF Crash, Rest
    <2>2. SellersExclude' /\ KnownExclusively' /\ ReservesFirst'
      BY <2>1 DEF SellersExclude, KnownExclusively, ReservesFirst, Owns, Keeping, Before
    <2>3. DownTogether'
      BY <2>1 DEF DownTogether
    <2> QED BY <1>s, <2>2, <2>3
  <1>8. CASE Preflight
    <2>1. /\ \A i \in Instances : recovery[i] = Down
          /\ UNCHANGED <<positions, tasks>>
          /\ recovery' = recovery \/ recovery' = [i \in Instances |-> Loaded]
      BY <1>8 DEF Preflight
    <2>2. \A t \in Tasks : ~Keeping(t)
      <3>1. \A t \in Tasks : Keeping(t) => tasks[t].instance \in Instances /\ tasks[t].pc # "idle"
        BY <1>0, Places DEF Keeping, Owns
      <3> QED BY <1>0, <2>1, <3>1 DEF DownTogether
    <2>3. \A t \in Tasks : ~Keeping(t)'
      BY <2>1, <2>2 DEF Keeping, Owns
    <2>4. KnownExclusively'
      BY <2>3 DEF KnownExclusively
    <2>5. \A u \in Sellers : Owns(u)' => Owns(u) /\ SameLocals(u)
      BY <2>1 DEF Owns, SameLocals
    <2>6. SellersExclude' /\ ReservesFirst'
      BY <1>0, <2>1, <2>5, OwnersStay DEF ReservesFirst
    <2>7. DownTogether'
      <3>1. CASE recovery' = recovery
        BY <1>0, <2>1, <3>1 DEF DownTogether
      <3>2. CASE recovery' = [i \in Instances |-> Loaded]
        BY <1>d, <3>2 DEF DownTogether
      <3> QED BY <2>1, <3>1, <3>2
    <2> QED BY <1>s, <2>4, <2>6, <2>7
  <1> QED BY <1>1, <1>2, <1>3, <1>4, <1>5, <1>6, <1>7, <1>8 DEF Next

\* What a seller has reserved is its own, in the table and in the memory of its
\* instance, until it closes it or gives it back, whatever the reduction does.
THEOREM Exclusion == Spec => []ExclusionInv
  <1>1. ExclusionInv /\ [Next]_vars => ExclusionInv'
    BY NextExcludes
  <1> QED BY InitExcludes, <1>1, PTL DEF Spec

\* The durable reservation excludes, for every executor and with every fault:
\* no two coroutines, of one instance or of two, sell a position at a time, and
\* its row says closing, as long as nobody runs the reduction.
THEOREM ReservationExcludes ==
    ASSUME Reductions = {}
    PROVE  Spec => []ExclusiveReservation
  <1>1. ExclusionInv => ExclusiveReservation
    BY TwoKinds DEF ExclusionInv, SellersExclude, ExclusiveReservation
  <1> QED BY <1>1, Exclusion, PTL
=============================================================================
