---------------------------- MODULE PositionExit ----------------------------
(* How a position leaves the book.  Strategy signals, the orchestrator's     *)
(* take-profit / stop-loss / trailing exits and the drawdown reduction are   *)
(* coroutines of one process that race over the same positions; each runs    *)
(* duplicate guard, durable reservation, order, exchange call and close as   *)
(* separately awaited steps.  A crash drops them all at any step; instances  *)
(* then start again from the tables and settle the orders left behind.       *)
(* All positions are of one symbol and have the same volume, Requested.      *)
EXTENDS OrderStatus, FiniteSets, Totals

CONSTANTS
    Executor,               \* "observation", "paper" or "live"
    Instances, Positions, Orders,
    Signals,                \* concurrent SELL signal tasks
    Exits,                  \* the orchestrator's exit check
    Reductions,             \* the rebalance manager's drawdown reduction
    MaxFill,                \* bound: largest quantity the exchange reports
    MaxCrashes,             \* bound on process deaths
    StoreMayFail,           \* SQLite reads and writes may raise
    BusyStore               \* a write may sleep out a busy database, unlocked

None == "none"

ASSUME ExitAssumption ==
    /\ Signals \cap Exits = {} /\ (Signals \cup Exits) \cap Reductions = {}
    /\ None \notin Orders
    /\ Executor \in {"observation", "paper", "live"}
    /\ MaxFill \in Nat /\ MaxFill >= Requested
    /\ MaxCrashes \in Nat
    /\ StoreMayFail \in BOOLEAN /\ BusyStore \in BOOLEAN

\* The orders table is finite, however long it has grown.
ASSUME OrdersFinite == IsFiniteSet(Orders)

VARIABLES
    positions,              \* positions.status: position -> open, closing, closed
    trades,                 \* position -> sell rows in the trades table
    capital,                \* instance_state: row id -> position -> times credited
    memory,                 \* TradingInstanceAsync._positions: status, or absent
    held,                   \* _current_capital in memory, as a row of capital
    saving,                 \* capital snapshots the save_state calls have to write
    orders,                 \* the orders table
    exchange,               \* what the executor's venue did with each order
    tasks,                  \* locals of each coroutine
    recovery,               \* locals of each instance's start()
    halted,                 \* the kill switch, global and persisted
    crashes

vars == <<positions, trades, capital, memory, held, saving, orders, exchange,
          tasks, recovery, halted, crashes>>
book == <<positions, trades, capital, memory, held, saving>>
venue == <<exchange, recovery, halted, crashes>>

Tasks == Signals \cup Exits \cup Reductions
NotAnswered == -2           \* got before the executor has answered
Failed == -1                \* got for OrderResult(success=False)

NoRow == [status |-> "none", filled |-> 0, position |-> None, txid |-> FALSE]
Unplaced == [state |-> "absent", executed |-> 0, userref |-> FALSE]
Rest == [pc |-> "idle", instance |-> None, todo |-> {}, position |-> None,
         order |-> None, got |-> NotAnswered]
Down == [phase |-> "down", pending |-> {}, order |-> None, goal |-> None,
         fill |-> NoFill, at |-> None]
Loaded == [Down EXCEPT !.phase = "loaded"]
Started == [Down EXCEPT !.phase = "started"]
Stopped == [Down EXCEPT !.phase = "stopped"]

\* An instance draws a new id whenever the process starts, so a row of
\* instance_state belongs to one instance in one life of the process.
RowIds == Instances \X (0..MaxCrashes)
RowId(i) == <<i, crashes>>
Zero == [p \in Positions |-> 0]

\* Every position was bought by one of the running instances.
Init ==
    /\ positions = [p \in Positions |-> "open"]
    /\ trades = Zero
    /\ capital = [id \in RowIds |-> Zero]
    /\ held = [i \in Instances |-> Zero]
    /\ saving = [i \in Instances |-> {}]
    /\ memory \in [Instances -> [Positions -> {"absent", "open"}]]
    /\ \A p \in Positions : Cardinality({i \in Instances : memory[i][p] = "open"}) = 1
    /\ orders = [o \in Orders |-> NoRow]
    /\ exchange = [o \in Orders |-> Unplaced]
    /\ tasks = [t \in Tasks |-> Rest]
    /\ recovery = [i \in Instances |-> Started]
    /\ halted = FALSE /\ crashes = 0
-----------------------------------------------------------------------------
Up(i) == recovery[i] = Started
Mine(t) == memory[tasks[t].instance][tasks[t].position]
\* Mutant: the status in memory is left as it was.
Forgets(t, status) == UNCHANGED memory

Remember(t, status) ==
    memory' = [memory EXCEPT ![tasks[t].instance][tasks[t].position] = status]
Goto(t, pc) == tasks' = [tasks EXCEPT ![t].pc = pc]

\* The task is done with its position: on to the next of its snapshot.
Done(t) == tasks' = [tasks EXCEPT ![t] =
    IF @.todo = {} THEN Rest
    ELSE [@ EXCEPT !.pc = "next", !.position = None, !.order = None, !.got = NotAnswered]]
Continue(t, pc) == IF pc = "done" THEN Done(t) ELSE Goto(t, pc)

\* A task starts from a snapshot of the open positions of a running instance.
\* Signals are dropped under the kill switch; the main loop, with its exit
\* checks, comes after every start(); the reduction spares no stopped instance.
MayBegin(t, i) ==
    /\ tasks[t] = Rest
    /\ Up(i) \/ (t \in Reductions /\ recovery[i] = Stopped)
    /\ t \in Signals => ~halted
    /\ t \in Exits => \A j \in Instances : recovery[j] \in {Started, Stopped}

\* The parts of the open positions a task may be about: a signal sells the last
\* or all, an exit check those whose price is hit, the reduction half of them.
Chosen(t, open) ==
    CASE t \in Signals -> {todo \in SUBSET open : todo = open \/ Cardinality(todo) = 1}
      [] t \in Exits -> SUBSET open
      [] t \in Reductions -> {todo \in SUBSET open :
            Cardinality(todo) = IF Cardinality(open) < 2 THEN 1
                                ELSE Cardinality(open) \div 2}

Begin(t, i) ==
    /\ t \notin Reductions /\ MayBegin(t, i)
    /\ \E todo \in Chosen(t, {p \in Positions : memory[i][p] = "open"}) \ {{}} :
        tasks' = [tasks EXCEPT
            ![t] = [Rest EXCEPT !.pc = "next", !.instance = i, !.todo = todo]]
    /\ UNCHANGED <<book, orders, venue>>

\* The reduction calls close_position right after its snapshot: the first
\* position is still open unless it waits for a commit that holds the instance
\* lock, and the rest may have changed when their turn comes.
BeginReduction(t, i) ==
    LET busy == \E u \in Tasks : tasks[u].pc = "commit" /\ tasks[u].instance = i
    IN /\ t \in Reductions /\ MayBegin(t, i)
       /\ \E todo \in Chosen(t, {p \in Positions : memory[i][p] = "open"}) :
            \E p \in todo :
                tasks' = [tasks EXCEPT ![t] = [Rest EXCEPT
                    !.pc = IF busy THEN "close" ELSE "reserve",
                    !.instance = i, !.todo = todo \ {p}, !.position = p]]
       /\ UNCHANGED <<book, orders, venue>>

\* o is the uuid its order will have, should it come to write one.
TakeNext(t, p, o) ==
    /\ tasks[t].pc = "next" /\ p \in tasks[t].todo
    /\ orders[o] = NoRow /\ \A u \in Tasks : tasks[u].order # o
    /\ tasks' = [tasks EXCEPT ![t] =
            [@ EXCEPT !.pc = IF t \in Reductions THEN "close" ELSE "dup",
                      !.todo = tasks[t].todo \ {p}, !.position = p, !.order = o]]
    /\ UNCHANGED <<book, orders, venue>>

\* is_duplicate_active: a failed read answers [] and lets the task through.
CheckDuplicate(t) ==
    /\ tasks[t].pc = "dup"
    /\ LET active == \E o \in Orders : orders[o].status \in Open
       IN \/ /\ ~active \/ StoreMayFail
             /\ Goto(t, IF t \in Signals THEN "reserve" ELSE "new")
          \/ active /\ Done(t)
    /\ UNCHANGED <<book, orders, venue>>

\* What a close_position that returns None leads to: only the signal path
\* still writes to its order.
CloseFailed(t) == IF t \in Signals THEN "hold" ELSE "done"
Closing(t) == t \in Reductions \/ tasks[t].got # NotAnswered

\* Where reserve_position_close returns to: close_position, the signal before
\* it writes an order, or the exit that has already recorded SENT.
OnReserved(t) == IF Closing(t) THEN "commit"
                 ELSE IF t \in Signals THEN "new" ELSE "submit"
\* Mutant: the exit ignores that the reservation was refused.
SubmitsAnyway(t) == IF Closing(t) THEN CloseFailed(t)
                    ELSE IF t \in Signals THEN "done" ELSE "submit"
\* Mutant: the exit returns and leaves its order SENT.
LeavesOrderSent(t) == IF Closing(t) THEN CloseFailed(t) ELSE "done"

OnRefused(t) == IF Closing(t) THEN CloseFailed(t)
                ELSE IF t \in Signals THEN "done" ELSE "withdraw"

\* Mutant: closing an open position does not reserve its row first.
ClosesUnreserved(t) ==
    /\ tasks[t].pc = "reserve"
    /\ Continue(t, IF Mine(t) # "open" THEN OnRefused(t)
                   ELSE IF Closing(t) THEN "commit" ELSE "reserve row")
    /\ UNCHANGED <<book, orders, venue>>

Reserve(t) ==
    /\ tasks[t].pc = "reserve"
    /\ Continue(t, IF Mine(t) = "open" THEN "reserve row" ELSE OnRefused(t))
    /\ UNCHANGED <<book, orders, venue>>

\* Mutant: the UPDATE forgets its AND status = 'open'.
ReserveAnyRow(t) ==
    /\ tasks[t].pc = "reserve row"
    /\ positions' = [positions EXCEPT ![tasks[t].position] = "closing"]
    /\ Goto(t, "reserve memory")
    /\ UNCHANGED <<trades, capital, memory, held, saving, orders, venue>>

\* UPDATE ... SET status = 'closing' WHERE status = 'open', one row or refused.
ReserveRow(t) ==
    /\ tasks[t].pc = "reserve row"
    /\ \/ /\ positions[tasks[t].position] = "open"
          /\ positions' = [positions EXCEPT ![tasks[t].position] = "closing"]
          /\ Goto(t, "reserve memory")
       \/ /\ positions[tasks[t].position] # "open" \/ StoreMayFail
          /\ Continue(t, OnRefused(t))
          /\ UNCHANGED positions
    /\ UNCHANGED <<trades, capital, memory, held, saving, orders, venue>>

ReserveMemory(t) ==
    /\ tasks[t].pc = "reserve memory"
    /\ \/ Mine(t) = "open" /\ Remember(t, "closing") /\ Goto(t, OnReserved(t))
       \/ Mine(t) # "open" /\ Continue(t, OnRefused(t)) /\ UNCHANGED memory
    /\ UNCHANGED <<positions, trades, capital, held, saving, orders, venue>>
-----------------------------------------------------------------------------
\* new_order raises when the row is not persisted.  The exit catches that; the
\* signal task dies with its reservation standing.
NewOrder(t) ==
    /\ tasks[t].pc = "new"
    /\ \/ /\ orders' = [orders EXCEPT ![tasks[t].order] =
                [NoRow EXCEPT !.status = "NEW", !.position = tasks[t].position]]
          /\ Goto(t, "send")
       \/ /\ StoreMayFail /\ UNCHANGED orders
          /\ IF t \in Signals THEN tasks' = [tasks EXCEPT ![t] = Rest] ELSE Done(t)
    /\ UNCHANGED <<book, venue>>

\* The transition each awaited ledger call asks for.
Asked == [send |-> "SENT", withdraw |-> "REJECTED", reject |-> "REJECTED",
          ack |-> "ACK", unknown |-> "UNKNOWN", hold |-> "UNKNOWN",
          partial |-> "PARTIAL", filled |-> "FILLED"]
\* Mutant: the requested quantity is recorded as the executed one.
AskedRequested(t) == IF tasks[t].pc \in {"hold", "partial", "filled"}
                     THEN Requested ELSE NoFill

AskedFill(t) == IF tasks[t].pc \in {"hold", "partial", "filled"}
                THEN tasks[t].got ELSE NoFill

\* Mutant: any execution at all closes the position.
AnyFillCloses(t) ==
    IF tasks[t].got = 0 THEN {IF t \in Signals THEN "unknown" ELSE "reject"}
    ELSE {IF t \in Signals THEN "close" ELSE "filled"}

\* After ACK: a zero fill, an overfill, a partial and a full one part ways.  An
\* exit also stops when the exchange names no price for what it executed.
Acknowledged(t) ==
    LET got == tasks[t].got
        unpriced == IF t \in Exits /\ Executor = "live" THEN {"hold"} ELSE {}
    IN CASE got = 0 -> {IF t \in Signals THEN "unknown" ELSE "reject"}
         [] got > Requested -> {"hold"}
         [] got \in 1..(Requested - 1) -> {"partial"} \cup unpriced
         [] got = Requested -> {IF t \in Signals THEN "close" ELSE "filled"}
                               \cup unpriced

\* Mutant: an order whose acknowledgement is not recorded is given up.
GivesUpUnrecorded(t, ok) ==
    CASE tasks[t].pc = "send" /\ t \in Signals -> {"submit"}
      [] tasks[t].pc = "send" /\ t \in Exits -> {IF ok THEN "reserve" ELSE "done"}
      [] tasks[t].pc = "ack" -> IF ok THEN Acknowledged(t) ELSE {"release"}
      [] tasks[t].pc = "reject" -> {"release"}
      [] tasks[t].pc = "filled" /\ t \in Exits /\ ok -> {"close"}
      [] OTHER -> {"done"}

\* Mutant: a rejected order keeps its reservation.
NeverReleases(t, ok) ==
    CASE tasks[t].pc = "send" /\ t \in Signals -> {"submit"}
      [] tasks[t].pc = "send" /\ t \in Exits -> {IF ok THEN "reserve" ELSE "done"}
      [] tasks[t].pc = "ack" /\ ok -> Acknowledged(t)
      [] tasks[t].pc = "filled" /\ t \in Exits /\ ok -> {"close"}
      [] OTHER -> {"done"}

\* Where the coroutine goes with the reply.  Signals ignore that of SENT.
AfterWrite(t, ok) ==
    CASE tasks[t].pc = "send" /\ t \in Signals -> {"submit"}
      [] tasks[t].pc = "send" /\ t \in Exits -> {IF ok THEN "reserve" ELSE "done"}
      [] tasks[t].pc = "ack" /\ ok -> Acknowledged(t)
      [] tasks[t].pc = "ack" /\ ~ok -> {IF t \in Signals THEN "unknown" ELSE "done"}
      [] tasks[t].pc = "reject" /\ ok -> {"release"}
      [] tasks[t].pc = "filled" /\ t \in Exits /\ ok -> {"close"}
      [] OTHER -> {"done"}

\* One transition_order_state call and its reply; txid says the row knows the
\* exchange's id for the order.
Transition(o, to, fill, known, ok) ==
    /\ ok => Accepts(orders[o], to, fill)
    /\ ~ok => ~Accepts(orders[o], to, fill) \/ StoreMayFail
    /\ orders' = IF ~ok \/ ~Commits(orders[o], to, fill) THEN orders
                 ELSE [orders EXCEPT ![o] =
                        [Updated(orders[o], to, fill) EXCEPT !.txid = @ \/ known]]

LedgerWrite(t) ==
    /\ tasks[t].pc \in DOMAIN Asked
    /\ \E ok \in BOOLEAN :
        /\ Transition(tasks[t].order, Asked[tasks[t].pc], AskedFill(t),
                      tasks[t].got >= 0, ok)
        /\ \E pc \in AfterWrite(t, ok) : Continue(t, pc)
    /\ UNCHANGED <<book, venue>>
-----------------------------------------------------------------------------
\* The executor's answer: a quantity on success, Failed otherwise.
Reply(t, got) == tasks' = [tasks EXCEPT
    ![t].got = got, ![t].pc = IF got = Failed THEN "reject" ELSE "ack"]
Place(t, state, got) == exchange' = [exchange EXCEPT ![tasks[t].order] =
    [state |-> state, executed |-> got, userref |-> t \in Signals]]

\* Every refusal that happens before anything is sent; all the observation
\* executor ever answers.
Refuse(t) ==
    /\ tasks[t].pc = "submit"
    /\ Reply(t, Failed)
    /\ UNCHANGED <<book, orders, venue>>

\* The paper executor fills at once, in full, and saves the trade.
PaperFill(t) ==
    /\ Executor = "paper" /\ tasks[t].pc = "submit"
    /\ Place(t, "closed", Requested) /\ Reply(t, Requested)
    /\ UNCHANGED <<book, orders, recovery, halted, crashes>>

\* Saving the paper trade raises: the exit records UNKNOWN, a signal task dies.
PaperRaises(t) ==
    /\ Executor = "paper" /\ StoreMayFail /\ tasks[t].pc = "submit"
    /\ tasks' = [tasks EXCEPT ![t] = IF t \in Signals THEN Rest
                                     ELSE [@ EXCEPT !.pc = "unknown"]]
    /\ UNCHANGED <<book, orders, venue>>

\* The exchange accepts the order.  Either AddOrder's answer arrives and the
\* executor polls, or every retry fails and the order is reported as failed.
LiveAdd(t) ==
    /\ Executor = "live" /\ tasks[t].pc = "submit"
    /\ Place(t, "open", 0)
    /\ Goto(t, "wait") \/ Reply(t, Failed)
    /\ UNCHANGED <<book, orders, recovery, halted, crashes>>

\* _wait_for_execution: only "closed" is a success; 60 seconds and "canceled"
\* are not, and their answers carry no quantity.
LiveAnswer(t) ==
    /\ tasks[t].pc = "wait"
    /\ LET placed == exchange[tasks[t].order] IN
        \/ placed.state = "closed" /\ Reply(t, placed.executed)
        \/ Reply(t, Failed)
    /\ UNCHANGED <<book, orders, venue>>

\* The exchange works an open order off, or cancels what is left of it.
ExchangeSettles(o) ==
    /\ exchange[o].state = "open"
    /\ \/ \E q \in 0..MaxFill :
            exchange' = [exchange EXCEPT ![o].state = "closed", ![o].executed = q]
       \/ \E q \in 0..(Requested - 1) :
            exchange' = [exchange EXCEPT ![o].state = "canceled", ![o].executed = q]
    /\ UNCHANGED <<book, orders, tasks, recovery, halted, crashes>>
-----------------------------------------------------------------------------
\* close_position: reserve first when nobody has, then commit.
Close(t) ==
    /\ tasks[t].pc = "close"
    /\ Continue(t, CASE Mine(t) = "closing" -> "commit"
                     [] Mine(t) = "open" -> "reserve"
                     [] OTHER -> CloseFailed(t))
    /\ UNCHANGED <<book, orders, venue>>

\* One sell row per position, whoever inserted it.
RecordSale(p) == trades' = [trades EXCEPT ![p] = IF @ = 0 THEN 1 ELSE @]

\* close_position_and_record_trade and, in the same hold of the instance lock,
\* the assignments to memory that a confirmed write allows.  A position no
\* longer closing is refused, unless it changed while the fees were looked up.
Commit(t) ==
    LET i == tasks[t].instance
        p == tasks[t].position
    IN /\ tasks[t].pc = "commit"
       /\ \/ /\ Mine(t) \in {"open", "closing"}
             /\ positions' = [positions EXCEPT ![p] = "closed"]
             /\ RecordSale(p)
             /\ held' = [held EXCEPT ![i][p] = @ + 1]
             /\ capital' = [capital EXCEPT ![RowId(i)] = held'[i]]
             /\ Remember(t, "closed")
             /\ Continue(t, IF t \in Signals THEN "filled" ELSE "done")
          \/ /\ Mine(t) \in {"open", "closing"} /\ StoreMayFail
             /\ Remember(t, "closing") /\ Continue(t, CloseFailed(t))
             /\ UNCHANGED <<positions, trades, capital, held>>
          \/ /\ Mine(t) # "closing"
             /\ Continue(t, CloseFailed(t))
             /\ UNCHANGED <<positions, trades, capital, memory, held>>
       /\ UNCHANGED <<saving, orders, venue>>

Release(t) ==
    /\ tasks[t].pc = "release"
    /\ Continue(t, IF Mine(t) = "closing" THEN "release row" ELSE "done")
    /\ UNCHANGED <<book, orders, venue>>

\* The write lock serves in order of arrival: only a busy database lets this
\* write overtake a reservation that passed its memory check before.
ReleaseRow(t) ==
    /\ tasks[t].pc = "release row"
    /\ BusyStore \/ \A u \in Tasks : tasks[u].pc # "reserve row"
    /\ \/ /\ positions[tasks[t].position] = "closing"
          /\ positions' = [positions EXCEPT ![tasks[t].position] = "open"]
          /\ Goto(t, "release memory")
       \/ /\ positions[tasks[t].position] # "closing" \/ StoreMayFail
          /\ Done(t) /\ UNCHANGED positions
    /\ UNCHANGED <<trades, capital, memory, held, saving, orders, venue>>

ReleaseMemory(t) ==
    /\ tasks[t].pc = "release memory"
    /\ IF Mine(t) = "closing" THEN Remember(t, "open") ELSE UNCHANGED memory
    /\ Done(t)
    /\ UNCHANGED <<positions, trades, capital, held, saving, orders, venue>>

\* save_state copies the capital under the instance lock and writes the copy
\* after it let the lock go.  A write that meets a busy database sleeps outside
\* every lock and tries again, or gives up; else it finds nothing new to write.
SaveState(i) ==
    /\ BusyStore /\ Up(i)
    /\ saving' = [saving EXCEPT ![i] = @ \cup {held[i]}]
    /\ UNCHANGED <<positions, trades, capital, memory, held, orders, tasks, venue>>

SaveWrites(i) ==
    /\ \E copy \in saving[i] :
        /\ saving' = [saving EXCEPT ![i] = @ \ {copy}]
        /\ capital' = [capital EXCEPT ![RowId(i)] = copy] \/ UNCHANGED capital
    /\ UNCHANGED <<positions, trades, memory, held, orders, tasks, venue>>
-----------------------------------------------------------------------------
\* The process dies: coroutines and memory vanish, the tables, the exchange
\* and the kill switch remain.
Crash ==
    /\ crashes < MaxCrashes /\ crashes' = crashes + 1
    /\ tasks' = [t \in Tasks |-> Rest]
    /\ recovery' = [i \in Instances |-> Down]
    /\ memory' = [i \in Instances |-> [p \in Positions |-> "absent"]]
    /\ held' = [i \in Instances |-> Zero]
    /\ saving' = [i \in Instances |-> {}]
    /\ UNCHANGED <<positions, trades, capital, orders, exchange, halted>>

\* An instance stops: its kill switch trips, after API failures or a failed
\* reconciliation, and tells the others through the global one, or its drawdown
\* is critical.  Coroutines under way go on; only a new process starts it again.
Stop(i) ==
    /\ Up(i)
    /\ recovery' = [recovery EXCEPT ![i] = Stopped]
    /\ halted' \in {halted, TRUE}
    /\ UNCHANGED <<book, orders, exchange, tasks, crashes>>

\* _preflight_instance_cold_recovery: before anything runs, every instance loads
\* the positions of its symbol, whoever bought them; no row of instance_state
\* has its new id.  Unread positions trip the kill switch and end the process.
Preflight ==
    /\ \A i \in Instances : recovery[i] = Down
    /\ \/ /\ memory' = [i \in Instances |-> [p \in Positions |->
                IF positions[p] = "closed" THEN "absent" ELSE positions[p]]]
          /\ recovery' = [i \in Instances |-> Loaded]
          /\ UNCHANGED halted
       \/ /\ StoreMayFail /\ halted' = TRUE
          /\ UNCHANGED <<memory, recovery>>
    /\ UNCHANGED <<positions, trades, capital, held, saving, orders, tasks,
                   exchange, crashes>>

\* recover() goes on with the orders left of its list; an instance whose kill
\* switch has tripped meanwhile ends up stopped.
Resume(phase, pending) ==
    CASE pending # {} -> [Down EXCEPT !.phase = phase, !.pending = pending]
      [] pending = {} /\ phase = "recovering" -> Started
      [] pending = {} /\ phase = "tripped" -> Stopped

\* start(), one instance after the other: recover() reads the pending orders of
\* all instances; unread, it trips the kill switch and goes on with none.
StartInstance(i) ==
    /\ recovery[i] = Loaded
    /\ \A j \in Instances : recovery[j].phase \notin {"recovering", "tripped"}
    /\ \/ /\ recovery' = [recovery EXCEPT ![i] = Resume("recovering",
                {<<o, orders[o].txid>> :
                    o \in {n \in Orders : orders[n].status \in Open}})]
          /\ UNCHANGED halted
       \/ /\ StoreMayFail /\ halted' = TRUE
          /\ recovery' = [recovery EXCEPT ![i] = Stopped]
    /\ UNCHANGED <<book, orders, tasks, exchange, crashes>>

\* What recover() concludes from the order the exchange returns: FILLED or
\* CANCELED with its quantity, ACK for all else.
Found(placed) ==
    CASE placed.state = "closed" /\ placed.executed > 0 -> <<"FILLED", placed.executed>>
      [] placed.state = "canceled" -> <<"CANCELED", placed.executed>>
      [] OTHER -> <<"ACK", NoFill>>

\* Mutant: no answer is taken for a proof of absence.
SilenceIsAbsence(o, txid) ==
    IF txid \/ exchange[o].userref THEN {Found(exchange[o])}
    ELSE {<<"REJECTED", NoFill>>}

\* Looked up by exchange id when the row has one, else by userref, which exits
\* never send.  Only the live executor may prove absence: REJECTED.  A lookup
\* without an answer is UNKNOWN.
Verdicts(o, txid) ==
    LET silence == {<<"UNKNOWN", NoFill>>} IN
    CASE txid \/ exchange[o].userref ->
            {Found(exchange[o])}
            \cup (IF StoreMayFail \/ Executor = "live" THEN silence ELSE {})
      [] ~(txid \/ exchange[o].userref) /\ Executor = "live" ->
            silence \cup {<<"REJECTED", NoFill>>}
      [] OTHER -> silence

\* One pending order: ACK and REJECTED are written as they are; for the others
\* the row is read first, and a settled row needs no write.  A read that raises
\* is a row that is not there.
RecoverLookup(i, o, txid) ==
    LET rest == recovery[i].pending \ {<<o, txid>>}
        status == orders[o].status
        trips(v) == v[1] = "UNKNOWN"
        phase(v) == IF trips(v) THEN "tripped" ELSE recovery[i].phase
    IN /\ recovery[i].order = None /\ <<o, txid>> \in recovery[i].pending
       /\ \E v \in Verdicts(o, txid) :
            \/ /\ v[1] \in {"ACK", "REJECTED"} \/ status \in Open \ {v[1]}
               /\ recovery' = [recovery EXCEPT ![i] =
                    [@ EXCEPT !.pending = rest, !.order = o, !.goal = v[1],
                        !.fill = v[2], !.at = IF v[1] \in {"ACK", "REJECTED"}
                                              THEN "direct" ELSE status]]
               /\ UNCHANGED halted
            \/ /\ v[1] \notin {"ACK", "REJECTED"}
               /\ status \in Terminal \cup {v[1]} \/ StoreMayFail
               /\ recovery' = [recovery EXCEPT ![i] = Resume(phase(v), rest)]
               /\ halted' = (halted \/ trips(v))
       /\ UNCHANGED <<book, orders, tasks, exchange, crashes>>

\* One awaited write towards the verdict; after the last, or a refused one, the
\* next order - and the kill switch, when the verdict was UNKNOWN.
RecoverHop(i) ==
    LET r == recovery[i]
        hop == NextHop(r.at, r.goal)
        trips == r.goal = "UNKNOWN"
        phase == IF trips THEN "tripped" ELSE r.phase
    IN /\ r.order # None
       /\ \E ok \in BOOLEAN :
            /\ Transition(r.order, hop, r.fill,
                          r.goal \in {"ACK", "FILLED", "CANCELED"}, ok)
            /\ \/ /\ ok /\ hop # r.goal
                  /\ recovery' = [recovery EXCEPT ![i].at = hop]
                  /\ UNCHANGED halted
               \/ /\ ~ok \/ hop = r.goal
                  /\ recovery' = [recovery EXCEPT ![i] = Resume(phase, r.pending)]
                  /\ halted' = (halted \/ trips)
       /\ UNCHANGED <<book, tasks, exchange, crashes>>

\* The operator's acknowledgement clears the global and every local switch, and
\* starts nothing that was stopped.
Acknowledge ==
    /\ halted /\ halted' = FALSE
    /\ UNCHANGED <<book, orders, exchange, tasks, recovery, crashes>>
-----------------------------------------------------------------------------
Step(t) ==
    \/ \E p \in Positions, o \in Orders : TakeNext(t, p, o)
    \/ CheckDuplicate(t) \/ Reserve(t) \/ ReserveRow(t) \/ ReserveMemory(t)
    \/ NewOrder(t) \/ LedgerWrite(t)
    \/ Refuse(t) \/ PaperFill(t) \/ PaperRaises(t) \/ LiveAdd(t) \/ LiveAnswer(t)
    \/ Close(t) \/ Commit(t) \/ Release(t) \/ ReleaseRow(t) \/ ReleaseMemory(t)

Recover(i) ==
    \/ StartInstance(i)
    \/ \E o \in Orders, txid \in BOOLEAN : RecoverLookup(i, o, txid)
    \/ RecoverHop(i)

Next ==
    \/ \E t \in Tasks, i \in Instances : Begin(t, i) \/ BeginReduction(t, i)
    \/ \E t \in Tasks : Step(t)
    \/ \E i \in Instances : SaveState(i) \/ SaveWrites(i) \/ Stop(i) \/ Recover(i)
    \/ \E o \in Orders : ExchangeSettles(o)
    \/ Crash
    \/ Preflight
    \/ Acknowledge

Spec == Init /\ [][Next]_vars

\* A started coroutine is a ready task of the event loop, and each of its waits
\* is for a call that returns: it keeps making steps.
LiveSpec == Spec /\ \A t \in Tasks : WF_vars(Step(t))
-----------------------------------------------------------------------------
Pcs == {"idle", "next", "dup", "reserve", "reserve row", "reserve memory", "new",
        "submit", "wait", "close", "commit", "release", "release row",
        "release memory"} \cup DOMAIN Asked

\* Types of the tables, of both memories and of every coroutine's locals.
TypeOK ==
    /\ positions \in [Positions -> {"open", "closing", "closed"}]
    /\ trades \in [Positions -> Nat]
    /\ capital \in [RowIds -> [Positions -> Nat]]
    /\ memory \in [Instances -> [Positions -> {"absent", "open", "closing", "closed"}]]
    /\ held \in [Instances -> [Positions -> Nat]]
    /\ \A i \in Instances : saving[i] \subseteq [Positions -> Nat]
    /\ orders \in [Orders -> [status : Statuses \cup {"none"}, filled : 0..MaxFill,
                              position : Positions \cup {None}, txid : BOOLEAN]]
    /\ exchange \in [Orders -> [state : {"absent", "open", "closed", "canceled"},
                                executed : 0..MaxFill, userref : BOOLEAN]]
    /\ tasks \in [Tasks -> [pc : Pcs, instance : Instances \cup {None},
                            todo : SUBSET Positions, position : Positions \cup {None},
                            order : Orders \cup {None}, got : NotAnswered..MaxFill]]
    /\ recovery \in [Instances -> [phase : {"down", "loaded", "recovering", "tripped",
                                 "started", "stopped"},
                        pending : SUBSET (Orders \X BOOLEAN),
                        order : Orders \cup {None}, goal : Statuses \cup {None},
                        fill : NoFill..MaxFill,
                        at : Statuses \cup {None, "direct"}]]
    /\ halted \in BOOLEAN /\ crashes \in 0..MaxCrashes

Sold(p) == Total([o \in {n \in Orders : orders[n].position = p} |->
                    exchange[o].executed])
Credited(p) == Total([id \in RowIds |-> capital[id][p]])

\* The task has won the position and has neither closed nor given it back.
Owns(t) ==
    \/ tasks[t].pc \in {"reserve memory", "submit", "wait", "ack", "reject", "unknown",
                        "hold", "partial", "commit", "release", "release row"}
    \/ t \in Signals /\ tasks[t].pc \in {"new", "send", "close"}
    \/ t \in Exits /\ tasks[t].pc \in {"filled", "close"}

\* The durable reservation excludes: while one coroutine sells a position, no
\* other coroutine of any instance is past its own reservation of it and the row
\* says closing, although each instance checks a memory of its own.
ExclusiveReservation ==
    \A t \in Tasks : Owns(t) =>
        /\ positions[tasks[t].position] = "closing"
        /\ \A u \in Tasks \ {t} : Owns(u) => tasks[u].position # tasks[t].position

\* Whatever task, instance or life of the process sends the orders, a position
\* is never sold for more than it holds.
AtMostOneSale == \A p \in Positions : Sold(p) <= Requested

\* A close reservation is given back only when nothing was executed: a position
\* that any order has sold, even in part, is not open for another exit.
SoldStaysReserved ==
    \A p \in Positions : Sold(p) > 0 => positions[p] # "open"

\* The book closes a position only after an order has sold all of it.
ClosedMeansSold ==
    \A p \in Positions : positions[p] = "closed" => Sold(p) >= Requested

\* An order the ledger settles as REJECTED never executes, then or later.
RejectedMeansUnsold ==
    \A o \in Orders : orders[o].status = "REJECTED" => exchange[o].executed = 0

\* Position, sell trade and instance capital move together: a closed position
\* has one sell row and is credited once over all the instance_state rows, and
\* one that is not closed has neither.
CloseIsWholeOnce ==
    \A p \in Positions :
        LET times == IF positions[p] = "closed" THEN 1 ELSE 0
        IN trades[p] = times /\ Credited(p) = times

\* The ledger never claims more than the exchange did: a recorded fill is a
\* lower bound, and FILLED is the whole of it.
LedgerNeverOverstates ==
    \A o \in Orders :
        /\ orders[o].filled <= exchange[o].executed
        /\ orders[o].status = "FILLED" => exchange[o].executed = Requested

\* A memory that says open or closing is never ahead of the table, save for the
\* coroutine between the two halves of a reservation: what an instance believes
\* free is what it read or wrote, and only another instance can make it stale.
MemoryAgrees ==
    \A i \in Instances, p \in Positions :
        \/ memory[i][p] \in {"absent", positions[p]}
        \/ \E t \in Tasks : /\ tasks[t].pc \in {"reserve memory", "release memory"}
                            /\ tasks[t].position = p

\* Without faults a reservation is transient: the position closes or opens again.
ReservationEnds ==
    \A p \in Positions : positions[p] = "closing" ~> positions[p] # "closing"

\* Without faults every order reaches a terminal status, so the duplicate guard
\* does not block the symbol for ever.
OrdersSettle ==
    \A o \in Orders : orders[o].status \in Open ~> orders[o].status \in Terminal
=============================================================================
