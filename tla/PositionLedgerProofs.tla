------------------------ MODULE PositionLedgerProofs ------------------------
(* Proofs of what PositionExit says of orders, sales, closes and memory: the  *)
(* ledger never overstates what was executed, a position is sold once, stays  *)
(* reserved and is closed whole and only when sold, a rejected order is       *)
(* unsold, and a single instance's memory is true.  Each theorem names what   *)
(* it needs beyond the assumptions on the constants.                          *)
EXTENDS PositionExitProofs, TotalsProofs

\* Nothing has been sent for the order yet, or the answer is still awaited.
Fresh == {"dup", "new", "send", "submit", "wait"}

\* Where a task has a row in the ledger for its order.
Rowed(t, pc) == \/ pc \in {"send", "submit"}
                \/ t \in Exits /\ pc \notin Free \cup {"dup", "new"}

\* The orders of two tasks differ.
OrdersDiffer ==
    \A t, u \in Tasks :
        t # u /\ tasks[t].order # None => tasks[u].order # tasks[t].order

\* An answer is what the exchange has executed.
AnswersTrue ==
    \A t \in Tasks : tasks[t].got >= 0 =>
        /\ tasks[t].order \in Orders
        /\ exchange[tasks[t].order].state = "closed"
        /\ exchange[tasks[t].order].executed = tasks[t].got

\* Before the answer, and before the wait for it, the exchange knows no order.
UnsentAbsent ==
    \A t \in Tasks :
        /\ tasks[t].order \in Orders /\ tasks[t].got = NotAnswered /\ tasks[t].pc # "wait"
              => exchange[tasks[t].order].state = "absent"
        /\ tasks[t].pc \in Fresh => tasks[t].got = NotAnswered

\* Nothing is sent without a row.
RowsFirst ==
    \A t \in Tasks : Rowed(t, tasks[t].pc) => orders[tasks[t].order].status # "none"

OrdersFit == OrdersDiffer /\ AnswersTrue /\ UnsentAbsent /\ RowsFirst

\* Nothing is executed for an order that is absent or still open, and only an
\* order with a row is ever sent.
VenueFits ==
    \A o \in Orders :
        /\ exchange[o].state \in {"absent", "open"} => exchange[o].executed = 0
        /\ orders[o].status = "none" => exchange[o].state = "absent"

\* A quantity that recovery is about to write is final at the exchange.
RecoveryFits ==
    \A i \in Instances : recovery[i].fill # NoFill =>
        /\ recovery[i].order \in Orders
        /\ exchange[recovery[i].order].state \in {"closed", "canceled"}
        /\ exchange[recovery[i].order].executed = recovery[i].fill

LedgerInv == /\ TypeInv /\ OrdersFit /\ VenueFits /\ RecoveryFits
             /\ LedgerNeverOverstates

\* A step that writes one status and quantity, and only what was executed.
WritesTruth(to, fill) ==
    \A n \in Orders : orders'[n] = orders[n]
        \/ /\ orders[n].status \in Statuses
           /\ FillFits(orders[n], to, fill)
           /\ orders'[n].status = to
           /\ orders'[n].filled = IF fill = NoFill THEN orders[n].filled ELSE fill
           /\ fill # NoFill => exchange[n].executed = fill

LEMMA TruthStays ==
    ASSUME TypeOK, VenueFits, LedgerNeverOverstates, NEW to \in Statuses, NEW fill,
           exchange' = exchange, WritesTruth(to, fill)
    PROVE  VenueFits' /\ LedgerNeverOverstates'
  <1>1. ASSUME NEW n \in Orders
        PROVE  /\ orders'[n].filled <= exchange'[n].executed
               /\ orders'[n].status = "FILLED" => exchange'[n].executed = Requested
               /\ orders'[n].status = "none" => orders[n].status = "none"
    <2>1. CASE orders'[n] = orders[n]
      BY <2>1 DEF LedgerNeverOverstates
    <2>2. CASE orders'[n] # orders[n]
      <3>1. /\ FillFits(orders[n], to, fill) /\ orders'[n].status = to
            /\ orders'[n].filled = IF fill = NoFill THEN orders[n].filled ELSE fill
            /\ fill # NoFill => exchange[n].executed = fill
        BY <2>2 DEF WritesTruth
      <3>2. to # "none"
        BY DEF Statuses, Open, Terminal
      <3>3. CASE fill = NoFill
        <4>1. to # "FILLED"
          BY <3>1, <3>3 DEF FillFits
        <4> QED BY <3>1, <3>2, <3>3, <4>1 DEF LedgerNeverOverstates
      <3>4. CASE fill # NoFill
        <4>1. to = "FILLED" => fill = Requested
          BY <3>1, <3>4 DEF FillFits
        <4>2. exchange[n].executed <= exchange[n].executed
          <5>1. exchange[n] \in Placed
            BY Typing
          <5> QED BY <5>1, ExitAssumption DEF Placed
        <4> QED BY <3>1, <3>2, <3>4, <4>1, <4>2
      <3> QED BY <3>3, <3>4
    <2> QED BY <2>1, <2>2
  <1> QED BY <1>1 DEF VenueFits, LedgerNeverOverstates

\* Moves of a task whose order's row stays, at the exchange as in the ledger.
LEMMA MovesOrders ==
    ASSUME TypeInv, OrdersFit, NEW t \in Tasks, NEW places,
           Moves(t, places), Keeps(t), tasks[t].pc # "wait",
           \A pc \in places : /\ pc # "wait" /\ pc \notin Free
                              /\ pc \in Fresh => tasks[t].got = NotAnswered
                              /\ Rowed(t, pc) => orders'[tasks[t].order].status # "none",
           exchange' = exchange,
           \A o \in Orders : orders'[o].status = "none" => orders[o].status = "none"
    PROVE  OrdersFit'
  <1>0. /\ \A u \in Tasks \ {t} : tasks'[u] = tasks[u]
        /\ OrdersDiffer /\ AnswersTrue /\ UnsentAbsent /\ RowsFirst /\ LocalsFit
    BY DEF OrdersFit, Moves, TypeInv
  <1>n. None \notin Orders
    BY ExitAssumption
  <1>1. \/ /\ tasks'[t].pc \in Free /\ tasks'[t].order = None
           /\ tasks'[t].got = NotAnswered
        \/ /\ tasks'[t].pc \in places /\ tasks'[t].order = tasks[t].order
           /\ tasks'[t].got = tasks[t].got
    BY DEF Moves, Keeps, SameLocals
  <1>2. \A u \in Tasks : \/ tasks'[u].order = None /\ tasks'[u].got = NotAnswered
                         \/ /\ tasks'[u].order = tasks[u].order
                            /\ tasks'[u].got = tasks[u].got
    BY <1>0, <1>1
  <1>3. OrdersDiffer'
    BY <1>0, <1>2 DEF OrdersDiffer
  <1>4. AnswersTrue'
    BY <1>0, <1>2 DEF AnswersTrue, NotAnswered
  <1>5. UnsentAbsent'
    <2>1. CASE /\ tasks'[t].pc \in Free /\ tasks'[t].order = None
               /\ tasks'[t].got = NotAnswered
      <3>1. tasks'[t].order \notin Orders /\ tasks'[t].pc \notin Fresh
        BY <1>n, <2>1 DEF Fresh, Free
      <3> QED BY <1>0, <3>1 DEF UnsentAbsent
    <2>2. CASE /\ tasks'[t].pc \in places /\ tasks'[t].order = tasks[t].order
               /\ tasks'[t].got = tasks[t].got
      BY <1>0, <2>2 DEF UnsentAbsent
    <2> QED BY <1>1, <2>1, <2>2
  <1>6. RowsFirst'
    <2>1. ASSUME NEW u \in Tasks \ {t}, Rowed(u, tasks[u].pc)
          PROVE  orders'[tasks[u].order].status # "none"
      <3>1. orders[tasks[u].order].status # "none"
        BY <1>0, <2>1 DEF RowsFirst
      <3>2. tasks[u].order \in Orders
        <4>1. u \notin Reductions /\ Busy(u)
          BY <1>0, <2>1, ExitAssumption DEF LocalsFit, Rowed, Fit, Busy, Free, ByBook
        <4> QED BY <1>0, <4>1 DEF LocalsFit
      <3> QED BY <3>1, <3>2
    <2>2. Rowed(t, tasks'[t].pc) => orders'[tasks'[t].order].status # "none"
      <3>1. CASE tasks'[t].pc \in Free
        BY <3>1 DEF Rowed, Free
      <3>2. CASE /\ tasks'[t].pc \in places /\ tasks'[t].order = tasks[t].order
        BY <3>2
      <3> QED BY <1>1, <3>1, <3>2
    <2>3. \A u \in Tasks \ {t} : Rowed(u, tasks'[u].pc)
                                  => orders'[tasks'[u].order].status # "none"
      BY <1>0, <2>1
    <2> QED BY <2>2, <2>3 DEF RowsFirst
  <1> QED BY <1>3, <1>4, <1>5, <1>6 DEF OrdersFit

\* A ledger call that asks for no quantity, or for the one executed.
LEMMA TransitionTrue ==
    ASSUME TypeOK, NEW o, NEW to \in Statuses, NEW fill \in NoFill..MaxFill,
           NEW known \in BOOLEAN, NEW ok \in BOOLEAN,
           Transition(o, to, fill, known, ok),
           fill # NoFill => exchange[o].executed = fill
    PROVE  /\ WritesTruth(to, fill)
           /\ \A n \in Orders : orders'[n].status = "none" => orders[n].status = "none"
  <1>1. orders \in [Orders -> Row]
    BY Typing
  <1>2. \A n \in Orders : orders'[n] = orders[n]
                \/ /\ n = o /\ ok
                   /\ orders[n].status \in Statuses
                   /\ FillFits(orders[n], to, fill)
                   /\ orders'[n].status = to
                   /\ orders'[n].filled = IF fill = NoFill THEN orders[n].filled
                                                           ELSE fill
    BY <1>1, Transitions
  <1>3. to # "none"
    BY DEF Statuses, Open, Terminal
  <1> QED BY <1>2, <1>3 DEF WritesTruth

LEMMA StepLedger ==
    ASSUME LedgerInv, NEW t \in Tasks, Step(t), ~Answers(t),
           ~\E p \in Positions, o \in Orders : TakeNext(t, p, o)
    PROVE  OrdersFit' /\ VenueFits' /\ RecoveryFits' /\ LedgerNeverOverstates'
  <1>0. /\ tasks \in [Tasks -> Task] /\ orders \in [Orders -> Row]
        /\ exchange \in [Orders -> Placed] /\ TypeOK /\ LocalsFit /\ TypeInv
        /\ OrdersFit /\ VenueFits /\ RecoveryFits /\ LedgerNeverOverstates
        /\ UnsentAbsent /\ RowsFirst /\ AnswersTrue
    BY Typing DEF LedgerInv, TypeInv, OrdersFit
  <1>v. exchange' = exchange /\ recovery' = recovery
    BY DEF Step, Answers, TakeNext, CheckDuplicate, Reserve, ReserveRow, ReserveMemory,
           NewOrder, LedgerWrite, Close, Commit, Release, ReleaseRow, ReleaseMemory, venue
  <1>r. RecoveryFits'
    BY <1>0, <1>v DEF RecoveryFits
  <1>e. t \in Exits /\ tasks[t].pc \notin Free \cup {"dup", "new"}
            => orders[tasks[t].order].status # "none"
    BY <1>0 DEF RowsFirst, Rowed
  <1>k. Signals \cap Exits = {}
    BY ExitAssumption
  <1>p. ASSUME NEW places, Moves(t, places), Keeps(t), orders' = orders,
               tasks[t].pc \notin Free \cup {"new", "wait"},
               \A pc \in places :
                    /\ pc \notin Free \cup {"wait", "send"}
                    /\ pc \in Fresh => tasks[t].got = NotAnswered
                    /\ pc = "submit" => t \in Exits
                    /\ tasks[t].pc = "dup" => t \notin Exits \/ pc = "new"
        PROVE  OrdersFit' /\ VenueFits' /\ RecoveryFits' /\ LedgerNeverOverstates'
    <2>1. \A pc \in places : Rowed(t, pc) => orders'[tasks[t].order].status # "none"
      BY <1>e, <1>p DEF Rowed
    <2>2. OrdersFit'
      BY <1>0, <1>v, <1>p, <2>1, MovesOrders
    <2>3. VenueFits' /\ LedgerNeverOverstates'
      BY <1>0, <1>v, <1>p DEF VenueFits, LedgerNeverOverstates
    <2> QED BY <1>r, <2>2, <2>3
  <1>2. CASE CheckDuplicate(t)
    <2> DEFINE places == {IF t \in Signals THEN "reserve" ELSE "new"}
    <2>1. tasks[t].pc = "dup" /\ orders' = orders
      BY <1>2 DEF CheckDuplicate
    <2>2. Moves(t, places) /\ Keeps(t)
      BY <1>0, <1>2, Leads
    <2>3. tasks[t].got = NotAnswered
      BY <1>0, <2>1 DEF UnsentAbsent, Fresh
    <2>4. \A pc \in places :
                    /\ pc \notin Free \cup {"wait", "send"}
                    /\ pc = "submit" => t \in Exits
                    /\ tasks[t].pc = "dup" => t \notin Exits \/ pc = "new"
      BY <1>k DEF Free
    <2> HIDE DEF places
    <2> QED BY <1>p, <2>1, <2>2, <2>3, <2>4 DEF Free
  \* Nothing these steps lead to is sent afresh.
  <1>q. ASSUME NEW places, Moves(t, places), Keeps(t), orders' = orders,
               tasks[t].pc \notin Free \cup {"dup", "new", "wait"},
               places \cap (Free \cup Fresh) = {}
        PROVE  OrdersFit' /\ VenueFits' /\ RecoveryFits' /\ LedgerNeverOverstates'
    BY <1>p, <1>q DEF Fresh
  <1>f. Refused(t) \cap (Free \cup Fresh) = {} /\ Failing(t) \cap (Free \cup Fresh) = {}
    BY DEF Refused, Failing, Free, Fresh
  <1>3. CASE Reserve(t)
    <2> DEFINE places == {"reserve row"} \cup Refused(t)
    <2>1. tasks[t].pc = "reserve" /\ orders' = orders
      BY <1>3 DEF Reserve
    <2>2. Moves(t, places) /\ Keeps(t)
      BY <1>0, <1>3, Leads
    <2>3. places \cap (Free \cup Fresh) = {}
      BY <1>f DEF Free, Fresh
    <2> HIDE DEF places
    <2> QED BY <1>q, <2>1, <2>2, <2>3 DEF Free
  <1>4. CASE ReserveRow(t)
    <2> DEFINE places == {"reserve memory"} \cup Refused(t)
    <2>1. tasks[t].pc = "reserve row" /\ orders' = orders
      BY <1>4 DEF ReserveRow
    <2>2. Moves(t, places) /\ Keeps(t)
      BY <1>0, <1>4, Leads
    <2>3. places \cap (Free \cup Fresh) = {}
      BY <1>f DEF Free, Fresh
    <2> HIDE DEF places
    <2> QED BY <1>q, <2>1, <2>2, <2>3 DEF Free
  <1>5. CASE ReserveMemory(t)
    <2> DEFINE places == {OnReserved(t)} \cup Refused(t)
    <2>1. tasks[t].pc = "reserve memory" /\ orders' = orders
      BY <1>5 DEF ReserveMemory
    <2>2. Moves(t, places) /\ Keeps(t)
      BY <1>0, <1>5, Leads
    <2>3. \A pc \in places :
                    /\ pc \notin Free \cup {"wait", "send"}
                    /\ pc \in Fresh => tasks[t].got = NotAnswered
                    /\ pc = "submit" => t \in Exits
      <3>1. /\ OnReserved(t) \in {"commit", "new", "submit"}
            /\ OnReserved(t) \in Fresh => tasks[t].got = NotAnswered
        BY DEF OnReserved, Closing, Fresh
      <3>2. OnReserved(t) = "submit" => t \in Exits
        BY Targets, <1>k DEF OnReserved, Tasks, Closing
      <3>3. OnReserved(t) \notin Free \cup {"wait", "send"}
        BY <3>1 DEF Free
      <3>4. \A pc \in Refused(t) : pc \notin Free \cup Fresh
        BY <1>f
      <3>5. {"wait", "send", "submit"} \subseteq Fresh
        BY DEF Fresh
      <3> QED BY <3>1, <3>2, <3>3, <3>4, <3>5
    <2> HIDE DEF places
    <2> QED BY <1>p, <2>1, <2>2, <2>3 DEF Free
  <1>6. CASE Close(t)
    <2> DEFINE places == {"commit", "reserve"} \cup Failing(t)
    <2>1. tasks[t].pc = "close" /\ orders' = orders
      BY <1>6 DEF Close
    <2>2. Moves(t, places) /\ Keeps(t)
      BY <1>0, <1>6, Leads
    <2>3. places \cap (Free \cup Fresh) = {}
      BY <1>f DEF Free, Fresh
    <2> HIDE DEF places
    <2> QED BY <1>q, <2>1, <2>2, <2>3 DEF Free
  <1>7. CASE Commit(t)
    <2> DEFINE places == IF t \in Signals THEN {"filled", "hold"} ELSE {}
    <2>1. tasks[t].pc = "commit" /\ orders' = orders
      BY <1>7 DEF Commit
    <2>2. Moves(t, places) /\ Keeps(t)
      BY <1>0, <1>7, Leads
    <2>3. places \cap (Free \cup Fresh) = {}
      BY DEF Free, Fresh
    <2> HIDE DEF places
    <2> QED BY <1>q, <2>1, <2>2, <2>3 DEF Free
  <1>8. CASE Release(t)
    <2> DEFINE places == {"release row"}
    <2>1. tasks[t].pc = "release" /\ orders' = orders
      BY <1>8 DEF Release
    <2>2. Moves(t, places) /\ Keeps(t)
      BY <1>0, <1>8, Leads
    <2>3. places \cap (Free \cup Fresh) = {}
      BY DEF Free, Fresh
    <2> HIDE DEF places
    <2> QED BY <1>q, <2>1, <2>2, <2>3 DEF Free
  <1>9. CASE ReleaseRow(t)
    <2> DEFINE places == {"release memory"}
    <2>1. tasks[t].pc = "release row" /\ orders' = orders
      BY <1>9 DEF ReleaseRow
    <2>2. Moves(t, places) /\ Keeps(t)
      BY <1>0, <1>9, Leads
    <2>3. places \cap (Free \cup Fresh) = {}
      BY DEF Free, Fresh
    <2> HIDE DEF places
    <2> QED BY <1>q, <2>1, <2>2, <2>3 DEF Free
  <1>10. CASE ReleaseMemory(t)
    <2> DEFINE places == {}
    <2>1. tasks[t].pc = "release memory" /\ orders' = orders
      BY <1>10 DEF ReleaseMemory
    <2>2. Moves(t, places) /\ Keeps(t)
      BY <1>0, <1>10, Leads
    <2>3. places \cap (Free \cup Fresh) = {}
      OBVIOUS
    <2> HIDE DEF places
    <2> QED BY <1>q, <2>1, <2>2, <2>3 DEF Free
  <1>11. CASE NewOrder(t)
    <2>1. tasks[t].pc = "new"
      BY <1>11 DEF NewOrder
    <2>2. tasks[t].got = NotAnswered /\ tasks[t].order \in Orders
      <3>1. t \notin Reductions /\ Busy(t)
        BY <1>0, <2>1 DEF LocalsFit, Busy, Free, Fit, ByBook
      <3> QED BY <1>0, <2>1, <3>1 DEF UnsentAbsent, Fresh, LocalsFit
    <2>3. CASE /\ orders' = orders
               /\ tasks' = [tasks EXCEPT ![t] = Rest] \/ Done(t)
      <3> DEFINE places == {}
      <3>1. Moves(t, places) /\ Keeps(t)
        BY <1>0, <2>3, RestMoves, DoneMoves
      <3> HIDE DEF places
      <3>2. \A pc \in places : FALSE
        BY DEF places
      <3>3. OrdersFit'
        BY <1>0, <1>v, <2>1, <2>3, <3>1, <3>2, MovesOrders
      <3> QED BY <1>0, <1>r, <1>v, <2>3, <3>3 DEF VenueFits, LedgerNeverOverstates
    <2>4. CASE /\ Goto(t, "send")
               /\ orders' = [orders EXCEPT ![tasks[t].order] =
                    [NoRow EXCEPT !.status = "NEW", !.position = tasks[t].position]]
      <3> DEFINE o == tasks[t].order
                 new == [NoRow EXCEPT !.status = "NEW", !.position = tasks[t].position]
                 places == {"send"}
      <3>1. Goto(t, "send") /\ orders' = [orders EXCEPT ![o] = new]
        BY <2>4
      <3>2. new.status = "NEW" /\ new.filled = 0
        BY DEF NoRow
      <3> HIDE DEF new
      <3>3. /\ orders'[o].status = "NEW" /\ orders'[o].filled = 0
            /\ \A n \in Orders \ {o} : orders'[n] = orders[n]
        BY <1>0, <2>2, <3>1, <3>2
      <3>4. Moves(t, places) /\ Keeps(t)
        <4>1. "send" \in Pcs
          BY DEF Pcs, Asked
        <4> QED BY <1>0, <3>1, <4>1, GotoMoves
      <3>5. \A pc \in places : /\ pc # "wait" /\ pc \notin Free
                               /\ pc \in Fresh => tasks[t].got = NotAnswered
                               /\ Rowed(t, pc) => orders'[tasks[t].order].status # "none"
        BY <2>2, <3>3 DEF Free
      <3>6. \A n \in Orders : orders'[n].status = "none" => orders[n].status = "none"
        BY <3>3
      <3> HIDE DEF places
      <3>7. OrdersFit'
        BY <1>0, <1>v, <2>1, <3>4, <3>5, <3>6, MovesOrders
      <3>8. VenueFits'
        BY <1>0, <1>v, <3>6 DEF VenueFits
      <3>9. LedgerNeverOverstates'
        <4>1. exchange[o].executed \in 0..MaxFill
          BY <1>0, <2>2 DEF Placed
        <4>2. 0 <= exchange[o].executed
          BY <4>1, ExitAssumption
        <4> HIDE DEF o
        <4> QED BY <1>0, <1>v, <3>3, <4>2 DEF LedgerNeverOverstates
      <3> QED BY <1>r, <3>7, <3>8, <3>9
    <2> QED BY <1>11, <2>3, <2>4 DEF NewOrder
  <1>12. CASE LedgerWrite(t)
    <2> DEFINE o == tasks[t].order
               to == Asked[tasks[t].pc]
               fill == AskedFill(t)
               goes(pc) ==
                 /\ pc \in {"done", "submit", "reserve", "hold", "partial", "unknown",
                           "close", "reject", "filled", "release"}
                 /\ pc = "submit" => tasks[t].pc = "send"
    <2>1. /\ o \in Orders /\ to \in Statuses /\ fill \in NoFill..MaxFill
          /\ tasks[t].pc \in {"send", "ack", "reject", "filled", "withdraw", "unknown",
                             "hold", "partial"}
      BY <1>0, <1>12, Writes DEF LedgerWrite, Asked
    <2>2. PICK ok \in BOOLEAN, pc \in Pcs \cup {"done"} :
            /\ Transition(o, to, fill, tasks[t].got >= 0, ok)
            /\ Moves(t, {pc} \ {"done"}) /\ Keeps(t)
            /\ goes(pc)
      <3>1. PICK ok \in BOOLEAN, pc \in Pcs \cup {"done"} :
                /\ Transition(tasks[t].order, Asked[tasks[t].pc], AskedFill(t),
                              tasks[t].got >= 0, ok)
                /\ Moves(t, {pc} \ {"done"}) /\ Keeps(t)
                /\ tasks[t].pc = "send" => pc \in {"done"}
                     \cup (IF t \in Signals THEN {"submit"} ELSE {})
                     \cup (IF t \in Exits THEN {"reserve"} ELSE {})
                /\ tasks[t].pc = "ack" => pc \in {"done", "hold", "partial"}
                     \cup (IF t \in Signals THEN {"unknown", "close"}
                           ELSE {"reject", "filled"})
                /\ tasks[t].pc = "reject" => pc \in {"done", "release"}
                /\ tasks[t].pc = "filled" => pc \in {"done"}
                     \cup (IF t \in Exits THEN {"close"} ELSE {})
                /\ tasks[t].pc \in {"withdraw", "unknown", "hold", "partial"}
                     => pc = "done"
        BY <1>0, <1>12, Writes
      <3>2. goes(pc)
        BY <2>1, <3>1
      <3> QED BY <3>1, <3>2
    <2>3. PICK known \in BOOLEAN : Transition(o, to, fill, known, ok)
      <3>1. CASE tasks[t].got >= 0
        <4>1. (tasks[t].got >= 0) = TRUE
          BY <3>1
        <4> QED BY <2>2, <4>1, Zenon
      <3>2. CASE ~(tasks[t].got >= 0)
        <4>1. (tasks[t].got >= 0) = FALSE
          BY <3>2
        <4> QED BY <2>2, <4>1, Zenon
      <3> QED BY <3>1, <3>2
    <2>4. fill # NoFill => exchange[o].executed = fill
      <3>1. CASE tasks[t].pc \in {"hold", "partial", "filled"}
        <4>1. Fit(t, tasks[t].pc, tasks[t].got)
          BY <1>0, <3>1 DEF LocalsFit, Busy, Free
        <4>2. tasks[t].got >= 0
          BY <3>1, <4>1 DEF Fit, Answered
        <4> QED BY <1>0, <3>1, <4>2 DEF AnswersTrue, AskedFill
      <3>2. CASE tasks[t].pc \notin {"hold", "partial", "filled"}
        BY <3>2 DEF AskedFill
      <3> QED BY <3>1, <3>2
    <2>5. /\ \A n \in Orders : orders'[n].status = "none" => orders[n].status = "none"
          /\ VenueFits' /\ LedgerNeverOverstates'
      <3> HIDE DEF o, to, fill
      <3>1. /\ WritesTruth(to, fill)
            /\ \A n \in Orders : orders'[n].status = "none" => orders[n].status = "none"
        BY <1>0, <2>1, <2>3, <2>4, TransitionTrue DEF Transition
      <3> QED BY <1>0, <1>v, <2>1, <3>1, TruthStays DEF WritesTruth
    <2> DEFINE places == {pc} \ {"done"}
    <2>6. Rowed(t, tasks[t].pc) => orders'[o].status # "none"
      BY <1>0, <2>1, <2>5 DEF RowsFirst
    <2>7. \A place \in places :
                /\ place # "wait" /\ place \notin Free
                /\ place \in Fresh => tasks[t].got = NotAnswered
                /\ Rowed(t, place) => orders'[tasks[t].order].status # "none"
      <3>1. pc \in Fresh => tasks[t].pc = "send"
        BY <2>2 DEF Fresh
      <3>2. tasks[t].pc = "send" => tasks[t].got = NotAnswered
        BY <1>0 DEF UnsentAbsent, Fresh
      <3>3. pc # "wait" /\ pc \notin Free
        BY <2>2 DEF Free
      <3>4. Rowed(t, pc) => Rowed(t, tasks[t].pc)
        BY <2>1, <2>2 DEF Rowed, Free
      <3> QED BY <2>6, <3>1, <3>2, <3>3, <3>4
    <2>8. Moves(t, places) /\ Keeps(t) /\ tasks[t].pc # "wait"
      BY <2>1, <2>2
    <2> HIDE DEF places, o, to, fill
    <2>9. OrdersFit'
      BY <1>0, <1>v, <2>5, <2>7, <2>8, MovesOrders
    <2> QED BY <1>r, <2>5, <2>9
  <1> QED BY <1>2, <1>3, <1>4, <1>5, <1>6, <1>7, <1>8, <1>9, <1>10, <1>11, <1>12
          DEF Step, Answers

\* The executor answers for an order whose row is there and which nothing was
\* executed for; an answer with a quantity is what the exchange has executed.
LEMMA AnswersLedger ==
    ASSUME LedgerInv, NEW t \in Tasks, Answers(t)
    PROVE  OrdersFit' /\ VenueFits' /\ RecoveryFits' /\ LedgerNeverOverstates'
  <1> DEFINE o == tasks[t].order
  <1>0. /\ tasks \in [Tasks -> Task] /\ orders \in [Orders -> Row]
        /\ exchange \in [Orders -> Placed] /\ LocalsFit /\ TypeInv
        /\ OrdersDiffer /\ VenueFits /\ RecoveryFits /\ LedgerNeverOverstates
        /\ UnsentAbsent /\ RowsFirst /\ AnswersTrue
    BY Typing DEF LedgerInv, TypeInv, OrdersFit
  <1>n. None \notin Orders /\ Signals \cap Exits = {}
    BY ExitAssumption
  <1>1. /\ t \notin Reductions /\ tasks[t].pc \in {"submit", "wait"} /\ o \in Orders
        /\ orders' = orders /\ recovery' = recovery
    BY <1>0, Answering DEF LocalsFit
  <1>2. tasks[t].got = NotAnswered
    BY <1>0, <1>1 DEF UnsentAbsent, Fresh
  <1>3. tasks[t].pc = "submit" \/ t \in Exits => orders[o].status # "none"
    BY <1>0, <1>1 DEF RowsFirst, Rowed, Free
  <1>4. tasks[t].pc = "submit" => exchange[o].state = "absent"
    BY <1>0, <1>1, <1>2 DEF UnsentAbsent
  \* What the exchange then knows of the order.
  <1>5. \/ exchange' = exchange
        \/ /\ tasks[t].pc = "submit" /\ \A n \in Orders \ {o} : exchange'[n] = exchange[n]
           /\ exchange'[o].state = "open" => exchange'[o].executed = 0
           /\ exchange'[o].state \in {"open", "closed"} /\ exchange'[o].executed \in Nat
    <2>1. ASSUME NEW state \in {"open", "closed"}, NEW got \in Nat, Place(t, state, got)
          PROVE  /\ \A n \in Orders \ {o} : exchange'[n] = exchange[n]
                 /\ exchange'[o].state = state /\ exchange'[o].executed = got
      BY <1>0, <1>1, <2>1 DEF Place
    <2>2. CASE PaperFill(t)
      BY <2>1, <2>2, RequestedAssumption DEF PaperFill
    <2>3. CASE LiveAdd(t)
      BY <2>1, <2>3 DEF LiveAdd
    <2> QED BY <2>2, <2>3 DEF Answers, Refuse, PaperRaises, LiveAnswer, venue
  \* What the task then knows of it.
  <1>6. /\ \A u \in Tasks \ {t} : tasks'[u] = tasks[u]
        /\ \/ tasks'[t] = Rest
           \/ /\ tasks'[t].order = o /\ tasks'[t].pc \in {"wait", "unknown", "reject", "ack"}
              /\ \/ /\ tasks'[t].got = NotAnswered
                    /\ \/ tasks'[t].pc = "wait"
                       \/ tasks[t].pc = "submit" /\ exchange' = exchange
                 \/ tasks'[t].got = Failed
                 \/ /\ exchange'[o].state = "closed"
                    /\ exchange'[o].executed = tasks'[t].got
              /\ tasks'[t].pc = "wait" => tasks'[t].got = NotAnswered
    <2>r. ASSUME NEW got \in Failed..MaxFill, Reply(t, got)
          PROVE  /\ \A u \in Tasks \ {t} : tasks'[u] = tasks[u]
                 /\ tasks'[t].order = o /\ tasks'[t].got = got
                 /\ tasks'[t].pc \in {"reject", "ack"}
      BY <1>0, <2>r, ReplyMoves DEF Moves, SameLocals
    <2>g. ASSUME NEW pc \in {"wait", "unknown"}, Goto(t, pc)
          PROVE  /\ \A u \in Tasks \ {t} : tasks'[u] = tasks[u]
                 /\ tasks'[t].order = o /\ tasks'[t].got = NotAnswered
                 /\ tasks'[t].pc = pc
      <3>1. pc \in Pcs /\ pc \notin Free
        BY DEF Pcs, Asked, Free
      <3> QED BY <1>0, <1>2, <2>g, <3>1, GotoMoves DEF Moves, SameLocals, Keeps
    <2>f. Failed \in Failed..MaxFill /\ Requested \in Failed..MaxFill
      BY ExitAssumption, RequestedAssumption DEF Failed
    <2>1. CASE Refuse(t)
      BY <2>1, <2>f, <2>r DEF Refuse
    <2>2. CASE PaperFill(t)
      <3>1. exchange'[o].state = "closed" /\ exchange'[o].executed = Requested
        BY <1>0, <1>1, <2>2 DEF PaperFill, Place
      <3> QED BY <2>2, <2>f, <2>r, <3>1 DEF PaperFill
    <2>3. CASE PaperRaises(t)
      <3>1. CASE tasks' = [tasks EXCEPT ![t] = Rest]
        BY <1>0, <3>1
      <3>2. CASE Goto(t, "unknown")
        BY <2>3, <2>g, <3>2 DEF PaperRaises, venue
      <3> QED BY <2>3, <3>1, <3>2 DEF PaperRaises, Goto
    <2>4. CASE LiveAdd(t)
      BY <2>4, <2>f, <2>g, <2>r DEF LiveAdd
    <2>5. CASE LiveAnswer(t)
      <3>1. exchange[o].executed \in Failed..MaxFill
        <4>1. exchange[o].executed \in 0..MaxFill
          BY <1>0, <1>1 DEF Placed
        <4> QED BY <4>1, ExitAssumption DEF Failed
      <3>2. exchange' = exchange
        BY <2>5 DEF LiveAnswer, venue
      <3>3. \/ exchange[o].state = "closed" /\ Reply(t, exchange[o].executed)
            \/ Reply(t, Failed)
        BY <2>5 DEF LiveAnswer
      <3>4. CASE exchange[o].state = "closed" /\ Reply(t, exchange[o].executed)
        BY <2>r, <3>1, <3>2, <3>4
      <3>5. CASE Reply(t, Failed)
        BY <2>f, <2>r, <3>5
      <3> QED BY <3>3, <3>4, <3>5
    <2> QED BY <2>1, <2>2, <2>3, <2>4, <2>5 DEF Answers
  <1>7. /\ Rest.order = None /\ Rest.got = NotAnswered /\ Rest.pc = "idle"
    BY DEF Rest
  <1>8. \A u \in Tasks \ {t} : tasks[u].order # o
    BY <1>0, <1>1, <1>n DEF OrdersDiffer
  <1> HIDE DEF o
  <1>9. OrdersDiffer'
    <2>1. tasks'[t].order \in {None, o}
      BY <1>6, <1>7
    <2> QED BY <1>0, <1>6, <1>8, <2>1 DEF OrdersDiffer, o
  <1>10. AnswersTrue'
    <2>1. tasks'[t].got >= 0 => /\ tasks'[t].order = o /\ exchange'[o].state = "closed"
                                /\ exchange'[o].executed = tasks'[t].got
      BY <1>6, <1>7 DEF NotAnswered, Failed
    <2>2. \A u \in Tasks \ {t} : tasks[u].order \in Orders =>
                exchange'[tasks[u].order] = exchange[tasks[u].order]
      BY <1>5, <1>8
    <2>3. \A u \in Tasks \ {t} : tasks'[u].got >= 0 =>
                /\ tasks'[u].order \in Orders
                /\ exchange'[tasks'[u].order].state = "closed"
                /\ exchange'[tasks'[u].order].executed = tasks'[u].got
      BY <1>0, <1>6, <2>2 DEF AnswersTrue
    <2> QED BY <1>1, <2>1, <2>3 DEF AnswersTrue, o
  <1>11. UnsentAbsent'
    <2>1. /\ /\ tasks'[t].order \in Orders
             /\ tasks'[t].got = NotAnswered
             /\ tasks'[t].pc # "wait"
          => exchange'[tasks'[t].order].state = "absent"
      <3>1. CASE tasks'[t] = Rest
        BY <1>n, <1>7, <3>1
      <3>2. CASE tasks'[t].got = Failed
        BY <3>2 DEF Failed, NotAnswered
      <3>3. CASE exchange'[o].state = "closed" /\ exchange'[o].executed = tasks'[t].got
        <4>1. tasks'[t].got # NotAnswered
          <5>1. exchange' \in [Orders -> Placed]
            BY <1>0, Answering
          <5>2. exchange'[o].executed \in 0..MaxFill
            BY <1>1, <5>1 DEF Placed, o
          <5> QED BY <3>3, <5>2, ExitAssumption DEF NotAnswered
        <4> QED BY <4>1
      <3> QED BY <1>4, <1>6, <3>1, <3>2, <3>3
    <2>2. tasks'[t].pc \in Fresh => tasks'[t].got = NotAnswered
      BY <1>6, <1>7 DEF Fresh
    <2>3. \A u \in Tasks \ {t} :
            /\ tasks'[u].order \in Orders => exchange'[tasks'[u].order] = exchange[tasks[u].order]
            /\ tasks'[u] = tasks[u]
      BY <1>5, <1>6, <1>8
    <2>4. \A u \in Tasks \ {t} :
            /\ tasks'[u].order \in Orders /\ tasks'[u].got = NotAnswered /\ tasks'[u].pc # "wait"
                  => exchange'[tasks'[u].order].state = "absent"
            /\ tasks'[u].pc \in Fresh => tasks'[u].got = NotAnswered
      BY <1>0, <2>3 DEF UnsentAbsent
    <2> QED BY <2>1, <2>2, <2>4 DEF UnsentAbsent
  <1>12. RowsFirst'
    <2>1. Rowed(t, tasks'[t].pc) => orders'[tasks'[t].order].status # "none"
      BY <1>1, <1>3, <1>6, <1>7 DEF Rowed, Free
    <2> QED BY <1>0, <1>1, <1>6, <2>1 DEF RowsFirst
  <1>13. VenueFits'
    BY <1>0, <1>1, <1>3, <1>5 DEF VenueFits, o
  <1>14. RecoveryFits'
    BY <1>0, <1>1, <1>4, <1>5 DEF RecoveryFits
  <1>15. LedgerNeverOverstates'
    <2>1. ASSUME tasks[t].pc = "submit", exchange'[o].executed \in Nat
          PROVE  orders[o].filled <= exchange'[o].executed /\ orders[o].status # "FILLED"
      <3>1. orders[o].filled \in 0..MaxFill /\ exchange[o].executed = 0
        BY <1>0, <1>1, <1>4, <2>1 DEF VenueFits, Row, o
      <3>2. orders[o].filled <= exchange[o].executed
            /\ (orders[o].status = "FILLED" => exchange[o].executed = Requested)
        BY <1>0, <1>1 DEF LedgerNeverOverstates, o
      <3> QED BY <2>1, <3>1, <3>2, ExitAssumption, RequestedAssumption
    <2> QED BY <1>0, <1>1, <1>5, <2>1 DEF LedgerNeverOverstates, o
  <1> QED BY <1>9, <1>10, <1>11, <1>12, <1>13, <1>14, <1>15 DEF OrdersFit

\* The task has no order yet, or one that it alone has and nobody has sent.
Starts(t) ==
    /\ \A u \in Tasks \ {t} : tasks'[u] = tasks[u]
    /\ ~Rowed(t, tasks'[t].pc) /\ tasks'[t].pc # "wait" /\ tasks'[t].got = NotAnswered
    /\ \/ tasks'[t].order = None
       \/ /\ \A u \in Tasks \ {t} : tasks[u].order # tasks'[t].order
          /\ tasks'[t].order \in Orders /\ exchange[tasks'[t].order].state = "absent"
    /\ orders' = orders /\ exchange' = exchange /\ recovery' = recovery

\* A task that begins has no order; one that takes a position takes an order
\* that no other task has and the exchange does not know.
LEMMA TakesLedger ==
    ASSUME LedgerInv, NEW t \in Tasks,
           \/ \E i \in Instances : Begin(t, i) \/ BeginReduction(t, i)
           \/ \E p \in Positions, o \in Orders : TakeNext(t, p, o)
    PROVE  OrdersFit' /\ VenueFits' /\ RecoveryFits' /\ LedgerNeverOverstates'
  <1>0. /\ TypeInv /\ OrdersDiffer /\ AnswersTrue /\ UnsentAbsent /\ RowsFirst
        /\ VenueFits /\ RecoveryFits /\ LedgerNeverOverstates
    BY DEF LedgerInv, OrdersFit
  <1>n. None \notin Orders /\ (Signals \cup Exits) \cap Reductions = {}
    BY ExitAssumption
  <1>1. Starts(t)
    <2>1. ASSUME NEW i \in Instances, Begin(t, i) \/ BeginReduction(t, i)
          PROVE  Starts(t)
      <3>1. /\ \A u \in Tasks \ {t} : tasks'[u] = tasks[u]
            /\ tasks'[t].pc \in {"next", "close", "reserve"}
            /\ t \notin Reductions => tasks'[t].pc = "next"
            /\ tasks'[t].order = None /\ tasks'[t].got = NotAnswered
            /\ UNCHANGED <<book, orders, venue>>
        BY <1>0, <2>1, Beginnings
      <3>2. ~Rowed(t, tasks'[t].pc)
        BY <1>n, <3>1 DEF Rowed, Free
      <3> QED BY <3>1, <3>2 DEF venue, Starts
    <2>2. ASSUME NEW p \in Positions, NEW o \in Orders, TakeNext(t, p, o)
          PROVE  Starts(t)
      <3>1. /\ \A u \in Tasks \ {t} : tasks'[u] = tasks[u]
            /\ tasks'[t].pc = IF t \in Reductions THEN "close" ELSE "dup"
            /\ tasks'[t].order = o /\ tasks'[t].got = NotAnswered
            /\ UNCHANGED <<book, orders, venue>>
        BY <1>0, <2>2, Takings
      <3>2. /\ orders[o].status = "none"
            /\ \A u \in Tasks : tasks[u].order # o
        <4>1. orders[o] = NoRow /\ \A u \in Tasks : tasks[u].order # o
          BY <2>2, Zenon DEF TakeNext
        <4>2. NoRow.status = "none"
          BY DEF NoRow
        <4> QED BY <4>1, <4>2
      <3>3. ~Rowed(t, tasks'[t].pc)
        BY <1>n, <3>1 DEF Rowed, Free
      <3> QED BY <1>0, <3>1, <3>2, <3>3 DEF venue, VenueFits, Starts
    <2> QED BY <2>1, <2>2
  <1>2. OrdersDiffer'
    BY <1>0, <1>1 DEF OrdersDiffer, Starts
  <1>3. AnswersTrue'
    BY <1>0, <1>1 DEF AnswersTrue, NotAnswered, Starts
  <1>4. UnsentAbsent'
    BY <1>0, <1>1, <1>n DEF UnsentAbsent, Starts
  <1>5. RowsFirst'
    BY <1>0, <1>1 DEF RowsFirst, Starts
  <1>6. VenueFits' /\ RecoveryFits' /\ LedgerNeverOverstates'
    BY <1>0, <1>1 DEF VenueFits, RecoveryFits, LedgerNeverOverstates, Starts
  <1> QED BY <1>2, <1>3, <1>4, <1>5, <1>6 DEF OrdersFit

\* The tasks as they are, while a row and an order of the exchange may change:
\* none that has no row yet, and none that is absent or answered.
LEMMA TasksStay ==
    ASSUME OrdersFit, LocalsFit, UNCHANGED tasks,
           \A n \in Orders : orders'[n].status = "none" => orders[n].status = "none",
           \A n \in Orders : exchange[n].state # "open" => exchange'[n] = exchange[n]
    PROVE  OrdersFit'
  <1>1. OrdersDiffer' /\ AnswersTrue' /\ UnsentAbsent'
    BY DEF OrdersFit, OrdersDiffer, AnswersTrue, UnsentAbsent
  <1>2. RowsFirst'
    <2>1. ASSUME NEW u \in Tasks, Rowed(u, tasks[u].pc)
          PROVE  tasks[u].order \in Orders
      BY <2>1, ExitAssumption DEF LocalsFit, Rowed, Fit, Busy, Free, ByBook
    <2> QED BY <2>1 DEF OrdersFit, RowsFirst
  <1> QED BY <1>1, <1>2 DEF OrdersFit

LEMMA RecoverLedger ==
    ASSUME LedgerInv, NEW i \in Instances, Recover(i)
    PROVE  OrdersFit' /\ VenueFits' /\ RecoveryFits' /\ LedgerNeverOverstates'
  <1>0. /\ TypeInv /\ TypeOK /\ LocalsFit /\ StartsFit /\ OrdersFit
        /\ VenueFits /\ RecoveryFits /\ LedgerNeverOverstates
        /\ recovery \in [Instances -> Start] /\ exchange \in [Orders -> Placed]
        /\ orders \in [Orders -> Row]
    BY Typing DEF LedgerInv, TypeInv
  <1>1. /\ UNCHANGED <<tasks, exchange>>
        /\ \A j \in Instances \ {i} : recovery'[j] = recovery[j]
        /\ recovery'[i] \in Start
    <2>1. TypeInv' /\ UNCHANGED <<tasks, exchange>>
          /\ \A j \in Instances \ {i} : recovery'[j] = recovery[j]
      BY <1>0, RecoverTypes
    <2> QED BY <2>1 DEF TypeInv, TypeOK, Start
  <1>f. ASSUME recovery'[i].fill # NoFill =>
                 /\ recovery'[i].order \in Orders
                 /\ exchange[recovery'[i].order].state \in {"closed", "canceled"}
                 /\ exchange[recovery'[i].order].executed = recovery'[i].fill
        PROVE  RecoveryFits'
    BY <1>0, <1>1, <1>f DEF RecoveryFits
  <1>s. ASSUME orders' = orders
        PROVE  OrdersFit' /\ VenueFits' /\ LedgerNeverOverstates'
    <2>1. OrdersFit'
      BY <1>0, <1>1, <1>s, TasksStay
    <2> QED BY <1>0, <1>1, <1>s, <2>1 DEF VenueFits, LedgerNeverOverstates
  <1>r. ASSUME NEW phase \in {"recovering", "tripped"},
               NEW pending \in SUBSET (Orders \X BOOLEAN),
               recovery' = [recovery EXCEPT ![i] = Resume(phase, pending)]
        PROVE  RecoveryFits'
    <2>1. Resume(phase, pending).fill = NoFill
      BY Resuming
    <2>2. recovery'[i] = Resume(phase, pending)
      BY <1>0, <1>r
    <2> QED BY <1>f, <2>1, <2>2
  <1>2. CASE StartInstance(i)
    <2>1. orders' = orders
      BY <1>2 DEF StartInstance
    <2>2. CASE recovery' = [recovery EXCEPT ![i] = Stopped]
      <3>1. recovery'[i].fill = NoFill
        BY <1>0, <2>2 DEF Stopped, Down
      <3> QED BY <1>f, <1>s, <2>1, <3>1
    <2>3. CASE recovery' # [recovery EXCEPT ![i] = Stopped]
      <3> DEFINE pending == {<<o, orders[o].txid>> : o \in {n \in Orders : orders[n].status \in Open}}
      <3>1. recovery' = [recovery EXCEPT ![i] = Resume("recovering", pending)]
        BY <1>2, <2>3 DEF StartInstance
      <3>2. pending \in SUBSET (Orders \X BOOLEAN)
        BY <1>0 DEF Row
      <3> HIDE DEF pending
      <3> QED BY <1>r, <1>s, <2>1, <3>1, <3>2
    <2> QED BY <2>2, <2>3
  <1>3. CASE \E o \in Orders, txid \in BOOLEAN : RecoverLookup(i, o, txid)
    <2>1. PICK o \in Orders, txid \in BOOLEAN : RecoverLookup(i, o, txid)
      BY <1>3
    <2> DEFINE rest == recovery[i].pending \ {<<o, txid>>}
               phase(v) == IF v[1] = "UNKNOWN" THEN "tripped" ELSE recovery[i].phase
    <2>2. orders' = orders /\ recovery[i].pending # {}
      BY <2>1 DEF RecoverLookup
    <2>3. /\ recovery[i].phase \in {"recovering", "tripped"}
          /\ rest \in SUBSET (Orders \X BOOLEAN)
      BY <1>0, <2>2 DEF StartsFit, Start
    <2>5. PICK v \in Verdicts(o, txid) :
            \/ recovery' = [recovery EXCEPT ![i] =
                    [@ EXCEPT !.pending = rest, !.order = o, !.goal = v[1],
                        !.fill = v[2], !.at = IF v[1] \in {"ACK", "REJECTED"}
                                              THEN "direct" ELSE orders[o].status]]
            \/ recovery' = [recovery EXCEPT ![i] = Resume(phase(v), rest)]
      BY <2>1 DEF RecoverLookup
    <2>6. v[2] # NoFill => /\ exchange[o].state \in {"closed", "canceled"}
                           /\ v[2] = exchange[o].executed
      BY <1>0, Verdict
    <2>7. CASE recovery' = [recovery EXCEPT ![i] = Resume(phase(v), rest)]
      <3>1. phase(v) \in {"recovering", "tripped"}
        BY <2>3
      <3> HIDE DEF phase, rest
      <3> QED BY <1>r, <1>s, <2>2, <2>3, <2>7, <3>1
    <2>8. CASE recovery' # [recovery EXCEPT ![i] = Resume(phase(v), rest)]
      <3> DEFINE at == IF v[1] \in {"ACK", "REJECTED"} THEN "direct" ELSE orders[o].status
                 new == [recovery[i] EXCEPT !.pending = rest, !.order = o, !.goal = v[1],
                                            !.fill = v[2], !.at = at]
      <3>1. recovery' = [recovery EXCEPT ![i] = new]
        BY <2>5, <2>8
      <3> HIDE DEF at, rest
      <3>2. new.order = o /\ new.fill = v[2]
        BY <1>0 DEF Start
      <3> HIDE DEF new
      <3>3. recovery'[i].order = o /\ recovery'[i].fill = v[2]
        BY <1>0, <3>1, <3>2
      <3> QED BY <1>f, <1>s, <2>2, <2>6, <3>3
    <2> QED BY <2>7, <2>8
  <1>4. CASE RecoverHop(i)
    <2> DEFINE r == recovery[i]
               hop == NextHop(r.at, r.goal)
               phase == IF r.goal = "UNKNOWN" THEN "tripped" ELSE r.phase
    <2>1. r.order # None
      BY <1>4 DEF RecoverHop
    <2>2. /\ r.phase \in {"recovering", "tripped"} /\ r.goal \in Statuses
          /\ r.pending \in SUBSET (Orders \X BOOLEAN)
      BY <1>0, <2>1 DEF StartsFit, Start
    <2>3. hop \in Statuses
      BY <2>2 DEF NextHop, Statuses, Open, Terminal
    <2>4. PICK ok \in BOOLEAN :
            /\ Transition(r.order, hop, r.fill, r.goal \in {"ACK", "FILLED", "CANCELED"}, ok)
            /\ \/ recovery' = [recovery EXCEPT ![i].at = hop]
               \/ recovery' = [recovery EXCEPT ![i] = Resume(phase, r.pending)]
      BY <1>4 DEF RecoverHop
    <2>5. OrdersFit' /\ VenueFits' /\ LedgerNeverOverstates'
      <3> DEFINE o == r.order
                 to == hop
                 fill == r.fill
      <3>1. to \in Statuses /\ fill \in NoFill..MaxFill
        BY <1>0, <2>3 DEF Start
      <3>2. PICK known \in BOOLEAN : Transition(o, to, fill, known, ok)
        <4>1. CASE r.goal \in {"ACK", "FILLED", "CANCELED"}
          <5>1. (r.goal \in {"ACK", "FILLED", "CANCELED"}) = TRUE
            BY <4>1
          <5> QED BY <2>4, <5>1, Zenon
        <4>2. CASE ~(r.goal \in {"ACK", "FILLED", "CANCELED"})
          <5>1. (r.goal \in {"ACK", "FILLED", "CANCELED"}) = FALSE
            BY <4>2
          <5> QED BY <2>4, <5>1, Zenon
        <4> QED BY <4>1, <4>2
      <3>3. fill # NoFill => exchange[o].executed = fill
        BY <1>0 DEF RecoveryFits
      <3> HIDE DEF o, to, fill
      <3>4. /\ WritesTruth(to, fill)
            /\ \A n \in Orders : orders'[n].status = "none" => orders[n].status = "none"
        BY <1>0, <3>1, <3>2, <3>3, TransitionTrue DEF Transition
      <3>5. VenueFits' /\ LedgerNeverOverstates'
        BY <1>0, <1>1, <3>1, <3>4, TruthStays DEF WritesTruth
      <3> QED BY <1>0, <1>1, <3>4, <3>5, TasksStay
    <2>6. CASE recovery' = [recovery EXCEPT ![i].at = hop]
      <3> DEFINE new == [r EXCEPT !.at = hop]
      <3>1. recovery' = [recovery EXCEPT ![i] = new]
        BY <2>6
      <3> HIDE DEF hop
      <3>2. new.order = r.order /\ new.fill = r.fill
        BY <1>0 DEF Start
      <3> HIDE DEF new
      <3>3. recovery'[i].order = r.order /\ recovery'[i].fill = r.fill
        BY <1>0, <3>1, <3>2
      <3> QED BY <1>0, <1>f, <2>5, <3>3 DEF RecoveryFits
    <2>7. CASE recovery' = [recovery EXCEPT ![i] = Resume(phase, r.pending)]
      <3>1. phase \in {"recovering", "tripped"}
        BY <2>2
      <3> HIDE DEF phase
      <3> QED BY <1>r, <2>2, <2>5, <2>7, <3>1
    <2> QED BY <2>4, <2>6, <2>7
  <1> QED BY <1>2, <1>3, <1>4 DEF Recover

LEMMA InitLedger == Init => LedgerInv
  <1> SUFFICES ASSUME Init PROVE LedgerInv
    OBVIOUS
  <1>1. TypeInv
    BY InitTypes
  <1>2. /\ \A t \in Tasks : /\ tasks[t].pc = "idle" /\ tasks[t].order = None
                             /\ tasks[t].got = NotAnswered
        /\ \A o \in Orders : /\ orders[o].status = "none" /\ orders[o].filled = 0
                             /\ exchange[o].state = "absent" /\ exchange[o].executed = 0
        /\ \A i \in Instances : recovery[i].fill = NoFill
    BY DEF Init, Rest, NoRow, Unplaced, Started, Down
  <1>3. None \notin Orders
    BY ExitAssumption
  <1>4. OrdersFit
    BY <1>2, <1>3 DEF OrdersFit, OrdersDiffer, AnswersTrue, UnsentAbsent, RowsFirst,
                      Rowed, Free, Fresh, NotAnswered
  <1>5. VenueFits /\ RecoveryFits /\ LedgerNeverOverstates
    BY <1>2 DEF VenueFits, RecoveryFits, LedgerNeverOverstates
  <1> QED BY <1>1, <1>4, <1>5 DEF LedgerInv

LEMMA NextLedger == LedgerInv /\ [Next]_vars => LedgerInv'
  <1> SUFFICES ASSUME LedgerInv, [Next]_vars PROVE LedgerInv'
    OBVIOUS
  <1>0. /\ TypeInv /\ TypeOK /\ LocalsFit /\ OrdersFit /\ VenueFits /\ RecoveryFits
        /\ LedgerNeverOverstates /\ recovery \in [Instances -> Start]
        /\ exchange \in [Orders -> Placed] /\ orders \in [Orders -> Row]
    BY Typing DEF LedgerInv, TypeInv
  <1>t. TypeInv'
    BY <1>0, NextTypes
  <1>s. ASSUME OrdersFit', VenueFits', RecoveryFits', LedgerNeverOverstates'
        PROVE  LedgerInv'
    BY <1>s, <1>t DEF LedgerInv
  <1>u. ASSUME UNCHANGED <<orders, exchange, tasks>>,
               \A i \in Instances : recovery'[i] = recovery[i] \/ recovery'[i].fill = NoFill
        PROVE  LedgerInv'
    <2>1. OrdersFit'
      BY <1>0, <1>u, TasksStay
    <2>2. RecoveryFits'
      BY <1>0, <1>u DEF RecoveryFits
    <2>3. VenueFits' /\ LedgerNeverOverstates'
      BY <1>0, <1>u DEF VenueFits, LedgerNeverOverstates
    <2> QED BY <1>s, <2>1, <2>2, <2>3
  <1>1. CASE \E t \in Tasks, i \in Instances : Begin(t, i) \/ BeginReduction(t, i)
    BY <1>1, <1>s, TakesLedger
  <1>2. CASE \E t \in Tasks : Step(t)
    BY <1>2, <1>s, TakesLedger, AnswersLedger, StepLedger
  <1>3. CASE \/ \E i \in Instances : SaveState(i) \/ SaveWrites(i)
             \/ Acknowledge
             \/ UNCHANGED vars
    BY <1>3, <1>u DEF SaveState, SaveWrites, Acknowledge, vars, venue
  <1>4. CASE \E i \in Instances : Stop(i)
    <2>1. PICK i \in Instances : Stop(i)
      BY <1>4
    <2>2. /\ recovery' = [recovery EXCEPT ![i] = Stopped] /\ Stopped.fill = NoFill
          /\ UNCHANGED <<orders, exchange, tasks>>
      BY <2>1 DEF Stop, Stopped, Down
    <2>3. \A j \in Instances : recovery'[j] = recovery[j] \/ recovery'[j].fill = NoFill
      BY <1>0, <2>2
    <2> QED BY <1>u, <2>2, <2>3
  <1>5. CASE \E i \in Instances : Recover(i)
    BY <1>5, <1>s, RecoverLedger
  <1>6. CASE \E o \in Orders : ExchangeSettles(o)
    <2>1. PICK o \in Orders : ExchangeSettles(o)
      BY <1>6
    <2>2. /\ exchange[o].state = "open" /\ UNCHANGED <<orders, tasks, recovery>>
      BY <2>1 DEF ExchangeSettles
    <2>3. PICK state \in {"closed", "canceled"}, q \in Nat :
             exchange' = [exchange EXCEPT ![o].state = state, ![o].executed = q]
      BY <2>1, RequestedAssumption, ExitAssumption DEF ExchangeSettles
    <2>4. /\ \A n \in Orders \ {o} : exchange'[n] = exchange[n]
          /\ exchange'[o].state = state /\ exchange'[o].executed = q
      BY <1>0, <2>3 DEF Placed
    <2>5. OrdersFit'
      BY <1>0, <2>2, <2>4, TasksStay
    <2>6. VenueFits'
      BY <1>0, <2>2, <2>4 DEF VenueFits
    <2>7. RecoveryFits'
      BY <1>0, <2>2, <2>4 DEF RecoveryFits
    <2>8. LedgerNeverOverstates'
      <3>1. orders[o].filled \in 0..MaxFill /\ exchange[o].executed = 0
        BY <1>0, <2>2 DEF VenueFits, Row
      <3>2. /\ orders[o].filled <= 0
            /\ orders[o].status # "FILLED"
        BY <1>0, <3>1, RequestedAssumption DEF LedgerNeverOverstates
      <3>3. orders[o].filled <= q
        BY <3>1, <3>2, ExitAssumption
      <3> QED BY <1>0, <2>2, <2>4, <3>2, <3>3 DEF LedgerNeverOverstates
    <2> QED BY <1>s, <2>5, <2>6, <2>7, <2>8
  <1>7. CASE Crash
    <2>1. /\ \A t \in Tasks : /\ tasks'[t].pc = "idle" /\ tasks'[t].order = None
                              /\ tasks'[t].got = NotAnswered
          /\ \A i \in Instances : recovery'[i].fill = NoFill
          /\ UNCHANGED <<orders, exchange>>
      BY <1>7 DEF Crash, Rest, Down
    <2>2. None \notin Orders
      BY ExitAssumption
    <2>3. OrdersFit'
      BY <2>1, <2>2 DEF OrdersFit, OrdersDiffer, AnswersTrue, UnsentAbsent, RowsFirst,
                        Rowed, Free, Fresh, NotAnswered
    <2>4. VenueFits' /\ LedgerNeverOverstates'
      BY <1>0, <2>1 DEF VenueFits, LedgerNeverOverstates
    <2>5. RecoveryFits'
      BY <2>1 DEF RecoveryFits
    <2> QED BY <1>s, <2>3, <2>4, <2>5
  <1>8. CASE Preflight
    <2>1. Loaded.fill = NoFill
      BY DEF Loaded, Down
    <2>2. /\ UNCHANGED <<orders, exchange, tasks>>
          /\ recovery' = recovery \/ recovery' = [i \in Instances |-> Loaded]
      BY <1>8 DEF Preflight
    <2> QED BY <1>u, <2>1, <2>2
  <1> QED BY <1>1, <1>2, <1>3, <1>4, <1>5, <1>6, <1>7, <1>8 DEF Next

\* Every order that a task or the recovery works on is its own, every answer
\* and every quantity recovery holds is what the exchange has executed.
THEOREM LedgerInvariant == Spec => []LedgerInv
  BY InitLedger, NextLedger, PTL DEF Spec

\* The ledger never claims more than the exchange did, for every executor, in
\* every interleaving and after every crash: a recorded fill is a lower bound
\* of what was executed, and FILLED is the whole of the order.
THEOREM NeverOverstated == Spec => []LedgerNeverOverstates
  <1>1. LedgerInv => LedgerNeverOverstates
    BY DEF LedgerInv
  <1> QED BY <1>1, LedgerInvariant, PTL
-----------------------------------------------------------------------------
(* The way of a seller from one place to the next, and what it writes there.  *)

\* The next place of each, as close_position, the exit check and the signal
\* handler order their awaits: none goes back to reserve once it has sent.
Course(t) ==
    {<<"new", "send">>, <<"reserve", "reserve row">>, <<"reserve row", "reserve memory">>,
     <<"submit", "wait">>, <<"submit", "ack">>, <<"wait", "ack">>,
     <<"submit", "reject">>, <<"wait", "reject">>, <<"ack", "reject">>,
     <<"ack", "hold">>, <<"ack", "partial">>, <<"close", "commit">>,
     <<"close", "hold">>, <<"commit", "hold">>, <<"reject", "release">>,
     <<"release", "release row">>, <<"release row", "release memory">>}
    \cup IF t \in Signals
         THEN {<<"dup", "reserve">>, <<"reserve memory", "new">>, <<"send", "submit">>,
               <<"ack", "unknown">>, <<"ack", "close">>, <<"commit", "filled">>}
         ELSE {<<"dup", "new">>, <<"send", "reserve">>, <<"reserve memory", "submit">>,
               <<"reserve", "withdraw">>, <<"reserve row", "withdraw">>,
               <<"reserve memory", "withdraw">>, <<"submit", "unknown">>,
               <<"ack", "filled">>, <<"filled", "close">>}

\* The seller is done with its position, or goes one step on its course.
Proceeds(t) ==
    /\ tasks' \in [Tasks -> Task]
    /\ \A u \in Tasks \ {t} : tasks'[u] = tasks[u]
    /\ \/ /\ tasks'[t].pc \in Free /\ tasks'[t].order = None
          /\ tasks'[t].got = NotAnswered
       \/ /\ SameLocals(t) /\ <<tasks[t].pc, tasks'[t].pc>> \in Course(t)
          /\ tasks'[t].got # tasks[t].got => tasks[t].pc \in {"submit", "wait"}
    /\ tasks[t].pc = "ack" /\ tasks'[t].pc \in {"close", "filled"}
          => tasks[t].got = Requested
    /\ tasks[t].pc = "ack" /\ tasks'[t].pc = "reject" => tasks[t].got = 0
    /\ tasks[t].pc \in {"submit", "wait"} /\ tasks'[t].pc = "reject"
          => tasks'[t].got = Failed
    /\ tasks'[t].pc = "wait" => Executor = "live"

LEMMA Courses ==
    ASSUME ExclusionInv, NEW t \in Sellers, Step(t),
           ~\E p \in Positions, o \in Orders : TakeNext(t, p, o)
    PROVE  Proceeds(t)
  <1> USE TwoKinds
  <1>0. /\ tasks \in [Tasks -> Task] /\ TypeOK /\ TypeInv /\ LocalsFit
        /\ ReservesFirst /\ KnownExclusively /\ t \in Tasks
    BY Typing DEF ExclusionInv, TypeInv
  <1>k. t \in Signals \cup Exits
    BY DEF Sellers
  <1>e. \A from, to : <<from, to>> \in Course(t) => to \notin Free
    BY DEF Course, Free
  <1>m. ASSUME NEW places, Moves(t, places), Keeps(t), "wait" \notin places,
               \A pc \in places : <<tasks[t].pc, pc>> \in Course(t),
               tasks[t].pc \notin {"submit", "wait", "ack"}
        PROVE  Proceeds(t)
    <2>1. \A pc \in places : pc \notin Free
      BY <1>m, <1>e
    <2>2. CASE tasks'[t].pc \in places
      BY <1>m, <2>1, <2>2 DEF Moves, Keeps, Proceeds
    <2>3. CASE tasks'[t].pc \notin places
      BY <1>m, <2>3 DEF Moves, Proceeds, Free
    <2> QED BY <2>2, <2>3
  <1>s. tasks[t].pc \in {"reserve", "reserve row", "reserve memory"}
            => /\ Refused(t) = IF t \in Exits THEN {"withdraw"} ELSE {}
               /\ OnReserved(t) = IF t \in Signals THEN "new" ELSE "submit"
    BY <1>0, <1>k DEF ReservesFirst, Before, Refused, OnReserved, Closing
  <1>2. CASE CheckDuplicate(t)
    <2> DEFINE places == {IF t \in Signals THEN "reserve" ELSE "new"}
    <2>1. Moves(t, places) /\ Keeps(t) /\ tasks[t].pc = "dup"
      BY <1>0, <1>2, Leads DEF CheckDuplicate
    <2>2. "wait" \notin places /\ \A pc \in places : <<"dup", pc>> \in Course(t)
      BY DEF Course
    <2> HIDE DEF places
    <2> QED BY <1>m, <2>1, <2>2
  <1>3. CASE Reserve(t)
    <2> DEFINE places == {"reserve row"} \cup Refused(t)
    <2>1. Moves(t, places) /\ Keeps(t) /\ tasks[t].pc = "reserve"
      BY <1>0, <1>3, Leads DEF Reserve
    <2>2. "wait" \notin places /\ \A pc \in places : <<"reserve", pc>> \in Course(t)
      <3>1. places = {"reserve row"} \cup IF t \in Exits THEN {"withdraw"} ELSE {}
        BY <1>s, <2>1
      <3> HIDE DEF places
      <3>2. CASE t \in Signals
        BY <3>1, <3>2 DEF Course
      <3>3. CASE t \in Exits
        BY <3>1, <3>3 DEF Course
      <3> QED BY <1>k, <3>2, <3>3
    <2> HIDE DEF places
    <2> QED BY <1>m, <2>1, <2>2
  <1>4. CASE ReserveRow(t)
    <2> DEFINE places == {"reserve memory"} \cup Refused(t)
    <2>1. Moves(t, places) /\ Keeps(t) /\ tasks[t].pc = "reserve row"
      BY <1>0, <1>4, Leads DEF ReserveRow
    <2>2. "wait" \notin places /\ \A pc \in places : <<"reserve row", pc>> \in Course(t)
      <3>1. places = {"reserve memory"} \cup IF t \in Exits THEN {"withdraw"} ELSE {}
        BY <1>s, <2>1
      <3> HIDE DEF places
      <3>2. CASE t \in Signals
        BY <3>1, <3>2 DEF Course
      <3>3. CASE t \in Exits
        BY <3>1, <3>3 DEF Course
      <3> QED BY <1>k, <3>2, <3>3
    <2> HIDE DEF places
    <2> QED BY <1>m, <2>1, <2>2
  <1>5. CASE ReserveMemory(t)
    <2> DEFINE places == {OnReserved(t)} \cup Refused(t)
    <2>1. Moves(t, places) /\ Keeps(t) /\ tasks[t].pc = "reserve memory"
      BY <1>0, <1>5, Leads DEF ReserveMemory
    <2>2. "wait" \notin places /\ \A pc \in places : <<"reserve memory", pc>> \in Course(t)
      <3>1. places = {IF t \in Signals THEN "new" ELSE "submit"} \cup IF t \in Exits THEN {"withdraw"} ELSE {}
        BY <1>s, <2>1
      <3> HIDE DEF places
      <3>2. CASE t \in Signals
        BY <3>1, <3>2 DEF Course
      <3>3. CASE t \in Exits
        BY <3>1, <3>3 DEF Course
      <3> QED BY <1>k, <3>2, <3>3
    <2> HIDE DEF places
    <2> QED BY <1>m, <2>1, <2>2
  <1>6. CASE NewOrder(t)
    <2> DEFINE places == {"send"}
    <2>1. Moves(t, places) /\ Keeps(t) /\ tasks[t].pc = "new"
      BY <1>0, <1>6, Leads DEF NewOrder
    <2>2. "wait" \notin places /\ \A pc \in places : <<"new", pc>> \in Course(t)
      BY DEF Course
    <2> HIDE DEF places
    <2> QED BY <1>m, <2>1, <2>2
  <1>7. CASE LedgerWrite(t)
    <2>1. tasks[t].pc \in {"send", "ack", "reject", "filled", "withdraw", "unknown",
                           "hold", "partial"}
      BY <1>7 DEF LedgerWrite, Asked
    <2>2. PICK pc \in Pcs \cup {"done"} :
                /\ Moves(t, {pc} \ {"done"}) /\ Keeps(t)
                /\ tasks[t].pc = "send" => pc \in {"done"}
                     \cup (IF t \in Signals THEN {"submit"} ELSE {})
                     \cup (IF t \in Exits THEN {"reserve"} ELSE {})
                /\ tasks[t].pc = "ack" => pc \in {"done", "hold", "partial"}
                     \cup (IF t \in Signals THEN {"unknown", "close"}
                           ELSE {"reject", "filled"})
                /\ tasks[t].pc = "ack" /\ pc \in {"close", "filled"}
                     => tasks[t].got = Requested
                /\ tasks[t].pc = "ack" /\ pc = "reject" => tasks[t].got = 0
                /\ tasks[t].pc = "reject" => pc \in {"done", "release"}
                /\ tasks[t].pc = "filled" => pc \in {"done"}
                     \cup (IF t \in Exits THEN {"close"} ELSE {})
                /\ tasks[t].pc \in {"withdraw", "unknown", "hold", "partial"}
                     => pc = "done"
      BY <1>0, <1>7, Writes
    <2> DEFINE places == {pc} \ {"done"}
    <2>3. /\ Moves(t, places) /\ Keeps(t)
          /\ \A n \in places : n = pc
      BY <2>2
    <2>4. "wait" \notin places /\ \A n \in places : <<tasks[t].pc, n>> \in Course(t)
      BY <1>k, <2>1, <2>2 DEF Course
    <2>5. CASE tasks[t].pc # "ack"
      <3> HIDE DEF places
      <3> QED BY <1>m, <2>1, <2>3, <2>4, <2>5
    <2>6. CASE tasks[t].pc = "ack"
      <3> HIDE DEF places
      <3> QED BY <2>2, <2>3, <2>4, <2>6 DEF Moves, Keeps, Proceeds, Free
    <2> QED BY <2>5, <2>6
  <1>8. CASE Answers(t)
    <2>1. tasks[t].pc \in {"submit", "wait"} /\ Busy(t) /\ t \notin Reductions
      BY <1>0, <1>8, Answering
    <2>2. ASSUME NEW got \in Failed..MaxFill, Reply(t, got)
          PROVE  Proceeds(t)
      <3>1. Moves(t, {IF got = Failed THEN "reject" ELSE "ack"}) /\ tasks'[t].pc \notin Free
        BY <1>0, <2>2, ReplyMoves
      <3>2. /\ tasks'[t].pc = (IF got = Failed THEN "reject" ELSE "ack") /\ SameLocals(t)
            /\ tasks'[t].got = got
        BY <1>0, <2>2, <3>1, ReplyMoves DEF Moves
      <3> QED BY <2>1, <3>1, <3>2 DEF Proceeds, Moves, Course
    <2>3. ASSUME NEW pc \in {"wait", "unknown"}, Goto(t, pc),
                 <<tasks[t].pc, pc>> \in Course(t), pc = "wait" => Executor = "live"
          PROVE  Proceeds(t)
      <3>1. pc \in Pcs /\ pc \notin Free
        BY DEF Pcs, Asked, Free
      <3>2. Moves(t, {pc}) /\ Keeps(t) /\ tasks'[t].pc = pc /\ SameLocals(t)
        BY <1>0, <2>3, <3>1, GotoMoves
      <3> QED BY <2>1, <2>3, <3>1, <3>2 DEF Proceeds, Moves, Keeps
    <2>4. ASSUME tasks' = [tasks EXCEPT ![t] = Rest]
          PROVE  Proceeds(t)
      <3>1. Moves(t, {}) /\ Keeps(t)
        BY <1>0, <2>4, RestMoves
      <3> QED BY <2>1, <3>1 DEF Moves, Proceeds, Free
    <2>5. CASE Refuse(t) \/ PaperFill(t) \/ LiveAnswer(t)
      <3>1. \E got \in Failed..MaxFill : Reply(t, got)
        <4>1. Failed \in Failed..MaxFill /\ Requested \in Failed..MaxFill
          BY ExitAssumption, RequestedAssumption DEF Failed
        <4>2. tasks[t].order \in Orders
          BY <1>0, <2>1 DEF LocalsFit, Busy, Free, Sellers
        <4>3. exchange[tasks[t].order].executed \in 0..MaxFill
          BY <1>0, <4>2, Typing DEF Placed
        <4>4. exchange[tasks[t].order].executed \in Failed..MaxFill
          BY <4>3, ExitAssumption DEF Failed
        <4> QED BY <2>5, <4>1, <4>4 DEF Refuse, PaperFill, LiveAnswer
      <3> QED BY <2>2, <3>1
    <2>6. CASE PaperRaises(t)
      <3>1. CASE t \in Signals
        BY <2>4, <2>6, <3>1 DEF PaperRaises
      <3>2. CASE t \notin Signals
        <4>1. Goto(t, "unknown") /\ tasks[t].pc = "submit"
          BY <2>6, <3>2 DEF PaperRaises, Goto
        <4>2. <<"submit", "unknown">> \in Course(t)
          BY <3>2 DEF Course
        <4> QED BY <2>3, <4>1, <4>2
      <3> QED BY <3>1, <3>2
    <2>7. CASE LiveAdd(t)
      <3>1. tasks[t].pc = "submit" /\ (Goto(t, "wait") \/ Reply(t, Failed))
            /\ Executor = "live" /\ Failed \in Failed..MaxFill
        BY <2>7, ExitAssumption DEF LiveAdd, Failed
      <3>2. <<"submit", "wait">> \in Course(t)
        BY DEF Course
      <3> QED BY <2>2, <2>3, <3>1, <3>2
    <2> QED BY <1>8, <2>5, <2>6, <2>7 DEF Answers
  <1>9. CASE Close(t)
    <2>1. tasks[t].pc = "close" /\ Mine(t) # "open"
      BY <1>0, <1>k, <1>9 DEF Close, KnownExclusively, Keeping, Owns
    <2>2. PICK pc \in {"commit", "hold", "done"} : Continue(t, pc)
      BY <1>9, <2>1, Targets DEF Close
    <2> DEFINE places == {pc} \ {"done"}
    <2>3. Moves(t, places) /\ Keeps(t)
      <3>1. pc \in Pcs \cup {"done"}
        BY DEF Pcs, Asked
      <3> QED BY <1>0, <2>2, <3>1, ContinueMoves
    <2>4. "wait" \notin places /\ \A n \in places : <<"close", n>> \in Course(t)
      BY DEF Course
    <2> HIDE DEF places
    <2> QED BY <1>m, <2>1, <2>3, <2>4
  <1>10. CASE Commit(t)
    <2> DEFINE places == IF t \in Signals THEN {"filled", "hold"} ELSE {}
    <2>1. Moves(t, places) /\ Keeps(t) /\ tasks[t].pc = "commit"
      BY <1>0, <1>10, Leads DEF Commit
    <2>2. "wait" \notin places /\ \A pc \in places : <<"commit", pc>> \in Course(t)
      BY DEF Course
    <2> HIDE DEF places
    <2> QED BY <1>m, <2>1, <2>2
  <1>11. CASE Release(t)
    <2> DEFINE places == {"release row"}
    <2>1. Moves(t, places) /\ Keeps(t) /\ tasks[t].pc = "release"
      BY <1>0, <1>11, Leads DEF Release
    <2>2. "wait" \notin places /\ \A pc \in places : <<"release", pc>> \in Course(t)
      BY DEF Course
    <2> HIDE DEF places
    <2> QED BY <1>m, <2>1, <2>2
  <1>12. CASE ReleaseRow(t)
    <2> DEFINE places == {"release memory"}
    <2>1. Moves(t, places) /\ Keeps(t) /\ tasks[t].pc = "release row"
      BY <1>0, <1>12, Leads DEF ReleaseRow
    <2>2. "wait" \notin places /\ \A pc \in places : <<"release row", pc>> \in Course(t)
      BY DEF Course
    <2> HIDE DEF places
    <2> QED BY <1>m, <2>1, <2>2
  <1>13. CASE ReleaseMemory(t)
    <2>1. Moves(t, {}) /\ Keeps(t) /\ tasks[t].pc = "release memory"
      BY <1>0, <1>13, Leads DEF ReleaseMemory
    <2> QED BY <1>m, <2>1
  <1> QED BY <1>2, <1>3, <1>4, <1>5, <1>6, <1>7, <1>8, <1>9, <1>10, <1>11, <1>12, <1>13
          DEF Step, Answers
-----------------------------------------------------------------------------
(* What a step does to its order's row, to its order at the exchange and to   *)
(* its position.                                                              *)

\* The row names its position from the first write on.
OwnRow(t) ==
    LET o == tasks[t].order
        pc == tasks[t].pc
    IN \/ orders'[o] = orders[o]
       \/ /\ pc = "new" /\ tasks'[t].pc = "send" /\ orders'[o].status = "NEW"
          /\ orders'[o].position = tasks[t].position
       \/ /\ pc \in DOMAIN Asked /\ orders[o].status # "none"
          /\ orders'[o].status = Asked[pc] /\ orders'[o].position = orders[o].position

OwnOrder(t) ==
    LET o == tasks[t].order
    IN \/ exchange'[o] = exchange[o]
       \/ /\ Executor = "paper" /\ tasks[t].pc = "submit" /\ tasks'[t].got = Requested
          /\ exchange'[o].state = "closed" /\ exchange'[o].executed = Requested
       \/ /\ Executor = "live" /\ tasks[t].pc = "submit"
          /\ exchange'[o].state = "open" /\ exchange'[o].executed = 0

OwnPosition(t) ==
    LET p == tasks[t].position
        pc == tasks[t].pc
    IN /\ \A q \in Positions \ {p} : positions'[q] = positions[q]
       /\ \/ positions'[p] = positions[p]
          \/ pc = "reserve row" /\ positions[p] = "open" /\ positions'[p] = "closing"
          \/ pc = "commit" /\ positions'[p] = "closed"
          \/ pc = "release row" /\ positions'[p] = "open"
       /\ pc = "reserve row" /\ tasks'[t].pc = "reserve memory" => positions[p] = "open"

\* A ledger call writes the row of its order at most, and never its position.
LEMMA RowStays ==
    ASSUME TypeOK, NEW o, NEW to \in Statuses, NEW fill \in NoFill..MaxFill,
           NEW known \in BOOLEAN, NEW ok \in BOOLEAN, Transition(o, to, fill, known, ok)
    PROVE  \A n \in Orders : orders'[n] = orders[n]
                \/ /\ n = o /\ orders[n].status \in Statuses
                   /\ orders'[n].status = to
                   /\ orders'[n].position = orders[n].position
  <1>1. orders \in [Orders -> Row]
    BY Typing
  <1> QED BY <1>1, Transitions

LEMMA Effects ==
    ASSUME TypeInv, NEW t \in Tasks, Step(t),
           ~\E p \in Positions, o \in Orders : TakeNext(t, p, o)
    PROVE  /\ Busy(t) /\ tasks[t].position \in Positions /\ recovery' = recovery
           /\ OwnPosition(t)
           /\ t \in Reductions => UNCHANGED <<orders, exchange>>
           /\ t \notin Reductions =>
                /\ tasks[t].order \in Orders /\ OwnRow(t) /\ OwnOrder(t)
                /\ \A n \in Orders \ {tasks[t].order} :
                        orders'[n] = orders[n] /\ exchange'[n] = exchange[n]
  <1>0. /\ TypeOK /\ LocalsFit /\ tasks \in [Tasks -> Task] /\ orders \in [Orders -> Row]
        /\ exchange \in [Orders -> Placed]
        /\ positions \in [Positions -> {"open", "closing", "closed"}]
    BY Typing DEF TypeInv
  <1>1. Busy(t) /\ recovery' = recovery
    BY DEF Step, TakeNext, CheckDuplicate, Reserve, ReserveRow, ReserveMemory, NewOrder,
           LedgerWrite, Close, Commit, Release, ReleaseRow, ReleaseMemory, venue, Busy,
           Free, Asked, Refuse, PaperFill, PaperRaises, LiveAdd, LiveAnswer
  <1>2. /\ tasks[t].position \in Positions
        /\ t \notin Reductions => tasks[t].order \in Orders
        /\ t \in Reductions => tasks[t].pc \in ByBook
    BY <1>0, <1>1 DEF LocalsFit, Fit
  <1>3. OwnPosition(t)
    <2>1. CASE tasks[t].pc \in {"reserve row", "commit", "release row"}
      <3>1. CASE ReserveRow(t)
        <4>1. CASE /\ positions[tasks[t].position] = "open"
                   /\ positions' = [positions EXCEPT ![tasks[t].position] = "closing"]
          BY <1>0, <1>2, <3>1, <4>1 DEF OwnPosition, ReserveRow
        <4>2. CASE Continue(t, OnRefused(t)) /\ UNCHANGED positions
          <5>1. OnRefused(t) \in {"done", "withdraw", "hold"}
            BY Targets
          <5>2. OnRefused(t) \in Pcs \cup {"done"}
            BY <5>1 DEF Pcs, Asked
          <5>3. Moves(t, {OnRefused(t)} \ {"done"})
            BY <1>0, <4>2, <5>2, ContinueMoves
          <5>4. tasks'[t].pc # "reserve memory"
            BY <5>1, <5>3 DEF Moves, Free
          <5> QED BY <3>1, <4>2, <5>4 DEF OwnPosition, ReserveRow
        <4> QED BY <3>1, <4>1, <4>2 DEF ReserveRow
      <3>2. CASE Commit(t)
        BY <1>0, <1>2, <3>2 DEF Commit, OwnPosition
      <3>3. CASE ReleaseRow(t)
        BY <1>0, <1>2, <3>3 DEF ReleaseRow, OwnPosition
      <3> QED BY <2>1, <3>1, <3>2, <3>3
              DEF Step, TakeNext, CheckDuplicate, Reserve, ReserveMemory, NewOrder,
                  LedgerWrite, Close, Release, ReleaseMemory, Asked, Refuse, PaperFill,
                  PaperRaises, LiveAdd, LiveAnswer
    <2>2. CASE tasks[t].pc \notin {"reserve row", "commit", "release row"}
      BY <2>2 DEF OwnPosition, Step, TakeNext, CheckDuplicate, Reserve, ReserveRow,
                  ReserveMemory, NewOrder, LedgerWrite, Close, Commit, Release, ReleaseRow,
                  ReleaseMemory, book, Refuse, PaperFill, PaperRaises, LiveAdd, LiveAnswer
    <2> QED BY <2>1, <2>2
  <1>4. t \in Reductions => UNCHANGED <<orders, exchange>>
    BY <1>2 DEF ByBook, Step, TakeNext, CheckDuplicate, Reserve, ReserveRow, ReserveMemory,
                NewOrder, LedgerWrite, Close, Commit, Release, ReleaseRow, ReleaseMemory,
                venue, Asked, Refuse, PaperFill, PaperRaises, LiveAdd, LiveAnswer
  <1>5. ASSUME t \notin Reductions
        PROVE  OwnRow(t) /\ \A n \in Orders \ {tasks[t].order} : orders'[n] = orders[n]
    <2>1. CASE NewOrder(t)
      <3>1. CASE orders' = [orders EXCEPT ![tasks[t].order] =
                    [NoRow EXCEPT !.status = "NEW", !.position = tasks[t].position]]
        <4> DEFINE new == [NoRow EXCEPT !.status = "NEW", !.position = tasks[t].position]
        <4>1. new.status = "NEW" /\ new.position = tasks[t].position
          BY DEF NoRow
        <4>2. orders' = [orders EXCEPT ![tasks[t].order] = new]
          BY <3>1
        <4> HIDE DEF new
        <4>3. orders'[tasks[t].order] = new
          BY <1>0, <1>2, <1>5, <4>2
        <4>4. CASE orders' # orders
          <5>1. tasks[t].pc = "new" /\ Goto(t, "send")
            BY <2>1, <4>4 DEF NewOrder
          <5>2. tasks'[t].pc = "send"
            BY <1>0, <5>1, GotoMoves DEF Pcs, Asked
          <5> QED BY <4>1, <4>2, <4>3, <5>1, <5>2 DEF OwnRow
        <4> QED BY <4>4 DEF OwnRow
      <3>2. CASE orders' = orders
        BY <3>2 DEF OwnRow
      <3> QED BY <2>1, <3>1, <3>2 DEF NewOrder
    <2>2. CASE LedgerWrite(t)
      <3>1. Asked[tasks[t].pc] \in Statuses /\ AskedFill(t) \in NoFill..MaxFill
        BY <1>0, <2>2, Writes
      <3>2. PICK ok \in BOOLEAN, known \in BOOLEAN :
                Transition(tasks[t].order, Asked[tasks[t].pc], AskedFill(t), known, ok)
        <4>1. PICK ok \in BOOLEAN : Transition(tasks[t].order, Asked[tasks[t].pc],
                                             AskedFill(t), tasks[t].got >= 0, ok)
          BY <2>2 DEF LedgerWrite
        <4>2. CASE tasks[t].got >= 0
          <5>1. (tasks[t].got >= 0) = TRUE
            BY <4>2
          <5> QED BY <4>1, <5>1, Zenon
        <4>3. CASE ~(tasks[t].got >= 0)
          <5>1. (tasks[t].got >= 0) = FALSE
            BY <4>3
          <5> QED BY <4>1, <5>1, Zenon
        <4> QED BY <4>2, <4>3
      <3>3. \A n \in Orders : orders'[n] = orders[n]
                \/ /\ n = tasks[t].order /\ orders[n].status \in Statuses
                   /\ orders'[n].status = Asked[tasks[t].pc]
                   /\ orders'[n].position = orders[n].position
        BY <1>0, <3>1, <3>2, RowStays
      <3>4. "none" \notin Statuses /\ tasks[t].pc \in DOMAIN Asked
        BY <2>2 DEF Statuses, Open, Terminal, LedgerWrite
      <3> QED BY <1>2, <1>5, <3>3, <3>4 DEF OwnRow
    <2>3. CASE ~NewOrder(t) /\ ~LedgerWrite(t)
      BY <2>3 DEF OwnRow, Step, TakeNext, CheckDuplicate, Reserve, ReserveRow, ReserveMemory,
                  Close, Commit, Release, ReleaseRow, ReleaseMemory,
                  Refuse, PaperFill, PaperRaises, LiveAdd, LiveAnswer
    <2> QED BY <2>1, <2>2, <2>3
  <1>6. ASSUME t \notin Reductions
        PROVE  OwnOrder(t) /\ \A n \in Orders \ {tasks[t].order} : exchange'[n] = exchange[n]
    <2>1. ASSUME NEW state, NEW got, Place(t, state, got)
          PROVE  /\ exchange'[tasks[t].order].state = state
                 /\ exchange'[tasks[t].order].executed = got
                 /\ \A n \in Orders \ {tasks[t].order} : exchange'[n] = exchange[n]
      BY <1>0, <1>2, <1>6, <2>1 DEF Place
    <2>2. CASE PaperFill(t)
      <3>1. Place(t, "closed", Requested) /\ Reply(t, Requested)
            /\ Executor = "paper" /\ tasks[t].pc = "submit"
        BY <2>2 DEF PaperFill
      <3>2. tasks'[t].got = Requested
        <4>1. Requested \in Failed..MaxFill
          BY ExitAssumption, RequestedAssumption DEF Failed
        <4> QED BY <1>0, <3>1, <4>1, ReplyMoves
      <3> QED BY <2>1, <3>1, <3>2 DEF OwnOrder
    <2>3. CASE LiveAdd(t)
      BY <2>1, <2>3 DEF LiveAdd, OwnOrder
    <2>4. CASE ~PaperFill(t) /\ ~LiveAdd(t)
      <3>1. exchange' = exchange
        BY <2>4 DEF Step, TakeNext, CheckDuplicate, Reserve, ReserveRow, ReserveMemory,
                    NewOrder, LedgerWrite, Close, Commit, Release, ReleaseRow,
                    ReleaseMemory, venue, Refuse, PaperRaises, LiveAnswer
      <3> QED BY <3>1 DEF OwnOrder
    <2> QED BY <2>2, <2>3, <2>4
  <1> QED BY <1>1, <1>2, <1>3, <1>4, <1>5, <1>6
-----------------------------------------------------------------------------
(* A step of the system is one of a seller on its course, or happens          *)
(* elsewhere: recovery, the exchange, a crash, a start or the reduction.      *)

Acts(t) ==
    /\ Proceeds(t) /\ Busy(t) /\ tasks[t].position \in Positions
    /\ tasks[t].order \in Orders /\ recovery' = recovery
    /\ OwnRow(t) /\ OwnOrder(t) /\ OwnPosition(t)
    /\ \A n \in Orders \ {tasks[t].order} :
            orders'[n] = orders[n] /\ exchange'[n] = exchange[n]

\* A seller goes on, ends, or starts with an order that has no row.
Restarts(u) ==
    \/ tasks'[u] = tasks[u]
    \/ tasks'[u].pc \in Free /\ tasks'[u].got = NotAnswered
    \/ /\ tasks'[u].pc = "dup" /\ tasks'[u].got = NotAnswered
       /\ tasks'[u].order \in Orders /\ orders[tasks'[u].order].status = "none"
       /\ orders' = orders

\* What recovery writes, and the goals it takes up.
RowRecovers(n) ==
    \/ orders'[n] = orders[n]
    \/ /\ orders[n].status # "none" /\ orders'[n].status # "none"
       /\ orders'[n].position = orders[n].position
       /\ orders'[n].status = "REJECTED"
             => \E i \in Instances : recovery[i].goal = "REJECTED"

GoalFound(i) ==
    \/ recovery'[i].goal \in {None, recovery[i].goal}
    \/ \E o \in Orders, txid \in BOOLEAN : \E v \in Verdicts(o, txid) :
            recovery'[i].goal = v[1]

Elsewhere ==
    /\ \A u \in Sellers : Restarts(u)
    /\ \A n \in Orders : RowRecovers(n)
    /\ \A n \in Orders : exchange'[n] = exchange[n] \/ exchange[n].state = "open"
    /\ \A i \in Instances : GoalFound(i)
    /\ \A q \in Positions : \/ positions'[q] = positions[q]
                            \/ Reductions # {} /\ positions'[q] # "open"

LEMMA RecoverElsewhere ==
    ASSUME TypeInv, NEW i \in Instances, Recover(i)
    PROVE  /\ \A n \in Orders : RowRecovers(n)
           /\ \A j \in Instances : GoalFound(j)
  <1>0. /\ TypeOK /\ StartsFit /\ recovery \in [Instances -> Start]
        /\ orders \in [Orders -> Row] /\ recovery[i] \in Start
    BY Typing DEF TypeInv
  <1>1. \A j \in Instances \ {i} : GoalFound(j)
    BY RecoverTypes DEF GoalFound
  <1>r. ASSUME NEW phase \in {"recovering", "tripped"},
               NEW pending \in SUBSET (Orders \X BOOLEAN),
               recovery' = [recovery EXCEPT ![i] = Resume(phase, pending)]
        PROVE  GoalFound(i)
    <2>1. Resume(phase, pending).goal = None
      <3> DEFINE new == [Down EXCEPT !.phase = phase, !.pending = pending]
      <3>1. new.goal = None /\ Started.goal = None /\ Stopped.goal = None
        BY DEF Down, Started, Stopped
      <3>2. Resume(phase, pending) \in {new, Started, Stopped}
        <4>1. CASE pending = {}
          BY <4>1 DEF Resume
        <4>2. CASE pending # {}
          BY <4>2 DEF Resume
        <4> QED BY <4>1, <4>2
      <3> HIDE DEF new
      <3> QED BY <3>1, <3>2
    <2>2. recovery'[i] = Resume(phase, pending)
      BY <1>0, <1>r
    <2> QED BY <2>1, <2>2 DEF GoalFound
  <1>2. CASE StartInstance(i)
    <2>1. orders' = orders
      BY <1>2 DEF StartInstance
    <2>2. CASE recovery' = [recovery EXCEPT ![i] = Stopped]
      BY <1>0, <1>1, <2>1, <2>2 DEF Stopped, Down, GoalFound, RowRecovers
    <2>3. CASE recovery' # [recovery EXCEPT ![i] = Stopped]
      <3> DEFINE pending == {<<o, orders[o].txid>> : o \in {n \in Orders : orders[n].status \in Open}}
      <3>1. recovery' = [recovery EXCEPT ![i] = Resume("recovering", pending)]
        BY <1>2, <2>3 DEF StartInstance
      <3>2. pending \in SUBSET (Orders \X BOOLEAN)
        BY <1>0 DEF Row
      <3> HIDE DEF pending
      <3> QED BY <1>1, <1>r, <2>1, <3>1, <3>2 DEF RowRecovers
    <2> QED BY <2>2, <2>3
  <1>3. CASE \E o \in Orders, txid \in BOOLEAN : RecoverLookup(i, o, txid)
    <2>1. PICK o \in Orders, txid \in BOOLEAN : RecoverLookup(i, o, txid)
      BY <1>3
    <2> DEFINE rest == recovery[i].pending \ {<<o, txid>>}
               phase(v) == IF v[1] = "UNKNOWN" THEN "tripped" ELSE recovery[i].phase
    <2>2. orders' = orders /\ recovery[i].pending # {}
      BY <2>1 DEF RecoverLookup
    <2>3. /\ recovery[i].phase \in {"recovering", "tripped"}
          /\ rest \in SUBSET (Orders \X BOOLEAN)
      BY <1>0, <2>2 DEF StartsFit, Start
    <2>5. PICK v \in Verdicts(o, txid) :
            \/ recovery' = [recovery EXCEPT ![i] =
                    [@ EXCEPT !.pending = rest, !.order = o, !.goal = v[1],
                        !.fill = v[2], !.at = IF v[1] \in {"ACK", "REJECTED"}
                                              THEN "direct" ELSE orders[o].status]]
            \/ recovery' = [recovery EXCEPT ![i] = Resume(phase(v), rest)]
      BY <2>1 DEF RecoverLookup
    <2>7. CASE recovery' = [recovery EXCEPT ![i] = Resume(phase(v), rest)]
      <3>1. phase(v) \in {"recovering", "tripped"}
        BY <2>3
      <3> HIDE DEF phase, rest
      <3> QED BY <1>1, <1>r, <2>2, <2>3, <2>7, <3>1 DEF RowRecovers
    <2>8. CASE recovery' # [recovery EXCEPT ![i] = Resume(phase(v), rest)]
      <3> DEFINE at == IF v[1] \in {"ACK", "REJECTED"} THEN "direct" ELSE orders[o].status
                 new == [recovery[i] EXCEPT !.pending = rest, !.order = o, !.goal = v[1],
                                            !.fill = v[2], !.at = at]
      <3>1. recovery' = [recovery EXCEPT ![i] = new]
        BY <2>5, <2>8
      <3> HIDE DEF at, rest
      <3>2. new.goal = v[1]
        BY <1>0 DEF Start
      <3> HIDE DEF new
      <3>3. recovery'[i].goal = v[1]
        BY <1>0, <3>1, <3>2
      <3> QED BY <1>1, <2>2, <3>3 DEF GoalFound, RowRecovers
    <2> QED BY <2>7, <2>8
  <1>4. CASE RecoverHop(i)
    <2> DEFINE r == recovery[i]
               phase == IF r.goal = "UNKNOWN" THEN "tripped" ELSE r.phase
    <2>1. r.order # None
      BY <1>4 DEF RecoverHop
    <2>2. /\ r.phase \in {"recovering", "tripped"} /\ r.goal \in Statuses
          /\ r.pending \in SUBSET (Orders \X BOOLEAN) /\ r.fill \in NoFill..MaxFill
          /\ r.order \in Orders \cup {None}
      BY <1>0, <2>1 DEF StartsFit, Start
    <2>3. PICK o \in Orders \cup {None}, to \in Statuses, fill \in NoFill..MaxFill, ok \in BOOLEAN :
            /\ to = NextHop(r.at, r.goal)
            /\ Transition(o, to, fill, r.goal \in {"ACK", "FILLED", "CANCELED"}, ok)
            /\ \/ recovery' = [recovery EXCEPT ![i].at = to]
               \/ recovery' = [recovery EXCEPT ![i] = Resume(phase, r.pending)]
      <3>1. NextHop(r.at, r.goal) \in Statuses
        BY <2>2 DEF NextHop, Statuses, Open, Terminal
      <3> QED BY <1>4, <2>2, <3>1 DEF RecoverHop
    <2>4. to = "REJECTED" => r.goal = "REJECTED"
      BY <2>3 DEF NextHop
    <2>5. \A n \in Orders : RowRecovers(n)
      <3>1. PICK known \in BOOLEAN : Transition(o, to, fill, known, ok)
        <4>1. CASE r.goal \in {"ACK", "FILLED", "CANCELED"}
          <5>1. (r.goal \in {"ACK", "FILLED", "CANCELED"}) = TRUE
            BY <4>1
          <5> QED BY <2>3, <5>1, Zenon
        <4>2. CASE ~(r.goal \in {"ACK", "FILLED", "CANCELED"})
          <5>1. (r.goal \in {"ACK", "FILLED", "CANCELED"}) = FALSE
            BY <4>2
          <5> QED BY <2>3, <5>1, Zenon
        <4> QED BY <4>1, <4>2
      <3>2. \A n \in Orders : orders'[n] = orders[n]
                \/ /\ n = o /\ orders[n].status \in Statuses
                   /\ orders'[n].status = to
                   /\ orders'[n].position = orders[n].position
        BY <1>0, <3>1, RowStays DEF Transition
      <3>3. "none" \notin Statuses
        BY DEF Statuses, Open, Terminal
      <3> QED BY <2>4, <3>2, <3>3 DEF RowRecovers
    <2>6. CASE recovery' = [recovery EXCEPT ![i].at = to]
      <3> DEFINE new == [r EXCEPT !.at = to]
      <3>1. recovery' = [recovery EXCEPT ![i] = new]
        BY <2>6
      <3>2. new.goal = r.goal
        BY <1>0 DEF Start
      <3> HIDE DEF new
      <3>3. recovery'[i].goal = r.goal
        BY <1>0, <3>1, <3>2
      <3> QED BY <1>1, <2>5, <3>3 DEF GoalFound
    <2>7. CASE recovery' = [recovery EXCEPT ![i] = Resume(phase, r.pending)]
      <3>1. phase \in {"recovering", "tripped"}
        BY <2>2
      <3> HIDE DEF phase
      <3> QED BY <1>1, <1>r, <2>2, <2>5, <2>7, <3>1
    <2> QED BY <2>3, <2>6, <2>7
  <1> QED BY <1>2, <1>3, <1>4 DEF Recover

LEMMA StepKinds ==
    ASSUME ExclusionInv, [Next]_vars
    PROVE  Elsewhere \/ \E t \in Sellers : Acts(t)
  <1> USE TwoKinds
  <1>0. TypeInv
    BY DEF ExclusionInv
  <1>r. ASSUME recovery' = recovery
        PROVE  \A i \in Instances : GoalFound(i)
    BY <1>r DEF GoalFound
  <1>o. ASSUME orders' = orders
        PROVE  \A n \in Orders : RowRecovers(n)
    BY <1>o DEF RowRecovers
  <1>t. ASSUME tasks' = tasks
        PROVE  \A u \in Sellers : Restarts(u)
    BY <1>t DEF Restarts
  <1>1. CASE \E t \in Tasks, i \in Instances : Begin(t, i) \/ BeginReduction(t, i)
    <2>1. PICK t \in Tasks, i \in Instances : Begin(t, i) \/ BeginReduction(t, i)
      BY <1>1
    <2>2. /\ \A u \in Tasks \ {t} : tasks'[u] = tasks[u]
          /\ t \in Sellers => tasks'[t].pc = "next"
          /\ tasks'[t].got = NotAnswered
          /\ UNCHANGED <<book, orders, venue>>
      BY <1>0, <2>1, Beginnings
    <2>3. \A u \in Sellers : Restarts(u)
      BY <2>2 DEF Restarts, Free
    <2> QED BY <1>r, <1>o, <2>2, <2>3 DEF Elsewhere, venue, book
  <1>2. CASE \E t \in Tasks : Step(t)
    <2>1. PICK t \in Tasks : Step(t)
      BY <1>2
    <2>2. ASSUME NEW p \in Positions, NEW o \in Orders, TakeNext(t, p, o)
          PROVE  Elsewhere
      <3>1. /\ \A u \in Tasks \ {t} : tasks'[u] = tasks[u]
            /\ tasks'[t].pc = IF t \in Reductions THEN "close" ELSE "dup"
            /\ tasks'[t].order = o /\ tasks'[t].got = NotAnswered
            /\ UNCHANGED <<book, orders, venue>>
        BY <1>0, <2>2, Takings
      <3>2. orders[o].status = "none"
        BY <2>2 DEF TakeNext, NoRow
      <3>3. \A u \in Sellers : Restarts(u)
        BY <3>1, <3>2 DEF Restarts
      <3> QED BY <1>r, <1>o, <3>1, <3>3 DEF Elsewhere, venue, book
    <2>3. CASE ~\E p \in Positions, o \in Orders : TakeNext(t, p, o)
      <3>1. CASE t \in Sellers
        BY <1>0, <2>1, <2>3, <3>1, Courses, Effects DEF Acts
      <3>2. CASE t \notin Sellers
        <4>1. t \in Reductions /\ OwnPosition(t) /\ recovery' = recovery
              /\ UNCHANGED <<orders, exchange>> /\ tasks[t].pc \in ByBook
              /\ tasks[t].position \in Positions
          BY <1>0, <2>1, <2>3, <3>2, Effects DEF TypeInv, LocalsFit, Fit
        <4>2. \A u \in Sellers : tasks'[u] = tasks[u]
          BY <1>0, <2>1, <3>2, <4>1, ReductionMoves
        <4>3. \A q \in Positions : positions'[q] = positions[q] \/ positions'[q] # "open"
          BY <4>1 DEF OwnPosition, ByBook
        <4>4. \A u \in Sellers : Restarts(u)
          BY <4>2 DEF Restarts
        <4> QED BY <1>r, <1>o, <4>1, <4>3, <4>4 DEF Elsewhere
      <3> QED BY <3>1, <3>2
    <2> QED BY <2>2, <2>3
  <1>3. CASE \/ \E i \in Instances : SaveState(i) \/ SaveWrites(i)
             \/ Acknowledge
             \/ UNCHANGED vars
    BY <1>3, <1>r, <1>o, <1>t
       DEF SaveState, SaveWrites, Acknowledge, vars, book, venue, Elsewhere
  <1>4. CASE \E i \in Instances : Stop(i)
    <2>1. PICK i \in Instances : Stop(i)
      BY <1>4
    <2>2. recovery \in [Instances -> Start]
      BY <1>0, Typing DEF TypeInv
    <2>3. Stopped.goal = None
      BY DEF Stopped, Down
    <2>4. \A j \in Instances : GoalFound(j)
      BY <2>1, <2>2, <2>3 DEF Stop, GoalFound
    <2> QED BY <1>o, <1>t, <2>1, <2>4 DEF Stop, book, Elsewhere
  <1>5. CASE \E i \in Instances : Recover(i)
    <2>1. UNCHANGED <<book, tasks, exchange, crashes>>
      BY <1>0, <1>5, RecoverTypes
    <2> QED BY <1>0, <1>5, <1>t, <2>1, RecoverElsewhere DEF Elsewhere, book
  <1>6. CASE \E o \in Orders : ExchangeSettles(o)
    <2>1. PICK o \in Orders : ExchangeSettles(o)
      BY <1>6
    <2>2. exchange \in [Orders -> Placed]
      BY <1>0, Typing DEF TypeInv
    <2>3. \A n \in Orders : exchange'[n] = exchange[n] \/ exchange[n].state = "open"
      BY <2>1, <2>2 DEF ExchangeSettles
    <2>4. UNCHANGED <<book, orders, tasks, recovery>>
      BY <2>1 DEF ExchangeSettles
    <2> QED BY <1>r, <1>o, <1>t, <2>3, <2>4 DEF Elsewhere, book
  <1>7. CASE Crash
    <2>1. /\ \A u \in Tasks : tasks'[u].pc \in Free /\ tasks'[u].got = NotAnswered
          /\ \A i \in Instances : recovery'[i].goal = None
          /\ UNCHANGED <<positions, orders, exchange>>
      BY <1>7 DEF Crash, Rest, Free, Down
    <2>2. /\ \A u \in Sellers : Restarts(u)
          /\ \A i \in Instances : GoalFound(i)
      BY <2>1 DEF Restarts, GoalFound
    <2> QED BY <1>o, <2>1, <2>2 DEF Elsewhere
  <1>8. CASE Preflight
    <2>1. /\ recovery' = recovery \/ recovery' = [i \in Instances |-> Loaded]
          /\ UNCHANGED <<positions, orders, exchange, tasks>>
      BY <1>8 DEF Preflight
    <2>2. Loaded.goal = None
      BY DEF Loaded, Down
    <2>3. \A i \in Instances : GoalFound(i)
      BY <2>1, <2>2 DEF GoalFound
    <2> QED BY <1>o, <1>t, <2>1, <2>3 DEF Elsewhere
  <1> QED BY <1>1, <1>2, <1>3, <1>4, <1>5, <1>6, <1>7, <1>8 DEF Next

\* The row of a seller's order is about the position it sells.
OwnRows ==
    \A t \in Sellers : Busy(t) =>
        \/ orders[tasks[t].order].status = "none"
        \/ orders[tasks[t].order].position = tasks[t].position

RowsInv == ExclusionInv /\ LedgerInv /\ OwnRows

LEMMA RowFacts ==
    ASSUME RowsInv
    PROVE  /\ TypeInv /\ TypeOK /\ LocalsFit /\ tasks \in [Tasks -> Task]
           /\ orders \in [Orders -> Row] /\ exchange \in [Orders -> Placed]
           /\ SellersExclude /\ KnownExclusively /\ ReservesFirst
           /\ OrdersDiffer /\ AnswersTrue /\ UnsentAbsent /\ RowsFirst
           /\ VenueFits /\ LedgerNeverOverstates /\ OwnRows
           /\ None \notin Orders
           /\ \A t \in Sellers : Busy(t) => /\ tasks[t].order \in Orders
                                            /\ tasks[t].position \in Positions
           /\ \A t \in Sellers : ~Busy(t) => tasks[t].got = NotAnswered
           /\ \A t \in Sellers : tasks[t].got \in NotAnswered..MaxFill
  BY Typing, TwoKinds, ExitAssumption
     DEF RowsInv, ExclusionInv, LedgerInv, OrdersFit, TypeInv, LocalsFit, Task

\* A seller's step leaves the order of another as it is.
LEMMA OthersOrders ==
    ASSUME RowsInv, NEW t \in Sellers, Acts(t), NEW u \in Sellers \ {t}
    PROVE  /\ tasks'[u] = tasks[u]
           /\ Busy(u) => /\ tasks[u].order \in Orders \ {tasks[t].order}
                         /\ orders'[tasks[u].order] = orders[tasks[u].order]
                         /\ exchange'[tasks[u].order] = exchange[tasks[u].order]
  <1>1. tasks'[u] = tasks[u]
    BY TwoKinds DEF Acts, Proceeds
  <1>2. ASSUME Busy(u)
        PROVE  tasks[u].order \in Orders \ {tasks[t].order}
    <2>1. tasks[u].order \in Orders /\ OrdersDiffer /\ None \notin Orders
      BY <1>2, RowFacts
    <2> QED BY <2>1, TwoKinds DEF OrdersDiffer, Acts
  <1> QED BY <1>1, <1>2 DEF Acts

LEMMA NextRows ==
    ASSUME RowsInv, [Next]_vars
    PROVE  RowsInv'
  <1>1. ExclusionInv' /\ LedgerInv'
    BY NextExcludes, NextLedger DEF RowsInv
  <1>2. CASE Elsewhere
    <2>1. ASSUME NEW u \in Sellers, tasks'[u] = tasks[u], Busy(u)
          PROVE  \/ orders'[tasks[u].order].status = "none"
                 \/ orders'[tasks[u].order].position = tasks[u].position
      <3>1. tasks[u].order \in Orders
        BY <2>1, RowFacts
      <3> QED BY <1>2, <2>1, <3>1, RowFacts DEF Elsewhere, RowRecovers, OwnRows
    <2>2. ASSUME NEW u \in Sellers, Busy(u)'
          PROVE  \/ orders'[tasks'[u].order].status = "none"
                 \/ orders'[tasks'[u].order].position = tasks'[u].position
      <3>1. Restarts(u)
        BY <1>2 DEF Elsewhere
      <3>2. CASE tasks'[u] = tasks[u]
        BY <2>1, <2>2, <3>2 DEF Busy
      <3>3. CASE tasks'[u].pc \in Free
        BY <2>2, <3>3 DEF Busy
      <3> QED BY <3>1, <3>2, <3>3 DEF Restarts
    <2>3. OwnRows'
      BY <2>2 DEF OwnRows
    <2> QED BY <1>1, <2>3 DEF RowsInv
  <1>3. CASE \E t \in Sellers : Acts(t)
    <2>1. PICK t \in Sellers : Acts(t)
      BY <1>3
    <2>2. ASSUME NEW u \in Sellers \ {t}, Busy(u)
          PROVE  \/ orders'[tasks'[u].order].status = "none"
                 \/ orders'[tasks'[u].order].position = tasks'[u].position
      BY <2>1, <2>2, OthersOrders, RowFacts DEF OwnRows
    <2>3. ASSUME Busy(t)'
          PROVE  \/ orders'[tasks'[t].order].status = "none"
                 \/ orders'[tasks'[t].order].position = tasks'[t].position
      <3>1. SameLocals(t) /\ Busy(t) /\ OwnRow(t)
        BY <2>1, <2>3 DEF Acts, Proceeds, Busy
      <3>2. \/ orders[tasks[t].order].status = "none"
            \/ orders[tasks[t].order].position = tasks[t].position
        BY <3>1, RowFacts DEF OwnRows
      <3> QED BY <3>1, <3>2 DEF SameLocals, OwnRow
    <2>4. \A u \in Sellers \ {t} : Busy(u)' => Busy(u)
      BY <2>1, OthersOrders DEF Busy
    <2>5. OwnRows'
      BY <2>2, <2>3, <2>4 DEF OwnRows
    <2> QED BY <1>1, <2>5 DEF RowsInv
  <1> QED BY <1>2, <1>3, StepKinds DEF RowsInv

LEMMA InitRows == Init => RowsInv
  <1> SUFFICES ASSUME Init PROVE RowsInv
    OBVIOUS
  <1>1. \A t \in Sellers : ~Busy(t)
    BY TwoKinds DEF Init, Rest, Busy, Free
  <1> QED BY <1>1, InitExcludes, InitLedger DEF RowsInv, OwnRows
-----------------------------------------------------------------------------
(* Without a live exchange: no answer is late, none is partial, and nobody    *)
(* proves the absence of an order.  What is sold is then never sold again.    *)

Unsold(p) == \A o \in Orders : orders[o].position = p => exchange[o].executed = 0

\* The paper executor has sold an order in full or not seen it.
PaperVenue ==
    \A o \in Orders :
        /\ exchange[o].state \in {"absent", "closed"}
        /\ exchange[o].state = "closed" => exchange[o].executed = Requested

\* A failed order was never placed, and only a failed one is given back or
\* rejected, save for the one that is withdrawn before it is sent.
PaperTasks ==
    \A t \in Sellers :
        /\ tasks[t].pc # "wait"
        /\ tasks[t].got = Failed => exchange[tasks[t].order].state = "absent"
        /\ tasks[t].pc \in {"reject", "release", "release row"} => tasks[t].got = Failed
        /\ tasks[t].pc = "withdraw" => tasks[t].got = NotAnswered
        /\ Busy(t) /\ tasks[t].got = NotAnswered
              => orders[tasks[t].order].status # "REJECTED"

NoProof == \A i \in Instances : recovery[i].goal # "REJECTED"

\* Nothing is sold of a position that may still be sold.
OpenUnsold == \A p \in Positions : positions[p] = "open" => Unsold(p)
OwnersUnsold ==
    \A t \in Sellers : Owns(t) /\ tasks[t].got < 0 => Unsold(tasks[t].position)

OneSold ==
    \A o, n \in Orders :
        /\ orders[o].position = orders[n].position
        /\ exchange[o].executed > 0 /\ exchange[n].executed > 0
        => o = n

PaperInv ==
    /\ RowsInv /\ PaperVenue /\ PaperTasks /\ NoProof
    /\ OpenUnsold /\ OwnersUnsold /\ OneSold /\ RejectedMeansUnsold

LEMMA PaperFacts ==
    ASSUME PaperInv
    PROVE  /\ RowsInv /\ PaperVenue /\ PaperTasks /\ NoProof
           /\ OpenUnsold /\ OwnersUnsold /\ OneSold /\ RejectedMeansUnsold
           /\ Requested > 0 /\ Requested \in Nat
           /\ \A o \in Orders : /\ exchange[o].executed \in Nat
                                /\ exchange[o].state = "absent" => exchange[o].executed = 0
           /\ \A t \in Sellers : tasks[t].got >= 0 => tasks[t].got = Requested
           /\ \A o \in Orders : orders[o].status = "none" => exchange[o].executed = 0
  <1>1. RowsInv /\ PaperVenue /\ Requested > 0 /\ Requested \in Nat
    BY RequestedAssumption DEF PaperInv
  <1>2. \A o \in Orders : /\ exchange[o].executed \in Nat
                          /\ exchange[o].state = "absent" => exchange[o].executed = 0
    BY <1>1, RowFacts, ExitAssumption DEF Placed, VenueFits
  <1>3. \A t \in Sellers : tasks[t].got >= 0 => tasks[t].got = Requested
    BY <1>1, RowFacts, TwoKinds DEF AnswersTrue, PaperVenue
  <1>4. \A o \in Orders : orders[o].status = "none" => exchange[o].executed = 0
    BY <1>1, <1>2, RowFacts DEF VenueFits
  <1> QED BY <1>1, <1>2, <1>3, <1>4 DEF PaperInv

\* Elsewhere nothing is sold or opened, and no row is settled as rejected.
LEMMA ElsewherePaper ==
    ASSUME PaperInv, Elsewhere, Executor # "live"
    PROVE  /\ PaperVenue' /\ PaperTasks' /\ NoProof'
           /\ OpenUnsold' /\ OwnersUnsold' /\ OneSold' /\ RejectedMeansUnsold'
  <1>0. /\ RowsInv /\ PaperVenue /\ PaperTasks /\ NoProof
        /\ OpenUnsold /\ OwnersUnsold /\ OneSold /\ RejectedMeansUnsold
    BY PaperFacts
  <1>1. \A n \in Orders : exchange'[n] = exchange[n]
    BY <1>0 DEF Elsewhere, PaperVenue
  <1>2. \A n \in Orders :
            \/ orders'[n] = orders[n]
            \/ /\ orders[n].status # "none" /\ orders'[n].status # "REJECTED"
               /\ orders'[n].position = orders[n].position
    BY <1>0 DEF Elsewhere, RowRecovers, NoProof
  <1>3. \A n \in Orders : orders'[n].position = orders[n].position
    BY <1>2
  <1>4. ASSUME NEW u \in Sellers
        PROVE  \/ tasks'[u] = tasks[u]
               \/ tasks'[u].pc \in Free /\ tasks'[u].got = NotAnswered
               \/ /\ tasks'[u].pc = "dup" /\ tasks'[u].got = NotAnswered
                  /\ tasks'[u].order \in Orders
                  /\ orders'[tasks'[u].order].status = "none"
    BY DEF Elsewhere, Restarts
  <1>5. ASSUME NEW u \in Sellers, tasks'[u] # tasks[u]
        PROVE  /\ tasks'[u].pc \in Free \cup {"dup"} /\ tasks'[u].got = NotAnswered
               /\ Busy(u)' => orders'[tasks'[u].order].status # "REJECTED"
    BY <1>4, <1>5 DEF Busy
  <1>6. PaperVenue' /\ OneSold' /\ RejectedMeansUnsold'
    BY <1>0, <1>1, <1>2, <1>3 DEF PaperVenue, OneSold, RejectedMeansUnsold
  <1>7. PaperTasks'
    <2> SUFFICES ASSUME NEW u \in Sellers
                 PROVE  /\ tasks'[u].pc # "wait"
                        /\ tasks'[u].got = Failed
                              => exchange'[tasks'[u].order].state = "absent"
                        /\ tasks'[u].pc \in {"reject", "release", "release row"}
                              => tasks'[u].got = Failed
                        /\ tasks'[u].pc = "withdraw" => tasks'[u].got = NotAnswered
                        /\ Busy(u)' /\ tasks'[u].got = NotAnswered
                              => orders'[tasks'[u].order].status # "REJECTED"
      BY DEF PaperTasks
    <2>1. CASE tasks'[u] # tasks[u]
      <3>1. /\ tasks'[u].pc \in Free \cup {"dup"} /\ tasks'[u].got = NotAnswered
            /\ tasks'[u].pc \notin Free => orders'[tasks'[u].order].status # "REJECTED"
        BY <1>5, <2>1 DEF Busy
      <3>2. tasks'[u].pc \notin {"wait", "reject", "release", "release row", "withdraw"}
        BY <3>1 DEF Free
      <3>3. tasks'[u].got # Failed
        BY <3>1 DEF Failed, NotAnswered
      <3> QED BY <3>1, <3>2, <3>3 DEF Busy
    <2>2. CASE tasks'[u] = tasks[u]
      <3>1. tasks[u].got = Failed => Busy(u)
        BY <1>0, RowFacts DEF Failed, NotAnswered
      <3>2. Busy(u) => tasks[u].order \in Orders
        BY <1>0, RowFacts
      <3>3. CASE Busy(u)
        <4>1. /\ exchange'[tasks'[u].order] = exchange[tasks[u].order]
              /\ orders'[tasks'[u].order].status = "REJECTED"
                    => orders[tasks[u].order].status = "REJECTED"
          BY <1>1, <1>2, <2>2, <3>2, <3>3
        <4> QED BY <1>0, <2>2, <3>3, <4>1 DEF PaperTasks, Busy
      <3>4. CASE ~Busy(u)
        BY <1>0, <2>2, <3>1, <3>4 DEF PaperTasks, Busy
      <3> QED BY <3>3, <3>4
    <2> QED BY <2>1, <2>2
  <1>8. NoProof'
    <2>1. ASSUME NEW o \in Orders, NEW txid \in BOOLEAN, NEW v \in Verdicts(o, txid)
          PROVE  v[1] # "REJECTED"
      <3>1. v \in {Found(exchange[o]), <<"UNKNOWN", NoFill>>}
        <4>1. CASE txid \/ exchange[o].userref
          BY <2>1, <4>1 DEF Verdicts
        <4>2. CASE ~(txid \/ exchange[o].userref)
          BY <2>1, <4>2 DEF Verdicts
        <4> QED BY <4>1, <4>2
      <3> QED BY <3>1 DEF Found
    <2> QED BY <1>0, <2>1 DEF Elsewhere, GoalFound, NoProof, None
  <1>9. \A p : Unsold(p) => Unsold(p)'
    BY <1>1, <1>3 DEF Unsold
  <1>10. OpenUnsold'
    BY <1>0, <1>9 DEF Elsewhere, OpenUnsold
  <1>11. OwnersUnsold'
    <2>1. \A u \in Sellers : tasks'[u] # tasks[u] => ~Owns(u)'
      BY <1>5, TwoKinds DEF Owns, Free
    <2>2. \A u \in Sellers : tasks'[u] = tasks[u] => (Owns(u)' => Owns(u))
      BY DEF Owns
    <2> QED BY <1>0, <1>9, <2>1, <2>2 DEF OwnersUnsold
  <1> QED BY <1>6, <1>7, <1>8, <1>10, <1>11

\* A seller's step of a venue that fills at once or refuses.
LEMMA SellerPaper ==
    ASSUME PaperInv, NEW t \in Sellers, Acts(t), Executor # "live"
    PROVE  /\ PaperVenue' /\ PaperTasks' /\ NoProof'
           /\ OpenUnsold' /\ OwnersUnsold' /\ OneSold' /\ RejectedMeansUnsold'
  <1>0. /\ RowsInv /\ PaperVenue /\ PaperTasks /\ NoProof
        /\ OpenUnsold /\ OwnersUnsold /\ OneSold /\ RejectedMeansUnsold
        /\ Requested > 0 /\ Requested \in Nat
        /\ SellersExclude /\ UnsentAbsent /\ AnswersTrue /\ OwnRows /\ RowsFirst
    BY PaperFacts, RowFacts
  <1>k. t \in Tasks /\ (t \in Signals \/ t \in Exits) /\ ~(t \in Signals /\ t \in Exits)
    BY TwoKinds DEF Sellers
  <1>1. PICK o \in Orders, p \in Positions : o = tasks[t].order /\ p = tasks[t].position
    BY DEF Acts
  <1>2. /\ \A n \in Orders \ {o} : orders'[n] = orders[n] /\ exchange'[n] = exchange[n]
        /\ Busy(t) /\ recovery' = recovery /\ Proceeds(t)
        /\ OwnRow(t) /\ OwnOrder(t) /\ OwnPosition(t)
    BY <1>1 DEF Acts
  <1>3. \/ /\ tasks'[t].pc \in Free /\ tasks'[t].got = NotAnswered
        \/ /\ SameLocals(t) /\ <<tasks[t].pc, tasks'[t].pc>> \in Course(t)
           /\ tasks'[t].got # tasks[t].got => tasks[t].pc = "submit"
    BY <1>0, <1>2 DEF Proceeds, PaperTasks
  \* What is placed is placed by its owner, for a position of which nothing is sold.
  <1>4. tasks[t].pc = "submit" =>
            /\ tasks[t].got = NotAnswered /\ Owns(t) /\ Unsold(p)
            /\ exchange[o].state = "absent" /\ orders[o].position = p
            /\ orders[o].status # "REJECTED"
    <2>1. ASSUME tasks[t].pc = "submit"
          PROVE  tasks[t].got = NotAnswered /\ Owns(t) /\ exchange[o].state = "absent"
      BY <1>0, <1>1, <1>k, <2>1 DEF UnsentAbsent, Fresh, Owns
    <2>2. tasks[t].pc = "submit" => Unsold(p)
      BY <1>0, <1>1, <2>1 DEF OwnersUnsold, NotAnswered
    <2>3. tasks[t].pc = "submit" => orders[o].status # "none"
      BY <1>0, <1>1, <1>k DEF RowsFirst, Rowed
    <2>4. tasks[t].pc = "submit" => orders[o].position = p /\ orders[o].status # "REJECTED"
      BY <1>0, <1>1, <1>2, <2>1, <2>3 DEF OwnRows, PaperTasks
    <2> QED BY <2>1, <2>2, <2>4
  <1>5. \/ exchange'[o] = exchange[o]
        \/ /\ tasks[t].pc = "submit" /\ tasks'[t].got = Requested
           /\ exchange'[o].state = "closed" /\ exchange'[o].executed = Requested
    BY <1>1, <1>2 DEF OwnOrder
  <1>6. \/ orders'[o].position = orders[o].position
        \/ /\ tasks[t].pc = "new" /\ exchange[o].executed = 0 /\ exchange'[o] = exchange[o]
           /\ orders'[o].position = p
    <2>1. CASE tasks[t].pc = "new"
      <3>1. tasks[t].got = NotAnswered
        BY <1>0, <1>k, <2>1 DEF UnsentAbsent, Fresh
      <3>2. exchange[o].state = "absent"
        BY <1>0, <1>1, <1>k, <2>1, <3>1 DEF UnsentAbsent
      <3>3. exchange[o].executed = 0
        BY <3>2, PaperFacts
      <3> QED BY <1>1, <1>2, <1>5, <2>1, <3>3 DEF OwnRow
    <2>2. CASE tasks[t].pc # "new"
      BY <1>1, <1>2, <2>2 DEF OwnRow
    <2> QED BY <2>1, <2>2
  <1>7. \A q : Unsold(q) => Unsold(q)' \/ (q = p /\ tasks[t].pc = "submit"
                                           /\ tasks'[t].got = Requested)
    BY <1>2, <1>4, <1>5, <1>6 DEF Unsold
  <1>8. PaperVenue'
    BY <1>0, <1>2, <1>5 DEF PaperVenue
  <1>9. NoProof'
    BY <1>0, <1>2 DEF NoProof
  <1>10. RejectedMeansUnsold'
    <2>1. ASSUME orders'[o].status = "REJECTED"
          PROVE  exchange'[o].executed = 0
      <3>1. CASE orders[o].status = "REJECTED"
        <4>1. tasks[t].pc # "submit"
          BY <1>4, <3>1
        <4> QED BY <1>0, <1>5, <3>1, <4>1 DEF RejectedMeansUnsold
      <3>2. CASE orders[o].status # "REJECTED"
        <4>1. tasks[t].pc \in {"withdraw", "reject"}
          BY <1>1, <1>2, <2>1, <3>2 DEF OwnRow, Asked
        <4>2. exchange[o].state = "absent"
          BY <1>0, <1>1, <1>k, <4>1 DEF PaperTasks, UnsentAbsent
        <4> QED BY <1>5, <4>1, <4>2, PaperFacts
      <3> QED BY <3>1, <3>2
    <2> QED BY <1>0, <1>2, <2>1 DEF RejectedMeansUnsold
  <1>11. OneSold'
    <2> SUFFICES ASSUME NEW m \in Orders, NEW n \in Orders, m # n,
                        orders'[m].position = orders'[n].position,
                        exchange'[m].executed > 0, exchange'[n].executed > 0
                 PROVE  FALSE
      BY DEF OneSold
    <2>1. ASSUME NEW k \in Orders \ {o}, orders'[k].position = orders'[o].position,
                 exchange'[k].executed > 0, exchange'[o].executed > 0
          PROVE  FALSE
      <3>1. orders'[k] = orders[k] /\ exchange'[k] = exchange[k]
        BY <1>2
      <3>2. orders'[o].position = orders[o].position
        BY <1>6, <2>1
      <3>3. CASE exchange'[o] = exchange[o]
        BY <1>0, <2>1, <3>1, <3>2, <3>3 DEF OneSold
      <3>4. CASE tasks[t].pc = "submit"
        <4>1. Unsold(p) /\ orders[k].position = p
          BY <1>4, <2>1, <3>1, <3>2, <3>4
        <4> QED BY <2>1, <3>1, <4>1 DEF Unsold
      <3> QED BY <1>5, <3>3, <3>4
    <2>2. CASE m # o /\ n # o
      BY <1>0, <1>2, <2>2 DEF OneSold
    <2> QED BY <2>1, <2>2
  <1>12. OpenUnsold'
    <2> SUFFICES ASSUME NEW q \in Positions, positions'[q] = "open"
                 PROVE  Unsold(q)'
      BY DEF OpenUnsold
    <2>1. CASE positions[q] = "open"
      <3>1. q = p => tasks[t].pc # "submit"
        BY <1>0, <1>1, <1>4, <2>1 DEF SellersExclude
      <3> QED BY <1>0, <1>7, <2>1, <3>1 DEF OpenUnsold
    <2>2. CASE positions[q] # "open"
      <3>1. q = p /\ tasks[t].pc = "release row"
        BY <1>1, <1>2, <2>2 DEF OwnPosition
      <3>2. Owns(t) /\ tasks[t].got = Failed
        BY <1>0, <3>1 DEF Owns, PaperTasks
      <3>3. Unsold(p)
        BY <1>0, <1>1, <3>2 DEF OwnersUnsold, Failed
      <3> QED BY <1>7, <3>1, <3>3
    <2> QED BY <2>1, <2>2
  <1>13. OwnersUnsold'
    <2>1. ASSUME NEW u \in Sellers \ {t}, Owns(u)', tasks'[u].got < 0
          PROVE  Unsold(tasks[u].position)'
      <3>1. tasks'[u] = tasks[u]
        BY <1>0, OthersOrders
      <3>2. Owns(u) /\ tasks[u].got < 0
        BY <2>1, <3>1 DEF Owns
      <3>3. PICK q : q = tasks[u].position
        OBVIOUS
      <3>4. Unsold(q)
        BY <1>0, <3>2, <3>3 DEF OwnersUnsold
      <3>5. tasks[t].pc = "submit" => q # p
        BY <1>0, <1>1, <1>4, <3>2, <3>3 DEF SellersExclude
      <3>6. Unsold(q)'
        BY <1>7, <3>4, <3>5
      <3> QED BY <3>1, <3>3, <3>6 DEF Unsold
    <2>2. ASSUME Owns(t)', tasks'[t].got < 0
          PROVE  Unsold(tasks[t].position)'
      <3>1. /\ SameLocals(t) /\ <<tasks[t].pc, tasks'[t].pc>> \in Course(t)
            /\ tasks'[t].got # tasks[t].got => tasks[t].pc = "submit"
        BY <1>3, <1>k, <2>2 DEF Owns, Free
      <3>2. tasks[t].got < 0
        BY <1>4, <2>2, <3>1 DEF NotAnswered
      <3>3. Unsold(p)
        <4>1. CASE tasks[t].pc = "reserve row"
          <5>1. tasks'[t].pc = "reserve memory"
            BY <1>k, <2>2, <3>1, <4>1 DEF Course, Owns
          <5>2. positions[p] = "open"
            BY <1>1, <1>2, <4>1, <5>1 DEF OwnPosition
          <5> QED BY <1>0, <5>2 DEF OpenUnsold
        <4>2. CASE tasks[t].pc # "reserve row"
          <5>1. Owns(t)
            BY <1>k, <2>2, <3>1, <4>2 DEF Course, Owns
          <5> QED BY <1>0, <1>1, <3>2, <5>1 DEF OwnersUnsold
        <4> QED BY <4>1, <4>2
      <3>4. tasks'[t].got # Requested
        BY <1>0, <2>2
      <3>5. Unsold(p)'
        BY <1>7, <3>3, <3>4
      <3> QED BY <1>1, <3>1, <3>5 DEF SameLocals, Unsold
    <2> QED BY <2>1, <2>2 DEF OwnersUnsold
  <1>14. PaperTasks'
    <2>1. ASSUME NEW u \in Sellers \ {t}
          PROVE  /\ tasks'[u].pc # "wait"
                 /\ tasks'[u].got = Failed
                       => exchange'[tasks'[u].order].state = "absent"
                 /\ tasks'[u].pc \in {"reject", "release", "release row"}
                       => tasks'[u].got = Failed
                 /\ tasks'[u].pc = "withdraw" => tasks'[u].got = NotAnswered
                 /\ Busy(u)' /\ tasks'[u].got = NotAnswered
                       => orders'[tasks'[u].order].status # "REJECTED"
      <3>1. /\ tasks'[u] = tasks[u]
            /\ Busy(u) => /\ orders'[tasks[u].order] = orders[tasks[u].order]
                          /\ exchange'[tasks[u].order] = exchange[tasks[u].order]
        BY <1>0, OthersOrders
      <3>2. tasks[u].got = Failed => Busy(u)
        BY <1>0, RowFacts DEF Failed, NotAnswered
      <3> QED BY <1>0, <3>1, <3>2 DEF PaperTasks, Busy
    <2>2. tasks'[t].pc # "wait"
      BY <1>2 DEF Proceeds
    <2>3. tasks'[t].got = Failed => exchange'[tasks'[t].order].state = "absent"
      <3>1. ASSUME tasks'[t].got = Failed
            PROVE  SameLocals(t) /\ exchange'[o] = exchange[o]
        BY <1>0, <1>3, <1>5, <3>1 DEF Failed, NotAnswered
      <3>2. tasks'[t].got = Failed => exchange[o].state = "absent"
        <4>1. tasks[t].pc = "submit" => exchange[o].state = "absent"
          BY <1>4
        <4>2. tasks[t].got = Failed => exchange[o].state = "absent"
          BY <1>0, <1>1 DEF PaperTasks
        <4>3. tasks'[t].got = Failed => tasks[t].got = Failed \/ tasks[t].pc = "submit"
          BY <1>3 DEF Failed, NotAnswered
        <4> QED BY <4>1, <4>2, <4>3
      <3> QED BY <1>1, <3>1, <3>2 DEF SameLocals
    <2>4. tasks'[t].pc \in {"reject", "release", "release row"} => tasks'[t].got = Failed
      <3>1. ASSUME tasks'[t].pc \in {"reject", "release", "release row"}
            PROVE  /\ <<tasks[t].pc, tasks'[t].pc>> \in Course(t)
                   /\ tasks'[t].got # tasks[t].got => tasks[t].pc = "submit"
        BY <1>3, <3>1 DEF Free
      <3>2. CASE tasks'[t].pc = "reject"
        <4>1. tasks[t].pc \in {"submit", "wait", "ack"}
          BY <3>1, <3>2 DEF Course
        <4>2. tasks[t].pc # "ack"
          <5>1. tasks[t].pc = "ack" => tasks[t].got = 0
            BY <1>2, <3>2 DEF Proceeds
          <5>2. tasks[t].got = 0 => tasks[t].got = Requested
            BY PaperFacts
          <5> QED BY <1>0, <5>1, <5>2
        <4> QED BY <1>2, <3>2, <4>1, <4>2 DEF Proceeds
      <3>3. CASE tasks'[t].pc \in {"release", "release row"}
        <4>1. tasks[t].pc \in {"reject", "release"}
          BY <3>1, <3>3 DEF Course
        <4> QED BY <1>0, <3>1, <3>3, <4>1 DEF PaperTasks
      <3> QED BY <3>2, <3>3
    <2>5. tasks'[t].pc = "withdraw" => tasks'[t].got = NotAnswered
      <3>1. ASSUME tasks'[t].pc = "withdraw"
            PROVE  /\ <<tasks[t].pc, tasks'[t].pc>> \in Course(t)
                   /\ tasks'[t].got # tasks[t].got => tasks[t].pc = "submit"
        BY <1>3, <3>1 DEF Free
      <3>2. tasks'[t].pc = "withdraw" => tasks[t].pc \in Before
        BY <3>1 DEF Course, Before
      <3>3. tasks'[t].pc = "withdraw" => tasks[t].pc # "submit"
        BY <3>2 DEF Before
      <3> QED BY <1>0, <3>1, <3>2, <3>3, RowFacts DEF ReservesFirst
    <2>6. Busy(t)' /\ tasks'[t].got = NotAnswered
             => orders'[tasks'[t].order].status # "REJECTED"
      <3> SUFFICES ASSUME tasks'[t].pc \notin Free, tasks'[t].got = NotAnswered
                   PROVE  orders'[tasks'[t].order].status # "REJECTED"
        BY DEF Busy
      <3>1. /\ SameLocals(t) /\ <<tasks[t].pc, tasks'[t].pc>> \in Course(t)
            /\ tasks[t].got = NotAnswered
        BY <1>3, <1>4
      <3>2. orders[o].status # "REJECTED"
        BY <1>0, <1>1, <1>2, <3>1 DEF PaperTasks
      <3>3. tasks[t].pc \notin {"withdraw", "reject"}
        <4>1. tasks[t].pc # "withdraw"
          BY <3>1 DEF Course
        <4>2. tasks[t].pc = "reject" => tasks[t].got = Failed
          BY <1>0 DEF PaperTasks
        <4> QED BY <3>1, <4>1, <4>2 DEF Failed, NotAnswered
      <3>4. orders'[o].status # "REJECTED"
        BY <1>1, <1>2, <3>2, <3>3 DEF OwnRow, Asked
      <3> QED BY <1>1, <3>1, <3>4 DEF SameLocals
    <2> QED BY <2>1, <2>2, <2>3, <2>4, <2>5, <2>6 DEF PaperTasks
  <1> QED BY <1>8, <1>9, <1>10, <1>11, <1>12, <1>13, <1>14

LEMMA NextPaper ==
    ASSUME PaperInv, [Next]_vars, Executor # "live"
    PROVE  PaperInv'
  <1>1. RowsInv'
    BY NextRows DEF PaperInv
  <1>2. CASE Elsewhere
    BY <1>1, <1>2, ElsewherePaper DEF PaperInv
  <1>3. CASE \E t \in Sellers : Acts(t)
    BY <1>1, <1>3, SellerPaper DEF PaperInv
  <1> QED BY <1>2, <1>3, StepKinds DEF PaperInv, RowsInv

LEMMA InitPaper == Init => PaperInv
  <1> SUFFICES ASSUME Init PROVE PaperInv
    OBVIOUS
  <1>1. \A o \in Orders : /\ exchange[o].state = "absent" /\ exchange[o].executed = 0
                          /\ orders[o].status = "none"
    BY DEF Init, Unplaced, NoRow
  <1>2. \A t \in Sellers : tasks[t].pc = "idle" /\ tasks[t].got = NotAnswered
    BY TwoKinds DEF Init, Rest
  <1>3. PaperVenue /\ RejectedMeansUnsold /\ OpenUnsold /\ OneSold
    BY <1>1 DEF PaperVenue, RejectedMeansUnsold, OpenUnsold, Unsold, OneSold
  <1>4. PaperTasks /\ OwnersUnsold
    <2>1. \A t \in Sellers : ~Owns(t) /\ ~Busy(t)
      BY <1>2 DEF Owns, Busy, Free
    <2>2. OwnersUnsold
      BY <2>1 DEF OwnersUnsold
    <2>3. \A t \in Sellers : tasks[t].got # Failed
      BY <1>2 DEF Failed, NotAnswered
    <2> QED BY <1>2, <2>1, <2>2, <2>3 DEF PaperTasks
  <1>5. NoProof
    BY DEF Init, NoProof, Started, Down, None
  <1> QED BY <1>3, <1>4, <1>5, InitRows DEF PaperInv

\* Where no exchange answers late or partially, whoever sends an order owns a
\* position of which nothing has been sold, and no order that is given up has
\* been placed.
THEOREM PaperInvariant ==
    ASSUME Executor # "live"
    PROVE  Spec => []PaperInv
  <1>1. PaperInv /\ [Next]_vars => PaperInv'
    BY NextPaper
  <1> QED BY InitPaper, <1>1, PTL DEF Spec

\* What the orders of a position have executed, one by one.
LEMMA SalesOf ==
    ASSUME RowsInv, NEW p \in Positions
    PROVE  /\ IsFiniteSet({n \in Orders : orders[n].position = p})
           /\ [o \in {n \in Orders : orders[n].position = p} |-> exchange[o].executed]
                \in [{n \in Orders : orders[n].position = p} -> Nat]
  <1>1. IsFiniteSet({n \in Orders : orders[n].position = p})
    BY OrdersFinite, FS_Subset
  <1>2. \A o \in Orders : exchange[o].executed \in Nat
    BY RowFacts DEF Placed
  <1> QED BY <1>1, <1>2

LEMMA SoldOnce ==
    ASSUME PaperInv, NEW p \in Positions
    PROVE  /\ Sold(p) <= Requested
           /\ Unsold(p) => Sold(p) = 0
  <1> DEFINE mine == {n \in Orders : orders[n].position = p}
             sales == [o \in mine |-> exchange[o].executed]
  <1>1. sales \in [mine -> Nat] /\ Sold(p) = Total(sales)
    BY SalesOf, PaperFacts DEF Sold
  <1>2. \A o \in mine : sales[o] = exchange[o].executed /\ o \in Orders
    OBVIOUS
  <1>3. \A o \in mine : sales[o] \in Nat /\ sales[o] <= Requested
    BY <1>2, PaperFacts DEF PaperVenue
  <1>4. \A o, n \in mine : sales[o] > 0 /\ sales[n] > 0 => o = n
    BY <1>2, PaperFacts DEF OneSold
  <1>5. Unsold(p) => \A o \in mine : sales[o] = 0
    BY <1>2 DEF Unsold
  <1> HIDE DEF mine, sales
  <1>6. CASE \A o \in mine : sales[o] = 0
    BY <1>1, <1>6, TotalOfNone, PaperFacts
  <1>7. CASE ~\A o \in mine : sales[o] = 0
    <2>1. PICK y \in mine : sales[y] # 0
      BY <1>7
    <2>2. \A x \in mine \ {y} : sales[x] = 0
      BY <1>3, <1>4, <2>1
    <2>3. Total(sales) = sales[y]
      BY <1>1, <2>2, TotalOfOne
    <2> QED BY <1>1, <1>3, <1>5, <2>1, <2>3
  <1> QED BY <1>6, <1>7

\* Paper and observation never sell a position for more than it holds, whatever
\* tasks and instances race over it and however often the process dies.
THEOREM SoldOnceOnly ==
    ASSUME Executor # "live"
    PROVE  Spec => []AtMostOneSale
  <1>1. PaperInv => AtMostOneSale
    BY SoldOnce DEF AtMostOneSale
  <1> QED BY <1>1, PaperInvariant, PTL

\* There a reservation is given back only when nothing was executed: a sold
\* position is never open for another exit.
THEOREM SoldIsReserved ==
    ASSUME Executor # "live"
    PROVE  Spec => []SoldStaysReserved
  <1>1. ASSUME PaperInv, NEW p \in Positions, positions[p] = "open"
        PROVE  ~(Sold(p) > 0)
    <2>1. Sold(p) = 0
      BY <1>1, SoldOnce, PaperFacts DEF OpenUnsold
    <2> QED BY <2>1
  <1>2. PaperInv => SoldStaysReserved
    BY <1>1 DEF SoldStaysReserved
  <1> QED BY <1>2, PaperInvariant, PTL

\* There an order the ledger settles as rejected has not executed and never will.
THEOREM RejectedIsUnsold ==
    ASSUME Executor # "live"
    PROVE  Spec => []RejectedMeansUnsold
  <1>1. PaperInv => RejectedMeansUnsold
    BY DEF PaperInv
  <1> QED BY <1>1, PaperInvariant, PTL
-----------------------------------------------------------------------------
(* With a live exchange, what the book closes has been sold.                  *)

\* Whoever closes has the answer that all was executed.
Closers ==
    \A t \in Sellers :
        tasks[t].pc \in {"close", "commit", "filled"} => tasks[t].got = Requested

\* An order has sold all of what the book has closed, and stays as it is.
ClosedSold ==
    \A p \in Positions : positions[p] = "closed" =>
        \E o \in Orders : /\ orders[o].position = p /\ orders[o].status # "none"
                          /\ exchange[o].state = "closed"
                          /\ exchange[o].executed >= Requested

SalesInv == RowsInv /\ Closers /\ ClosedSold

LEMMA NextSales ==
    ASSUME SalesInv, [Next]_vars, Reductions = {}
    PROVE  SalesInv'
  <1>0. /\ RowsInv /\ Closers /\ ClosedSold /\ RowsInv'
        /\ RowsFirst /\ UnsentAbsent /\ AnswersTrue /\ OwnRows /\ VenueFits
    BY NextRows, RowFacts DEF SalesInv
  <1>1. CASE Elsewhere
    <2>1. Closers'
      <3>1. ASSUME NEW u \in Sellers, tasks'[u].pc \in {"close", "commit", "filled"}
            PROVE  tasks'[u] = tasks[u]
        BY <1>1, <3>1 DEF Elsewhere, Restarts, Free
      <3> QED BY <1>0, <3>1 DEF Closers
    <2>2. \A o \in Orders : orders[o].status # "none" =>
            orders'[o].status # "none" /\ orders'[o].position = orders[o].position
      BY <1>1 DEF Elsewhere, RowRecovers
    <2>3. \A o \in Orders : exchange[o].state = "closed" => exchange'[o] = exchange[o]
      BY <1>1 DEF Elsewhere
    <2>4. \A p \in Positions : positions'[p] = positions[p]
      BY <1>1 DEF Elsewhere
    <2>5. ClosedSold'
      BY <1>0, <2>2, <2>3, <2>4 DEF ClosedSold
    <2> QED BY <1>0, <2>1, <2>5 DEF SalesInv
  <1>2. CASE \E t \in Sellers : Acts(t)
    <2>1. PICK t \in Sellers : Acts(t)
      BY <1>2
    <2>k. t \in Tasks /\ (t \in Signals \/ t \in Exits) /\ ~(t \in Signals /\ t \in Exits)
      BY TwoKinds DEF Sellers
    <2>2. PICK o \in Orders, p \in Positions : o = tasks[t].order /\ p = tasks[t].position
      BY <2>1 DEF Acts
    <2>3. /\ \A n \in Orders \ {o} : orders'[n] = orders[n] /\ exchange'[n] = exchange[n]
          /\ Busy(t) /\ Proceeds(t) /\ OwnRow(t) /\ OwnOrder(t) /\ OwnPosition(t)
      BY <2>1, <2>2 DEF Acts
    <2>4. Closers'
      <3>1. \A u \in Sellers \ {t} : tasks'[u] = tasks[u]
        BY <2>3, TwoKinds DEF Proceeds
      <3>2. ASSUME tasks'[t].pc \in {"close", "commit", "filled"}
            PROVE  tasks'[t].got = Requested
        <4>1. /\ <<tasks[t].pc, tasks'[t].pc>> \in Course(t)
              /\ tasks'[t].got # tasks[t].got => tasks[t].pc \in {"submit", "wait"}
          BY <2>3, <3>2 DEF Proceeds, Free
        <4>2. tasks[t].pc \in {"ack", "close", "commit", "filled"}
          BY <3>2, <4>1 DEF Course
        <4>3. tasks[t].pc = "ack" => tasks'[t].pc \in {"close", "filled"}
          BY <3>2, <4>1 DEF Course
        <4>4. tasks[t].got = Requested
          BY <1>0, <2>3, <4>2, <4>3 DEF Closers, Proceeds
        <4> QED BY <4>1, <4>2, <4>4
      <3> QED BY <1>0, <3>1, <3>2 DEF Closers
    \* The seller's own order is closed at the exchange only once it has a row,
    \* and is then as it stays.
    <2>5. exchange[o].state = "closed" => /\ orders[o].status # "none"
                                          /\ tasks[t].pc \notin {"new", "submit"}
      <3>1. tasks[t].pc \in {"new", "submit"} => exchange[o].state = "absent"
        BY <1>0, <2>2, <2>k DEF UnsentAbsent, Fresh
      <3> QED BY <1>0, <3>1 DEF VenueFits
    <2>6. exchange[o].state = "closed" =>
            /\ exchange'[o] = exchange[o] /\ orders'[o].position = orders[o].position
            /\ orders'[o].status # "none"
      BY <2>2, <2>3, <2>5 DEF OwnRow, OwnOrder, Asked
    <2>7. ASSUME NEW n \in Orders, orders[n].status # "none", exchange[n].state = "closed"
          PROVE  /\ exchange'[n] = exchange[n] /\ orders'[n].position = orders[n].position
                 /\ orders'[n].status # "none"
      BY <2>3, <2>6, <2>7
    <2>8. ASSUME NEW q \in Positions, positions'[q] = "closed"
          PROVE  \E n \in Orders : /\ orders[n].position = q /\ orders[n].status # "none"
                                   /\ exchange[n].state = "closed"
                                   /\ exchange[n].executed >= Requested
      <3>1. CASE positions[q] = "closed"
        BY <1>0, <3>1 DEF ClosedSold
      <3>2. CASE positions[q] # "closed"
        <4>1. q = p /\ tasks[t].pc = "commit"
          BY <2>2, <2>3, <2>8, <3>2 DEF OwnPosition
        <4>2. tasks[t].got = Requested
          BY <1>0, <4>1 DEF Closers
        <4>3. exchange[o].state = "closed" /\ exchange[o].executed = Requested
          BY <1>0, <2>2, <2>k, <4>2, RequestedAssumption DEF AnswersTrue
        <4>4. orders[o].status # "none" /\ orders[o].position = q
          BY <1>0, <2>2, <2>3, <2>5, <4>1, <4>3 DEF OwnRows
        <4>5. exchange[o].executed >= Requested
          BY <4>3, RequestedAssumption
        <4> QED BY <4>3, <4>4, <4>5
      <3> QED BY <3>1, <3>2
    <2>9. ClosedSold'
      BY <2>7, <2>8 DEF ClosedSold
    <2> QED BY <1>0, <2>4, <2>9 DEF SalesInv
  <1> QED BY <1>0, <1>1, <1>2, StepKinds DEF RowsInv

LEMMA InitSales == Init => SalesInv
  <1> SUFFICES ASSUME Init PROVE SalesInv
    OBVIOUS
  <1>1. Closers /\ ClosedSold
    BY TwoKinds DEF Init, Rest, Closers, ClosedSold
  <1> QED BY <1>1, InitRows DEF SalesInv

\* The book closes a position only after an order of it has sold all of it: for
\* every executor, with late, partial and lost answers, failing writes and
\* crashes - as long as nobody runs the reduction, which closes without a sale.
THEOREM ClosedIsSold ==
    ASSUME Reductions = {}
    PROVE  Spec => []ClosedMeansSold
  <1>1. SalesInv /\ [Next]_vars => SalesInv'
    BY NextSales
  <1>2. ASSUME SalesInv, NEW p \in Positions, positions[p] = "closed"
        PROVE  Sold(p) >= Requested
    <2> DEFINE mine == {n \in Orders : orders[n].position = p}
               sales == [o \in mine |-> exchange[o].executed]
    <2>1. PICK o \in Orders : orders[o].position = p /\ exchange[o].executed >= Requested
      BY <1>2 DEF SalesInv, ClosedSold
    <2>2. IsFiniteSet(mine) /\ sales \in [mine -> Nat] /\ Sold(p) = Total(sales)
      BY <1>2, SalesOf DEF SalesInv, Sold
    <2>3. o \in mine /\ sales[o] >= Requested
      BY <2>1
    <2> HIDE DEF mine, sales
    <2>4. sales[o] <= Total(sales) /\ sales[o] \in Nat /\ Total(sales) \in Nat
      BY <2>2, <2>3, TotalCovers, UnitsFinite
    <2> QED BY <2>2, <2>3, <2>4, RequestedAssumption
  <1>3. SalesInv => ClosedMeansSold
    BY <1>2 DEF ClosedMeansSold
  <1> QED BY InitSales, <1>1, <1>3, PTL DEF Spec
-----------------------------------------------------------------------------
(* Position, sell trade and capital move together.                            *)

\* A closed position is in one sell row and credited in one row of capital.
BookedOnce(p) ==
    IF positions[p] = "closed"
    THEN /\ trades[p] = 1
         /\ \E id \in RowIds : /\ capital[id][p] = 1
                               /\ \A other \in RowIds \ {id} : capital[other][p] = 0
    ELSE trades[p] = 0 /\ \A id \in RowIds : capital[id][p] = 0

\* No save is under way; a row is what its instance holds in memory, and the
\* rows of later lives are empty.
CapitalSaved ==
    /\ \A i \in Instances : saving[i] = {} /\ capital[RowId(i)] = held[i]
    /\ \A i \in Instances, n \in 0..MaxCrashes : n > crashes => capital[<<i, n>>] = Zero

BookInv == ExclusionInv /\ CapitalSaved /\ \A p \in Positions : BookedOnce(p)

\* Only a commit closes, and only it touches trades and capital while no save
\* sleeps out a busy database.
LEMMA BookSteps ==
    ASSUME BookInv, [Next]_vars, Reductions = {}, ~BusyStore
    PROVE  \/ \E t \in Sellers : Commit(t)
           \/ Crash
           \/ /\ UNCHANGED <<trades, capital, held, saving, crashes>>
              /\ \A p \in Positions : positions'[p] = "closed" <=> positions[p] = "closed"
  <1> USE TwoKinds
  <1>0. /\ TypeInv /\ LocalsFit /\ CapitalSaved
        /\ positions \in [Positions -> {"open", "closing", "closed"}]
    BY Typing DEF BookInv, ExclusionInv, TypeInv
  <1>1. CASE \E t \in Tasks, i \in Instances : Begin(t, i) \/ BeginReduction(t, i)
    BY <1>1 DEF Begin, BeginReduction, book, venue
  <1>2. ASSUME NEW t \in Tasks, Step(t), ~Commit(t)
        PROVE  /\ UNCHANGED <<trades, capital, held, saving, crashes>>
               /\ \A p \in Positions : positions'[p] = "closed" <=> positions[p] = "closed"
    <2>1. CASE ReserveRow(t) \/ ReleaseRow(t)
      <3>1. tasks[t].position \in Positions
        BY <1>0, <2>1 DEF LocalsFit, Busy, Free, ReserveRow, ReleaseRow
      <3>2. UNCHANGED <<trades, capital, held, saving, crashes>>
        BY <2>1 DEF ReserveRow, ReleaseRow, venue
      <3>3. \/ positions' = positions
            \/ /\ positions[tasks[t].position] # "closed"
               /\ \E status \in {"open", "closing"} :
                    positions' = [positions EXCEPT ![tasks[t].position] = status]
        BY <2>1 DEF ReserveRow, ReleaseRow
      <3> QED BY <1>0, <3>1, <3>2, <3>3
    <2>2. CASE ~ReserveRow(t) /\ ~ReleaseRow(t)
      <3>1. UNCHANGED <<positions, trades, capital, held, saving, crashes>>
        BY <1>2, <2>2
           DEF Step, TakeNext, CheckDuplicate, Reserve, ReserveMemory, NewOrder, LedgerWrite,
               Refuse, PaperFill, PaperRaises, LiveAdd, LiveAnswer, Close, Release,
               ReleaseMemory, book, venue
      <3> QED BY <3>1
    <2> QED BY <2>1, <2>2
  <1>3. CASE \E i \in Instances : SaveState(i) \/ SaveWrites(i)
    BY <1>0, <1>3 DEF SaveState, SaveWrites, CapitalSaved
  <1>4. CASE \E i \in Instances : Stop(i)
    BY <1>4 DEF Stop, book
  <1>5. CASE \E i \in Instances : Recover(i)
    <2>1. UNCHANGED <<book, tasks, exchange, crashes>>
      BY <1>0, <1>5, RecoverTypes
    <2> QED BY <2>1 DEF book
  <1>6. CASE \/ \E o \in Orders : ExchangeSettles(o)
             \/ Preflight \/ Acknowledge \/ UNCHANGED vars
    BY <1>6 DEF ExchangeSettles, Preflight, Acknowledge, vars, book
  <1> QED BY <1>1, <1>2, <1>3, <1>4, <1>5, <1>6 DEF Next

LEMMA NextBook ==
    ASSUME BookInv, [Next]_vars, Reductions = {}, ~BusyStore
    PROVE  BookInv'
  <1> USE TwoKinds
  <1>0. /\ TypeInv /\ LocalsFit /\ CapitalSaved /\ SellersExclude /\ KnownExclusively
        /\ positions \in [Positions -> {"open", "closing", "closed"}]
        /\ trades \in [Positions -> Nat] /\ capital \in [RowIds -> [Positions -> Nat]]
        /\ held \in [Instances -> [Positions -> Nat]]
        /\ crashes \in 0..MaxCrashes /\ MaxCrashes \in Nat
        /\ \A p \in Positions : BookedOnce(p)
    BY Typing, ExitAssumption DEF BookInv, ExclusionInv, TypeInv
  <1>e. ExclusionInv'
    BY NextExcludes DEF BookInv
  <1>1. CASE /\ UNCHANGED <<trades, capital, held, saving, crashes>>
             /\ \A p \in Positions : positions'[p] = "closed" <=> positions[p] = "closed"
    <2>1. CapitalSaved'
      BY <1>0, <1>1 DEF CapitalSaved, RowId
    <2>2. \A p \in Positions : BookedOnce(p)'
      BY <1>0, <1>1 DEF BookedOnce
    <2> QED BY <1>e, <2>1, <2>2 DEF BookInv
  <1>2. CASE Crash
    <2>1. /\ crashes' = crashes + 1 /\ crashes < MaxCrashes
          /\ UNCHANGED <<positions, trades, capital>>
          /\ \A i \in Instances : held'[i] = Zero /\ saving'[i] = {}
      BY <1>2 DEF Crash
    <2>2. crashes + 1 \in 0..MaxCrashes
      BY <1>0, <2>1
    <2>3. \A i \in Instances : capital[<<i, crashes + 1>>] = Zero
      BY <1>0, <2>2 DEF CapitalSaved
    <2>4. CapitalSaved'
      BY <1>0, <2>1, <2>3 DEF CapitalSaved, RowId
    <2>5. \A p \in Positions : BookedOnce(p)'
      BY <1>0, <2>1 DEF BookedOnce
    <2> QED BY <1>e, <2>4, <2>5 DEF BookInv
  <1>3. ASSUME NEW t \in Sellers, Commit(t)
        PROVE  BookInv'
    <2>1. /\ tasks[t].pc = "commit" /\ tasks[t].instance \in Instances
          /\ tasks[t].position \in Positions
      BY <1>0, <1>3 DEF Commit, LocalsFit, Busy, Free
    <2>2. PICK i \in Instances, p \in Positions :
                i = tasks[t].instance /\ p = tasks[t].position
      BY <2>1
    <2>3. Owns(t) /\ positions[p] = "closing"
      BY <1>0, <2>1, <2>2 DEF Owns, SellersExclude
    <2>4. trades[p] = 0 /\ \A id \in RowIds : capital[id][p] = 0
      BY <1>0, <2>3 DEF BookedOnce
    <2>5. RowId(i) \in RowIds /\ UNCHANGED <<saving, crashes>>
      BY <1>0, <1>3 DEF RowId, RowIds, Commit, venue
    <2>6. CASE UNCHANGED <<positions, trades, capital, held>>
      BY <1>1, <2>5, <2>6
    <2>7. CASE /\ positions' = [positions EXCEPT ![p] = "closed"]
               /\ RecordSale(p)
               /\ held' = [held EXCEPT ![i][p] = @ + 1]
               /\ capital' = [capital EXCEPT ![RowId(i)] = held'[i]]
      <3> DEFINE row == [held[i] EXCEPT ![p] = held[i][p] + 1]
      <3>1. /\ held[i] \in [Positions -> Nat] /\ held[i] = capital[RowId(i)]
            /\ held[i][p] = 0
        BY <1>0, <2>4, <2>5 DEF CapitalSaved
      <3>2. /\ row[p] = 1 /\ \A q \in Positions \ {p} : row[q] = held[i][q]
        BY <3>1
      <3>3. held' = [held EXCEPT ![i] = row]
        BY <2>7
      <3> HIDE DEF row
      <3>4. /\ held'[i] = row /\ \A j \in Instances \ {i} : held'[j] = held[j]
        BY <1>0, <3>3
      <3>5. /\ capital'[RowId(i)] = row
            /\ \A id \in RowIds \ {RowId(i)} : capital'[id] = capital[id]
        BY <1>0, <2>5, <2>7, <3>4
      <3>6. trades'[p] = 1 /\ \A q \in Positions \ {p} : trades'[q] = trades[q]
        BY <1>0, <2>4, <2>7 DEF RecordSale
      <3>7. positions'[p] = "closed" /\ \A q \in Positions \ {p} : positions'[q] = positions[q]
        BY <1>0, <2>7
      <3>8. BookedOnce(p)'
        BY <2>4, <2>5, <3>2, <3>5, <3>6, <3>7 DEF BookedOnce
      <3>9. ASSUME NEW q \in Positions \ {p}
            PROVE  BookedOnce(q)'
        <4>1. \A id \in RowIds : capital'[id][q] = capital[id][q]
          BY <2>5, <3>1, <3>2, <3>5
        <4>2. trades'[q] = trades[q] /\ positions'[q] = positions[q]
          BY <3>6, <3>7
        <4>3. BookedOnce(q)
          BY <1>0
        <4>4. CASE positions[q] = "closed"
          BY <4>1, <4>2, <4>3, <4>4 DEF BookedOnce
        <4>5. CASE positions[q] # "closed"
          BY <4>1, <4>2, <4>3, <4>5 DEF BookedOnce
        <4> QED BY <4>4, <4>5
      <3>10. CapitalSaved'
        <4>1. \A j \in Instances : saving'[j] = {} /\ RowId(j)' = RowId(j)
          BY <1>0, <2>5 DEF CapitalSaved, RowId
        <4>2. \A j \in Instances : capital'[RowId(j)] = held'[j]
          <5>1. \A j \in Instances \ {i} : RowId(j) \in RowIds \ {RowId(i)}
            BY <1>0 DEF RowId, RowIds
          <5> QED BY <1>0, <3>4, <3>5, <5>1 DEF CapitalSaved
        <4>3. ASSUME NEW j \in Instances, NEW n \in 0..MaxCrashes, n > crashes
              PROVE  capital'[<<j, n>>] = Zero
          <5>1. <<j, n>> \in RowIds \ {RowId(i)}
            BY <1>0, <4>3 DEF RowId, RowIds
          <5> QED BY <1>0, <3>5, <4>3, <5>1 DEF CapitalSaved
        <4> QED BY <2>5, <4>1, <4>2, <4>3 DEF CapitalSaved, RowId
      <3> QED BY <1>e, <3>8, <3>9, <3>10 DEF BookInv
    <2> QED BY <1>3, <2>2, <2>6, <2>7 DEF Commit
  <1> QED BY <1>1, <1>2, <1>3, BookSteps

LEMMA InitBook == Init => BookInv
  <1> SUFFICES ASSUME Init PROVE BookInv
    OBVIOUS
  <1>1. CapitalSaved
    BY ExitAssumption DEF Init, CapitalSaved, RowId, RowIds
  <1>2. \A p \in Positions : BookedOnce(p)
    BY DEF Init, BookedOnce, Zero
  <1> QED BY <1>1, <1>2, InitExcludes DEF BookInv

\* A closed position has one sell row and is credited once over all the rows of
\* instance_state, one that is not closed has neither, in every interleaving of
\* sellers, with failing writes and after every crash - as long as nobody runs
\* the reduction and no save sleeps out a busy database.
THEOREM ClosesWholeOnce ==
    ASSUME Reductions = {}, ~BusyStore
    PROVE  Spec => []CloseIsWholeOnce
  <1>1. BookInv /\ [Next]_vars => BookInv'
    BY NextBook
  <1>2. ASSUME BookInv, NEW p \in Positions
        PROVE  /\ trades[p] = IF positions[p] = "closed" THEN 1 ELSE 0
               /\ Credited(p) = IF positions[p] = "closed" THEN 1 ELSE 0
    <2> DEFINE credits == [id \in RowIds |-> capital[id][p]]
    <2>1. credits \in [RowIds -> Nat] /\ Credited(p) = Total(credits)
      BY <1>2, Typing DEF BookInv, ExclusionInv, TypeInv, Credited
    <2>2. BookedOnce(p) /\ \A id \in RowIds : credits[id] = capital[id][p]
      BY <1>2 DEF BookInv
    <2> HIDE DEF credits
    <2>3. CASE positions[p] = "closed"
      <3>1. PICK id \in RowIds : credits[id] = 1 /\ \A other \in RowIds \ {id} : credits[other] = 0
        BY <2>2, <2>3 DEF BookedOnce
      <3>2. Total(credits) = credits[id]
        BY <2>1, <3>1, TotalOfOne
      <3> QED BY <2>1, <2>2, <2>3, <3>1, <3>2 DEF BookedOnce
    <2>4. CASE positions[p] # "closed"
      <3>1. Total(credits) = 0
        BY <2>1, <2>2, <2>4, TotalOfNone DEF BookedOnce
      <3> QED BY <2>1, <2>2, <2>4, <3>1 DEF BookedOnce
    <2> QED BY <2>3, <2>4
  <1>3. BookInv => CloseIsWholeOnce
    BY <1>2 DEF CloseIsWholeOnce
  <1> QED BY InitBook, <1>1, <1>3, PTL DEF Spec
-----------------------------------------------------------------------------
(* What a single instance holds in memory agrees with the table.              *)

\* The places at which the instance lock is handed over within a reservation or
\* its release.
InHand == {"reserve row", "reserve memory", "release memory"}

At(t, p) == tasks[t].pc \in InHand /\ tasks[t].position = p

AgreesOn(p) ==
    \A i \in Instances :
        \/ memory[i][p] \in {"absent", positions[p]}
        \/ \E t \in Sellers : tasks[t].pc # "reserve row" /\ At(t, p)

\* Between the two halves of a reservation the memory still says open; between
\* those of a release the row is open again, and nobody reserves it meanwhile.
HandsOn(p) ==
    \A t \in Sellers : At(t, p) =>
        /\ tasks[t].pc = "reserve row" => Mine(t) # "absent"
        /\ tasks[t].pc = "reserve memory" => Mine(t) = "open"
        /\ tasks[t].pc = "release memory" =>
             positions[p] = "open" /\ \A u \in Sellers \ {t} : ~At(u, p)

MemoryInv == ExclusionInv /\ \A p \in Positions : AgreesOn(p) /\ HandsOn(p)

\* Both hold on where status, memory and the hands at a position stay.
LEMMA HandsFrame ==
    ASSUME LocalsFit, Sellers \subseteq Tasks, NEW q \in Positions, AgreesOn(q), HandsOn(q),
           positions'[q] = positions[q],
           \A i \in Instances : memory'[i][q] = memory[i][q],
           \A u \in Sellers : tasks'[u] = tasks[u] \/ (~At(u, q) /\ ~At(u, q)')
    PROVE  AgreesOn(q)' /\ HandsOn(q)'
  <1>1. \A u \in Sellers : At(u, q)' <=> At(u, q)
    BY DEF At
  <1>2. \A u \in Sellers : At(u, q) => tasks'[u] = tasks[u] /\ tasks[u].instance \in Instances
    BY DEF At, LocalsFit, Busy, Free, InHand
  <1>3. AgreesOn(q)'
    BY <1>1, <1>2 DEF AgreesOn
  <1>4. HandsOn(q)'
    <2>1. \A u \in Sellers : At(u, q) => Mine(u)' = Mine(u)
      BY <1>2 DEF Mine, At
    <2> QED BY <1>1, <1>2, <2>1 DEF HandsOn
  <1> QED BY <1>3, <1>4

\* The steps that hand over, write the status of a position, or do neither.
Hands(t) ==
    \/ Reserve(t) \/ ReserveRow(t) \/ ReserveMemory(t) \/ Commit(t)
    \/ ReleaseRow(t) \/ ReleaseMemory(t)

Apart(u) == \/ tasks'[u] = tasks[u]
            \/ tasks[u].pc \notin InHand /\ tasks'[u].pc \notin InHand

LEMMA MemorySteps ==
    ASSUME ExclusionInv, [Next]_vars, Reductions = {}
    PROVE  \/ \E t \in Sellers : Hands(t)
           \/ Crash \/ Preflight
           \/ /\ UNCHANGED <<positions, memory>>
              /\ \A u \in Sellers : Apart(u)
  <1> USE TwoKinds
  <1>0. TypeInv /\ tasks \in [Tasks -> Task]
    BY Typing DEF ExclusionInv, TypeInv
  <1>1. CASE \E t \in Tasks, i \in Instances : Begin(t, i) \/ BeginReduction(t, i)
    <2>1. PICK t \in Tasks, i \in Instances : Begin(t, i) \/ BeginReduction(t, i)
      BY <1>1
    <2>2. /\ \A u \in Tasks \ {t} : tasks'[u] = tasks[u]
          /\ tasks'[t].pc = "next" /\ UNCHANGED book
      BY <1>0, <2>1, Beginnings
    <2>3. MayBegin(t, i)
      BY <2>1 DEF Begin, BeginReduction
    <2>4. tasks[t].pc = "idle"
      BY <2>3 DEF MayBegin, Rest
    <2>5. \A u \in Sellers : Apart(u)
      BY <2>2, <2>4 DEF InHand, Apart
    <2> QED BY <2>2, <2>5 DEF book
  <1>2. ASSUME NEW t \in Sellers, Step(t), ~Hands(t)
        PROVE  /\ UNCHANGED <<positions, memory>>
               /\ \A u \in Sellers : Apart(u)
    <2>1. UNCHANGED <<positions, memory>>
      BY <1>2 DEF Step, Hands, TakeNext, CheckDuplicate, NewOrder, LedgerWrite, Refuse,
                  PaperFill, PaperRaises, LiveAdd, LiveAnswer, Close, Release, book
    <2>2. CASE \E p \in Positions, o \in Orders : TakeNext(t, p, o)
      <3>1. \A u \in Tasks \ {t} : tasks'[u] = tasks[u]
        BY <1>0, <2>2, Takings
      <3>2. tasks'[t].pc = "dup"
        BY <1>0, <2>2, Takings
      <3>3. tasks[t].pc = "next"
        BY <2>2 DEF TakeNext
      <3> QED BY <2>1, <3>1, <3>2, <3>3 DEF InHand, Apart
    <2>3. CASE ~\E p \in Positions, o \in Orders : TakeNext(t, p, o)
      <3>1. tasks[t].pc \notin {"reserve", "release row"} \cup InHand
        BY <1>2, <2>3
           DEF Step, Hands, CheckDuplicate, NewOrder, LedgerWrite, Asked, Refuse,
               PaperFill, PaperRaises, LiveAdd, LiveAnswer, Close, Release, InHand
      <3>2. Proceeds(t)
        BY <1>2, <2>3, Courses
      <3>3. \A pc \in InHand : <<tasks[t].pc, pc>> \notin Course(t)
        BY <3>1 DEF Course, InHand
      <3>4. tasks'[t].pc \notin InHand
        BY <3>2, <3>3 DEF Proceeds, InHand, Free
      <3> QED BY <2>1, <3>1, <3>2, <3>4 DEF Proceeds, Apart
    <2> QED BY <2>2, <2>3
  <1>3. CASE \E i \in Instances : SaveState(i) \/ SaveWrites(i) \/ Stop(i)
    BY <1>3 DEF SaveState, SaveWrites, Stop, book, Apart
  <1>4. CASE \E i \in Instances : Recover(i)
    <2>1. UNCHANGED <<book, tasks, exchange, crashes>>
      BY <1>0, <1>4, RecoverTypes
    <2> QED BY <2>1 DEF book, Apart
  <1>5. CASE (\E o \in Orders : ExchangeSettles(o)) \/ Acknowledge \/ UNCHANGED vars
    BY <1>5 DEF ExchangeSettles, Acknowledge, vars, book, Apart
  <1> QED BY <1>1, <1>2, <1>3, <1>4, <1>5 DEF Next

LEMMA NextMemory ==
    ASSUME MemoryInv, [Next]_vars, Reductions = {}, ~BusyStore,
           \A i, j \in Instances : i = j
    PROVE  MemoryInv'
  <1> USE TwoKinds
  <1>0. /\ TypeInv /\ LocalsFit /\ SellersExclude /\ KnownExclusively /\ ReservesFirst
        /\ DownTogether /\ tasks \in [Tasks -> Task]
        /\ positions \in [Positions -> {"open", "closing", "closed"}]
        /\ memory \in [Instances -> [Positions -> Held]]
        /\ \A p \in Positions : AgreesOn(p) /\ HandsOn(p)
    BY Typing DEF MemoryInv, ExclusionInv, TypeInv
  <1>e. ExclusionInv'
    BY NextExcludes DEF MemoryInv
  <1>1. CASE UNCHANGED <<positions, memory>> /\ \A u \in Sellers : Apart(u)
    <2>1. \A q \in Positions, u \in Sellers : tasks'[u] = tasks[u] \/ (~At(u, q) /\ ~At(u, q)')
      BY <1>1 DEF Apart, At
    <2>2. \A q \in Positions : AgreesOn(q)' /\ HandsOn(q)'
      BY <1>0, <1>1, <2>1, HandsFrame
    <2> QED BY <1>e, <2>2 DEF MemoryInv
  <1>2. CASE Crash
    <2>1. \A u \in Sellers, q \in Positions : ~At(u, q)'
      BY <1>2 DEF Crash, Rest, At, InHand
    <2>2. \A i \in Instances, q \in Positions : memory'[i][q] = "absent"
      BY <1>2 DEF Crash
    <2> QED BY <1>e, <2>1, <2>2 DEF MemoryInv, AgreesOn, HandsOn
  <1>3. CASE Preflight
    <2>1. tasks' = tasks /\ positions' = positions
      BY <1>3 DEF Preflight
    <2>2. CASE memory' = memory
      <3>1. \A u \in Sellers : Apart(u)
        BY <2>1 DEF Apart
      <3> QED BY <1>1, <2>1, <2>2, <3>1
    <2>3. CASE memory' # memory
      <3>1. \A i \in Instances : memory'[i] = [p \in Positions |->
                IF positions[p] = "closed" THEN "absent" ELSE positions[p]]
        BY <1>3, <2>3 DEF Preflight
      <3>2. \A i \in Instances, p \in Positions : memory'[i][p] \in {"absent", positions'[p]}
        BY <2>1, <3>1
      <3>3. \A p \in Positions : AgreesOn(p)'
        BY <3>2 DEF AgreesOn
      <3>4. ASSUME Instances # {}
            PROVE  \A u \in Sellers : tasks'[u].pc = "idle"
        BY <1>0, <1>3, <2>1, <3>4 DEF Preflight, DownTogether
      <3>5. ASSUME NEW p \in Positions
            PROVE  HandsOn(p)'
        <4>1. \A u \in Sellers : At(u, p)' => Instances # {}
          BY <1>0, <2>1 DEF At, LocalsFit, Busy, Free, InHand
        <4>2. \A u \in Sellers : ~At(u, p)'
          BY <3>4, <4>1 DEF At, InHand
        <4> QED BY <4>2 DEF HandsOn
      <3> QED BY <1>e, <3>3, <3>5 DEF MemoryInv
    <2> QED BY <2>2, <2>3
  <1>4. ASSUME NEW t \in Sellers, Hands(t)
        PROVE  MemoryInv'
    <2>1. /\ Busy(t) /\ tasks[t].instance \in Instances
          /\ tasks[t].position \in Positions
      BY <1>0, <1>4 DEF Hands, Reserve, ReserveRow, ReserveMemory, Commit, ReleaseRow,
                        ReleaseMemory, LocalsFit, Busy, Free
    <2>2. PICK i \in Instances, p \in Positions :
                i = tasks[t].instance /\ p = tasks[t].position
      BY <2>1
    <2>3. /\ tasks' \in [Tasks -> Task]
          /\ \A u \in Tasks \ {t} : tasks'[u] = tasks[u]
          /\ tasks'[t].pc \in Free \/ SameLocals(t)
      BY <1>0, <1>4, Leads DEF Hands, Moves
    <2>4. \A q \in Positions \ {p} : positions'[q] = positions[q]
      BY <1>0, <1>4, <2>2
         DEF Hands, Reserve, ReserveRow, ReserveMemory, Commit, ReleaseRow,
             ReleaseMemory, book
    <2>5. \A j \in Instances, q \in Positions : q # p => memory'[j][q] = memory[j][q]
      <3>1. \/ memory' = memory
            \/ \E status \in Held : Remember(t, status)
        BY <1>4 DEF Hands, Reserve, ReserveRow, ReserveMemory, Commit, ReleaseRow,
                    ReleaseMemory, book, Held
      <3>2. CASE memory' = memory
        BY <3>2
      <3>3. ASSUME NEW status \in Held, Remember(t, status)
            PROVE  \A j \in Instances, q \in Positions : q # p => memory'[j][q] = memory[j][q]
        <4>1. memory' = [memory EXCEPT ![i] = [memory[i] EXCEPT ![p] = status]]
          BY <2>2, <3>3 DEF Remember
        <4> QED BY <1>0, <2>2, <4>1
      <3> QED BY <3>1, <3>2, <3>3
    <2>6. ASSUME NEW q \in Positions \ {p}
          PROVE  AgreesOn(q)' /\ HandsOn(q)'
      <3>1. ~At(t, q) /\ ~At(t, q)'
        BY <2>2, <2>3 DEF At, SameLocals, Free, InHand
      <3>2. \A u \in Sellers : tasks'[u] = tasks[u] \/ (~At(u, q) /\ ~At(u, q)')
        BY <2>3, <3>1
      <3>3. /\ positions'[q] = positions[q]
            /\ \A j \in Instances : memory'[j][q] = memory[j][q]
        BY <2>4, <2>5
      <3> QED BY <1>0, <3>2, <3>3, HandsFrame
    \* Whoever else is in hand at the position stays so, in the same memory.
    <2>7. \A u \in Sellers : Busy(u) => tasks[u].instance = i
      BY <1>0 DEF LocalsFit
    <2>8. \A u \in Sellers : At(u, p) => Mine(u) = memory[i][p]
      BY <2>7 DEF At, Mine, InHand, Busy, Free
    <2>9. \A u \in Sellers \ {t} : /\ tasks'[u] = tasks[u]
                                   /\ At(u, p)' <=> At(u, p)
                                   /\ At(u, p)' => Mine(u)' = memory'[i][p]
      <3>1. \A u \in Sellers \ {t} : tasks'[u] = tasks[u] /\ (At(u, p)' <=> At(u, p))
        BY <2>3 DEF At
      <3>2. \A u \in Sellers \ {t} : At(u, p) => tasks[u].instance = i /\ tasks[u].position = p
        BY <2>7 DEF At, InHand, Busy, Free
      <3> QED BY <3>1, <3>2 DEF Mine
    <2>10. At(t, p)' => SameLocals(t) /\ Mine(t)' = memory'[i][p]
      BY <2>2, <2>3 DEF At, InHand, Free, Mine, SameLocals
    <2>11. ASSUME NEW u \in Sellers, At(u, p)
           PROVE  /\ tasks[u].pc = "reserve row" => memory[i][p] # "absent"
                  /\ tasks[u].pc = "reserve memory" =>
                        memory[i][p] = "open" /\ positions[p] = "closing"
                  /\ tasks[u].pc = "release memory" =>
                        /\ memory[i][p] = "closing" /\ positions[p] = "open"
                        /\ \A v \in Sellers \ {u} : ~At(v, p)
      <3>1. Mine(u) = memory[i][p] /\ tasks[u].position = p
        BY <2>8, <2>11 DEF At
      <3>2. CASE tasks[u].pc = "reserve row"
        BY <1>0, <2>11, <3>1, <3>2 DEF HandsOn
      <3>3. CASE tasks[u].pc = "reserve memory"
        <4>1. positions[p] = "closing"
          BY <1>0, <3>1, <3>3 DEF SellersExclude, Owns
        <4>2. memory[i][p] = "open"
          BY <1>0, <2>11, <3>1, <3>3 DEF HandsOn
        <4> QED BY <3>3, <4>1, <4>2
      <3>4. CASE tasks[u].pc = "release memory"
        <4>1. memory[i][p] = "closing"
          BY <1>0, <3>1, <3>4 DEF KnownExclusively, Keeping
        <4>2. positions[p] = "open" /\ \A v \in Sellers \ {u} : ~At(v, p)
          BY <1>0, <2>11, <3>4 DEF HandsOn
        <4> QED BY <3>4, <4>1, <4>2
      <3> QED BY <3>2, <3>3, <3>4
    <2>12. \/ memory[i][p] \in {"absent", positions[p]}
           \/ \E u \in Sellers : tasks[u].pc # "reserve row" /\ At(u, p)
      BY <1>0 DEF AgreesOn
    <2>13. \A u \in Sellers \ {t} : At(u, p) /\ tasks[u].pc = "reserve memory" => ~Owns(t)
      BY <1>0, <2>2 DEF SellersExclude, Owns, At
    <2>14. ASSUME \/ memory'[i][p] \in {"absent", positions'[p]}
                  \/ \E u \in Sellers : tasks'[u].pc # "reserve row" /\ At(u, p)'
           PROVE  AgreesOn(p)'
      BY <2>14 DEF AgreesOn
    <2>15. ASSUME At(t, p)' =>
                    /\ tasks'[t].pc = "reserve row" => memory'[i][p] # "absent"
                    /\ tasks'[t].pc = "reserve memory" => memory'[i][p] = "open"
                    /\ tasks'[t].pc = "release memory" =>
                         positions'[p] = "open" /\ \A u \in Sellers \ {t} : ~At(u, p),
                  \A u \in Sellers \ {t} : At(u, p) =>
                    /\ tasks[u].pc = "reserve row" => memory'[i][p] # "absent"
                    /\ tasks[u].pc = "reserve memory" => memory'[i][p] = "open"
                    /\ tasks[u].pc = "release memory" =>
                         positions'[p] = "open" /\ ~At(t, p)'
           PROVE  HandsOn(p)'
      <3>1. ASSUME At(t, p)'
            PROVE  /\ tasks'[t].pc = "reserve row" => Mine(t)' # "absent"
                   /\ tasks'[t].pc = "reserve memory" => Mine(t)' = "open"
                   /\ tasks'[t].pc = "release memory" =>
                        positions'[p] = "open" /\ \A u \in Sellers \ {t} : ~At(u, p)'
        BY <2>9, <2>10, <2>15, <3>1
      <3>2. ASSUME NEW u \in Sellers \ {t}, At(u, p)'
            PROVE  /\ tasks'[u].pc = "reserve row" => Mine(u)' # "absent"
                   /\ tasks'[u].pc = "reserve memory" => Mine(u)' = "open"
                   /\ tasks'[u].pc = "release memory" =>
                        positions'[p] = "open" /\ \A v \in Sellers \ {u} : ~At(v, p)'
        <4>1. tasks'[u] = tasks[u] /\ At(u, p) /\ Mine(u)' = memory'[i][p]
          BY <2>9, <3>2
        <4>2. ASSUME tasks[u].pc = "release memory"
              PROVE  positions'[p] = "open" /\ \A v \in Sellers \ {u} : ~At(v, p)'
          BY <2>9, <2>11, <2>15, <4>1, <4>2
        <4> QED BY <2>15, <4>1, <4>2
      <3> QED BY <3>1, <3>2 DEF HandsOn
    <2>16. ASSUME Continue(t, OnRefused(t))
           PROVE  tasks'[t].pc \notin InHand
      <3>1. OnRefused(t) \in {"done", "withdraw", "hold"}
        BY Targets DEF Sellers
      <3>2. {"done", "withdraw", "hold"} \subseteq Pcs \cup {"done"}
        BY DEF Pcs, Asked
      <3>3. Moves(t, {OnRefused(t)} \ {"done"})
        BY <1>0, <2>16, <3>1, <3>2, ContinueMoves
      <3> QED BY <3>1, <3>3 DEF Moves, InHand, Free
    \* The owner of a position finds it closing in the table and in its memory.
    <2>17. Owns(t) => positions[p] = "closing"
      BY <1>0, <2>2 DEF SellersExclude
    <2>18. Keeping(t) => memory[i][p] = "closing"
      BY <1>0, <2>2 DEF KnownExclusively, Mine
    <2>19. Mine(t) = memory[i][p] /\ (At(t, p) <=> tasks[t].pc \in InHand)
      BY <2>2 DEF Mine, At
    <2>20. AgreesOn(p)' /\ HandsOn(p)'
      <3>1. CASE Reserve(t)
        <4>1. tasks[t].pc = "reserve" /\ UNCHANGED <<positions, memory>>
          BY <3>1 DEF Reserve, book
        <4>2. ~At(t, p)
          BY <4>1 DEF At, InHand
        <4>3. At(t, p)' => tasks'[t].pc = "reserve row" /\ memory[i][p] = "open"
          <5>1. CASE Mine(t) = "open"
            <6>1. Moves(t, {"reserve row"} \cup Refused(t))
              BY <1>0, <3>1, Leads
            <6> QED BY <2>19, <5>1, <6>1 DEF Moves, At, InHand, Free, Refused
          <5>2. CASE Mine(t) # "open"
            <6>1. Continue(t, OnRefused(t))
              BY <3>1, <5>2 DEF Reserve
            <6> QED BY <2>16, <6>1 DEF At
          <5> QED BY <5>1, <5>2
        <4>4. AgreesOn(p)'
          BY <2>9, <2>12, <2>14, <4>1, <4>2
        <4>5. HandsOn(p)'
          BY <2>11, <2>15, <4>1, <4>3
        <4> QED BY <4>4, <4>5
      <3>2. CASE ReserveRow(t)
        <4>1. tasks[t].pc = "reserve row" /\ memory' = memory /\ At(t, p)
          BY <2>19, <3>2 DEF ReserveRow, InHand
        <4>2. CASE /\ positions[p] = "open" /\ Goto(t, "reserve memory")
                   /\ positions' = [positions EXCEPT ![p] = "closing"]
          <5>1. \A u \in Sellers : At(u, p) => tasks[u].pc = "reserve row"
            BY <2>11, <4>1, <4>2 DEF At, InHand
          <5>2. memory[i][p] = "open"
            BY <2>11, <2>12, <4>1, <4>2, <5>1
          <5>3. tasks'[t].pc = "reserve memory" /\ SameLocals(t)
            BY <1>0, <4>2, GotoMoves DEF Pcs
          <5>4. At(t, p)'
            BY <2>2, <5>3 DEF At, InHand, SameLocals
          <5>5. AgreesOn(p)'
            BY <2>14, <5>3, <5>4
          <5>6. HandsOn(p)'
            BY <2>15, <4>1, <5>1, <5>2, <5>3
          <5> QED BY <5>5, <5>6
        <4>3. CASE positions' = positions /\ Continue(t, OnRefused(t))
          <5>1. ~At(t, p)'
            BY <2>16, <4>3 DEF At
          <5>2. AgreesOn(p)'
            BY <2>9, <2>12, <2>14, <4>1, <4>3
          <5>3. HandsOn(p)'
            BY <2>11, <2>15, <4>1, <4>3, <5>1
          <5> QED BY <5>2, <5>3
        <4> QED BY <2>2, <3>2, <4>2, <4>3 DEF ReserveRow
      <3>3. CASE ReserveMemory(t)
        <4>1. tasks[t].pc = "reserve memory" /\ positions' = positions /\ Owns(t)
          BY <3>3 DEF ReserveMemory, Owns
        <4>2. memory[i][p] = "open" /\ positions[p] = "closing"
          BY <2>11, <2>19, <4>1 DEF InHand
        <4>3. Remember(t, "closing") /\ Goto(t, OnReserved(t))
          BY <2>19, <3>3, <4>2 DEF ReserveMemory
        <4>4. memory'[i][p] = "closing"
          BY <1>0, <2>2, <4>3 DEF Remember
        <4>5. tasks'[t].pc \notin InHand
          <5>1. OnReserved(t) \in {"commit", "new", "submit"}
            BY Targets DEF Sellers
          <5>2. OnReserved(t) \in Pcs
            BY <5>1 DEF Pcs
          <5> QED BY <1>0, <4>3, <5>1, <5>2, GotoMoves DEF InHand
        <4>6. AgreesOn(p)'
          BY <2>14, <4>1, <4>2, <4>4
        <4>7. \A u \in Sellers \ {t} : At(u, p) => tasks[u].pc = "reserve row"
          BY <2>11, <2>13, <4>1, <4>2 DEF At, InHand
        <4>8. HandsOn(p)'
          BY <2>15, <4>4, <4>5, <4>7 DEF At
        <4> QED BY <4>6, <4>8
      <3>4. CASE Commit(t)
        <4>1. tasks[t].pc = "commit" /\ Owns(t) /\ Keeping(t)
          BY <3>4 DEF Commit, Owns, Keeping
        <4>2. positions[p] = "closing" /\ memory[i][p] = "closing"
          BY <2>17, <2>18, <4>1
        <4>3. \/ positions' = [positions EXCEPT ![p] = "closed"] /\ Remember(t, "closed")
              \/ positions' = positions /\ Remember(t, "closing")
          BY <2>2, <2>19, <3>4, <4>2 DEF Commit
        <4>4. memory'[i][p] = positions'[p] /\ memory'[i][p] # "absent"
          BY <1>0, <2>2, <4>2, <4>3 DEF Remember
        <4>5. tasks'[t].pc \notin InHand
          BY <1>0, <3>4, Leads DEF Moves, InHand, Free
        <4>6. \A u \in Sellers \ {t} : At(u, p) => tasks[u].pc = "reserve row"
          BY <2>11, <2>13, <4>1, <4>2 DEF At, InHand
        <4>7. AgreesOn(p)'
          BY <2>14, <4>4
        <4>8. HandsOn(p)'
          BY <2>15, <4>4, <4>5, <4>6 DEF At
        <4> QED BY <4>7, <4>8
      <3>5. CASE ReleaseRow(t)
        <4>1. /\ tasks[t].pc = "release row" /\ Owns(t) /\ Keeping(t) /\ memory' = memory
              /\ \A u \in Sellers : tasks[u].pc # "reserve row"
          BY <3>5 DEF ReleaseRow, Owns, Keeping
        <4>2. positions[p] = "closing" /\ memory[i][p] = "closing"
          BY <2>17, <2>18, <4>1
        <4>3. \A u \in Sellers \ {t} : ~At(u, p)
          BY <2>11, <2>13, <4>1, <4>2 DEF At, InHand
        <4>4. CASE /\ positions' = [positions EXCEPT ![p] = "open"]
                   /\ Goto(t, "release memory")
          <5>1. tasks'[t].pc = "release memory" /\ SameLocals(t) /\ positions'[p] = "open"
            BY <1>0, <4>4, GotoMoves DEF Pcs
          <5>2. At(t, p)'
            BY <2>2, <5>1 DEF At, InHand, SameLocals
          <5>3. AgreesOn(p)'
            BY <2>14, <5>1, <5>2
          <5>4. HandsOn(p)'
            BY <2>15, <4>3, <5>1
          <5> QED BY <5>3, <5>4
        <4>5. CASE positions' = positions /\ Done(t)
          <5>1. ~At(t, p)'
            BY <1>0, <4>5, DoneMoves DEF Moves, At, InHand, Free
          <5>2. AgreesOn(p)'
            BY <2>14, <4>1, <4>2, <4>5
          <5>3. HandsOn(p)'
            BY <2>15, <4>3, <5>1
          <5> QED BY <5>2, <5>3
        <4> QED BY <2>2, <3>5, <4>4, <4>5 DEF ReleaseRow
      <3>6. CASE ReleaseMemory(t)
        <4>1. tasks[t].pc = "release memory" /\ positions' = positions /\ Keeping(t)
          BY <3>6 DEF ReleaseMemory, Keeping
        <4>2. positions[p] = "open" /\ \A u \in Sellers \ {t} : ~At(u, p)
          BY <2>11, <2>19, <4>1 DEF InHand
        <4>3. Remember(t, "open") /\ Done(t)
          BY <2>18, <2>19, <3>6, <4>1 DEF ReleaseMemory
        <4>4. memory'[i][p] = "open"
          BY <1>0, <2>2, <4>3 DEF Remember
        <4>5. ~At(t, p)'
          BY <1>0, <4>3, DoneMoves DEF Moves, At, InHand, Free
        <4>6. AgreesOn(p)'
          BY <2>14, <4>1, <4>2, <4>4
        <4>7. HandsOn(p)'
          BY <2>15, <4>2, <4>5
        <4> QED BY <4>6, <4>7
      <3> QED BY <1>4, <3>1, <3>2, <3>3, <3>4, <3>5, <3>6 DEF Hands
    <2> QED BY <1>e, <2>6, <2>20 DEF MemoryInv
  <1> QED BY <1>1, <1>2, <1>3, <1>4, MemorySteps DEF MemoryInv

LEMMA InitMemory == Init => MemoryInv
  <1> SUFFICES ASSUME Init PROVE MemoryInv
    OBVIOUS
  <1>1. \A t \in Sellers, p \in Positions : ~At(t, p)
    BY TwoKinds DEF Init, Rest, At, InHand
  <1>2. \A i \in Instances, p \in Positions : memory[i][p] \in {"absent", positions[p]}
    BY DEF Init
  <1> QED BY <1>1, <1>2, InitExcludes DEF MemoryInv, AgreesOn, HandsOn

\* What a single instance holds in memory is what the table says, save for the
\* coroutine between the two halves of a reservation or of its release: with
\* failing reads and writes and after every crash - as long as nobody runs the
\* reduction and no write sleeps out a busy database.
THEOREM SingleMemoryAgrees ==
    ASSUME Reductions = {}, ~BusyStore, \A i, j \in Instances : i = j
    PROVE  Spec => []MemoryAgrees
  <1>1. MemoryInv /\ [Next]_vars => MemoryInv'
    BY NextMemory
  <1>2. MemoryInv => MemoryAgrees
    BY TwoKinds DEF MemoryInv, AgreesOn, At, InHand, MemoryAgrees
  <1> QED BY InitMemory, <1>1, <1>2, PTL DEF Spec
=============================================================================
