------------------------- MODULE OrderLedgerProofs -------------------------
(* Proofs about OrderLedger for every set of orders and recovery passes,     *)
(* every requested quantity and every bound.                                 *)
EXTENDS OrderLedger, TLAPS

\* Statuses an order reaches only through a recorded submission.
Submitted == {"SENT", "ACK", "PARTIAL", "UNKNOWN", "FILLED", "EXPIRED"}

WasSent(log) == \E i \in DOMAIN log : log[i] = <<"NEW", "SENT">>

\* The two tables, whoever writes them.
TablesInv ==
    /\ orders \in [Orders -> Rows \cup {NoRow}]
    /\ transitions \in [Orders -> Seq(Statuses \X Statuses)]
    /\ AuditTrailIsExact
    /\ \A o \in Orders :
          /\ orders[o].status \in Submitted => WasSent(transitions[o])
          /\ orders[o].status = "FILLED" => orders[o].filled = Requested

\* The locals of a pass that still matters.
PassesInv ==
    /\ writers \subseteq Orders
    /\ recovery \in [Recoverers -> Passes]
    /\ \A r \in Recoverers : recovery[r].reply \in {"running", "accepted"} =>
          /\ recovery[r].order \in Orders
          /\ recovery[r].goal \in Statuses \ {"PARTIAL"}
    /\ RecoveryReplyIsTrue

IInv == TablesInv /\ PassesInv

\* Every action writes the tables through Write, for an order of the table and
\* arguments of these types, or places a new order, or leaves them alone.
GoodCall(o, to, fill) ==
    /\ o \in Orders /\ to \in Statuses /\ fill \in Fills
    /\ to = "PARTIAL" => fill # NoFill
-----------------------------------------------------------------------------
\* What a commit of transition_order_state moves: an open order along an edge
\* of the status graph.
LEMMA CommitMovesOpen ==
    ASSUME NEW row, NEW to \in Statuses, NEW fill, Commits(row, to, fill)
    PROVE  /\ row.status \in Open
           /\ <<row.status, to>> \in AllowedTransitions
           /\ to # "NEW"
  BY DEF Commits, Accepts, Repeats, IsAllowed, AllowedTransitions, Open,
         Terminal, Statuses

\* A write never touches an order that is decided, nor any other order.
LEMMA WriteKeepsDecided ==
    ASSUME NEW o \in Orders, NEW to \in Statuses, NEW fill, Write(o, to, fill),
           orders \in [Orders -> Rows \cup {NoRow}]
    PROVE  \A x \in Orders :
              x # o \/ orders[x].status \in Terminal => orders'[x] = orders[x]
  <1>1. CASE Commits(orders[o], to, fill)
    <2>1. orders[o].status \notin Terminal
      BY <1>1, CommitMovesOpen DEF Open, Terminal
    <2>2. orders' = [orders EXCEPT ![o] = Updated(orders[o], to, fill)]
      BY <1>1 DEF Write
    <2> QED BY <2>1, <2>2
  <1>2. CASE ~Commits(orders[o], to, fill)
    BY <1>2 DEF Write
  <1> QED BY <1>1, <1>2
-----------------------------------------------------------------------------

\* The audit trail of one order: its log tells the way to its status.
Trail(log, status) ==
    /\ log = <<>> => status \in {"none", "NEW"}
    /\ log # <<>> => log[1][1] = "NEW" /\ log[Len(log)][2] = status
    /\ \A i \in 1..(Len(log) - 1) : log[i][2] = log[i + 1][1]

\* What a longer log is made of.
LEMMA AppendAdds ==
    ASSUME NEW S, NEW s \in Seq(S), NEW x \in S
    PROVE  /\ Len(s) \in Nat /\ Len(Append(s, x)) = Len(s) + 1
           /\ Append(s, x)[Len(s) + 1] = x
           /\ \A i \in 1..Len(s) : Append(s, x)[i] = s[i]
  <1>1. Len(s) \in Nat /\ Len(Append(s, x)) = Len(s) + 1
    OBVIOUS
  <1>2. Append(s, x)[Len(s) + 1] = x
    OBVIOUS
  <1>3. \A i \in 1..Len(s) : Append(s, x)[i] = s[i]
    OBVIOUS
  <1> QED BY <1>1, <1>2, <1>3

\* Appending the entry <<status, to>> extends a trail by one step.
LEMMA TrailExtends ==
    ASSUME NEW log \in Seq(Statuses \X Statuses), NEW status \in Statuses,
           NEW to \in Statuses, Trail(log, status)
    PROVE  Trail(Append(log, <<status, to>>), to)
  <1> DEFINE new == Append(log, <<status, to>>)
  <1>1. /\ Len(new) = Len(log) + 1 /\ Len(log) \in Nat
        /\ new[Len(new)] = <<status, to>>
        /\ \A i \in 1..Len(log) : new[i] = log[i]
    <2> DEFINE entry == <<status, to>>
    <2>1. entry \in Statuses \X Statuses
      OBVIOUS
    <2> HIDE DEF entry
    <2>2. /\ Len(log) \in Nat /\ Len(Append(log, entry)) = Len(log) + 1
          /\ Append(log, entry)[Len(log) + 1] = entry
          /\ \A i \in 1..Len(log) : Append(log, entry)[i] = log[i]
      BY <2>1, AppendAdds
    <2> QED BY <2>2 DEF entry
  <1>2. new # <<>>
    BY <1>1
  <1>3. new[1][1] = "NEW"
    <2>1. CASE log = <<>>
      BY <1>1, <2>1 DEF Trail, Statuses, Open, Terminal
    <2>2. CASE log # <<>>
      <3>1. Len(log) >= 1
        BY <2>2, <1>1
      <3> QED BY <3>1, <1>1, <2>2 DEF Trail
    <2> QED BY <2>1, <2>2
  <1>4. ASSUME NEW i \in 1..(Len(new) - 1)
        PROVE  new[i][2] = new[i + 1][1]
    <2>1. CASE i = Len(log)
      <3>1. log # <<>> /\ new[i] = log[i]
        BY <2>1, <1>1, <1>4
      <3>2. log[i][2] = status
        BY <2>1, <3>1 DEF Trail
      <3> QED BY <3>1, <3>2, <2>1, <1>1
    <2>2. CASE i # Len(log)
      <3>1. i \in 1..(Len(log) - 1) /\ i + 1 \in 1..Len(log)
        BY <2>2, <1>1, <1>4
      <3>2. new[i] = log[i] /\ new[i + 1] = log[i + 1]
        BY <3>1, <1>1
      <3> QED BY <3>1, <3>2 DEF Trail
    <2> QED BY <2>1, <2>2
  <1>5. new[Len(new)][2] = to
    BY <1>1
  <1> HIDE DEF new
  <1>6. Trail(new, to)
    BY <1>2, <1>3, <1>4, <1>5 DEF Trail
  <1> QED BY <1>6 DEF new

\* Once the submission is in a log it stays there.
LEMMA SentStays ==
    ASSUME NEW log \in Seq(Statuses \X Statuses),
           NEW e \in Statuses \X Statuses, WasSent(log)
    PROVE  WasSent(Append(log, e))
  <1>1. PICK i \in DOMAIN log : log[i] = <<"NEW", "SENT">>
    BY DEF WasSent
  <1>2. i \in DOMAIN Append(log, e) /\ Append(log, e)[i] = log[i]
    BY <1>1
  <1> QED BY <1>1, <1>2 DEF WasSent

\* The row a commit stores is well formed, and exact when it is FILLED.
LEMMA UpdatedRow ==
    ASSUME NEW row \in Rows, NEW to \in Statuses, NEW fill \in Fills,
           Commits(row, to, fill)
    PROVE  /\ Updated(row, to, fill) \in Rows
           /\ Updated(row, to, fill).status = to
           /\ to = "FILLED" => Updated(row, to, fill).filled = Requested
           /\ Updated(row, to, fill).filled >= row.filled
  <1> DEFINE q == IF fill = NoFill THEN row.filled ELSE fill
  <1>1. q \in 0..MaxFill /\ q >= row.filled /\ (to = "FILLED" => q = Requested)
    BY LedgerAssumption, RequestedAssumption
       DEF Commits, Accepts, FillFits, Rows, Fills, NoFill
  <1>2. Updated(row, to, fill) = [row EXCEPT !.status = to, !.filled = q]
    BY DEF Updated
  <1> HIDE DEF q
  <1>3. /\ [row EXCEPT !.status = to, !.filled = q] \in Rows
        /\ [row EXCEPT !.status = to, !.filled = q].status = to
        /\ [row EXCEPT !.status = to, !.filled = q].filled = q
    BY <1>1 DEF Rows
  <1> QED BY <1>1, <1>2, <1>3

\* Whoever calls transition_order_state, the two tables stay consistent.
LEMMA WritePreservesTables ==
    ASSUME TablesInv, NEW o, NEW to, NEW fill,
           GoodCall(o, to, fill), Write(o, to, fill)
    PROVE  TablesInv'
  <1> DEFINE row == orders[o]
             log == transitions[o]
  <1> USE DEF GoodCall
  <1>1. CASE ~Commits(row, to, fill)
    <2>1. UNCHANGED <<orders, transitions>>
      BY <1>1 DEF Write
    <2> QED BY <2>1 DEF TablesInv, AuditTrailIsExact
  <1>2. CASE Commits(row, to, fill)
    <2>1. /\ orders' = [orders EXCEPT ![o] = Updated(row, to, fill)]
          /\ transitions' = [transitions EXCEPT ![o] = Append(log, <<row.status, to>>)]
      BY <1>2 DEF Write
    <2>2. /\ row.status \in Open /\ to # "NEW"
          /\ <<row.status, to>> \in AllowedTransitions
      BY <1>2, CommitMovesOpen
    <2>3. row \in Rows
      BY <2>2 DEF TablesInv, NoRow, Open
    <2>4. log \in Seq(Statuses \X Statuses) /\ row.status \in Statuses
      BY <2>2 DEF TablesInv, Statuses
    <2>5. /\ orders'[o] = Updated(row, to, fill)
          /\ transitions'[o] = Append(log, <<row.status, to>>)
          /\ \A x \in Orders : x # o => /\ orders'[x] = orders[x]
                                        /\ transitions'[x] = transitions[x]
      BY <2>1 DEF TablesInv
    <2>6. /\ Updated(row, to, fill) \in Rows /\ Updated(row, to, fill).status = to
          /\ to = "FILLED" => Updated(row, to, fill).filled = Requested
      BY <1>2, <2>3, UpdatedRow
    <2>7. orders' \in [Orders -> Rows \cup {NoRow}]
      BY <2>1, <2>6 DEF TablesInv
    <2>8. transitions' \in [Orders -> Seq(Statuses \X Statuses)]
      <3>1. Append(log, <<row.status, to>>) \in Seq(Statuses \X Statuses)
        BY <2>4
      <3> QED BY <3>1, <2>1 DEF TablesInv
    <2>9. AuditTrailIsExact'
      <3>1. Trail(log, row.status)
        BY DEF TablesInv, AuditTrailIsExact, Trail
      <3>2. Trail(transitions'[o], orders'[o].status)
        BY <3>1, <2>4, <2>5, <2>6, TrailExtends
      <3>3. ASSUME NEW x \in Orders
            PROVE  Trail(transitions'[x], orders'[x].status)
        <4>1. Trail(transitions[x], orders[x].status)
          BY DEF TablesInv, AuditTrailIsExact, Trail
        <4> QED BY <4>1, <3>2, <2>5
      <3> QED BY <3>3 DEF AuditTrailIsExact, Trail
    <2>10. to \in Submitted => WasSent(Append(log, <<row.status, to>>))
      <3>1. CASE row.status = "NEW"
        <4>1. to \in Submitted => to = "SENT"
          BY <3>1, <2>2 DEF AllowedTransitions, Submitted
        <4>2. LET new == Append(log, <<row.status, to>>)
              IN  Len(new) \in DOMAIN new /\ new[Len(new)] = <<row.status, to>>
          BY <2>4
        <4> QED BY <4>1, <4>2, <3>1 DEF WasSent
      <3>2. CASE row.status # "NEW"
        <4>1. WasSent(log)
          BY <3>2, <2>2 DEF TablesInv, Open, Submitted
        <4> QED BY <4>1, <2>4, SentStays
      <3> QED BY <3>1, <3>2
    <2>11. ASSUME NEW x \in Orders
           PROVE  /\ orders'[x].status \in Submitted => WasSent(transitions'[x])
                  /\ orders'[x].status = "FILLED" => orders'[x].filled = Requested
      <3>1. CASE x = o
        BY <3>1, <2>5, <2>6, <2>10
      <3>2. CASE x # o
        BY <3>2, <2>5 DEF TablesInv
      <3> QED BY <3>1, <3>2
    <2> QED BY <2>7, <2>8, <2>9, <2>11 DEF TablesInv
  <1> QED BY <1>1, <1>2
-----------------------------------------------------------------------------
\* An accepted call leaves the order with the status it asked for.
LEMMA AcceptedWrite ==
    ASSUME TablesInv, NEW o, NEW to, NEW fill, GoodCall(o, to, fill),
           Write(o, to, fill), Accepts(orders[o], to, fill)
    PROVE  orders'[o].status = to
  <1>1. CASE Commits(orders[o], to, fill)
    <2>1. orders[o].status \in Open
      BY <1>1, CommitMovesOpen DEF GoodCall
    <2>2. orders[o] \in Rows
      BY <2>1 DEF TablesInv, GoodCall, NoRow, Open
    <2>3. Updated(orders[o], to, fill).status = to
      BY <1>1, <2>2, UpdatedRow DEF GoodCall
    <2> QED BY <1>1, <2>3 DEF Write, TablesInv, GoodCall
  <1>2. CASE ~Commits(orders[o], to, fill)
    BY <1>2 DEF Write, Commits, Repeats
  <1> QED BY <1>1, <1>2

\* The answers of passes stay true while somebody writes the tables.
LEMMA WriteKeepsReplies ==
    ASSUME IInv, NEW o, NEW to, NEW fill, GoodCall(o, to, fill),
           Write(o, to, fill), NEW r \in Recoverers,
           recovery[r].reply = "accepted", recovery[r].goal \in Terminal
    PROVE  orders'[recovery[r].order].status = recovery[r].goal
  <1>1. recovery[r].order \in Orders
    BY DEF IInv, PassesInv
  <1>2. orders[recovery[r].order].status = recovery[r].goal
    BY DEF IInv, PassesInv, RecoveryReplyIsTrue
  <1>3. orders'[recovery[r].order] = orders[recovery[r].order]
    BY <1>1, <1>2, WriteKeepsDecided DEF GoodCall, IInv, TablesInv
  <1> QED BY <1>2, <1>3

\* A hop is a well-typed call, and never PARTIAL.
LEMMA HopIsGoodCall ==
    ASSUME IInv, NEW r \in Recoverers, recovery[r].reply = "running"
    PROVE  GoodCall(recovery[r].order,
                    NextHop(recovery[r].at, recovery[r].goal),
                    recovery[r].fill)
  <1>1. /\ recovery[r].order \in Orders
        /\ recovery[r].goal \in Statuses \ {"PARTIAL"}
        /\ recovery[r].fill \in Fills
    BY DEF IInv, PassesInv, Passes
  <1>2. NextHop(recovery[r].at, recovery[r].goal) \in Statuses \ {"PARTIAL"}
    BY <1>1 DEF NextHop, Statuses, Open, Terminal
  <1> QED BY <1>1, <1>2 DEF GoodCall

LEMMA RuntimeCallIsGood ==
    ASSUME NEW o \in Orders, NEW call \in RuntimeCalls
    PROVE  GoodCall(o, call[1], call[2])
  BY LedgerAssumption
     DEF RuntimeCalls, GoodCall, Statuses, Open, Terminal, Fills, NoFill

LEMMA InitEstablishes == Init => IInv
  BY LedgerAssumption DEF Init, IInv, TablesInv, PassesInv, AuditTrailIsExact,
     NoRow, Rows, Submitted, Idle, Passes, RecoveryReplyIsTrue, Fills, NoFill

\* Placing an order: the new row has an empty log and no outcome.
LEMMA NewOrderPreserves ==
    ASSUME IInv, NEW o \in Orders, NewOrder(o)
    PROVE  IInv'
  <1>1. transitions[o] = <<>>
    <2>1. CASE transitions[o] = <<>>
      BY <2>1
    <2>2. CASE transitions[o] # <<>>
      <3>1. Len(transitions[o]) >= 1 /\ transitions[o] \in Seq(Statuses \X Statuses)
        BY <2>2 DEF IInv, TablesInv
      <3>2. transitions[o][Len(transitions[o])] \in Statuses \X Statuses
        BY <3>1
      <3>3. transitions[o][Len(transitions[o])][2] = "none"
        BY <2>2 DEF IInv, TablesInv, AuditTrailIsExact, NewOrder, NoRow
      <3> QED BY <3>2, <3>3 DEF Statuses, Open, Terminal
    <2> QED BY <2>1, <2>2
  <1>2. orders' = [orders EXCEPT ![o] = [status |-> "NEW", filled |-> 0]]
    BY DEF NewOrder
  <1>3. [status |-> "NEW", filled |-> 0] \in Rows
    BY LedgerAssumption DEF Rows, Statuses, Open
  <1>4. TablesInv'
    <2>1. /\ orders' \in [Orders -> Rows \cup {NoRow}]
          /\ transitions' \in [Orders -> Seq(Statuses \X Statuses)]
      BY <1>2, <1>3 DEF IInv, TablesInv, NewOrder
    <2>2. AuditTrailIsExact'
      BY <1>1, <1>2 DEF IInv, TablesInv, AuditTrailIsExact, NewOrder
    <2>3. ASSUME NEW x \in Orders
          PROVE  /\ orders'[x].status \in Submitted => WasSent(transitions'[x])
                 /\ orders'[x].status = "FILLED" => orders'[x].filled = Requested
      BY <1>2 DEF IInv, TablesInv, NewOrder, Submitted
    <2> QED BY <2>1, <2>2, <2>3 DEF TablesInv
  <1>5. RecoveryReplyIsTrue'
    <2> SUFFICES ASSUME NEW r \in Recoverers, recovery[r].reply = "accepted",
                        recovery[r].goal \in Terminal
                 PROVE  orders'[recovery[r].order].status = recovery[r].goal
      BY DEF RecoveryReplyIsTrue, NewOrder
    <2>1. orders[recovery[r].order].status = recovery[r].goal
      BY DEF IInv, PassesInv, RecoveryReplyIsTrue
    <2>2. recovery[r].order # o
      BY <2>1 DEF NewOrder, NoRow, Terminal
    <2>3. recovery[r].order \in Orders
      BY DEF IInv, PassesInv
    <2> QED BY <2>1, <2>2, <2>3, <1>2 DEF IInv, TablesInv
  <1> QED BY <1>4, <1>5 DEF IInv, PassesInv, NewOrder

LEMMA RuntimePreserves ==
    ASSUME IInv, NEW o \in Orders, NEW call \in RuntimeCalls,
           RuntimeTransition(o, call)
    PROVE  IInv'
  <1>1. GoodCall(o, call[1], call[2]) /\ Write(o, call[1], call[2])
    BY RuntimeCallIsGood DEF RuntimeTransition
  <1>2. TablesInv'
    BY <1>1, WritePreservesTables DEF IInv
  <1>3. RecoveryReplyIsTrue'
    BY <1>1, WriteKeepsReplies DEF RecoveryReplyIsTrue, RuntimeTransition
  <1> QED BY <1>2, <1>3 DEF IInv, PassesInv, RuntimeTransition

LEMMA HopPreserves ==
    ASSUME IInv, NEW r \in Recoverers, RecoverHop(r)
    PROVE  IInv'
  <1> DEFINE p == recovery[r]
             hop == NextHop(p.at, p.goal)
             reply == IF ~Accepts(orders[p.order], hop, p.fill) THEN "refused"
                      ELSE IF hop = p.goal THEN "accepted" ELSE "running"
  <1>1. /\ p.reply = "running" /\ Write(p.order, hop, p.fill)
        /\ recovery' = [recovery EXCEPT ![r].at = hop, ![r].reply = reply]
        /\ writers' = writers
    BY DEF RecoverHop
  <1>2. GoodCall(p.order, hop, p.fill)
    BY <1>1, HopIsGoodCall
  <1>3. TablesInv'
    BY <1>1, <1>2, WritePreservesTables DEF IInv
  <1>4. recovery \in [Recoverers -> Passes] /\ hop \in Statuses
    BY <1>2 DEF IInv, PassesInv, GoodCall
  <1>5. reply \in {"running", "accepted", "refused"}
    OBVIOUS
  <1> HIDE DEF hop, reply
  <1>6. recovery'[r] = [p EXCEPT !.at = hop, !.reply = reply]
    BY <1>1, <1>4
  <1>7. \A x \in Recoverers : x # r => recovery'[x] = recovery[x]
    BY <1>1, <1>4
  <1>8. [p EXCEPT !.at = hop, !.reply = reply] \in Passes
    BY <1>4, <1>5 DEF Passes
  <1>9. recovery' \in [Recoverers -> Passes]
    BY <1>1, <1>4, <1>6, <1>7, <1>8
  <1>10. /\ recovery'[r].order = p.order /\ recovery'[r].goal = p.goal
         /\ recovery'[r].reply = reply
    BY <1>4, <1>6 DEF Passes
  <1>11. ASSUME NEW x \in Recoverers, recovery'[x].reply \in {"running", "accepted"}
         PROVE  /\ recovery'[x].order \in Orders
                /\ recovery'[x].goal \in Statuses \ {"PARTIAL"}
    BY <1>1, <1>7, <1>10, <1>11 DEF IInv, PassesInv
  <1>12. ASSUME NEW x \in Recoverers, recovery'[x].reply = "accepted",
                recovery'[x].goal \in Terminal
         PROVE  orders'[recovery'[x].order].status = recovery'[x].goal
    <2>1. CASE x = r
      <3>1. Accepts(orders[p.order], hop, p.fill) /\ hop = p.goal
        BY <2>1, <1>10, <1>12 DEF reply
      <3> QED BY <3>1, <2>1, <1>1, <1>2, <1>10, AcceptedWrite DEF IInv
    <2>2. CASE x # r
      BY <2>2, <1>1, <1>2, <1>7, <1>12, WriteKeepsReplies
    <2> QED BY <2>1, <2>2
  <1>13. RecoveryReplyIsTrue'
    BY <1>12 DEF RecoveryReplyIsTrue
  <1> QED BY <1>1, <1>3, <1>9, <1>11, <1>13 DEF IInv, PassesInv

\* The steps that only move the locals of a pass, or end coroutines.
LEMMA ReadPreserves ==
    ASSUME IInv, NEW r \in Recoverers, NEW o \in Orders,
           NEW goal \in Terminal \cup {"UNKNOWN"}, NEW fill \in Fills,
           RecoverRead(r, o, goal, fill)
    PROVE  IInv'
  <1> DEFINE reply == FirstReply(orders[o].status, goal)
             after == [pending |-> recovery[r].pending \ {o}, order |-> o,
                       goal |-> goal, fill |-> fill, at |-> orders[o].status,
                       reply |-> reply]
  <1>1. recovery' = [recovery EXCEPT ![r] = after]
    BY DEF RecoverRead
  <1>2. UNCHANGED <<orders, transitions, writers>>
    BY DEF RecoverRead
  <1>3. /\ recovery \in [Recoverers -> Passes]
        /\ orders[o].status \in Statuses \cup {"none"}
    BY DEF IInv, PassesInv, TablesInv, NoRow, Rows
  <1>4. goal \in Statuses \ {"PARTIAL"}
    BY DEF Terminal, Statuses, Open
  <1>5. /\ reply \in {"running", "accepted", "refused"}
        /\ reply = "accepted" => orders[o].status = goal
    BY <1>3, <1>4 DEF FirstReply, Terminal, Statuses, Open
  <1> HIDE DEF reply
  <1>6. after \in Passes
    BY <1>3, <1>4, <1>5 DEF Passes
  <1>7. /\ recovery'[r] = after
        /\ \A x \in Recoverers : x # r => recovery'[x] = recovery[x]
    BY <1>1, <1>3
  <1>8. TablesInv'
    BY <1>2 DEF IInv, TablesInv, AuditTrailIsExact
  <1>9. ASSUME NEW x \in Recoverers, recovery'[x].reply = "accepted",
               recovery'[x].goal \in Terminal
        PROVE  orders'[recovery'[x].order].status = recovery'[x].goal
    <2>1. CASE x = r
      BY <2>1, <1>2, <1>5, <1>7, <1>9
    <2>2. CASE x # r
      BY <2>2, <1>2, <1>7, <1>9 DEF IInv, PassesInv, RecoveryReplyIsTrue
    <2> QED BY <2>1, <2>2
  <1>10. ASSUME NEW x \in Recoverers, recovery'[x].reply \in {"running", "accepted"}
         PROVE  /\ recovery'[x].order \in Orders
                /\ recovery'[x].goal \in Statuses \ {"PARTIAL"}
    BY <1>4, <1>7, <1>10 DEF IInv, PassesInv
  <1>11. recovery' \in [Recoverers -> Passes]
    BY <1>1, <1>3, <1>6
  <1>12. RecoveryReplyIsTrue'
    BY <1>9 DEF RecoveryReplyIsTrue
  <1> QED BY <1>2, <1>8, <1>10, <1>11, <1>12 DEF IInv, PassesInv

\* The locals of r become `after`, which carries no answer yet.
MovesTo(r, after) ==
    /\ recovery' = [recovery EXCEPT ![r] = after]
    /\ after.reply # "accepted"
    /\ after.reply = "running" =>
          after.order \in Orders /\ after.goal \in Statuses \ {"PARTIAL"}

LEMMA OtherPassStepsPreserve ==
    ASSUME IInv, NEW r \in Recoverers,
           \/ RecoverScan(r)
           \/ \E o \in Orders :
                 \/ RecoverReadFails(r, o)
                 \/ \E goal \in {"ACK", "REJECTED"} : RecoverDirect(r, o, goal)
           \/ RecoverHopFails(r)
    PROVE  IInv'
  <1>1. UNCHANGED <<orders, transitions, writers>>
    BY DEF RecoverScan, RecoverReadFails, RecoverDirect, RecoverHopFails
  <1>2. recovery \in [Recoverers -> Passes]
    BY DEF IInv, PassesInv
  <1>3. \E after \in Passes : MovesTo(r, after)
    <2>1. CASE RecoverScan(r)
      <3> DEFINE after == [Idle EXCEPT !.pending =
                              {o \in Orders : orders[o].status \in Open}]
      <3>1. after \in Passes /\ after.reply = "none"
        BY DEF Passes, Idle, Fills
      <3> QED BY <2>1, <3>1 DEF RecoverScan, MovesTo
    <2>2. ASSUME NEW o \in Orders, RecoverReadFails(r, o)
          PROVE  \E after \in Passes : MovesTo(r, after)
      <3> DEFINE after == [Idle EXCEPT !.pending = recovery[r].pending \ {o},
                                       !.order = o, !.reply = "failed"]
      <3>1. after \in Passes /\ after.reply = "failed"
        BY <1>2 DEF Passes, Idle, Fills
      <3> QED BY <2>2, <3>1 DEF RecoverReadFails, MovesTo
    <2>3. ASSUME NEW o \in Orders, NEW goal \in {"ACK", "REJECTED"},
                 RecoverDirect(r, o, goal)
          PROVE  \E after \in Passes : MovesTo(r, after)
      <3> DEFINE after == [pending |-> recovery[r].pending \ {o}, order |-> o,
                           goal |-> goal, fill |-> NoFill, at |-> "direct",
                           reply |-> "running"]
      <3>1. after \in Passes /\ goal \in Statuses \ {"PARTIAL"}
        BY <1>2 DEF Passes, Fills, Statuses, Open, Terminal
      <3> QED BY <2>3, <3>1 DEF RecoverDirect, MovesTo
    <2>4. CASE RecoverHopFails(r)
      <3> DEFINE after == [recovery[r] EXCEPT !.reply = "failed"]
      <3>1. after \in Passes /\ after.reply = "failed"
        BY <1>2 DEF Passes
      <3> QED BY <2>4, <3>1, <1>2 DEF RecoverHopFails, MovesTo
    <2> QED BY <2>1, <2>2, <2>3, <2>4
  <1>4. PICK after \in Passes : MovesTo(r, after)
    BY <1>3
  <1>5. /\ recovery'[r] = after
        /\ \A x \in Recoverers : x # r => recovery'[x] = recovery[x]
    BY <1>2, <1>4 DEF MovesTo
  <1>6. TablesInv'
    BY <1>1 DEF IInv, TablesInv, AuditTrailIsExact
  <1>7. RecoveryReplyIsTrue'
    BY <1>1, <1>4, <1>5 DEF IInv, PassesInv, MovesTo, RecoveryReplyIsTrue
  <1>8. ASSUME NEW x \in Recoverers, recovery'[x].reply \in {"running", "accepted"}
        PROVE  /\ recovery'[x].order \in Orders
               /\ recovery'[x].goal \in Statuses \ {"PARTIAL"}
    BY <1>4, <1>5, <1>8 DEF IInv, PassesInv, MovesTo
  <1>9. recovery' \in [Recoverers -> Passes]
    BY <1>2, <1>4 DEF MovesTo
  <1> QED BY <1>1, <1>6, <1>7, <1>8, <1>9 DEF IInv, PassesInv

LEMMA EndingsPreserve ==
    ASSUME IInv, Crash \/ (\E o \in Orders : WriterReturns(o)) \/ UNCHANGED vars
    PROVE  IInv'
  <1>1. UNCHANGED <<orders, transitions>> /\ writers' \subseteq writers
    BY DEF Crash, WriterReturns, vars
  <1>2. TablesInv'
    BY <1>1 DEF IInv, TablesInv, AuditTrailIsExact
  <1>3. CASE Crash
    <2>1. recovery' = [r \in Recoverers |-> Idle]
      BY <1>3 DEF Crash
    <2>2. Idle \in Passes /\ Idle.reply = "none"
      BY DEF Idle, Passes, Fills
    <2> HIDE DEF Idle
    <2>3. PassesInv'
      BY <1>1, <2>1, <2>2 DEF IInv, PassesInv, RecoveryReplyIsTrue
    <2> QED BY <1>2, <2>3 DEF IInv
  <1>4. CASE recovery' = recovery
    BY <1>1, <1>2, <1>4 DEF IInv, PassesInv, RecoveryReplyIsTrue
  <1> QED BY <1>3, <1>4 DEF WriterReturns, vars

\* The inductive invariant of the ledger and its passes.
LEMMA Inductive == IInv /\ [Next]_vars => IInv'
  <1> SUFFICES ASSUME IInv, [Next]_vars PROVE IInv'
    OBVIOUS
  <1>1. ASSUME NEW o \in Orders, NewOrder(o) PROVE IInv'
    BY <1>1, NewOrderPreserves
  <1>2. ASSUME NEW o \in Orders, NEW call \in RuntimeCalls, RuntimeTransition(o, call)
        PROVE  IInv'
    BY <1>2, RuntimePreserves
  <1>3. ASSUME NEW r \in Recoverers, Recover(r) PROVE IInv'
    <2>1. CASE RecoverHop(r)
      BY <2>1, HopPreserves
    <2>2. ASSUME NEW o \in Orders, NEW goal \in Terminal, NEW fill \in Fills,
                 RecoverRead(r, o, goal, fill)
          PROVE  IInv'
      BY <2>2, ReadPreserves
    <2>3. ASSUME NEW o \in Orders, RecoverRead(r, o, "UNKNOWN", NoFill)
          PROVE  IInv'
      BY <2>3, ReadPreserves DEF Fills
    <2>4. CASE \/ RecoverScan(r)
               \/ \E o \in Orders :
                     \/ RecoverReadFails(r, o)
                     \/ \E goal \in {"ACK", "REJECTED"} : RecoverDirect(r, o, goal)
               \/ RecoverHopFails(r)
      BY <2>4, OtherPassStepsPreserve
    <2> QED BY <1>3, <2>1, <2>2, <2>3, <2>4 DEF Recover
  <1>4. CASE Crash \/ (\E o \in Orders : WriterReturns(o)) \/ UNCHANGED vars
    BY <1>4, EndingsPreserve
  <1> QED BY <1>1, <1>2, <1>3, <1>4 DEF Next

\* The invariant holds in every state of every behaviour of the ledger.
THEOREM LedgerInvariant == Spec => []IInv
  BY InitEstablishes, Inductive, PTL DEF Spec

\* The tables and the locals of every pass keep their types.
THEOREM TypeCorrect == Spec => []TypeOK
  <1>1. IInv => TypeOK
    BY DEF IInv, TablesInv, PassesInv, TypeOK
  <1> QED BY <1>1, LedgerInvariant, PTL

\* transition_order_state keeps the log an exact story of every order.
THEOREM AuditTrail == Spec => []AuditTrailIsExact
  <1>1. IInv => AuditTrailIsExact
    BY DEF IInv, TablesInv
  <1> QED BY <1>1, LedgerInvariant, PTL

\* FILLED is recorded only for the exact quantity of a submitted order.
THEOREM FilledEarned == Spec => []FilledIsEarned
  <1>1. IInv => FilledIsEarned
    BY DEF IInv, TablesInv, FilledIsEarned, Submitted, WasSent
  <1> QED BY <1>1, LedgerInvariant, PTL

\* recover_to_terminal answers True only for the outcome the ledger holds.
THEOREM RecoveryReply == Spec => []RecoveryReplyIsTrue
  <1>1. IInv => RecoveryReplyIsTrue
    BY DEF IInv, PassesInv
  <1> QED BY <1>1, LedgerInvariant, PTL
-----------------------------------------------------------------------------
\* A committed write is one step of OrderOutcome: work, or the decision.
LEMMA WriteRefines ==
    ASSUME TablesInv, NEW o, NEW to, NEW fill,
           GoodCall(o, to, fill), Write(o, to, fill)
    PROVE  [Outcome!ONext]_(Outcome!ovars)
  <1> DEFINE row == orders[o]
             new == Updated(row, to, fill)
             outcome == [x \in Orders |-> OutcomeOf(orders[x].status)]
             executed == [x \in Orders |-> orders[x].filled]
  <1>1. CASE ~Commits(row, to, fill)
    <2>1. orders' = orders
      BY <1>1 DEF Write
    <2> QED BY <2>1 DEF Outcome!ovars
  <1>2. CASE Commits(row, to, fill)
    <2>1. /\ row.status \in Open /\ to # "NEW" /\ to \in Statuses
          /\ <<row.status, to>> \in AllowedTransitions
      BY <1>2, CommitMovesOpen DEF GoodCall
    <2>2. o \in Orders /\ row \in Rows
      BY <2>1 DEF TablesInv, NoRow, Open, GoodCall
    <2>3. /\ new \in Rows /\ new.status = to /\ new.filled >= row.filled
          /\ to = "FILLED" => new.filled = Requested
      BY <1>2, <2>2, UpdatedRow DEF GoodCall
    <2>4. orders' = [orders EXCEPT ![o] = new]
      BY <1>2 DEF Write
    <2> HIDE DEF new
    <2>5. \A x \in Orders : orders'[x] = IF x = o THEN new ELSE orders[x]
      BY <2>2, <2>4 DEF TablesInv
    <2>6. /\ outcome' = [outcome EXCEPT ![o] = OutcomeOf(to)]
          /\ executed' = [executed EXCEPT ![o] = new.filled]
      BY <2>2, <2>3, <2>5
    <2>7. new.filled \in 0..MaxFill
      BY <2>3 DEF Rows
    <2>8. executed[o] = row.filled /\ outcome[o] = OutcomeOf(row.status)
      BY <2>2
    <2>9. Outcome!Learn(o)
      BY <2>3, <2>6, <2>7, <2>8 DEF Outcome!Learn
    <2>10. OutcomeOf(row.status) \in {"unsent", "working"}
      BY <2>1 DEF OutcomeOf, Open
    <2>11. CASE to \in Terminal
      <3>1. OutcomeOf(to) = to /\ to \in Outcome!Final
        BY <2>11 DEF OutcomeOf, Outcome!Final, Terminal
      <3>2. OutcomeOf(row.status) = "working" \/ to \in {"CANCELED", "REJECTED"}
        BY <2>1, <2>11 DEF OutcomeOf, AllowedTransitions, Open, Terminal
      <3>3. executed'[o] = new.filled
        BY <2>2, <2>6
      <3>4. Outcome!Decide(o, to)
        BY <2>3, <2>6, <2>8, <2>9, <2>10, <3>1, <3>2, <3>3 DEF Outcome!Decide
      <3> QED BY <2>2, <3>1, <3>4 DEF Outcome!ONext
    <2>12. CASE to \notin Terminal
      <3>1. OutcomeOf(to) = "working"
        BY <2>1, <2>12 DEF OutcomeOf, Statuses, Open
      <3>2. Outcome!Work(o)
        BY <2>6, <2>8, <2>9, <2>10, <3>1 DEF Outcome!Work
      <3> QED BY <2>2, <3>2 DEF Outcome!ONext
    <2> QED BY <2>11, <2>12
  <1> QED BY <1>1, <1>2

\* Who changes the tables: the other steps leave orders and transitions alone.
Writes ==
    \/ \E o \in Orders : NewOrder(o)
    \/ \E o \in Orders : \E call \in RuntimeCalls : RuntimeTransition(o, call)
    \/ \E r \in Recoverers : RecoverHop(r)
Same == UNCHANGED <<orders, transitions>>

LEMMA WhoWritesTables == [Next]_vars => Writes \/ Same
  <1> SUFFICES ASSUME [Next]_vars PROVE Writes \/ Same
    OBVIOUS
  <1>1. ASSUME NEW r \in Recoverers, Recover(r) PROVE Writes \/ Same
    <2>1. CASE RecoverScan(r)
      BY <2>1 DEF RecoverScan, Same
    <2>2. ASSUME NEW o, NEW goal, NEW fill, RecoverRead(r, o, goal, fill) PROVE Same
      BY <2>2 DEF RecoverRead, Same
    <2>3. ASSUME NEW o, RecoverReadFails(r, o) PROVE Same
      BY <2>3 DEF RecoverReadFails, Same
    <2>4. ASSUME NEW o, NEW goal, RecoverDirect(r, o, goal) PROVE Same
      BY <2>4 DEF RecoverDirect, Same
    <2>5. CASE RecoverHopFails(r)
      BY <2>5 DEF RecoverHopFails, Same
    <2>6. CASE RecoverHop(r)
      BY <2>6 DEF Writes
    <2> QED BY <1>1, <2>1, <2>2, <2>3, <2>4, <2>5, <2>6 DEF Recover
  <1>2. ASSUME NEW o \in Orders, WriterReturns(o) PROVE Writes \/ Same
    BY <1>2 DEF WriterReturns, Same
  <1>3. CASE Crash
    BY <1>3 DEF Crash, Same
  <1>4. CASE UNCHANGED vars
    BY <1>4 DEF vars, Same
  <1>5. ASSUME NEW o \in Orders, NewOrder(o) PROVE Writes \/ Same
    BY <1>5 DEF Writes
  <1>6. ASSUME NEW o \in Orders, NEW call \in RuntimeCalls, RuntimeTransition(o, call)
        PROVE  Writes \/ Same
    BY <1>6 DEF Writes
  <1> QED BY <1>1, <1>2, <1>3, <1>4, <1>5, <1>6 DEF Next

\* Every step of the ledger is a step of OrderOutcome or changes nothing there.
LEMMA StepRefines == IInv /\ [Next]_vars => [Outcome!ONext]_(Outcome!ovars)
  <1> SUFFICES ASSUME IInv, [Next]_vars PROVE [Outcome!ONext]_(Outcome!ovars)
    OBVIOUS
  <1>1. ASSUME NEW o \in Orders, NewOrder(o) PROVE Outcome!ONext
    <2>1. \A x \in Orders : orders'[x] = IF x = o THEN [status |-> "NEW", filled |-> 0]
                                        ELSE orders[x]
      BY <1>1 DEF NewOrder, IInv, TablesInv
    <2>2. orders[o].status = "none" /\ orders[o].filled = 0
      BY <1>1 DEF NewOrder, NoRow
    <2>3. OutcomeOf("none") = "none" /\ OutcomeOf("NEW") = "unsent"
      BY DEF OutcomeOf
    <2>4. Outcome!Place(o)
      <3> DEFINE outcome == [x \in Orders |-> OutcomeOf(orders[x].status)]
                 executed == [x \in Orders |-> orders[x].filled]
      <3>1. outcome[o] = "none" /\ executed' = executed
        BY <2>1, <2>2, <2>3
      <3>2. outcome' = [outcome EXCEPT ![o] = "unsent"]
        <4>1. \A x \in Orders : outcome'[x] = IF x = o THEN "unsent" ELSE outcome[x]
          BY <2>1, <2>3
        <4> QED BY <4>1
      <3> QED BY <3>1, <3>2 DEF Outcome!Place
    <2> QED BY <2>4 DEF Outcome!ONext
  <1>2. ASSUME NEW o \in Orders, NEW call \in RuntimeCalls, RuntimeTransition(o, call)
        PROVE  [Outcome!ONext]_(Outcome!ovars)
    BY <1>2, RuntimeCallIsGood, WriteRefines DEF RuntimeTransition, IInv
  <1>3. ASSUME NEW r \in Recoverers, RecoverHop(r)
        PROVE  [Outcome!ONext]_(Outcome!ovars)
    BY <1>3, HopIsGoodCall, WriteRefines DEF RecoverHop, IInv
  <1>4. CASE UNCHANGED orders
    BY <1>4 DEF Outcome!ovars
  <1> QED BY <1>1, <1>2, <1>3, <1>4, WhoWritesTables DEF Writes, Same

\* The ledger implements OrderOutcome: whatever the submitters and the recovery
\* passes do, an order is decided at most once.
THEOREM OutcomeRefinement == Spec => OutcomeIsDecidedOnce
  <1>1. Init => Outcome!OInit
    BY DEF Init, Outcome!OInit, NoRow, OutcomeOf
  <1> QED
    BY <1>1, LedgerInvariant, StepRefines, PTL
       DEF Spec, OutcomeIsDecidedOnce, Outcome!OSpec

\* The log grows exactly when a status or a quantity is new.
THEOREM AppendsNews == Spec => AppendsOnlyNews
  <1> DEFINE News == \A o \in Orders : orders[o] # NoRow =>
                        (transitions'[o] # transitions[o] <=> orders'[o] # orders[o])
  <1>1. ASSUME IInv, NEW o, NEW to, NEW fill, GoodCall(o, to, fill), Write(o, to, fill)
        PROVE  News
    <2>1. CASE ~Commits(orders[o], to, fill)
      BY <1>1, <2>1 DEF Write
    <2>2. CASE Commits(orders[o], to, fill)
      <3>1. orders[o] \in Rows
        <4>1. orders[o].status \in Open
          BY <2>2, <1>1, CommitMovesOpen DEF GoodCall
        <4> QED BY <4>1, <1>1 DEF IInv, TablesInv, GoodCall, NoRow, Open
      <3>2. Updated(orders[o], to, fill) # orders[o]
        BY <1>1, <2>2, <3>1 DEF Commits, Repeats, GoodCall, Updated, Rows
      <3>3. Append(transitions[o], <<orders[o].status, to>>) # transitions[o]
        <4>1. transitions[o] \in Seq(Statuses \X Statuses)
          BY <1>1 DEF IInv, TablesInv, GoodCall
        <4>2. <<orders[o].status, to>> \in Statuses \X Statuses
          BY <1>1, <3>1 DEF GoodCall, Rows
        <4>3. Len(Append(transitions[o], <<orders[o].status, to>>)) = Len(transitions[o]) + 1
          BY <4>1, <4>2
        <4> QED BY <4>1, <4>3
      <3> QED BY <1>1, <2>2, <3>2, <3>3 DEF Write, IInv, TablesInv, GoodCall
    <2> QED BY <2>1, <2>2
  <1>2. ASSUME IInv, [Next]_vars PROVE [News]_vars
    <2>1. ASSUME NEW o \in Orders, NewOrder(o) PROVE News
      BY <1>2, <2>1 DEF NewOrder, IInv, TablesInv
    <2> HIDE DEF News
    <2>2. ASSUME NEW o \in Orders, NEW call \in RuntimeCalls, RuntimeTransition(o, call)
          PROVE  News
      BY <2>2, <1>1, <1>2, RuntimeCallIsGood DEF RuntimeTransition
    <2>3. ASSUME NEW r \in Recoverers, RecoverHop(r) PROVE News
      BY <2>3, <1>1, <1>2, HopIsGoodCall DEF RecoverHop
    <2>4. CASE Same
      BY <2>4 DEF News, Same
    <2> QED BY <1>2, <2>1, <2>2, <2>3, <2>4, WhoWritesTables DEF Writes
  <1> QED BY <1>2, LedgerInvariant, PTL DEF Spec, AppendsOnlyNews
=============================================================================
