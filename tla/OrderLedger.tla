---------------------------- MODULE OrderLedger ----------------------------
(* The persisted order ledger (tables orders and order_state_transitions)    *)
(* and the coroutines that write it: the one that submitted each order, and  *)
(* the recovery passes (SignalHandlerAsync.recover, one per starting         *)
(* instance, over the pending orders of every instance).  Each awaited write *)
(* is one step, so a pass and a submitter interleave between hops, and a     *)
(* crash leaves any prefix of a pass behind.                                 *)
EXTENDS OrderStatus, Sequences

CONSTANTS
    Orders,                 \* client_order_id values
    Recoverers,             \* instances whose start() may run recover()
    MaxFill,                \* bound: largest executed quantity reported
    MaxTransitions          \* bound: no new call on an order with this many

ASSUME LedgerAssumption == MaxFill \in Nat /\ MaxTransitions \in Nat

VARIABLES
    orders,                 \* the orders table: order -> row
    transitions,            \* order_state_transitions: order -> pairs, in order
    writers,                \* orders whose submitting coroutine is alive
    recovery                \* recoverer -> its locals inside recover()

vars == <<orders, transitions, writers, recovery>>

Fills == 0..MaxFill \cup {NoFill}
NoRow == [status |-> "none", filled |-> 0]
Rows == [status : Statuses, filled : 0..MaxFill]

NoOrder == "no order"

\* at is the local `current`: the status the pass believes the order has, or
\* "direct" where recover() calls transition without reading the order first.
Idle == [pending |-> {}, order |-> NoOrder, goal |-> "none", fill |-> NoFill,
         at |-> "none", reply |-> "none"]

Passes == [pending : SUBSET Orders, order : Orders \cup {NoOrder},
           goal : Statuses \cup {"none"}, fill : Fills,
           at : Statuses \cup {"none", "direct"},
           reply : {"none", "running", "accepted", "refused", "failed"}]

TypeOK ==
    /\ orders \in [Orders -> Rows \cup {NoRow}]
    /\ transitions \in [Orders -> Seq(Statuses \X Statuses)]
    /\ writers \subseteq Orders
    /\ recovery \in [Recoverers -> Passes]

Init ==
    /\ orders = [o \in Orders |-> NoRow]
    /\ transitions = [o \in Orders |-> <<>>]
    /\ writers = {}
    /\ recovery = [r \in Recoverers |-> Idle]
-----------------------------------------------------------------------------
\* Mutant: the order is updated in a transaction of its own and the insert of
\* the log entry is lost.
WriteUnlogged(o, to, fill) ==
    /\ orders' = IF Commits(orders[o], to, fill)
                 THEN [orders EXCEPT ![o] = Updated(orders[o], to, fill)]
                 ELSE orders
    /\ UNCHANGED transitions

\* One committed or refused write: both tables move together or not at all.
Write(o, to, fill) ==
    \/ /\ Commits(orders[o], to, fill)
       /\ orders' = [orders EXCEPT ![o] = Updated(orders[o], to, fill)]
       /\ transitions' = [transitions EXCEPT
                            ![o] = Append(@, <<orders[o].status, to>>)]
    \/ /\ ~Commits(orders[o], to, fill)
       /\ UNCHANGED <<orders, transitions>>

\* new_order: the id is a fresh uuid, so the upsert never meets an old row.
NewOrder(o) ==
    /\ orders[o] = NoRow
    /\ orders' = [orders EXCEPT ![o] = [status |-> "NEW", filled |-> 0]]
    /\ writers' = writers \cup {o}
    /\ UNCHANGED <<transitions, recovery>>

\* The (status, quantity) arguments the submitting coroutines pass.  Which one
\* comes next depends on the executor's answer; here any may, in any order.
RuntimeCalls ==
    ({"SENT", "ACK", "REJECTED", "UNKNOWN"} \X {NoFill})
    \cup ({"PARTIAL", "FILLED", "UNKNOWN"} \X (1..MaxFill))

RuntimeTransition(o, call) ==
    /\ o \in writers
    /\ Len(transitions[o]) < MaxTransitions
    /\ Write(o, call[1], call[2])
    /\ UNCHANGED <<writers, recovery>>

WriterReturns(o) ==
    /\ o \in writers
    /\ writers' = writers \ {o}
    /\ UNCHANGED <<orders, transitions, recovery>>
-----------------------------------------------------------------------------
\* recover() reads the pending orders once and then works through that list.
RecoverScan(r) ==
    /\ recovery[r].pending = {} /\ recovery[r].reply # "running"
    /\ \E o \in Orders : orders[o].status \in Open
    /\ recovery' = [recovery EXCEPT
            ![r] = [Idle EXCEPT !.pending =
                        {o \in Orders : orders[o].status \in Open}]]
    /\ UNCHANGED <<orders, transitions, writers>>

\* Mutant: any terminal status satisfies recover_to_terminal.
FirstReplyAnyTerminal(status, goal) ==
    CASE status = "none" -> "refused"
      [] status \in Terminal -> "accepted"
      [] status = "UNKNOWN" /\ goal = "UNKNOWN" -> "accepted"
      [] OTHER -> "running"

\* The reply of recover_to_terminal and mark_recovery_unknown right after they
\* read the order: running when they go on to write.
FirstReply(status, goal) ==
    CASE status = "none" -> "refused"
      [] status \in Terminal /\ status = goal -> "accepted"
      [] status \in Terminal /\ status # goal -> "refused"
      [] status = "UNKNOWN" /\ goal = "UNKNOWN" -> "accepted"
      [] OTHER -> "running"

\* recover_to_terminal(goal, fill) for a finished exchange order, or
\* mark_recovery_unknown: the order is read before the first write.
RecoverRead(r, o, goal, fill) ==
    /\ o \in recovery[r].pending /\ recovery[r].reply # "running"
    /\ goal = "UNKNOWN" => fill = NoFill
    /\ goal = "FILLED" => fill # 0
    /\ Len(transitions[o]) < MaxTransitions
    /\ recovery' = [recovery EXCEPT
            ![r] = [pending |-> @.pending \ {o}, order |-> o, goal |-> goal,
                    fill |-> fill, at |-> orders[o].status,
                    reply |-> FirstReply(orders[o].status, goal)]]
    /\ UNCHANGED <<orders, transitions, writers>>

\* get_order raised: both procedures answer False and recover() moves on.
RecoverReadFails(r, o) ==
    /\ o \in recovery[r].pending /\ recovery[r].reply # "running"
    /\ recovery' = [recovery EXCEPT
            ![r] = [Idle EXCEPT !.pending = recovery[r].pending \ {o},
                                !.order = o, !.reply = "failed"]]
    /\ UNCHANGED <<orders, transitions, writers>>

\* recover() found the order still open (ACK) or proved it absent (REJECTED).
RecoverDirect(r, o, goal) ==
    /\ o \in recovery[r].pending /\ recovery[r].reply # "running"
    /\ Len(transitions[o]) < MaxTransitions
    /\ recovery' = [recovery EXCEPT
            ![r] = [pending |-> @.pending \ {o}, order |-> o, goal |-> goal,
                    fill |-> NoFill, at |-> "direct", reply |-> "running"]]
    /\ UNCHANGED <<orders, transitions, writers>>

\* One awaited write of a pass.  A refused hop ends it with the reply False.
RecoverHop(r) ==
    LET p == recovery[r]
        hop == NextHop(p.at, p.goal)
        reply == IF ~Accepts(orders[p.order], hop, p.fill) THEN "refused"
                 ELSE IF hop = p.goal THEN "accepted" ELSE "running"
    IN /\ p.reply = "running"
       /\ Write(p.order, hop, p.fill)
       /\ recovery' = [recovery EXCEPT ![r].at = hop, ![r].reply = reply]
       /\ UNCHANGED writers

\* The store raises: transition_order_state answers False, nothing is written.
RecoverHopFails(r) ==
    /\ recovery[r].reply = "running"
    /\ recovery' = [recovery EXCEPT ![r].reply = "failed"]
    /\ UNCHANGED <<orders, transitions, writers>>

\* The process dies: coroutines vanish, the committed tables remain.
Crash ==
    /\ writers # {} \/ \E r \in Recoverers : recovery[r] # Idle
    /\ writers' = {}
    /\ recovery' = [r \in Recoverers |-> Idle]
    /\ UNCHANGED <<orders, transitions>>

Recover(r) ==
    \/ RecoverScan(r)
    \/ \E o \in Orders :
          \/ \E goal \in Terminal, fill \in Fills : RecoverRead(r, o, goal, fill)
          \/ RecoverRead(r, o, "UNKNOWN", NoFill)
          \/ RecoverReadFails(r, o)
          \/ \E goal \in {"ACK", "REJECTED"} : RecoverDirect(r, o, goal)
    \/ RecoverHop(r)
    \/ RecoverHopFails(r)

Next ==
    \/ \E o \in Orders :
          \/ NewOrder(o)
          \/ \E call \in RuntimeCalls : RuntimeTransition(o, call)
          \/ WriterReturns(o)
    \/ \E r \in Recoverers : Recover(r)
    \/ Crash

Spec == Init /\ [][Next]_vars

\* A pass that holds control keeps making its awaited writes: nothing else in
\* the event loop can keep a ready coroutine from running.
LiveSpec == Spec /\ \A r \in Recoverers : WF_vars(RecoverHop(r))
-----------------------------------------------------------------------------
\* The transition log is the exact story of each order: it starts at NEW, each
\* entry leaves the status the one before it reached, and the last one is the
\* status in the orders table - whatever writes raced, were retried or died.
AuditTrailIsExact ==
    \A o \in Orders :
        LET log == transitions[o] IN
        /\ log = <<>> => orders[o].status \in {"none", "NEW"}
        /\ log # <<>> => /\ log[1][1] = "NEW"
                         /\ log[Len(log)][2] = orders[o].status
        /\ \A i \in 1..(Len(log) - 1) : log[i][2] = log[i + 1][1]

\* An order is recorded FILLED only for exactly the requested quantity and only
\* when its log shows that it was submitted: recovery that finds a fill for an
\* order still NEW replays the submission instead of skipping it.
FilledIsEarned ==
    \A o \in Orders : orders[o].status = "FILLED" =>
        /\ orders[o].filled = Requested
        /\ \E i \in DOMAIN transitions[o] : transitions[o][i] = <<"NEW", "SENT">>

\* A recovery procedure that answers True for a terminal goal left the order
\* with exactly that outcome, although other coroutines wrote between the read
\* it planned from and its last write.
RecoveryReplyIsTrue ==
    \A r \in Recoverers :
        recovery[r].reply = "accepted" /\ recovery[r].goal \in Terminal =>
            orders[recovery[r].order].status = recovery[r].goal

\* The log grows exactly when a status or a cumulative fill is new: repeating a
\* call whose answer was lost writes nothing, and no write goes unlogged.
AppendsOnlyNews ==
    [][\A o \in Orders : orders[o] # NoRow =>
            (transitions'[o] # transitions[o] <=> orders'[o] # orders[o])]_vars

\* The verdict a pass carries could be recorded: its quantity fits the goal and
\* does not fall below what the ledger already knows.
Consistent(p) ==
    /\ p.goal \in Terminal
    /\ FillFits(orders[p.order], p.goal, p.fill)

\* A pass over an order nobody else writes, with a verdict the ledger can
\* record, reaches that verdict from every non-terminal status unless the store
\* fails or the process dies: the hops it replays are never a dead end.
ColdRecoverySettles ==
    \A r \in Recoverers, o \in Orders, goal \in Terminal :
        /\ recovery[r].reply = "running" /\ recovery[r].order = o
        /\ recovery[r].goal = goal /\ recovery[r].at = orders[o].status
        /\ Consistent(recovery[r]) /\ o \notin writers
        ~> \/ orders[o].status = goal
           \/ recovery[r].reply \in {"failed", "none"}

\* The ledger as its readers see it.
OutcomeOf(status) ==
    CASE status = "none" -> "none"
      [] status = "NEW" -> "unsent"
      [] status \in {"SENT", "ACK", "PARTIAL", "UNKNOWN"} -> "working"
      [] OTHER -> status

Outcome == INSTANCE OrderOutcome WITH
    outcome <- [o \in Orders |-> OutcomeOf(orders[o].status)],
    executed <- [o \in Orders |-> orders[o].filled]

\* The ledger implements OrderOutcome: a decided order never changes outcome or
\* quantity again, quantities never shrink, and only working orders are filled.
OutcomeIsDecidedOnce == Outcome!OSpec
=============================================================================
