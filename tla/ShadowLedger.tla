----------------------------- MODULE ShadowLedger -----------------------------
(* research/oms_ledger.py: the append-only SQLite ledger of shadow orders,    *)
(* fills and the risk decisions that approve them, kept by several processes. *)
(*                                                                            *)
(* A call opens one connection, but its transaction begins with the first     *)
(* INSERT: the reads that decide come before it, each in autocommit mode, so  *)
(* record_order_event and record_fill are several steps, kept in call[w].     *)
(* Registering an intent or a decision is one step, because primary keys      *)
(* refuse whoever inserts second.  Refused calls raise and change nothing.    *)
(*                                                                            *)
(* Prices are 1: a quantity is a notional.  Time stamps are what the caller   *)
(* says.  Costs and evidence, which only the callers' arguments decide, are   *)
(* left out.                                                                  *)
EXTENDS Integers, FiniteSets, Totals

CONSTANTS
    Orders,         \* client_order_ids, each with its immutable intent
    Writers,        \* processes
    WritersOf,      \* those that record for each order
    Target,         \* intent.target_notional
    Decisions,      \* approved risk decisions: reduced_notional, decided_at
    Reports,        \* the events callers may report
    Fills,          \* the fills callers may record, also several with one id
    None            \* SQL NULL

Types == {"CREATED", "SUBMITTED", "ACKNOWLEDGED", "PARTIALLY_FILLED", "FILLED",
          "CANCELLED", "REJECTED", "UNKNOWN"}

\* An event's id is a hash of its contents; the reason tells a fill's own event.
Event == [order : Orders, type : Types, at : Nat, reason : {"fill", "report"}]

ASSUME LedgerAssumption ==
    /\ WritersOf \in [Orders -> SUBSET Writers]
    /\ Target \in [Orders -> Nat]
    /\ Decisions \subseteq [cap : Nat \cup {None}, at : Nat]
    /\ Reports \subseteq {e \in Event : e.reason = "report"}
    /\ Fills \subseteq [id : STRING, order : Orders, quantity : Nat \ {0}, at : Nat]
    /\ None \notin Nat \cup Decisions \cup Reports \cup Fills

VARIABLES
    intents,        \* oms_intents: the registered ones
    decisions,      \* oms_risk_decisions, by order
    events,         \* oms_order_events
    fills,          \* oms_fill_events
    attributed,     \* oms_tca_fill_bindings: fills with a cost attribution
    call            \* where each process is in a call

tables == <<intents, decisions, events, fills, attributed>>
vars == <<tables, call>>

NoCall == [step |-> "idle", item |-> None]

Init ==
    /\ intents = {} /\ decisions = [o \in Orders |-> None]
    /\ events = {} /\ fills = {} /\ attributed = {}
    /\ call = [w \in Writers |-> NoCall]
-----------------------------------------------------------------------------
TerminalStates == {"FILLED", "CANCELLED", "REJECTED"}
Fillable == {"ACKNOWLEDGED", "PARTIALLY_FILLED", "UNKNOWN"}

AllowedTransitions(type) ==
    CASE type = None -> {"CREATED"}
      [] type = "CREATED" -> {"SUBMITTED", "CANCELLED", "REJECTED"}
      [] type = "SUBMITTED" -> {"ACKNOWLEDGED", "CANCELLED", "REJECTED", "UNKNOWN"}
      [] type = "ACKNOWLEDGED" -> {"PARTIALLY_FILLED", "FILLED", "CANCELLED",
                                   "REJECTED", "UNKNOWN"}
      [] type = "PARTIALLY_FILLED" -> {"PARTIALLY_FILLED", "FILLED", "CANCELLED",
                                       "UNKNOWN"}
      [] type = "UNKNOWN" -> {"ACKNOWLEDGED", "PARTIALLY_FILLED", "FILLED",
                              "CANCELLED", "REJECTED"}
      [] type \in TerminalStates -> {}

Log(o) == {e \in events : e.order = o}

\* The event of an order with the greatest time stamp.  Two of the same time
\* are told apart by the order of their hashes, which is arbitrary but fixed.
NoEvent == [type |-> None, at |-> -1]
LatestEvent(log) ==
    IF log = {} THEN NoEvent
    ELSE CHOOSE e \in log : \A other \in log : other.at <= e.at

\* Mutant: any time stamp is accepted.
FollowsAtAnyTime(e) == e.type \in AllowedTransitions(LatestEvent(Log(e.order)).type)

\* The tests of _record_order_event on what it reads.
Follows(e) ==
    LET latest == LatestEvent(Log(e.order)) IN
    /\ e.at > latest.at
    /\ e.type \in AllowedTransitions(latest.type)

IsApproved(o, at) == decisions[o] # None /\ decisions[o].at <= at

\* The cap binds only where the decision reduces the intent.
IsReduced(o) ==
    decisions[o] # None /\ decisions[o].cap # None /\ decisions[o].cap < Target[o]
TerminalNotional(o) == IF IsReduced(o) THEN decisions[o].cap ELSE Target[o]

Notional(S) == Total([f \in S |-> f.quantity])
FillsOf(o) == {f \in fills : f.order = o}

Begin(w, step, item) == call' = [call EXCEPT ![w] = [step |-> step, item |-> item]]
Return(w) == call' = [call EXCEPT ![w] = NoCall]
-----------------------------------------------------------------------------
RegisterIntent(o) ==
    /\ o \notin intents /\ intents' = intents \cup {o}
    /\ UNCHANGED <<decisions, events, fills, attributed, call>>

\* The first decision is final; a second one is refused.
RecordRiskDecision(o, decision) ==
    /\ o \in intents /\ decisions[o] = None
    /\ decisions' = [decisions EXCEPT ![o] = decision]
    /\ UNCHANGED <<intents, events, fills, attributed, call>>

\* record_order_event up to its last read.
RecordOrderEvent(w, e) ==
    /\ call[w].step = "idle" /\ w \in WritersOf[e.order]
    /\ IsApproved(e.order, e.at)
    /\ e \notin events /\ Follows(e)
    /\ Begin(w, "append", e)
    /\ UNCHANGED tables

\* Its INSERT, refused only if the same event is there by now.
AppendEvent(w) ==
    /\ call[w].step = "append"
    /\ events' = events \cup {call[w].item}
    /\ Return(w)
    /\ UNCHANGED <<intents, decisions, fills, attributed>>

\* record_fill reads the fill's id, the decision and the latest event.
RecordFill(w, f) ==
    LET latest == LatestEvent(Log(f.order)) IN
    /\ call[w].step = "idle" /\ w \in WritersOf[f.order]
    /\ \A other \in fills : other.id # f.id
    /\ IsApproved(f.order, f.at)
    /\ latest.type \in Fillable /\ f.at > latest.at
    /\ Begin(w, "weigh", f)
    /\ UNCHANGED tables

FitsCap(f) ==
    IsReduced(f.order) =>
        Notional(FillsOf(f.order)) + f.quantity <= decisions[f.order].cap

\* Then, in a read of its own, the fills so far.
WeighFill(w) ==
    /\ call[w].step = "weigh"
    /\ IF FitsCap(call[w].item) THEN Begin(w, "insert", call[w].item) ELSE Return(w)
    /\ UNCHANGED tables

\* Mutant: almost the whole notional completes an order.
StateAfterOneMore(f) ==
    IF Notional(FillsOf(f.order) \cup {f}) + 1 >= TerminalNotional(f.order)
    THEN "FILLED" ELSE "PARTIALLY_FILLED"

StateAfter(f) ==
    IF Notional(FillsOf(f.order) \cup {f}) >= TerminalNotional(f.order)
    THEN "FILLED" ELSE "PARTIALLY_FILLED"

\* Mutant: the fill is committed before its event is tried.
CommitsFirst(f, e) ==
    fills' = fills \cup {f} /\ events' = IF Follows(e) THEN events \cup {e} ELSE events

\* One transaction for the fill and its event: the event is there already, is
\* appended, or takes the fill back with it.
Commits(f, e) ==
    IF e \in events \/ Follows(e)
    THEN fills' = fills \cup {f} /\ events' = events \cup {e}
    ELSE UNCHANGED <<fills, events>>

\* The INSERT of the fill; an id that is taken by now is a retry or a conflict,
\* and neither changes anything.
InsertFill(w) ==
    LET f == call[w].item IN
    /\ call[w].step = "insert"
    /\ IF \E other \in fills : other.id = f.id
       THEN UNCHANGED <<fills, events>>
       ELSE Commits(f, [order |-> f.order, type |-> StateAfter(f), at |-> f.at,
                        reason |-> "fill"])
    /\ Return(w)
    /\ UNCHANGED <<intents, decisions, attributed>>

\* record_tca: one attribution for each recorded fill; the keys of the binding
\* refuse whoever inserts second.
RecordTca(f) ==
    /\ f \in fills /\ f.id \notin attributed
    /\ attributed' = attributed \cup {f.id}
    /\ UNCHANGED <<intents, decisions, events, fills, call>>

\* The process dies between two statements.
Abandon(w) ==
    /\ call[w].step # "idle" /\ Return(w)
    /\ UNCHANGED tables

Next ==
    \/ \E o \in Orders :
          \/ RegisterIntent(o)
          \/ \E decision \in Decisions : RecordRiskDecision(o, decision)
    \/ \E w \in Writers :
          \/ \E e \in Reports : RecordOrderEvent(w, e)
          \/ \E f \in Fills : RecordFill(w, f)
          \/ AppendEvent(w) \/ WeighFill(w) \/ InsertFill(w) \/ Abandon(w)
    \/ \E f \in Fills : RecordTca(f)

Spec == Init /\ [][Next]_vars
-----------------------------------------------------------------------------
TypeOK ==
    /\ intents \subseteq Orders
    /\ decisions \in [Orders -> Decisions \cup {None}]
    /\ events \subseteq Event
    /\ fills \subseteq Fills
    /\ attributed \subseteq {f.id : f \in fills}
    /\ call \in [Writers -> [step : {"idle", "append", "weigh", "insert"},
                             item : Reports \cup Fills \cup {None}]]

\* However processes overlap or die, no fill stands without the order event it
\* caused: the position and the order's state never part.
FillsAreLogged ==
    \A f \in fills : \E e \in events :
        /\ e.order = f.order /\ e.at = f.at /\ e.reason = "fill"
        /\ e.type \in {"PARTIALLY_FILLED", "FILLED"}

\* An order the ledger itself completed was filled for all it was approved for
\* by that time, also when two processes fill it at once.
CompletionIsEarned ==
    \A e \in events : e.type = "FILLED" /\ e.reason = "fill" =>
        Notional({f \in FillsOf(e.order) : f.at <= e.at}) >= TerminalNotional(e.order)

\* The cumulative fills of an order whose risk was reduced stay within the
\* approved notional.
CapIsKept(o) == IsReduced(o) => Notional(FillsOf(o)) <= decisions[o].cap

\* The events of an order, by time, are a path of the state graph: no two share
\* a time, each follows its predecessor legally, and none follows a terminal
\* state.
LogIsLegal(o) ==
    \A e \in Log(o) :
        LET earlier == {other \in Log(o) : other # e /\ other.at <= e.at} IN
        /\ e.at > LatestEvent(earlier).at
        /\ e.type \in AllowedTransitions(LatestEvent(earlier).type)

SoleWriter(o) == \E w \in Writers : WritersOf[o] = {w}

\* The reads ahead of the transaction keep the cap and the log of an order only
\* one process records for, whatever its retries, crashes and time stamps, and
\* whatever others write about other orders.
SoleWriterIsSafe == \A o \in Orders : SoleWriter(o) => CapIsKept(o) /\ LogIsLegal(o)

\* The report on the fill cap: "every prospective cumulative fill is rejected
\* above that cap before any fill or order event is written".
EveryCapIsKept == \A o \in Orders : CapIsKept(o)
=============================================================================
