------------------------- MODULE ShadowLedgerProofs --------------------------
(* Proofs about ShadowLedger for all sets of orders, processes, decisions,    *)
(* events and fills: first the log of each order, then what its fills add up  *)
(* to.                                                                        *)
EXTENDS ShadowLedger, TotalsProofs

Typed ==
    /\ events \subseteq Event
    /\ call \in [Writers -> [step : {"idle", "append", "weigh", "insert"},
                             item : Reports \cup Fills \cup {None}]]
    /\ \A w \in Writers :
        /\ call[w].step = "append" => call[w].item \in Reports
        /\ call[w].step \in {"weigh", "insert"} => call[w].item \in Fills
        /\ call[w].step # "idle" => w \in WritersOf[call[w].item.order]

\* The log of an order has an event none is later than, unless it is empty.
HasLatest(o) ==
    Log(o) # {} => \E e \in Log(o) : \A other \in Log(o) : other.at <= e.at

\* What a process is about to append still follows what is there.
AppendsFollow(o) ==
    \A w \in Writers : call[w].step = "append" /\ call[w].item.order = o =>
        Follows(call[w].item)

Kept(o) == HasLatest(o) /\ LogIsLegal(o) /\ AppendsFollow(o)

IInv == Typed /\ FillsAreLogged /\ \A o \in Orders : SoleWriter(o) => Kept(o)
-----------------------------------------------------------------------------
LEMMA LatestIsLast ==
    ASSUME events \subseteq Event, NEW o, HasLatest(o)
    PROVE  /\ LatestEvent(Log(o)).at \in Int
           /\ \A e \in Log(o) : e.at <= LatestEvent(Log(o)).at
  <1>1. CASE Log(o) = {}
    BY <1>1 DEF LatestEvent, NoEvent
  <1>2. CASE Log(o) # {}
    <2>1. /\ LatestEvent(Log(o)) \in Log(o)
          /\ \A other \in Log(o) : other.at <= LatestEvent(Log(o)).at
      BY <1>2 DEF HasLatest, LatestEvent
    <2> QED BY <2>1 DEF Log, Event
  <1> QED BY <1>1, <1>2

\* An event that follows the log extends it to a legal one.
LEMMA Extends ==
    ASSUME events \subseteq Event, NEW o \in Orders, HasLatest(o), LogIsLegal(o),
           NEW e \in Event, e.order = o, Follows(e), events' = events \cup {e}
    PROVE  HasLatest(o)' /\ LogIsLegal(o)'
  <1>1. Log(o)' = Log(o) \cup {e}
    BY DEF Log
  <1>2. /\ LatestEvent(Log(o)).at \in Int /\ e.at \in Nat
        /\ e.at > LatestEvent(Log(o)).at
        /\ e.type \in AllowedTransitions(LatestEvent(Log(o)).type)
        /\ \A other \in Log(o) : other.at \in Nat /\ other.at <= LatestEvent(Log(o)).at
    BY LatestIsLast DEF Follows, Event, Log
  <1>3. \A other \in Log(o) : other.at < e.at
    BY <1>2
  <1>4. HasLatest(o)'
    <2>1. \A other \in Log(o)' : other.at <= e.at
      BY <1>1, <1>2, <1>3
    <2> QED BY <1>1, <2>1 DEF HasLatest
  <1>5. LogIsLegal(o)'
    <2>1. ASSUME NEW d \in Log(o)'
          PROVE  LET earlier == {other \in Log(o)' : other # d /\ other.at <= d.at}
                 IN /\ d.at > LatestEvent(earlier).at
                    /\ d.type \in AllowedTransitions(LatestEvent(earlier).type)
      <3> DEFINE before == {other \in Log(o) : other # d /\ other.at <= d.at}
                 earlier == {other \in Log(o)' : other # d /\ other.at <= d.at}
      <3>1. CASE d = e
        <4>1. earlier = Log(o)
          BY <1>1, <1>2, <1>3, <3>1
        <4> QED BY <1>2, <3>1, <4>1
      <3>2. CASE d \in Log(o)
        <4>1. earlier = before
          BY <1>1, <1>2, <1>3, <3>2
        <4>2. /\ d.at > LatestEvent(before).at
              /\ d.type \in AllowedTransitions(LatestEvent(before).type)
          BY <3>2 DEF LogIsLegal
        <4> QED BY <4>1, <4>2
      <3> QED BY <1>1, <2>1, <3>1, <3>2
    <2> QED BY <2>1 DEF LogIsLegal
  <1> QED BY <1>4, <1>5

LEMMA InitInv == Init => IInv
  <1> SUFFICES ASSUME Init PROVE IInv
    OBVIOUS
  <1>1. NoCall.step = "idle" /\ \A w \in Writers : call[w] = NoCall
    BY DEF Init, NoCall
  <1>2. Typed
    BY <1>1 DEF Init, Typed, NoCall
  <1>3. FillsAreLogged
    BY DEF Init, FillsAreLogged
  <1>4. \A o \in Orders : Kept(o)
    BY <1>1 DEF Init, Kept, HasLatest, LogIsLegal, AppendsFollow, Log
  <1> QED BY <1>2, <1>3, <1>4 DEF IInv

\* Steps that append no event and begin no append.
LEMMA Quiet ==
    ASSUME IInv, UNCHANGED events, fills' = fills,
           \A w \in Writers : call'[w].step = "append" => call'[w] = call[w],
           Typed'
    PROVE  IInv'
  <1>1. ASSUME NEW o \in Orders, SoleWriter(o)
        PROVE  Kept(o)'
    <2>1. Log(o)' = Log(o) /\ Kept(o)
      BY <1>1 DEF Log, IInv
    <2>2. HasLatest(o)' /\ LogIsLegal(o)'
      BY <2>1 DEF Kept, HasLatest, LogIsLegal
    <2>3. AppendsFollow(o)'
      BY <2>1 DEF Kept, AppendsFollow, Follows, Log
    <2> QED BY <2>2, <2>3 DEF Kept
  <1>2. FillsAreLogged'
    BY DEF IInv, FillsAreLogged
  <1> QED BY <1>1, <1>2 DEF IInv, SoleWriter

\* A process returns after it appended one event.
LEMMA Grows ==
    ASSUME IInv, NEW w \in Writers, NEW e \in Event, w \in WritersOf[e.order],
           events' = events \cup {e}, Return(w), Typed', FillsAreLogged',
           SoleWriter(e.order) => Follows(e) \/ e \in events
    PROVE  IInv'
  <1>0. Typed /\ events \subseteq Event
    BY DEF IInv, Typed
  <1>1. /\ \A u \in Writers \ {w} : call'[u] = call[u]
        /\ call'[w].step = "idle"
    BY <1>0 DEF Typed, Return, NoCall
  <1>2. ASSUME NEW o \in Orders, SoleWriter(o)
        PROVE  Kept(o)'
    <2>1. HasLatest(o) /\ LogIsLegal(o) /\ AppendsFollow(o)
      BY <1>2 DEF IInv, Kept
    <2>2. CASE o # e.order \/ e \in events
      <3>1. Log(o)' = Log(o)
        BY <2>2 DEF Log
      <3>2. HasLatest(o)' /\ LogIsLegal(o)'
        BY <2>1, <3>1 DEF HasLatest, LogIsLegal
      <3>3. \A u \in Writers : call'[u].step = "append" => call'[u] = call[u]
        BY <1>1
      <3>4. AppendsFollow(o)'
        BY <2>1, <3>1, <3>3 DEF AppendsFollow, Follows, Log
      <3> QED BY <3>2, <3>4 DEF Kept
    <2>3. CASE o = e.order /\ e \notin events
      <3>1. HasLatest(o)' /\ LogIsLegal(o)'
        BY <1>0, <1>2, <2>1, <2>3, Extends
      <3>2. \A u \in Writers \ {w} : u \notin WritersOf[o]
        BY <1>2, <2>3 DEF SoleWriter
      <3>3. AppendsFollow(o)'
        BY <1>0, <1>1, <3>2 DEF AppendsFollow, Typed
      <3> QED BY <3>1, <3>3 DEF Kept
    <2> QED BY <2>2, <2>3
  <1> QED BY <1>2 DEF IInv, SoleWriter

LEMMA NextInv == IInv /\ [Next]_vars => IInv'
  <1> SUFFICES ASSUME IInv, [Next]_vars PROVE IInv'
    OBVIOUS
  <1>0. /\ Typed /\ FillsAreLogged /\ events \subseteq Event
        /\ Reports \subseteq Event /\ \A f \in Fills : f.order \in Orders /\ f.at \in Nat
    BY LedgerAssumption DEF IInv, Typed
  <1>b. ASSUME NEW w \in Writers, NEW step \in {"append", "weigh", "insert"},
               NEW item \in Reports \cup Fills, Begin(w, step, item),
               w \in WritersOf[item.order], UNCHANGED tables,
               step = "append" => item \in Reports /\ Follows(item),
               step # "append" => item \in Fills
        PROVE  IInv'
    <2>1. /\ \A u \in Writers \ {w} : call'[u] = call[u]
          /\ call'[w].step = step /\ call'[w].item = item
          /\ call' \in [Writers -> [step : {"idle", "append", "weigh", "insert"},
                                    item : Reports \cup Fills \cup {None}]]
      BY <1>0, <1>b DEF Begin, Typed
    <2>2. Typed'
      BY <1>0, <1>b, <2>1 DEF Typed, tables
    <2>3. CASE step # "append"
      BY <1>b, <2>1, <2>2, <2>3, Quiet DEF tables
    <2>4. CASE step = "append"
      <3>1. ASSUME NEW o \in Orders, SoleWriter(o)
            PROVE  Kept(o)'
        <4>1. Kept(o) /\ Log(o)' = Log(o)
          BY <1>b, <3>1 DEF IInv, Log, tables
        <4>2. HasLatest(o)' /\ LogIsLegal(o)'
          BY <4>1 DEF Kept, HasLatest, LogIsLegal
        <4>3. \A u \in Writers : call'[u].step = "append" /\ call'[u].item.order = o
                  => Follows(call'[u].item)
          BY <1>b, <2>1, <2>4, <4>1 DEF Kept, AppendsFollow
        <4>4. AppendsFollow(o)'
          BY <1>b, <4>3 DEF AppendsFollow, Follows, Log, tables
        <4> QED BY <4>2, <4>4 DEF Kept
      <3>2. FillsAreLogged'
        BY <1>0, <1>b DEF FillsAreLogged, tables
      <3> QED BY <2>2, <3>1, <3>2 DEF IInv, SoleWriter
    <2> QED BY <2>3, <2>4
  <1>r. ASSUME NEW w \in Writers, Return(w)
        PROVE  /\ \A u \in Writers \ {w} : call'[u] = call[u]
               /\ call'[w].step = "idle"
               /\ events' \subseteq Event => Typed'
    <2>1. NoCall \in [step : {"idle", "append", "weigh", "insert"},
                      item : Reports \cup Fills \cup {None}]
      BY DEF NoCall
    <2>2. /\ \A u \in Writers \ {w} : call'[u] = call[u]
          /\ call'[w].step = "idle"
          /\ call' \in [Writers -> [step : {"idle", "append", "weigh", "insert"},
                                    item : Reports \cup Fills \cup {None}]]
      BY <1>0, <1>r, <2>1 DEF Return, Typed, NoCall
    <2> QED BY <1>0, <2>2 DEF Typed
  <1>1. CASE \/ \E o \in Orders : \/ RegisterIntent(o)
                                  \/ \E d \in Decisions : RecordRiskDecision(o, d)
             \/ \E f \in Fills : RecordTca(f)
             \/ UNCHANGED vars
    <2>1. UNCHANGED <<events, fills, call>>
      BY <1>1 DEF RegisterIntent, RecordRiskDecision, RecordTca, vars, tables
    <2>2. Typed'
      BY <1>0, <2>1 DEF Typed
    <2> QED BY <2>1, <2>2, Quiet
  <1>2. ASSUME NEW w \in Writers, NEW e \in Reports, RecordOrderEvent(w, e)
        PROVE  IInv'
    BY <1>2, <1>b DEF RecordOrderEvent
  <1>3. ASSUME NEW w \in Writers, NEW f \in Fills, RecordFill(w, f)
        PROVE  IInv'
    BY <1>3, <1>b DEF RecordFill
  <1>4. ASSUME NEW w \in Writers, AppendEvent(w)
        PROVE  IInv'
    <2> DEFINE e == call[w].item
    <2>1. /\ e \in Reports /\ w \in WritersOf[e.order] /\ call[w].step = "append"
          /\ events' = events \cup {e} /\ fills' = fills /\ Return(w)
      BY <1>0, <1>4 DEF AppendEvent, Typed
    <2>2. e \in Event /\ e.order \in Orders
      BY <1>0, <2>1 DEF Event
    <2>3. FillsAreLogged'
      BY <1>0, <2>1 DEF FillsAreLogged
    <2>4. Typed'
      BY <1>0, <1>r, <2>1, <2>2
    <2>5. SoleWriter(e.order) => Follows(e)
      BY <2>1, <2>2 DEF IInv, Kept, AppendsFollow
    <2> HIDE DEF e
    <2> QED BY <2>1, <2>2, <2>3, <2>4, <2>5, Grows
  <1>5. ASSUME NEW w \in Writers, WeighFill(w)
        PROVE  IInv'
    <2>1. /\ call[w].item \in Fills /\ w \in WritersOf[call[w].item.order]
          /\ UNCHANGED tables
      BY <1>0, <1>5 DEF WeighFill, Typed
    <2>2. CASE Begin(w, "insert", call[w].item)
      BY <1>b, <2>1, <2>2
    <2>3. CASE Return(w)
      <3>1. \A u \in Writers : call'[u].step = "append" => call'[u] = call[u]
        BY <1>r, <2>3
      <3>2. Typed' /\ UNCHANGED events /\ fills' = fills
        BY <1>0, <1>r, <2>1, <2>3 DEF tables
      <3> QED BY <3>1, <3>2, Quiet
    <2> QED BY <1>5, <2>2, <2>3 DEF WeighFill
  <1>6. ASSUME NEW w \in Writers, InsertFill(w)
        PROVE  IInv'
    <2> DEFINE f == call[w].item
               e == [order |-> f.order, type |-> StateAfter(f), at |-> f.at,
                     reason |-> "fill"]
    <2>1. f \in Fills /\ w \in WritersOf[f.order] /\ Return(w)
      BY <1>0, <1>6 DEF InsertFill, Typed
    <2>2. /\ e \in Event /\ e.order = f.order /\ e.at = f.at /\ e.reason = "fill"
          /\ e.type \in {"PARTIALLY_FILLED", "FILLED"}
      BY <1>0, <2>1 DEF Event, Types, StateAfter
    <2>3. CASE UNCHANGED <<fills, events>>
      <3>1. \A u \in Writers : call'[u].step = "append" => call'[u] = call[u]
        BY <1>r, <2>1
      <3>2. Typed'
        BY <1>0, <1>r, <2>1, <2>3
      <3> QED BY <2>3, <3>1, <3>2, Quiet
    <2>4. CASE /\ e \in events \/ Follows(e)
               /\ fills' = fills \cup {f} /\ events' = events \cup {e}
      <3> HIDE DEF e
      <3>1. FillsAreLogged'
        BY <1>0, <2>2, <2>4 DEF FillsAreLogged
      <3>2. Typed'
        BY <1>0, <1>r, <2>1, <2>2, <2>4
      <3> QED BY <2>1, <2>2, <2>4, <3>1, <3>2, Grows
    <2>5. \/ UNCHANGED <<fills, events>> \/ Commits(f, e)
      BY <1>6 DEF InsertFill
    <2> HIDE DEF e, f
    <2> QED BY <2>3, <2>4, <2>5 DEF Commits
  <1>7. ASSUME NEW w \in Writers, Abandon(w)
        PROVE  IInv'
    <2>1. \A u \in Writers : call'[u].step = "append" => call'[u] = call[u]
      BY <1>7, <1>r DEF Abandon
    <2>2. Typed' /\ UNCHANGED events /\ fills' = fills
      BY <1>0, <1>7, <1>r DEF Abandon, tables
    <2> QED BY <2>1, <2>2, Quiet
  <1> QED BY <1>1, <1>2, <1>3, <1>4, <1>5, <1>6, <1>7 DEF Next

\* The calls under way fit the ledger they will write to.
THEOREM ShadowInvariant == Spec => []IInv
  BY InitInv, NextInv, PTL DEF Spec

\* record_fill writes the fill and its order event in one transaction: however
\* processes overlap, retry or die, no fill stands without its event.
THEOREM EveryFillLogged == Spec => []FillsAreLogged
  BY ShadowInvariant, PTL DEF IInv
-----------------------------------------------------------------------------
\* The second invariant: quantities.
Sized ==
    /\ intents \subseteq Orders
    /\ decisions \in [Orders -> Decisions \cup {None}]
    /\ fills \subseteq Fills /\ IsFiniteSet(fills)
    /\ attributed \subseteq {f.id : f \in fills}

\* Nothing is filled, or about to be, before its order's risk is decided.
Decided ==
    /\ \A f \in fills : decisions[f.order] # None
    /\ \A e \in events : e.reason = "fill" => decisions[e.order] # None
    /\ \A w \in Writers : call[w].step \in {"weigh", "insert"} =>
            decisions[call[w].item.order] # None

\* What a process is about to insert still fits under the cap.
Weighed(o) ==
    \A w \in Writers : call[w].step = "insert" /\ call[w].item.order = o =>
        FitsCap(call[w].item)

SoleCaps == \A o \in Orders : SoleWriter(o) => CapIsKept(o) /\ Weighed(o)

FillInv ==
    /\ IInv /\ Sized /\ Decided /\ SoleCaps /\ CompletionIsEarned
    /\ \A o \in Orders : HasLatest(o)

FillEvent(f) ==
    [order |-> f.order, type |-> StateAfter(f), at |-> f.at, reason |-> "fill"]

\* The one step that books a fill.
Books(w) ==
    LET f == call[w].item IN
    /\ call[w].step = "insert" /\ f \notin fills
    /\ fills' = fills \cup {f} /\ events' = events \cup {FillEvent(f)}
    /\ FillEvent(f) \in events \/ Follows(FillEvent(f))
    /\ Return(w) /\ UNCHANGED <<intents, decisions, attributed>>

\* Any other step leaves the fills alone, and logs no event of a fill.
KeepsBooks ==
    /\ UNCHANGED fills
    /\ events' = events \/ \E e \in Reports : events' = events \cup {e}
-----------------------------------------------------------------------------
LEMMA NotionalType ==
    ASSUME NEW S \in SUBSET Fills, IsFiniteSet(S)
    PROVE  Notional(S) \in Nat
  <1>1. [f \in S |-> f.quantity] \in [S -> Nat]
    BY LedgerAssumption
  <1> QED BY <1>1, UnitsFinite DEF Notional

LEMMA NotionalGrows ==
    ASSUME NEW T \in SUBSET Fills, IsFiniteSet(T), NEW S \in SUBSET T
    PROVE  Notional(S) <= Notional(T)
  <1> DEFINE s == [f \in S |-> f.quantity]
             t == [f \in T |-> f.quantity]
  <1>1. s \in [S -> Nat] /\ t \in [T -> Nat] /\ \A f \in S : s[f] <= t[f]
    BY LedgerAssumption
  <1>2. Notional(S) = Total(s) /\ Notional(T) = Total(t)
    BY DEF Notional
  <1> HIDE DEF s, t
  <1> QED BY <1>1, <1>2, TotalGrows

LEMMA NotionalAdds ==
    ASSUME NEW S \in SUBSET Fills, IsFiniteSet(S), NEW f \in Fills, f \notin S
    PROVE  Notional(S \cup {f}) = Notional(S) + f.quantity
  <1> DEFINE s == [g \in S |-> g.quantity]
             t == [g \in S \cup {f} |-> g.quantity]
  <1>1. /\ s \in [S -> Nat] /\ t \in [S \cup {f} -> Nat]
        /\ \A g \in S : t[g] = s[g]
        /\ t[f] = f.quantity
    BY LedgerAssumption
  <1>2. Notional(S) = Total(s) /\ Notional(S \cup {f}) = Total(t)
    BY DEF Notional
  <1> HIDE DEF s, t
  <1> QED BY <1>1, <1>2, TotalAdds
-----------------------------------------------------------------------------
LEMMA Bookings ==
    ASSUME Typed, [Next]_vars
    PROVE  KeepsBooks \/ \E w \in Writers : Books(w)
  <1>1. ASSUME NEW w \in Writers, InsertFill(w)
        PROVE  KeepsBooks \/ Books(w)
    <2> DEFINE f == call[w].item
    <2>1. CASE UNCHANGED <<fills, events>>
      BY <2>1 DEF KeepsBooks
    <2>2. CASE ~UNCHANGED <<fills, events>>
      <3>1. \A other \in fills : other.id # f.id
        BY <1>1, <2>2 DEF InsertFill
      <3>2. Commits(f, FillEvent(f))
        BY <1>1, <3>1 DEF InsertFill, FillEvent
      <3>3. /\ FillEvent(f) \in events \/ Follows(FillEvent(f))
            /\ fills' = fills \cup {f} /\ events' = events \cup {FillEvent(f)}
        BY <2>2, <3>2 DEF Commits
      <3> QED BY <1>1, <3>1, <3>3 DEF Books, InsertFill
    <2> QED BY <2>1, <2>2
  <1>2. ASSUME NEW w \in Writers, AppendEvent(w)
        PROVE  KeepsBooks
    BY <1>2 DEF AppendEvent, KeepsBooks, Typed
  <1>3. CASE UNCHANGED <<events, fills>>
    BY <1>3 DEF KeepsBooks
  <1>4. \/ \E w \in Writers : InsertFill(w) \/ AppendEvent(w)
        \/ UNCHANGED <<events, fills>>
    BY DEF Next, RegisterIntent, RecordRiskDecision, RecordOrderEvent, RecordFill,
           WeighFill, Abandon, RecordTca, vars, tables
  <1> QED BY <1>1, <1>2, <1>3, <1>4

\* A decision is final.
LEMMA DecisionsStay ==
    ASSUME Sized, [Next]_vars
    PROVE  /\ intents' \subseteq Orders
           /\ decisions' \in [Orders -> Decisions \cup {None}]
           /\ \A o \in Orders : decisions[o] # None => decisions'[o] = decisions[o]
           /\ attributed' \subseteq attributed \cup {f.id : f \in fills}
  <1>1. CASE \E o \in Orders : RegisterIntent(o)
    BY <1>1 DEF RegisterIntent, Sized
  <1>2. CASE \E o \in Orders, d \in Decisions : RecordRiskDecision(o, d)
    BY <1>2 DEF RecordRiskDecision, Sized
  <1>3. CASE \E f \in Fills : RecordTca(f)
    BY <1>3 DEF RecordTca, Sized
  <1>4. CASE UNCHANGED <<intents, decisions, attributed>>
    BY <1>4 DEF Sized
  <1>5. \/ \E o \in Orders : RegisterIntent(o)
        \/ \E o \in Orders, d \in Decisions : RecordRiskDecision(o, d)
        \/ \E f \in Fills : RecordTca(f)
        \/ UNCHANGED <<intents, decisions, attributed>>
    BY DEF Next, RecordOrderEvent, RecordFill, AppendEvent, InsertFill,
           WeighFill, Abandon, vars, tables
  <1> QED BY <1>1, <1>2, <1>3, <1>4, <1>5

\* How a call gets to where a fill is weighed and inserted.
LEMMA CallsMove ==
    ASSUME Typed, [Next]_vars, NEW w \in Writers
    PROVE  /\ call'[w].step = "insert" =>
                \/ call'[w] = call[w]
                \/ /\ call[w].step = "weigh" /\ call'[w].item = call[w].item
                   /\ FitsCap(call[w].item) /\ UNCHANGED tables
           /\ call'[w].step = "weigh" =>
                \/ call'[w] = call[w]
                \/ decisions[call'[w].item.order] # None
  <1>0. call \in [Writers -> [step : {"idle", "append", "weigh", "insert"},
                              item : Reports \cup Fills \cup {None}]]
    BY DEF Typed
  <1>1. CASE UNCHANGED call
    BY <1>1
  <1>2. ASSUME NEW u \in Writers, Return(u)
        PROVE  call'[w] = call[w] \/ call'[w].step = "idle"
    BY <1>0, <1>2 DEF Return, NoCall
  <1>3. ASSUME NEW u \in Writers, NEW step, NEW item, Begin(u, step, item)
        PROVE  \/ call'[w] = call[w]
               \/ u = w /\ call'[w].step = step /\ call'[w].item = item
    BY <1>0, <1>3 DEF Begin
  <1>4. ASSUME NEW u \in Writers, NEW e \in Reports, RecordOrderEvent(u, e)
        PROVE  call'[w] = call[w] \/ call'[w].step = "append"
    <2>1. Begin(u, "append", e)
      BY <1>4 DEF RecordOrderEvent
    <2> QED BY <1>3, <2>1
  <1>5. ASSUME NEW u \in Writers, NEW f \in Fills, RecordFill(u, f)
        PROVE  \/ call'[w] = call[w]
               \/ call'[w].step = "weigh" /\ decisions[call'[w].item.order] # None
    <2>1. Begin(u, "weigh", f) /\ decisions[f.order] # None
      BY <1>5 DEF RecordFill, IsApproved
    <2> QED BY <1>3, <2>1
  <1>6. ASSUME NEW u \in Writers, WeighFill(u), ~Return(u)
        PROVE  \/ call'[w] = call[w]
               \/ /\ call[w].step = "weigh" /\ call'[w].item = call[w].item
                  /\ call'[w].step = "insert"
                  /\ FitsCap(call[w].item) /\ UNCHANGED tables
    <2>1. /\ Begin(u, "insert", call[u].item) /\ FitsCap(call[u].item)
          /\ UNCHANGED tables /\ call[u].step = "weigh"
      BY <1>6 DEF WeighFill
    <2> QED BY <1>3, <2>1
  <1>7. \/ UNCHANGED call
        \/ \E u \in Writers :
            \/ Return(u)
            \/ \E e \in Reports : RecordOrderEvent(u, e)
            \/ \E f \in Fills : RecordFill(u, f)
            \/ WeighFill(u) /\ ~Return(u)
    BY DEF Next, RegisterIntent, RecordRiskDecision, AppendEvent, InsertFill,
           Abandon, RecordTca, vars, tables
  <1> QED BY <1>1, <1>2, <1>4, <1>5, <1>6, <1>7
-----------------------------------------------------------------------------
LEMMA SizedInv ==
    ASSUME Typed, Sized, [Next]_vars
    PROVE  Sized' /\ fills \subseteq fills'
  <1>1. fills' \subseteq Fills /\ IsFiniteSet(fills') /\ fills \subseteq fills'
    <2>1. CASE KeepsBooks
      BY <2>1 DEF KeepsBooks, Sized
    <2>2. ASSUME NEW w \in Writers, Books(w)
          PROVE  fills' \subseteq Fills /\ IsFiniteSet(fills') /\ fills \subseteq fills'
      <3>1. fills' = fills \cup {call[w].item} /\ call[w].item \in Fills
        BY <2>2 DEF Books, Typed
      <3>2. IsFiniteSet(fills \cup {call[w].item})
        BY FS_AddElement DEF Sized
      <3> QED BY <3>1, <3>2 DEF Sized
    <2> QED BY <2>1, <2>2, Bookings
  <1> QED BY <1>1, DecisionsStay DEF Sized

LEMMA DecidedInv ==
    ASSUME Typed, Typed', Sized, Decided, [Next]_vars
    PROVE  Decided'
  <1>0. /\ Reports \subseteq Event /\ \A f \in Fills : f.order \in Orders
        /\ \A e \in Reports : e.reason = "report"
        /\ fills \subseteq Fills /\ events \subseteq Event
        /\ \A e \in Event : e.order \in Orders
        /\ \A w \in Writers : call[w].step \in {"weigh", "insert"} =>
                call[w].item \in Fills
    BY LedgerAssumption DEF Typed, Sized, Event
  <1>1. /\ \A f \in fills' : decisions[f.order] # None /\ f.order \in Orders
        /\ \A e \in events' : e.reason = "fill" =>
                decisions[e.order] # None /\ e.order \in Orders
    <2>1. CASE KeepsBooks
      BY <1>0, <2>1 DEF KeepsBooks, Decided
    <2>2. ASSUME NEW w \in Writers, Books(w)
          PROVE  /\ fills' = fills \cup {call[w].item}
                 /\ events' = events \cup {FillEvent(call[w].item)}
                 /\ FillEvent(call[w].item).order = call[w].item.order
                 /\ call[w].item \in Fills /\ decisions[call[w].item.order] # None
      BY <1>0, <2>2 DEF Books, Decided, FillEvent
    <2> QED BY <1>0, <2>1, <2>2, Bookings DEF Decided
  <1>2. ASSUME NEW w \in Writers, call'[w].step \in {"weigh", "insert"}
        PROVE  decisions'[call'[w].item.order] # None
    <2>1. call'[w].item.order \in Orders
      BY <1>0, <1>2 DEF Typed
    <2>2. decisions[call'[w].item.order] # None
      BY <1>2, CallsMove DEF Decided
    <2> QED BY <2>1, <2>2, DecisionsStay
  <1> QED BY <1>1, <1>2, DecisionsStay DEF Decided

LEMMA LatestInv ==
    ASSUME Typed, NEW o \in Orders, HasLatest(o), [Next]_vars
    PROVE  HasLatest(o)'
  <1>0. events \subseteq Event
    BY DEF Typed
  <1>1. CASE events' = events
    BY <1>1 DEF HasLatest, Log
  <1>2. ASSUME NEW e \in Event, events' = events \cup {e}
        PROVE  HasLatest(o)'
    <2>1. CASE e.order # o
      <3>1. Log(o)' = Log(o)
        BY <1>2, <2>1 DEF Log
      <3> QED BY <3>1 DEF HasLatest
    <2>2. CASE e.order = o /\ Log(o) = {}
      <3>1. Log(o)' = {e} /\ e.at \in Nat
        BY <1>2, <2>2 DEF Log, Event
      <3> QED BY <3>1 DEF HasLatest
    <2>3. CASE e.order = o /\ Log(o) # {}
      <3>1. PICK top \in Log(o) : \A other \in Log(o) : other.at <= top.at
        BY <2>3 DEF HasLatest
      <3>2. Log(o)' = Log(o) \cup {e} /\ \A d \in Log(o) \cup {e} : d.at \in Nat
        BY <1>0, <1>2, <2>3 DEF Log, Event
      <3>3. \/ \A other \in Log(o)' : other.at <= top.at
            \/ \A other \in Log(o)' : other.at <= e.at
        BY <3>1, <3>2
      <3> QED BY <3>1, <3>2, <3>3 DEF HasLatest
    <2> QED BY <2>1, <2>2, <2>3
  <1>3. events' = events \/ \E e \in Event : events' = events \cup {e}
    <2>1. ASSUME NEW w \in Writers, Books(w)
          PROVE  FillEvent(call[w].item) \in Event
      BY <2>1, LedgerAssumption DEF Books, Typed, FillEvent, Event, Types, StateAfter
    <2> QED BY <2>1, Bookings, LedgerAssumption DEF KeepsBooks, Books
  <1> QED BY <1>1, <1>2, <1>3

\* No event is later than the one that follows them all, nor is any fill.
LEMMA FillsAreEarlier ==
    ASSUME Typed, FillsAreLogged, fills \subseteq Fills, NEW e \in Event,
           HasLatest(e.order), Follows(e), NEW f \in FillsOf(e.order)
    PROVE  f.at <= e.at
  <1>1. PICK d \in events : d.order = e.order /\ d.at = f.at
    BY DEF FillsAreLogged, FillsOf
  <1>2. events \subseteq Event /\ d \in Log(e.order)
    BY <1>1 DEF Typed, Log
  <1>3. /\ LatestEvent(Log(e.order)).at \in Int
        /\ d.at <= LatestEvent(Log(e.order)).at
    BY <1>2, LatestIsLast
  <1>4. e.at > LatestEvent(Log(e.order)).at /\ e.at \in Nat /\ d.at \in Nat
    BY <1>2 DEF Follows, Event
  <1> QED BY <1>1, <1>3, <1>4

LEMMA EarnedInv ==
    ASSUME FillInv, [Next]_vars
    PROVE  CompletionIsEarned'
  <1>0. /\ Typed /\ Sized /\ Decided /\ FillsAreLogged /\ CompletionIsEarned
        /\ \A o \in Orders : HasLatest(o)
        /\ events \subseteq Event /\ fills \subseteq Fills
    BY DEF FillInv, IInv, Typed, Sized
  <1>1. Sized' /\ fills \subseteq fills'
    BY <1>0, SizedInv
  <1>2. ASSUME NEW e \in events, e.type = "FILLED", e.reason = "fill"
        PROVE  Notional({f \in FillsOf(e.order)' : f.at <= e.at}) >= TerminalNotional(e.order)'
    <2> DEFINE S == {f \in FillsOf(e.order) : f.at <= e.at}
               T == {f \in FillsOf(e.order)' : f.at <= e.at}
    <2>1. /\ T \subseteq fills' /\ S \subseteq T /\ T \subseteq Fills
          /\ fills' \in SUBSET Fills /\ IsFiniteSet(fills')
      BY <1>1 DEF FillsOf, Sized
    <2>2. IsFiniteSet(T) /\ IsFiniteSet(S)
      <3> HIDE DEF S, T
      <3> QED BY <2>1, FS_Subset
    <2>3. TerminalNotional(e.order)' = TerminalNotional(e.order)
      <3>1. decisions'[e.order] = decisions[e.order]
        BY <1>0, <1>2, DecisionsStay DEF Decided, Event
      <3> QED BY <3>1 DEF TerminalNotional, IsReduced
    <2>4. Notional(S) >= TerminalNotional(e.order)
      BY <1>0, <1>2 DEF CompletionIsEarned
    <2>5. Notional(S) <= Notional(T) /\ Notional(S) \in Nat /\ Notional(T) \in Nat
      <3> HIDE DEF S, T
      <3> QED BY <2>1, <2>2, NotionalGrows, NotionalType
    <2>6. TerminalNotional(e.order) \in Nat
      BY <1>0, <1>2, LedgerAssumption DEF TerminalNotional, IsReduced, Sized, Event
    <2> HIDE DEF S, T
    <2>7. Notional(T) >= TerminalNotional(e.order)'
      BY <2>3, <2>4, <2>5, <2>6
    <2> QED BY <2>7 DEF T
  <1>3. CASE KeepsBooks
    <2>1. \A e \in events' : e.reason = "fill" => e \in events
      BY <1>3, LedgerAssumption DEF KeepsBooks
    <2> QED BY <1>2, <2>1 DEF CompletionIsEarned
  <1>4. ASSUME NEW w \in Writers, Books(w)
        PROVE  CompletionIsEarned'
    <2>1. PICK f \in Fills, e \in Event :
            /\ fills' = fills \cup {f} /\ events' = events \cup {e}
            /\ e \in events \/ Follows(e)
            /\ e.order = f.order /\ e.at = f.at /\ e.type = StateAfter(f)
            /\ f.order \in Orders /\ UNCHANGED decisions
      <3>1. call[w].item \in Fills
        BY <1>0, <1>4 DEF Books, Typed
      <3>2. FillEvent(call[w].item) \in Event
        BY <3>1, LedgerAssumption DEF FillEvent, Event, Types, StateAfter
      <3> QED BY <1>4, <3>1, <3>2, LedgerAssumption DEF Books, FillEvent
    <2> DEFINE o == f.order
    <2>2. CASE e \in events
      <3>1. events' = events
        BY <2>1, <2>2
      <3> QED BY <1>2, <3>1 DEF CompletionIsEarned
    <2>3. CASE Follows(e) /\ e.type = "FILLED"
      <3>1. \A g \in FillsOf(o) : g.at <= f.at
        BY <1>0, <2>1, <2>3, FillsAreEarlier
      <3>2. {g \in FillsOf(o)' : g.at <= e.at} = FillsOf(o) \cup {f}
        <4>1. f.at <= e.at
          BY <2>1 DEF Event
        <4>2. FillsOf(o)' = FillsOf(o) \cup {f}
          BY <2>1 DEF FillsOf
        <4> QED BY <2>1, <3>1, <4>1, <4>2
      <3>3. TerminalNotional(o)' = TerminalNotional(o)
        BY <2>1 DEF TerminalNotional, IsReduced
      <3>4. Notional(FillsOf(o) \cup {f}) >= TerminalNotional(o)
        BY <2>1, <2>3 DEF StateAfter
      <3>5. Notional({g \in FillsOf(e.order)' : g.at <= e.at})
                >= TerminalNotional(e.order)'
        BY <2>1, <3>2, <3>3, <3>4
      <3> QED BY <1>2, <2>1, <3>5 DEF CompletionIsEarned
    <2>4. CASE e.type # "FILLED"
      BY <1>2, <2>1, <2>4 DEF CompletionIsEarned
    <2> QED BY <2>1, <2>2, <2>3, <2>4
  <1> QED BY <1>0, <1>3, <1>4, Bookings

LEMMA CapsInv ==
    ASSUME FillInv, Typed', Sized', [Next]_vars
    PROVE  SoleCaps'
  <1>0. /\ Typed /\ Typed' /\ Sized /\ Sized' /\ Decided /\ fills \subseteq Fills
        /\ \A f \in Fills : f.order \in Orders /\ f.quantity \in Nat
    BY LedgerAssumption DEF FillInv, IInv, Sized
  <1> SUFFICES ASSUME NEW o \in Orders, SoleWriter(o)
               PROVE  CapIsKept(o)' /\ Weighed(o)'
    BY DEF SoleCaps, SoleWriter
  <1>1. CapIsKept(o) /\ Weighed(o)
    BY DEF FillInv, SoleCaps
  <1>2. FillsOf(o) \in SUBSET Fills /\ IsFiniteSet(FillsOf(o))
    BY <1>0, FS_Subset DEF Sized, FillsOf
  <1>3. CASE FillsOf(o)' = FillsOf(o) /\ decisions'[o] = decisions[o]
    <2>1. CapIsKept(o)'
      BY <1>1, <1>3 DEF CapIsKept, IsReduced
    <2>2. ASSUME NEW f, f.order = o, FitsCap(f)
          PROVE  FitsCap(f)'
      BY <1>3, <2>2 DEF FitsCap, IsReduced
    <2>3. ASSUME NEW w \in Writers, call'[w].step = "insert",
                 call'[w].item.order = o
          PROVE  FitsCap(call'[w].item)
      BY <1>0, <1>1, <2>3, CallsMove DEF Weighed
    <2> QED BY <2>1, <2>2, <2>3 DEF Weighed
  <1>4. CASE FillsOf(o)' = FillsOf(o) /\ decisions'[o] # decisions[o]
    <2>1. decisions[o] = None
      BY <1>0, <1>4, DecisionsStay
    <2>2. UNCHANGED call
      <3>1. \/ UNCHANGED decisions
            \/ \E u \in Orders, d \in Decisions : RecordRiskDecision(u, d)
        BY DEF Next, vars, tables, RegisterIntent, RecordTca, RecordOrderEvent,
               RecordFill, AppendEvent, WeighFill, InsertFill, Abandon
      <3> QED BY <1>4, <3>1 DEF RecordRiskDecision
    <2>3. \A w \in Writers : ~(call[w].step = "insert" /\ call[w].item.order = o)
      BY <1>0, <2>1 DEF Decided
    <2>4. FillsOf(o) = {}
      BY <1>0, <2>1 DEF Decided, FillsOf
    <2>5. Notional({}) = 0
      <3>1. [f \in {} |-> f.quantity] \in [{} -> Nat]
        OBVIOUS
      <3> QED BY <3>1, TotalOfNone DEF Notional
    <2>6. IsReduced(o)' => decisions'[o].cap \in Nat
      <3>1. decisions'[o] \in Decisions \cup {None}
        BY <1>0 DEF Sized
      <3>2. \A d \in Decisions : d.cap \in Nat \cup {None}
        BY LedgerAssumption
      <3> QED BY <3>1, <3>2 DEF IsReduced
    <2>7. CapIsKept(o)'
      BY <1>4, <2>4, <2>5, <2>6 DEF CapIsKept
    <2> QED BY <2>2, <2>3, <2>7 DEF Weighed
  <1>5. CASE FillsOf(o)' # FillsOf(o)
    <2>1. PICK w \in Writers : Books(w)
      BY <1>0, <1>5, Bookings DEF KeepsBooks, FillsOf
    <2>2. PICK f \in Fills :
            /\ f = call[w].item /\ call[w].step = "insert" /\ f \notin fills
            /\ w \in WritersOf[f.order]
            /\ fills' = fills \cup {f} /\ UNCHANGED decisions /\ Return(w)
      BY <1>0, <2>1 DEF Books, Typed
    <2>3. f.order = o /\ f \notin FillsOf(o) /\ FillsOf(o)' = FillsOf(o) \cup {f}
      BY <1>5, <2>2 DEF FillsOf
    <2>4. FitsCap(f)
      BY <1>1, <2>2, <2>3 DEF Weighed
    <2>5. Notional(FillsOf(o) \cup {f}) = Notional(FillsOf(o)) + f.quantity
      BY <1>2, <2>3, NotionalAdds
    <2>6. CapIsKept(o)'
      BY <2>2, <2>3, <2>4, <2>5 DEF CapIsKept, FitsCap, IsReduced
    <2>7. \A u \in Writers \ {w} : u \notin WritersOf[o]
      BY <2>2, <2>3 DEF SoleWriter
    <2>8. call'[w].step = "idle"
      BY <1>0, <2>2 DEF Return, NoCall, Typed
    <2>9. Weighed(o)'
      BY <1>0, <2>7, <2>8 DEF Weighed, Typed
    <2> QED BY <2>6, <2>9
  <1> QED BY <1>3, <1>4, <1>5
-----------------------------------------------------------------------------
LEMMA InitFills == Init => FillInv
  <1> SUFFICES ASSUME Init PROVE FillInv
    OBVIOUS
  <1>1. IInv
    BY InitInv
  <1>2. NoCall.step = "idle" /\ \A w \in Writers : call[w] = NoCall
    BY DEF Init, NoCall
  <1>3. Sized
    BY FS_EmptySet DEF Init, Sized
  <1>4. Decided /\ CompletionIsEarned /\ \A o \in Orders : HasLatest(o)
    BY <1>2 DEF Init, Decided, CompletionIsEarned, HasLatest, Log
  <1>5. SoleCaps
    BY <1>2 DEF Init, SoleCaps, CapIsKept, IsReduced, Weighed
  <1> QED BY <1>1, <1>3, <1>4, <1>5 DEF FillInv

LEMMA NextFills == FillInv /\ [Next]_vars => FillInv'
  <1> SUFFICES ASSUME FillInv, [Next]_vars PROVE FillInv'
    OBVIOUS
  <1>0. IInv /\ Typed /\ Sized /\ Decided
    BY DEF FillInv, IInv
  <1>1. IInv' /\ Typed'
    BY <1>0, NextInv DEF IInv
  <1>2. Sized'
    BY <1>0, SizedInv
  <1>3. Decided'
    BY <1>0, <1>1, DecidedInv
  <1>4. SoleCaps'
    BY <1>1, <1>2, CapsInv
  <1>5. CompletionIsEarned'
    BY EarnedInv
  <1>6. \A o \in Orders : HasLatest(o)'
    BY <1>0, LatestInv DEF FillInv
  <1> QED BY <1>1, <1>2, <1>3, <1>4, <1>5, <1>6 DEF FillInv

\* Fills are finitely many, decided for, and under the cap where one process
\* records for the order.
THEOREM FillInvariant == Spec => []FillInv
  BY InitFills, NextFills, PTL DEF Spec

\* The tables and the calls keep their types.
THEOREM ShadowTypes == Spec => []TypeOK
  <1>1. FillInv => TypeOK
    BY DEF FillInv, IInv, Typed, Sized, TypeOK
  <1> QED BY <1>1, FillInvariant, PTL

\* record_fill writes FILLED only when the fills up to then reach what was
\* approved, however many processes fill the order and in whatever order.
THEOREM CompletionEarned == Spec => []CompletionIsEarned
  BY FillInvariant, PTL DEF FillInv

\* The reads of record_fill and record_order_event ahead of their transaction
\* are enough for an order one process records for: its fills stay within the
\* reduced notional and its log is a path of the state graph.
THEOREM SoleWriterSafe == Spec => []SoleWriterIsSafe
  <1>1. FillInv => SoleWriterIsSafe
    BY DEF FillInv, IInv, Kept, SoleCaps, SoleWriterIsSafe
  <1> QED BY <1>1, FillInvariant, PTL
=============================================================================
