--------------------------- MODULE MarketDataProofs ---------------------------
(* Proofs about MarketData for every set of connections, tasks and instances, *)
(* all sizes of ring and queues and all bounds.                               *)
EXTENDS MarketData, TLAPS

Pcs == {"off", "asleep", "called", "closing", "opening", "subscribing"}
States == {"open", "silent", "broken", "closed"}

\* While the feed counts as running some heartbeat is there, or the health
\* check has not come to start one yet.
SomeoneWatches ==
    running => \/ \E b \in Heartbeats : workers[b] # "off"
               \/ workers[Health] = "opening"

ConnectionInv == ConnectionTypeOK /\ SomeoneWatches

\* Ticks waiting in a queue: ascending, behind low and up to high.
Waiting(queue, low, high) ==
    /\ queue \in Seq(Int)
    /\ \A k \in 1..Len(queue) : low < queue[k] /\ queue[k] <= high
    /\ \A j, k \in 1..Len(queue) : j < k => queue[j] < queue[k]

\* A listener has handled no more than was read; what was read and it has not
\* handled or lost waits in order.
QueuesFit ==
    /\ queues \in [Instances -> Seq(Int)]
    /\ Members # {} => reader # NoReader
    /\ \A i \in Members : /\ handled[i] <= reader
                          /\ Waiting(queues[i], handled[i], reader)
    /\ \A i \in Instances \ Members : queues[i] = <<>>

Counts ==
    /\ writes \in 0..MaxWrites /\ reader \in NoReader..writes
    /\ stage \in [Instances -> {"new", "created", "running", "removed"}]
    /\ handled \in [Instances -> 0..writes]
    /\ \A i \in Instances : Len(queues[i]) <= QueueSize

TickInv == Counts /\ QueuesFit

IInv == ConnectionInv /\ TickInv
-----------------------------------------------------------------------------
LEMMA AnyIsIn ==
    ASSUME NEW S, S # {}
    PROVE  Any(S) \in S
  BY DEF Any

LEMMA GotoTypes ==
    ASSUME workers \in [Workers -> Pcs], NEW w \in Workers, NEW pc \in Pcs,
           Goto(w, pc) \/ (Return(w) /\ pc = IF w \in Heartbeats /\ running'
                                             THEN "asleep" ELSE "off")
    PROVE  /\ workers' \in [Workers -> Pcs] /\ workers'[w] = pc
           /\ \A v \in Workers \ {w} : workers'[v] = workers[v]
  BY DEF Goto, Return

\* A task that moves on or returns to a running feed leaves it watched, unless
\* it is the health check.
LEMMA StaysWatched ==
    ASSUME workers \in [Workers -> Pcs], SomeoneWatches, NEW w \in Workers \ {Health},
           running' => running,
           Return(w) \/ \E pc \in Pcs \ {"off"} : Goto(w, pc)
    PROVE  SomeoneWatches'
  <1> SUFFICES ASSUME running'
               PROVE  \/ \E b \in Heartbeats : workers'[b] # "off"
                      \/ workers'[Health] = "opening"
    BY DEF SomeoneWatches
  <1>1. /\ workers'[Health] = workers[Health]
        /\ \A v \in Workers \ {w} : workers'[v] = workers[v]
    BY DEF Goto, Return, Workers
  <1>2. w \in Heartbeats => workers'[w] # "off"
    BY DEF Goto, Return
  <1> QED BY <1>1, <1>2 DEF SomeoneWatches, Workers

LEMMA BeginInv ==
    ASSUME ConnectionInv, NEW w \in Workers, BeginReconnect(w),
           w = Health => workers[w] = "called"
    PROVE  ConnectionInv'
  <1> USE ConnectionAssumption
  <1>0. /\ ConnectionTypeOK /\ workers \in [Workers -> Pcs]
        /\ sockets \in [Sockets -> States]
    BY DEF ConnectionInv, ConnectionTypeOK, Pcs, States
  <1>1. workers' \in [Workers -> Pcs]
    BY <1>0 DEF BeginReconnect, Goto, Return, Pcs
  <1>2. sockets' \in [Sockets -> States]
    BY <1>0 DEF BeginReconnect, States
  <1>3. attempts' \in 0..(MaxAttempts + 1)
    BY <1>0 DEF BeginReconnect, Abandons, ConnectionTypeOK
  <1>4. loops' \subseteq Sockets /\ subscribed' \subseteq loops'
    BY <1>0 DEF BeginReconnect, CancelsLoop, ConnectionTypeOK
  <1>5. running' \in BOOLEAN /\ (running' => running)
    <2>1. running' = FALSE \/ running' = running
      BY Zenon DEF BeginReconnect
    <2>2. running \in BOOLEAN
      BY <1>0 DEF ConnectionTypeOK
    <2>3. CASE running' = FALSE
      BY <2>3
    <2>4. CASE running' = running
      BY <2>2, <2>4, Zenon
    <2> QED BY <2>1, <2>3, <2>4
  <1>6. {ws', recv'} \subseteq Sockets \cup {None} /\ faults' \in 0..MaxFaults
    BY <1>0 DEF BeginReconnect, ConnectionTypeOK
  <1>7. SomeoneWatches'
    <2>1. Return(w) \/ \E pc \in Pcs \ {"off"} : Goto(w, pc)
      BY DEF BeginReconnect, Pcs
    <2>2. CASE w # Health
      BY <1>0, <1>5, <2>1, <2>2, StaysWatched DEF ConnectionInv
    <2>3. CASE w = Health
      <3>1. \A v \in Heartbeats : workers'[v] = workers[v]
        BY <1>0, <2>1, <2>3 DEF Goto, Return, Workers
      <3> QED BY <1>5, <2>3, <3>1 DEF ConnectionInv, SomeoneWatches
    <2> QED BY <2>2, <2>3
  <1> QED
    BY <1>1, <1>2, <1>3, <1>4, <1>5, <1>6, <1>7
    DEF ConnectionInv, ConnectionTypeOK, Pcs, States

LEMMA FaultInv ==
    ASSUME ConnectionInv, NEW n \in Sockets, Fail(n) \/ LoopEnds(n)
    PROVE  ConnectionInv'
  <1> USE ConnectionAssumption
  <1>0. /\ ConnectionTypeOK /\ workers \in [Workers -> Pcs]
        /\ sockets \in [Sockets -> States]
    BY DEF ConnectionInv, ConnectionTypeOK, Pcs, States
  <1>1. CASE Fail(n)
    <2>1. sockets' \in [Sockets -> States]
      BY <1>0, <1>1 DEF Fail, States
    <2>2. faults' \in 0..MaxFaults
      BY <1>0, <1>1 DEF Fail, ConnectionTypeOK
    <2>3. SomeoneWatches'
      BY <1>1 DEF Fail, ConnectionInv, SomeoneWatches
    <2> QED
      BY <1>0, <1>1, <2>1, <2>2, <2>3 DEF Fail, ConnectionInv, ConnectionTypeOK, States
  <1>2. CASE LoopEnds(n)
    <2>1. workers' \in [Workers -> Pcs] /\ SomeoneWatches'
      <3>1. CASE workers' = workers
        BY <1>0, <1>2, <3>1 DEF LoopEnds, ConnectionInv, SomeoneWatches
      <3>2. CASE Idle(Reconnects) # {} /\ Goto(Any(Idle(Reconnects)), "called")
        <4> DEFINE w == Any(Idle(Reconnects))
        <4>1. w \in Reconnects
          BY <3>2, AnyIsIn DEF Idle
        <4> HIDE DEF w
        <4>2. w \in Workers \ {Health} /\ Goto(w, "called")
          BY <3>2, <4>1 DEF w, Workers
        <4>3. running' = running /\ "called" \in Pcs \ {"off"}
          BY <1>2 DEF LoopEnds, Pcs
        <4>4. workers' \in [Workers -> Pcs]
          BY <1>0, <4>2, <4>3, GotoTypes
        <4>5. SomeoneWatches'
          BY <1>0, <4>2, <4>3, StaysWatched DEF ConnectionInv
        <4> QED BY <4>4, <4>5
      <3> QED BY <1>2, <3>1, <3>2 DEF LoopEnds
    <2>2. loops' \subseteq Sockets /\ subscribed' \subseteq loops'
      BY <1>0, <1>2 DEF LoopEnds, ConnectionTypeOK
    <2> QED
      BY <1>0, <1>2, <2>1, <2>2 DEF LoopEnds, ConnectionInv, ConnectionTypeOK, Pcs
  <1> QED BY <1>1, <1>2

LEMMA StopInv ==
    ASSUME ConnectionInv, NEW b \in Heartbeats, BeatStops(b)
    PROVE  ConnectionInv'
  <1>1. workers' \in [Workers -> Pcs]
    BY DEF BeatStops, Goto, Pcs, ConnectionInv, ConnectionTypeOK
  <1>2. SomeoneWatches'
    BY DEF BeatStops, SomeoneWatches
  <1> QED BY <1>1, <1>2 DEF BeatStops, Pcs, ConnectionInv, ConnectionTypeOK

LEMMA CloseInv ==
    ASSUME ConnectionInv, NEW w \in Workers, EndClose(w)
    PROVE  ConnectionInv'
  <1> USE ConnectionAssumption
  <1>1. workers \in [Workers -> Pcs] /\ Goto(w, "opening") /\ running' = running
    BY DEF EndClose, Pcs, ConnectionInv, ConnectionTypeOK
  <1>2. /\ workers' \in [Workers -> Pcs] /\ workers'[w] = "opening"
        /\ \A v \in Workers \ {w} : workers'[v] = workers[v]
    BY <1>1, GotoTypes DEF Pcs
  <1>3. SomeoneWatches'
    BY <1>1, <1>2 DEF SomeoneWatches, ConnectionInv, Workers
  <1>4. loops' \subseteq Sockets /\ subscribed' \subseteq loops'
    BY DEF EndClose, CancelsLoop, ConnectionInv, ConnectionTypeOK
  <1> QED
    BY <1>2, <1>3, <1>4 DEF EndClose, Pcs, ConnectionInv, ConnectionTypeOK

LEMMA OpenInv ==
    ASSUME ConnectionInv, NEW w \in Workers, Open(w)
    PROVE  ConnectionInv'
  <1> USE ConnectionAssumption
  <1> DEFINE n == Any(Unused)
             b == Any(Idle(Heartbeats))
  <1>0. /\ ConnectionTypeOK /\ workers \in [Workers -> Pcs]
        /\ sockets \in [Sockets -> States]
    BY DEF ConnectionInv, ConnectionTypeOK, Pcs, States
  <1>1. n \in Sockets
    BY AnyIsIn DEF Open, Unused
  <1>2. /\ ws' = n /\ recv' = n /\ loops' = loops \cup {n}
        /\ sockets' = [sockets EXCEPT ![n] = "open"]
        /\ UNCHANGED <<running, subscribed, attempts, faults>>
    BY DEF Open
  <1>3. workers' \in [Workers -> Pcs] /\ SomeoneWatches'
    <2>1. CASE w = Health /\ running
      <3>1. b \in Heartbeats
        BY <2>1, AnyIsIn DEF Open, Idle
      <3>2. workers' = [workers EXCEPT ![w] = "subscribing", ![b] = "asleep"]
        BY <2>1, Zenon DEF Open
      <3> HIDE DEF b
      <3>3. workers' \in [Workers -> Pcs] /\ workers'[b] = "asleep"
        BY <1>0, <3>1, <3>2 DEF Pcs, Workers
      <3> QED BY <3>1, <3>3 DEF SomeoneWatches
    <2>2. CASE ~(w = Health /\ running)
      <3>1. Goto(w, "subscribing")
        BY <2>2, Zenon DEF Open
      <3>2. /\ workers' \in [Workers -> Pcs] /\ workers'[w] = "subscribing"
            /\ \A v \in Workers \ {w} : workers'[v] = workers[v]
        BY <1>0, <3>1, GotoTypes DEF Pcs
      <3>3. SomeoneWatches'
        BY <1>2, <2>2, <3>2 DEF SomeoneWatches, ConnectionInv, Workers
      <3> QED BY <3>2, <3>3
    <2> QED BY <2>1, <2>2
  <1> HIDE DEF n
  <1>4. sockets' \in [Sockets -> States]
    BY <1>0, <1>1, <1>2 DEF States
  <1> QED
    BY <1>0, <1>1, <1>2, <1>3, <1>4 DEF ConnectionInv, ConnectionTypeOK, Pcs, States

LEMMA FailInv ==
    ASSUME ConnectionInv, NEW w \in Workers, OpenFails(w)
    PROVE  ConnectionInv'
  <1> USE ConnectionAssumption
  <1>0. ConnectionTypeOK /\ workers \in [Workers -> Pcs] /\ Return(w)
    BY DEF OpenFails, ConnectionInv, ConnectionTypeOK, Pcs
  <1>1. running' \in BOOLEAN /\ (running' => running /\ w # Health)
    BY DEF OpenFails
  <1>2. workers' \in [Workers -> Pcs]
    BY <1>0 DEF Return, Pcs
  <1>3. SomeoneWatches'
    <2>1. CASE w = Health
      BY <1>1, <2>1 DEF SomeoneWatches
    <2>2. CASE w # Health
      BY <1>0, <1>1, <2>2, StaysWatched DEF ConnectionInv
    <2> QED BY <2>1, <2>2
  <1>4. faults' \in 0..MaxFaults
    BY <1>0 DEF OpenFails, ConnectionTypeOK
  <1> QED
    BY <1>0, <1>1, <1>2, <1>3, <1>4 DEF OpenFails, ConnectionInv, ConnectionTypeOK, Pcs

LEMMA SubscribeInv ==
    ASSUME ConnectionInv, NEW w \in Workers, Subscribe(w)
    PROVE  ConnectionInv'
  <1> USE ConnectionAssumption
  <1>0. ConnectionTypeOK /\ workers \in [Workers -> Pcs] /\ Return(w) /\ running' = running
    BY DEF Subscribe, ConnectionInv, ConnectionTypeOK, Pcs
  <1>1. workers' \in [Workers -> Pcs]
    BY <1>0 DEF Return, Pcs
  <1>2. SomeoneWatches'
    <2>1. CASE w = Health
      <3>1. workers[Health] = "subscribing"
        BY <2>1 DEF Subscribe
      <3>2. \A v \in Heartbeats : workers'[v] = workers[v]
        BY <1>0, <2>1 DEF Return, Workers
      <3> QED BY <1>0, <3>1, <3>2 DEF SomeoneWatches, ConnectionInv
    <2>2. CASE w # Health
      BY <1>0, <2>2, StaysWatched DEF ConnectionInv
    <2> QED BY <2>1, <2>2
  <1>3. subscribed' \subseteq loops' /\ attempts' \in 0..(MaxAttempts + 1)
    BY <1>0 DEF Subscribe, ConnectionTypeOK
  <1> QED
    BY <1>0, <1>1, <1>2, <1>3 DEF Subscribe, ConnectionInv, ConnectionTypeOK, Pcs

LEMMA HealthInv ==
    ASSUME ConnectionInv, CheckHealth
    PROVE  ConnectionInv'
  <1>1. workers' \in [Workers -> Pcs] /\ workers'[Health] = "opening" /\ running' = TRUE
    BY DEF CheckHealth, Goto, Pcs, Workers, ConnectionInv, ConnectionTypeOK
  <1>2. SomeoneWatches'
    BY <1>1 DEF SomeoneWatches
  <1> QED BY <1>1, <1>2 DEF CheckHealth, Pcs, ConnectionInv, ConnectionTypeOK

LEMMA ConnectionStep ==
    ASSUME ConnectionInv, ConnectionNext
    PROVE  ConnectionInv'
  <1>1. ASSUME NEW b \in Heartbeats, Beat(b) PROVE ConnectionInv'
    BY <1>1, BeginInv, ConnectionAssumption DEF Beat, Workers
  <1>2. ASSUME NEW w \in Workers, Work(w) PROVE ConnectionInv'
    BY <1>2, BeginInv, CloseInv, OpenInv, SubscribeInv DEF Work, Respond
  <1> QED
    BY <1>1, <1>2, FaultInv, StopInv, FailInv, HealthInv DEF ConnectionNext
-----------------------------------------------------------------------------
(* The queues: what dispatching and consuming does to the ticks that wait.    *)

LEMMA DropKeeps ==
    ASSUME NEW low \in Int, NEW mid \in Int, NEW high \in Int, low <= mid, mid <= high,
           NEW queue, Waiting(queue, low, mid), NEW new, Waiting(new, mid, high),
           NEW kept, kept = DropOldest(queue, new)
    PROVE  Waiting(kept, low, high) /\ Len(kept) <= QueueSize
  <1> USE TickAssumption
  <1> DEFINE all == queue \o new
             first == IF Len(all) > QueueSize THEN Len(all) - QueueSize + 1 ELSE 1
  <1>1. queue \in Seq(Int) /\ new \in Seq(Int)
    BY DEF Waiting
  <1>2. /\ all \in Seq(Int) /\ Len(all) = Len(queue) + Len(new)
        /\ Len(queue) \in Nat /\ Len(new) \in Nat
    BY <1>1
  <1>3. ASSUME NEW k \in 1..Len(queue) PROVE all[k] = queue[k]
    BY <1>1
  <1>4. ASSUME NEW k \in (Len(queue) + 1)..Len(all)
        PROVE  all[k] = new[k - Len(queue)] /\ k - Len(queue) \in 1..Len(new)
    BY <1>1, <1>2
  <1> HIDE DEF all
  <1>a. ASSUME NEW k \in 1..Len(all), k > Len(queue)
        PROVE  all[k] = new[k - Len(queue)] /\ k - Len(queue) \in 1..Len(new)
    <2>1. k \in (Len(queue) + 1)..Len(all)
      BY <1>2, <1>a
    <2> QED BY <1>4, <2>1
  <1>b. ASSUME NEW k \in 1..Len(queue)
        PROVE  queue[k] \in Int /\ low < queue[k] /\ queue[k] <= mid
    BY DEF Waiting
  <1>5. \A k \in 1..Len(all) : low < all[k] /\ all[k] <= high
    <2> SUFFICES ASSUME NEW k \in 1..Len(all) PROVE low < all[k] /\ all[k] <= high
      OBVIOUS
    <2>0. all[k] \in Int
      BY <1>2
    <2>1. CASE k <= Len(queue)
      <3>1. all[k] = queue[k] /\ low < queue[k] /\ queue[k] <= mid
        BY <1>2, <1>3, <2>1 DEF Waiting
      <3> QED BY <2>0, <3>1
    <2>2. CASE k > Len(queue)
      <3>1. k - Len(queue) \in 1..Len(new) /\ all[k] = new[k - Len(queue)]
        BY <1>a, <2>2
      <3>2. mid < all[k] /\ all[k] <= high
        BY <3>1 DEF Waiting
      <3> QED BY <2>0, <3>2
    <2> QED BY <1>2, <2>1, <2>2
  <1>6. ASSUME NEW j \in 1..Len(all), NEW k \in 1..Len(all), j < k
        PROVE  all[j] < all[k]
    <2>0. all[j] \in Int /\ all[k] \in Int
      BY <1>2
    <2>1. CASE k <= Len(queue)
      <3>1. j \in 1..Len(queue) /\ k \in 1..Len(queue)
        BY <1>2, <1>6, <2>1
      <3>2. all[j] = queue[j] /\ all[k] = queue[k]
        BY <1>3, <3>1
      <3> QED BY <1>6, <3>1, <3>2 DEF Waiting
    <2>2. CASE j <= Len(queue) /\ k > Len(queue)
      <3>1. all[j] = queue[j] /\ queue[j] <= mid
        <4>1. j \in 1..Len(queue)
          BY <1>2, <2>2
        <4> QED BY <1>3, <1>b, <4>1
      <3>2. k - Len(queue) \in 1..Len(new) /\ all[k] = new[k - Len(queue)]
        BY <1>a, <2>2
      <3>3. mid < all[k]
        BY <3>2 DEF Waiting
      <3> QED BY <2>0, <3>1, <3>3
    <2>3. CASE j > Len(queue)
      <3>1. /\ k - Len(queue) \in 1..Len(new) /\ all[k] = new[k - Len(queue)]
            /\ j - Len(queue) \in 1..Len(new) /\ all[j] = new[j - Len(queue)]
        <4>1. k > Len(queue)
          BY <1>2, <1>6, <2>3
        <4> QED BY <1>a, <2>3, <4>1
      <3>2. j - Len(queue) < k - Len(queue)
        BY <1>2, <1>6
      <3> QED BY <3>1, <3>2 DEF Waiting
    <2> QED BY <1>2, <1>6, <2>1, <2>2, <2>3
  <1>7. first \in 1..(Len(all) + 1) /\ Len(all) - first + 1 <= QueueSize
    BY <1>2
  <1>8. kept = SubSeq(all, first, Len(all))
    BY DEF DropOldest, all
  <1> HIDE DEF first
  <1>9. kept \in Seq(Int) /\ Len(kept) = Len(all) - first + 1
    <2>1. first \in Nat /\ first <= Len(all) + 1
      BY <1>2, <1>7
    <2>2. SubSeq(all, first, Len(all)) \in Seq(Int)
      BY <1>2, <1>7
    <2>3. Len(SubSeq(all, first, Len(all))) = Len(all) - first + 1
      BY <1>2, <2>1
    <2> QED BY <1>8, <2>2, <2>3
  <1>10. ASSUME NEW k \in 1..Len(kept)
         PROVE  first + k - 1 \in 1..Len(all) /\ kept[k] = all[first + k - 1]
    BY <1>2, <1>7, <1>8, <1>9
  <1>11. \A k \in 1..Len(kept) : low < kept[k] /\ kept[k] <= high
    BY <1>5, <1>10
  <1>12. ASSUME NEW j \in 1..Len(kept), NEW k \in 1..Len(kept), j < k
         PROVE  kept[j] < kept[k]
    <2>1. first + j - 1 < first + k - 1
      BY <1>7, <1>12
    <2> QED BY <1>6, <1>10, <2>1
  <1> QED BY <1>7, <1>9, <1>11, <1>12 DEF Waiting

LEMMA UnreadWaits ==
    ASSUME writes \in Nat, reader \in Int, reader <= writes
    PROVE  Waiting(Unread, reader, writes)
  <1> USE TickAssumption
  <1> DEFINE skipped == IF writes - reader > RingSize THEN writes - RingSize ELSE reader
             n == writes - skipped
  <1>1. skipped \in Int /\ reader <= skipped /\ skipped <= writes /\ n \in Nat
    OBVIOUS
  <1>2. Unread = [k \in 1..n |-> skipped + k]
    BY DEF Unread
  <1>3. n = writes - skipped
    OBVIOUS
  <1> HIDE DEF skipped, n
  <1>4. Unread \in Seq(Int) /\ Len(Unread) = n
    BY <1>1, <1>2
  <1>5. \A k \in 1..n : Unread[k] = skipped + k
    BY <1>2
  <1> QED BY <1>1, <1>3, <1>4, <1>5 DEF Waiting

LEMMA TailWaits ==
    ASSUME NEW low \in Int, NEW high \in Int, NEW queue, Waiting(queue, low, high),
           queue # <<>>
    PROVE  /\ low < Head(queue) /\ Head(queue) <= high /\ Head(queue) \in Int
           /\ Waiting(Tail(queue), Head(queue), high) /\ Len(Tail(queue)) <= Len(queue)
  <1>1. queue \in Seq(Int) /\ Len(queue) \in Nat \ {0} /\ Head(queue) = queue[1]
    BY DEF Waiting
  <1>2. /\ Tail(queue) \in Seq(Int) /\ Len(Tail(queue)) = Len(queue) - 1
        /\ queue[1] \in Int
    BY <1>1
  <1>3. ASSUME NEW k \in 1..Len(Tail(queue))
        PROVE  Tail(queue)[k] = queue[k + 1] /\ k + 1 \in 1..Len(queue)
    BY <1>1, <1>2
  <1>4. 1 \in 1..Len(queue)
    BY <1>1
  <1>5. \A k \in 1..Len(Tail(queue)) : Head(queue) < Tail(queue)[k]
                                     /\ Tail(queue)[k] <= high
    <2> SUFFICES ASSUME NEW k \in 1..Len(Tail(queue))
                 PROVE  queue[1] < queue[k + 1] /\ queue[k + 1] <= high
      BY <1>1, <1>3
    <2>1. k + 1 \in 1..Len(queue) /\ 1 < k + 1
      BY <1>3
    <2> QED BY <1>4, <2>1 DEF Waiting
  <1>6. ASSUME NEW j \in 1..Len(Tail(queue)), NEW k \in 1..Len(Tail(queue)), j < k
        PROVE  Tail(queue)[j] < Tail(queue)[k]
    <2>1. j + 1 < k + 1
      BY <1>6
    <2> QED BY <1>3, <2>1 DEF Waiting
  <1>7. low < queue[1] /\ queue[1] <= high
    BY <1>4 DEF Waiting
  <1> QED BY <1>1, <1>2, <1>5, <1>6, <1>7 DEF Waiting

LEMMA QueueTypes ==
    ASSUME NEW queue, NEW low \in Nat, NEW high \in Int, NEW top \in Nat, high <= top,
           Waiting(queue, low, high)
    PROVE  queue \in Seq(1..top)
  <1>1. queue \in Seq(Int) /\ \A k \in 1..Len(queue) : queue[k] \in 1..top
    BY DEF Waiting
  <1>2. Len(queue) \in Nat /\ queue = [k \in 1..Len(queue) |-> queue[k]]
    BY <1>1
  <1> QED BY <1>1, <1>2

LEMMA TickTypes == TickInv => TickTypeOK
  <1> SUFFICES ASSUME TickInv, NEW i \in Instances PROVE queues[i] \in Seq(1..writes)
    BY DEF TickInv, Counts, TickTypeOK
  <1>1. CASE i \in Members
    <2>1. /\ Waiting(queues[i], handled[i], reader) /\ handled[i] \in Nat
          /\ reader \in Int /\ writes \in Nat /\ reader <= writes
      BY <1>1 DEF TickInv, Counts, QueuesFit, NoReader
    <2> QED BY <2>1, QueueTypes
  <1>2. CASE i \notin Members
    BY <1>2 DEF TickInv, QueuesFit
  <1> QED BY <1>1, <1>2

LEMMA WriteInv ==
    ASSUME TickInv, Write
    PROVE  TickInv'
  <1>1. Counts'
    BY TickAssumption DEF TickInv, Counts, Write, NoReader
  <1>2. QueuesFit'
    BY DEF TickInv, QueuesFit, Write, Members
  <1> QED BY <1>1, <1>2 DEF TickInv

LEMMA DispatchInv ==
    ASSUME TickInv, Dispatch
    PROVE  TickInv'
  <1> USE TickAssumption
  <1>1. /\ writes \in Nat /\ reader \in Int /\ reader <= writes /\ writes' = writes
        /\ reader' = writes /\ stage' = stage /\ handled' = handled /\ Members' = Members
    BY DEF TickInv, Counts, NoReader, Dispatch, Members
  <1>2. Waiting(Unread, reader, writes)
    BY <1>1, UnreadWaits
  <1>3. queues' = [i \in Instances |->
            IF i \in Members THEN DropOldest(queues[i], Unread) ELSE queues[i]]
    BY DEF Dispatch
  <1>4. ASSUME NEW i \in Members
        PROVE  /\ Waiting(queues'[i], handled[i], writes)
               /\ Len(queues'[i]) <= QueueSize /\ handled[i] <= writes
    <2>1. i \in Instances
      BY DEF Members
    <2>2. queues'[i] = DropOldest(queues[i], Unread)
      BY <1>3, <2>1
    <2>3. handled[i] \in Int /\ handled[i] <= reader
      BY <2>1 DEF TickInv, Counts, QueuesFit
    <2>4. Waiting(queues[i], handled[i], reader)
      BY DEF TickInv, QueuesFit
    <2> QED BY <1>1, <1>2, <2>2, <2>3, <2>4, DropKeeps
  <1>5. ASSUME NEW i \in Instances \ Members PROVE queues'[i] = <<>>
    BY <1>3 DEF TickInv, QueuesFit
  <1>6. queues' \in [Instances -> Seq(Int)]
    <2>1. ASSUME NEW i \in Instances PROVE queues'[i] \in Seq(Int)
      <3>1. CASE i \in Members
        BY <1>4, <3>1 DEF Waiting
      <3>2. CASE i \notin Members
        <4>1. queues'[i] = <<>>
          BY <1>5, <3>2
        <4>2. <<>> \in Seq(Int)
          OBVIOUS
        <4> QED BY <4>1, <4>2
      <3> QED BY <3>1, <3>2
    <2>2. queues' = [i \in Instances |-> queues'[i]]
      BY <1>3, Zenon
    <2> QED BY <2>1, <2>2
  <1>7. \A i \in Instances : Len(queues'[i]) <= QueueSize
    BY <1>4, <1>5
  <1>8. Counts'
    BY <1>1, <1>7 DEF TickInv, Counts, NoReader
  <1>9. QueuesFit'
    BY <1>1, <1>4, <1>5, <1>6 DEF QueuesFit, NoReader
  <1> QED BY <1>8, <1>9 DEF TickInv

\* A running instance is handed the oldest tick, which is newer than its last.
LEMMA ConsumeInv ==
    ASSUME TickInv, NEW i \in Instances, Consume(i)
    PROVE  /\ TickInv' /\ Members' = Members /\ i \in Members
           /\ handled[i] < Head(queues[i]) /\ Head(queues[i]) <= writes
           /\ Head(queues[i]) \in Int
  <1> USE TickAssumption
  <1> DEFINE first == Head(queues[i])
             rest == Tail(queues[i])
  <1>1. i \in Members /\ Members' = Members
    BY DEF Consume, Members
  <1>2. /\ handled[i] \in Nat /\ reader \in Int /\ reader <= writes /\ writes \in Nat
        /\ queues[i] # <<>> /\ Waiting(queues[i], handled[i], reader)
        /\ handled[i] <= reader
    BY <1>1 DEF TickInv, Counts, QueuesFit, NoReader, Consume
  <1>3. /\ handled[i] < first /\ first <= reader /\ first \in Int
        /\ Waiting(rest, first, reader) /\ Len(rest) <= Len(queues[i])
    BY <1>2, TailWaits
  <1>4. /\ handled' = [handled EXCEPT ![i] = first]
        /\ queues' = [queues EXCEPT ![i] = rest]
        /\ UNCHANGED <<writes, reader, stage>>
    BY DEF Consume
  <1>5. rest \in Seq(Int) /\ Len(rest) \in Nat /\ Len(queues[i]) \in Nat
    BY <1>2, <1>3 DEF Waiting
  <1>6. Len(rest) <= QueueSize
    BY <1>3, <1>5 DEF TickInv, Counts
  <1> HIDE DEF first, rest
  <1>7. Counts'
    <2>1. handled' \in [Instances -> 0..writes]
      <3>1. first \in 0..writes
        BY <1>2, <1>3
      <3> QED BY <1>4, <3>1 DEF TickInv, Counts
    <2>2. \A j \in Instances : Len(queues'[j]) <= QueueSize
      BY <1>4, <1>6 DEF TickInv, Counts, QueuesFit
    <2> QED BY <1>4, <2>1, <2>2 DEF TickInv, Counts
  <1>8. QueuesFit'
    <2>1. queues' \in [Instances -> Seq(Int)]
      BY <1>4, <1>5 DEF TickInv, QueuesFit
    <2>2. \A j \in Members : /\ handled'[j] <= reader
                            /\ Waiting(queues'[j], handled'[j], reader)
      <3> SUFFICES ASSUME NEW j \in Members
                   PROVE  handled'[j] <= reader /\ Waiting(queues'[j], handled'[j], reader)
        OBVIOUS
      <3>1. CASE j = i
        <4>1. handled'[i] = first /\ queues'[i] = rest
          BY <1>4 DEF TickInv, Counts, QueuesFit
        <4> QED BY <1>3, <3>1, <4>1
      <3>2. CASE j # i
        <4>1. handled'[j] = handled[j] /\ queues'[j] = queues[j]
          BY <1>4, <3>2 DEF Members, TickInv, Counts, QueuesFit
        <4> QED BY <4>1 DEF TickInv, QueuesFit
      <3> QED BY <3>1, <3>2
    <2>3. \A j \in Instances \ Members : queues'[j] = <<>>
      BY <1>1, <1>4 DEF TickInv, QueuesFit
    <2> QED BY <1>1, <1>4, <2>1, <2>2, <2>3 DEF TickInv, QueuesFit
  <1> QED BY <1>1, <1>2, <1>3, <1>7, <1>8 DEF TickInv, first

\* A new listener joins where the reader is, or at the newest tick if it brings
\* the reader back.
LEMMA CreateInv ==
    ASSUME TickInv, NEW i \in Instances, Create(i)
    PROVE  /\ TickInv' /\ i \notin Members /\ Members' = Members \cup {i}
           /\ reader' \in 0..writes /\ \A j \in Members : handled[j] <= reader'
  <1> USE TickAssumption
  <1>1. i \notin Members /\ Members' = Members \cup {i}
    BY DEF Create, Members, TickInv, Counts
  <1>2. /\ reader' = ReaderOnSubscribe /\ handled' = [handled EXCEPT ![i] = reader']
        /\ writes' = writes /\ queues' = queues
        /\ stage' = [stage EXCEPT ![i] = "created"]
    BY DEF Create
  <1>3. reader' \in 0..writes /\ (Members # {} => reader' = reader)
    BY <1>2 DEF ReaderOnSubscribe, TickInv, Counts, QueuesFit, NoReader
  <1>4. queues[i] = <<>> /\ Waiting(<<>>, reader', reader')
    BY <1>1 DEF TickInv, QueuesFit, Waiting
  <1>5. Counts'
    BY <1>2, <1>3 DEF TickInv, Counts, NoReader
  <1>6. handled'[i] = reader' /\ \A j \in Members : handled'[j] = handled[j]
    BY <1>1, <1>2 DEF Members, TickInv, Counts
  <1>7. QueuesFit'
    <2>1. \A j \in Members : handled[j] <= reader' /\ Waiting(queues[j], handled[j], reader')
      BY <1>3 DEF TickInv, QueuesFit
    <2>2. reader' # NoReader /\ reader' <= reader'
      BY <1>3 DEF NoReader
    <2> QED BY <1>1, <1>2, <1>4, <1>6, <2>1, <2>2 DEF TickInv, QueuesFit
  <1>8. \A j \in Members : handled[j] <= reader'
    BY <1>3 DEF TickInv, QueuesFit
  <1> QED BY <1>1, <1>3, <1>5, <1>7, <1>8 DEF TickInv

LEMMA StartInv ==
    ASSUME TickInv, NEW i \in Instances, Start(i)
    PROVE  TickInv' /\ Members' = Members
  <1>1. Members' = Members
    BY DEF Start, Members, TickInv, Counts
  <1>2. Counts'
    BY DEF Start, TickInv, Counts
  <1> QED BY <1>1, <1>2 DEF Start, TickInv, QueuesFit

LEMMA RemoveInv ==
    ASSUME TickInv, NEW i \in Instances, Remove(i)
    PROVE  TickInv' /\ i \in Members /\ Members' = Members \ {i}
  <1> USE TickAssumption
  <1>1. i \in Members /\ Members' = Members \ {i}
    BY DEF Remove, Members, TickInv, Counts
  <1>2. /\ reader' = IF Members = {i} THEN NoReader ELSE reader
        /\ queues' = [queues EXCEPT ![i] = <<>>]
        /\ writes' = writes /\ handled' = handled
        /\ stage' = [stage EXCEPT ![i] = "removed"]
    BY DEF Remove
  <1>3. Counts'
    BY <1>2 DEF TickInv, Counts, NoReader, QueuesFit
  <1>4. QueuesFit'
    <2>1. Members' # {} => reader' = reader /\ reader # NoReader
      BY <1>1, <1>2 DEF TickInv, QueuesFit
    <2>2. queues' \in [Instances -> Seq(Int)]
      BY <1>2 DEF TickInv, QueuesFit
    <2>3. /\ queues'[i] = <<>>
          /\ \A j \in Instances \ {i} : queues'[j] = queues[j]
      BY <1>2 DEF TickInv, QueuesFit
    <2>4. ASSUME NEW j \in Members'
          PROVE  handled'[j] <= reader' /\ Waiting(queues'[j], handled'[j], reader')
      <3>1. j \in Members /\ queues'[j] = queues[j] /\ reader' = reader
        BY <1>1, <2>1, <2>3 DEF Members
      <3> QED BY <1>2, <3>1 DEF TickInv, QueuesFit
    <2>5. \A j \in Instances \ Members' : queues'[j] = <<>>
      BY <1>1, <2>3 DEF TickInv, QueuesFit
    <2> QED BY <2>1, <2>2, <2>4, <2>5 DEF QueuesFit
  <1> QED BY <1>1, <1>3, <1>4 DEF TickInv
-----------------------------------------------------------------------------
LEMMA InitInv == Init => IInv
  <1> USE ConnectionAssumption, TickAssumption
  <1> SUFFICES ASSUME Init PROVE IInv
    OBVIOUS
  <1>1. Any(Sockets) \in Sockets /\ Any(Heartbeats) \in Heartbeats
    BY AnyIsIn
  <1>2. ConnectionTypeOK
    BY <1>1 DEF Init, ConnectionInit, ConnectionTypeOK
  <1>3. SomeoneWatches
    BY <1>1 DEF Init, ConnectionInit, SomeoneWatches, Workers
  <1>4. Counts
    BY DEF Init, TickInit, Counts, NoReader
  <1>5. \A i \in Instances : queues[i] = <<>> /\ handled[i] = 0
    BY DEF Init, TickInit
  <1>6. Waiting(<<>>, 0, 0)
    BY DEF Waiting
  <1>7. QueuesFit
    BY <1>5, <1>6 DEF Init, TickInit, QueuesFit, Members, NoReader
  <1> QED BY <1>2, <1>3, <1>4, <1>7 DEF IInv, ConnectionInv, TickInv

LEMMA NextInv == IInv /\ [Next]_vars => IInv'
  <1> SUFFICES ASSUME IInv, [Next]_vars PROVE IInv'
    OBVIOUS
  <1>1. CASE UNCHANGED connection /\ UNCHANGED ticks
    BY <1>1 DEF IInv, ConnectionInv, ConnectionTypeOK, SomeoneWatches, TickInv, Counts,
                QueuesFit, Members, connection, ticks
  <1>2. UNCHANGED connection => ConnectionInv'
    BY DEF IInv, ConnectionInv, ConnectionTypeOK, SomeoneWatches, connection
  <1>3. UNCHANGED ticks => TickInv'
    BY DEF IInv, TickInv, Counts, QueuesFit, Members, ticks
  <1>4. CASE ConnectionNext /\ UNCHANGED ticks
    BY <1>3, <1>4, ConnectionStep DEF IInv
  <1>5. CASE Receive
    BY <1>2, <1>5, WriteInv DEF IInv, Receive
  <1>6. CASE Route /\ UNCHANGED connection
    BY <1>2, <1>6, DispatchInv, ConsumeInv, CreateInv, StartInv, RemoveInv
    DEF IInv, Route
  <1> QED BY <1>1, <1>4, <1>5, <1>6 DEF Next, vars

\* Reconnections keep the websocket's fields and tasks in step, and reader,
\* ring and queues fit, whatever overlaps.
THEOREM MarketDataInvariant == Spec => []IInv
  BY InitInv, NextInv, PTL DEF Spec

\* Types of connections, tasks, ring and queues; no queue outgrows its bound.
THEOREM TypeCorrect == Spec => []TypeOK
  <1>1. IInv => TypeOK
    BY TickTypes DEF IInv, ConnectionInv, TypeOK
  <1> QED BY <1>1, MarketDataInvariant, PTL

\* However reconnections of ws_client overlap and fail, a feed that counts as
\* running has a heartbeat, or the health check that starts one.
THEOREM FeedWatched == Spec => []Watched
  <1>1. IInv => Watched
    BY DEF IInv, ConnectionInv, SomeoneWatches, Watched
  <1> QED BY <1>1, MarketDataInvariant, PTL
-----------------------------------------------------------------------------
LEMMA InitRefines == Init => Feed!FeedInit
  BY DEF Init, TickInit, Feed!FeedInit, Members

LEMMA NextRefines == IInv /\ [Next]_vars => [Feed!FeedNext]_(Feed!feed)
  <1> SUFFICES ASSUME IInv, [Next]_vars PROVE [Feed!FeedNext]_(Feed!feed)
    OBVIOUS
  <1> USE DEF Feed!FeedNext, Feed!feed
  <1>1. CASE UNCHANGED ticks
    BY <1>1 DEF ticks, Members
  <1>2. CASE Receive
    <2>1. Feed!Publish
      BY <1>2 DEF Receive, Write, Feed!Publish, Members
    <2> QED BY <2>1
  <1>3. CASE Dispatch
    BY <1>3 DEF Dispatch, Members
  <1>4. ASSUME NEW i \in Instances, Consume(i) PROVE Feed!Hear(i)
    <2>1. /\ Members' = Members /\ i \in Members /\ handled[i] < Head(queues[i])
          /\ Head(queues[i]) <= writes /\ Head(queues[i]) \in Int
      BY <1>4, ConsumeInv DEF IInv
    <2>2. handled[i] \in Int /\ writes \in Int
      BY DEF IInv, TickInv, Counts
    <2>3. Head(queues[i]) \in (handled[i] + 1)..writes
      BY <2>1, <2>2
    <2> QED BY <1>4, <2>1, <2>3 DEF Consume, Feed!Hear
  <1>5. ASSUME NEW i \in Instances, Create(i) PROVE Feed!Join(i)
    <2>1. /\ i \notin Members /\ Members' = Members \cup {i}
          /\ reader' \in 0..writes /\ \A j \in Members : handled[j] <= reader'
      BY <1>5, CreateInv DEF IInv
    <2>2. /\ handled' = [handled EXCEPT ![i] = reader'] /\ writes' = writes
          /\ (Members = {} => reader' = writes)
      BY <1>5 DEF Create, ReaderOnSubscribe
    <2> QED BY <2>1, <2>2 DEF Feed!Join
  <1>6. ASSUME NEW i \in Instances, Start(i) PROVE UNCHANGED Feed!feed
    <2>1. Members' = Members
      BY <1>6, StartInv DEF IInv
    <2> QED BY <1>6, <2>1 DEF Start
  <1>7. ASSUME NEW i \in Instances, Remove(i) PROVE Feed!Leave(i)
    <2>1. i \in Members /\ Members' = Members \ {i}
      BY <1>7, RemoveInv DEF IInv
    <2> QED BY <1>7, <2>1 DEF Remove, Feed!Leave
  <1>8. CASE Route
    BY <1>3, <1>4, <1>5, <1>6, <1>7, <1>8 DEF Route
  <1> QED BY <1>1, <1>2, <1>8 DEF Next, vars

\* Ring, reader and queues keep the safety half of LossyFeed: an instance hears
\* ticks in the order they were written, none twice and none that was over
\* when it joined.
THEOREM FeedRefinement == Spec => Feed!FeedSafety
  BY InitRefines, NextRefines, MarketDataInvariant, PTL DEF Spec, Feed!FeedSafety
=============================================================================
