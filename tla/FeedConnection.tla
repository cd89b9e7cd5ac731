---------------------------- MODULE FeedConnection ----------------------------
(* The public websocket: receive loops, heartbeat, reconnections and the     *)
(* main loop's health check, tasks of one event loop that share _ws and      *)
(* _recv_task and interleave wherever they await.  Connections are lost,     *)
(* closed or fall silent.  All subscriptions are of one pair.                *)
EXTENDS Integers, FiniteSets

CONSTANTS
    Sockets,                \* connections, reused once nothing refers to them
    Heartbeats,             \* heartbeat tasks; each connect() starts one
    Reconnects,             \* reconnections spawned by a receive loop
    MaxAttempts,            \* _max_reconnect_attempts
    MaxFaults               \* bound on lost, closed and silent connections
                            \* and on failed openings

None == "none"
Health == "health"          \* _check_global_health of the main loop
Workers == Heartbeats \cup Reconnects \cup {Health}

ASSUME ConnectionAssumption ==
    /\ Sockets # {} /\ None \notin Sockets
    /\ Heartbeats # {} /\ Health \notin Heartbeats \cup Reconnects
    /\ MaxAttempts \in Nat /\ MaxFaults \in Nat

VARIABLES
    running,                \* _running
    ws,                     \* _ws
    recv,                   \* the connection _recv_task reads
    sockets,                \* what has become of each connection
    loops,                  \* connections read by a receive loop
    subscribed,             \* those of them on which the pair was subscribed
    workers,                \* where each task is in _reconnect or connect
    attempts,               \* _reconnect_attempts
    faults

connection == <<running, ws, recv, sockets, loops, subscribed, workers, attempts,
                faults>>

\* The members of a set of idle names are interchangeable: any will do.
Any(S) == CHOOSE x \in S : TRUE

\* connect() has returned, at the start or after the breaker had opened, which
\* leaves the attempts counted so far.
ConnectionInit ==
    LET n == Any(Sockets)
        b == Any(Heartbeats)
    IN /\ running = TRUE /\ ws = n /\ recv = n
       /\ sockets = [m \in Sockets |-> IF m = n THEN "open" ELSE "closed"]
       /\ subscribed = {n} /\ loops = {n}
       /\ workers = [w \in Workers |-> IF w = b THEN "asleep" ELSE "off"]
       /\ attempts \in {0, MaxAttempts + 1} /\ faults = 0
-----------------------------------------------------------------------------
\* Mutant: a connection given up but never closed still counts.
LooksConnected == ws # None /\ sockets[ws] \in {"open", "silent"}

\* is_connected, on what the library knows: a silent peer still looks open.
IsConnected == running /\ ws # None /\ sockets[ws] \in {"open", "silent"}

Live(n) == n \in subscribed /\ sockets[n] = "open"

\* No message for _stale_threshold: nothing that is read still talks.  Opening
\* counts as a message, and subscribing takes less time than that.
IsStale == /\ \A n \in Sockets : ~Live(n)
           /\ \A w \in Workers : workers[w] # "subscribing"

\* Mutant: the failure of a reconnection reaches the heartbeat, which ends.
DiesOnReturn(w) == workers' = [workers EXCEPT ![w] = "off"]

\* The task is done reconnecting; a heartbeat then looks at _running first.
Return(w) == workers' = [workers EXCEPT
    ![w] = IF w \in Heartbeats /\ running' THEN "asleep" ELSE "off"]
Idle(W) == {w \in W : workers[w] = "off"}
Goto(w, pc) == workers' = [workers EXCEPT ![w] = pc]

\* What the network does: an error, a regular close, silence.
Fail(n) ==
    /\ n \in loops \cup {ws} /\ sockets[n] \in {"open", "silent"}
    /\ \E state \in {"broken", "closed", "silent"} \ {sockets[n]} :
        sockets' = [sockets EXCEPT ![n] = state]
    /\ faults < MaxFaults /\ faults' = faults + 1
    /\ UNCHANGED <<running, ws, recv, subscribed, loops, workers, attempts>>

\* A loop whose connection broke spawns a reconnection, one whose connection
\* was closed, or that hears a message when _running is off, ends without a word.
LoopEnds(n) ==
    /\ n \in loops /\ loops' = loops \ {n} /\ subscribed' = subscribed \ {n}
    /\ \/ /\ sockets[n] = "broken" /\ running
          /\ Idle(Reconnects) # {} /\ Goto(Any(Idle(Reconnects)), "called")
       \/ /\ sockets[n] \in {"broken", "closed"} \/ Live(n)
          /\ sockets[n] = "closed" \/ ~running
          /\ UNCHANGED workers
    /\ UNCHANGED <<running, ws, recv, sockets, attempts, faults>>
-----------------------------------------------------------------------------
\* Beyond the limit the breaker opens; a success resets it, connect() does not.
Abandons == attempts + 1 > MaxAttempts

CancelsLoop == loops' = loops \ {recv} /\ subscribed' = subscribed \ {recv}

\* _reconnect up to its first await: the close of what _ws is now, or the
\* backoff if it is nothing.
BeginReconnect(w) ==
    /\ attempts' = IF Abandons THEN MaxAttempts + 1 ELSE attempts + 1
    /\ \/ /\ Abandons
          /\ running' = FALSE /\ Return(w)
          /\ UNCHANGED <<sockets, loops, subscribed>>
       \/ /\ ~Abandons /\ ws # None
          /\ sockets' = [sockets EXCEPT ![ws] = "closed"]
          /\ Goto(w, "closing") /\ UNCHANGED <<running, loops, subscribed>>
       \/ /\ ~Abandons /\ ws = None
          /\ CancelsLoop
          /\ Goto(w, "opening") /\ UNCHANGED <<running, sockets>>
    /\ UNCHANGED <<ws, recv, faults>>

\* The heartbeat wakes on a running feed that is stale or disconnected.
Beat(b) ==
    /\ workers[b] = "asleep" /\ running
    /\ IsStale \/ ~IsConnected
    /\ BeginReconnect(b)

\* It wakes when _running is off, and ends.
BeatStops(b) ==
    /\ workers[b] = "asleep" /\ ~running
    /\ Goto(b, "off")
    /\ UNCHANGED <<running, ws, recv, sockets, subscribed, loops, attempts, faults>>

\* The reconnection a receive loop spawned gets to run.
Respond(w) == workers[w] = "called" /\ BeginReconnect(w)

\* The close returns: _ws is dropped, whatever it is by now, and with it the
\* receive loop; then the task sleeps out its backoff and opens a connection.
EndClose(w) ==
    /\ workers[w] = "closing"
    /\ ws' = None /\ CancelsLoop
    /\ Goto(w, "opening")
    /\ UNCHANGED <<running, recv, sockets, attempts, faults>>

\* Nothing refers to these connections: their names can stand for new ones.
Unused == Sockets \ (loops \cup {ws})

\* The open connection replaces _ws and gets a receive loop; connect() starts
\* a heartbeat too, which ends at once if _running was taken back meanwhile.
Open(w) ==
    LET n == Any(Unused)
        b == Any(Idle(Heartbeats))
    IN /\ workers[w] = "opening" /\ Unused # {}
       /\ ws' = n /\ recv' = n /\ loops' = loops \cup {n}
       /\ sockets' = [sockets EXCEPT ![n] = "open"]
       /\ IF w = Health /\ running
          THEN /\ Idle(Heartbeats) # {}
               /\ workers' = [workers EXCEPT ![w] = "subscribing", ![b] = "asleep"]
          ELSE Goto(w, "subscribing")
       /\ UNCHANGED <<running, subscribed, attempts, faults>>

\* A failed connect() takes _running back.
OpenFails(w) ==
    /\ workers[w] = "opening" /\ faults < MaxFaults /\ faults' = faults + 1
    /\ running' = (running /\ w # Health)
    /\ Return(w)
    /\ UNCHANGED <<ws, recv, sockets, subscribed, loops, attempts>>

\* _send_subscribe speaks to whatever _ws is by now.
Subscribe(w) ==
    /\ workers[w] = "subscribing"
    /\ subscribed' = subscribed \cup ({ws} \cap loops)
    /\ attempts' = IF w = Health THEN attempts ELSE 0
    /\ UNCHANGED running /\ Return(w)
    /\ UNCHANGED <<ws, recv, sockets, loops, faults>>

\* The main loop's health check: connect() does nothing while _running stands.
CheckHealth ==
    /\ workers[Health] = "off" /\ ~IsConnected /\ ~running
    /\ running' = TRUE /\ Goto(Health, "opening")
    /\ UNCHANGED <<ws, recv, sockets, subscribed, loops, attempts, faults>>

Work(w) == Respond(w) \/ EndClose(w) \/ Open(w) \/ Subscribe(w)

ConnectionNext ==
    \/ \E n \in Sockets : Fail(n) \/ LoopEnds(n)
    \/ \E b \in Heartbeats : Beat(b) \/ BeatStops(b)
    \/ \E w \in Workers : Work(w) \/ OpenFails(w)
    \/ CheckHealth

\* The event loop runs every task that is ready.
ConnectionFairness ==
    /\ WF_connection(CheckHealth)
    /\ \A n \in Sockets : WF_connection(LoopEnds(n))
    /\ \A b \in Heartbeats : WF_connection(Beat(b) \/ BeatStops(b))
    /\ \A w \in Workers : WF_connection(Work(w))
-----------------------------------------------------------------------------
\* The types; the count of attempts stops where the breaker opens.
ConnectionTypeOK ==
    /\ running \in BOOLEAN
    /\ {ws, recv} \subseteq Sockets \cup {None}
    /\ sockets \in [Sockets -> {"open", "silent", "broken", "closed"}]
    /\ loops \subseteq Sockets /\ subscribed \subseteq loops
    /\ workers \in [Workers ->
            {"off", "asleep", "called", "closing", "opening", "subscribing"}]
    /\ attempts \in 0..(MaxAttempts + 1) /\ faults \in 0..MaxFaults

\* A feed that counts as running has someone to notice when it dies: a
\* heartbeat, or the health check that is about to start one.  connect() does
\* nothing while _running stands, so nobody else would.
Watched == running => \E w \in Heartbeats \cup {Health} : workers[w] # "off"

\* However reconnections overlap, once faults cease the ticks come in again
\* for good, and reconnecting stops.
FeedRecovers == <>[](/\ \E n \in Sockets : Live(n)
                     /\ \A w \in Workers : workers[w] \in {"off", "asleep"})
=============================================================================
