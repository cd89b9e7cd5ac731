------------------------------ MODULE TickPath ------------------------------
(* From the websocket to the instances: the ring buffer of a pair, its one   *)
(* reader and dispatch task, the bounded queue of each instance and the      *)
(* consumer task that hands ticks to it, all of one event loop.  Instances   *)
(* come and go; the reader goes with the last and comes back with the next.  *)
EXTENDS Integers, Sequences

CONSTANTS
    Instances,              \* instances on the pair, each created once at most
    RingSize, QueueSize,
    MaxWrites               \* bound on the ticks written

ASSUME TickAssumption ==
    /\ RingSize \in Nat \ {0} /\ QueueSize \in Nat \ {0}
    /\ MaxWrites \in Nat

VARIABLES
    writes,                 \* write_seq: ticks written, numbered from 1
    reader,                 \* read_seq of the pair's reader, or NoReader
    stage,                  \* new, created, running, removed
    queues,                 \* ticks waiting in each InstanceQueue
    handled                 \* the last one it was given, or where it joined

ticks == <<writes, reader, stage, queues, handled>>

NoReader == -1

\* The first instance is running when the feed has just been opened.
TickInit ==
    /\ writes = 0 /\ reader = 0
    /\ stage = [i \in Instances |->
                    IF i = CHOOSE j \in Instances : TRUE THEN "running" ELSE "new"]
    /\ queues = [i \in Instances |-> <<>>]
    /\ handled = [i \in Instances |-> 0]
-----------------------------------------------------------------------------
\* The instances in _pair_queues.
Members == {i \in Instances : stage[i] \in {"created", "running"}}

\* _write_ticker: the oldest slot is overwritten, whoever has not read it yet.
Write ==
    /\ writes < MaxWrites /\ writes' = writes + 1
    /\ UNCHANGED <<reader, stage, queues, handled>>

\* poll_batch skips what was overwritten.
Unread ==
    LET skipped == IF writes - reader > RingSize THEN writes - RingSize ELSE reader
    IN [k \in 1..(writes - skipped) |-> skipped + k]

\* Mutant: a full queue refuses the tick.
RefuseNewest(queue, new) == SubSeq(queue \o new, 1, QueueSize)

\* Mutant: one tick too many is kept.
KeepOneMore(queue, new) ==
    LET all == queue \o new
    IN SubSeq(all, IF Len(all) > QueueSize THEN Len(all) - QueueSize ELSE 1, Len(all))

\* put_nowait_drop_oldest for each tick in turn.
DropOldest(queue, new) ==
    LET all == queue \o new
    IN SubSeq(all, IF Len(all) > QueueSize THEN Len(all) - QueueSize + 1 ELSE 1, Len(all))

\* The dispatch task never awaits until the ring is read out.
Dispatch ==
    /\ Members # {} /\ reader < writes
    /\ queues' = [i \in Instances |->
            IF i \in Members THEN DropOldest(queues[i], Unread) ELSE queues[i]]
    /\ reader' = writes
    /\ UNCHANGED <<writes, stage, handled>>

\* The consumer hands the oldest queued tick to on_price_update.
Consume(i) ==
    /\ stage[i] = "running" /\ queues[i] # <<>>
    /\ handled' = [handled EXCEPT ![i] = Head(queues[i])]
    /\ queues' = [queues EXCEPT ![i] = Tail(@)]
    /\ UNCHANGED <<writes, reader, stage>>

\* Mutant: a new reader starts with the history of the ring.
ReadsHistory == IF Members = {} THEN 0 ELSE reader

\* The reader of a pair nobody listened to starts at the ring's tail.
ReaderOnSubscribe == IF Members = {} THEN writes ELSE reader

\* create_instance: the queue exists, and fills, before the consumer starts.
Create(i) ==
    /\ stage[i] = "new" /\ stage' = [stage EXCEPT ![i] = "created"]
    /\ reader' = ReaderOnSubscribe
    /\ handled' = [handled EXCEPT ![i] = reader']
    /\ UNCHANGED <<writes, queues>>

Start(i) ==
    /\ stage[i] = "created" /\ stage' = [stage EXCEPT ![i] = "running"]
    /\ UNCHANGED <<writes, reader, queues, handled>>

\* remove_instance: unsubscribed, the consumer cancelled, the queue drained.
Remove(i) ==
    /\ i \in Members /\ stage' = [stage EXCEPT ![i] = "removed"]
    /\ reader' = IF Members = {i} THEN NoReader ELSE reader
    /\ queues' = [queues EXCEPT ![i] = <<>>]
    /\ UNCHANGED <<writes, handled>>

Route ==
    \/ Dispatch
    \/ \E i \in Instances : Consume(i) \/ Create(i) \/ Start(i) \/ Remove(i)

TickFairness ==
    /\ WF_ticks(Dispatch)
    /\ \A i \in Instances : WF_ticks(Consume(i)) /\ WF_ticks(Start(i))
-----------------------------------------------------------------------------
\* The types, and queues within their bound.
TickTypeOK ==
    /\ writes \in 0..MaxWrites
    /\ reader \in NoReader..writes
    /\ stage \in [Instances -> {"new", "created", "running", "removed"}]
    /\ \A i \in Instances : /\ queues[i] \in Seq(1..writes)
                           /\ Len(queues[i]) <= QueueSize
    /\ handled \in [Instances -> 0..writes]
=============================================================================
