----------------------------- MODULE MarketData -----------------------------
(* The market-data path from the exchange to the instances: FeedConnection   *)
(* keeps a connection alive, TickPath carries what arrives on it.  They meet *)
(* in the receive loop, which writes a tick only while it reads a live       *)
(* subscribed connection.                                                    *)
EXTENDS FeedConnection, TickPath

vars == <<connection, ticks>>

Init == ConnectionInit /\ TickInit

\* The exchange sends a tick: _on_message, _process_ticker, the ring's callback.
Receive ==
    /\ \E n \in Sockets : Live(n)
    /\ Write
    /\ UNCHANGED connection

Next ==
    \/ ConnectionNext /\ UNCHANGED ticks
    \/ Receive
    \/ Route /\ UNCHANGED connection

Spec == Init /\ [][Next]_vars

LiveSpec ==
    /\ Spec /\ ConnectionFairness /\ TickFairness
    /\ WF_vars(Receive)
-----------------------------------------------------------------------------
\* The type invariant of the path.
TypeOK == ConnectionTypeOK /\ TickTypeOK

\* The path keeps the promise of LossyFeed: no overflow of ring or queue, no
\* reader torn down and set up again, makes an instance hear ticks twice, out
\* of order or from before its time, or miss the newest for ever.
Feed == INSTANCE LossyFeed WITH
    Listeners <- Instances, published <- writes, listening <- Members,
    heard <- handled
ImplementsFeed == Feed!FeedSpec

\* Faults on the connection cost ticks, never the feed: the exchange's last
\* tick is given to every running instance.
LastTickGetsThrough ==
    <>[](\A i \in Instances :
            stage[i] = "running" => writes = MaxWrites /\ handled[i] = writes)
=============================================================================
