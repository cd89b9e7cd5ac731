------------------------------ MODULE LossyFeed ------------------------------
(* What the market-data path promises an instance that listens: it hears     *)
(* ticks in the order they were written, and none that was over when it      *)
(* joined; it may miss any of them, but never the newest for ever.           *)
EXTENDS Integers

CONSTANT Listeners

VARIABLES
    published,              \* ticks written so far, numbered from 1
    listening,
    heard                   \* the last tick each listener heard, or where it joined

feed == <<published, listening, heard>>

FeedInit ==
    /\ published = 0
    /\ listening \subseteq Listeners
    /\ heard = [i \in Listeners |-> 0]

Publish == published' = published + 1 /\ UNCHANGED <<listening, heard>>

\* A listener may join behind the newest tick only if others are behind, too.
Join(i) ==
    /\ i \notin listening /\ listening' = listening \cup {i}
    /\ \E at \in 0..published :
        /\ \A j \in listening : heard[j] <= at
        /\ listening = {} => at = published
        /\ heard' = [heard EXCEPT ![i] = at]
    /\ UNCHANGED published

Leave(i) ==
    /\ i \in listening /\ listening' = listening \ {i}
    /\ UNCHANGED <<published, heard>>

Hear(i) ==
    /\ i \in listening
    /\ \E tick \in (heard[i] + 1)..published : heard' = [heard EXCEPT ![i] = tick]
    /\ UNCHANGED <<published, listening>>

FeedNext == Publish \/ \E i \in Listeners : Join(i) \/ Leave(i) \/ Hear(i)

FeedSafety == FeedInit /\ [][FeedNext]_feed

FeedSpec == FeedSafety /\ \A i \in Listeners : WF_feed(Hear(i))
=============================================================================
