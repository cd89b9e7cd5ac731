------------------------------ MODULE HaltLatch ------------------------------
(* What the kill switches promise, without the threads and the tables: a     *)
(* signal of a halted handler never takes off, only an operator's review     *)
(* clears a halt, and the death of the process forgets no durable one.       *)
CONSTANTS
    Handlers,
    Signals,
    HandlerOf               \* the handler each signal belongs to

VARIABLES
    halted,                 \* handlers whose signals are refused
    durable,                \* the halt of all handlers, kept across restarts
    flying,                 \* signals that may still reach the exchange
    reviewing               \* an operator's review is in progress

vars == <<halted, durable, flying, reviewing>>

Init == halted = {} /\ durable = FALSE /\ flying = {} /\ reviewing = FALSE

\* Only its own handler lets a signal take off, halted alone or with the rest.
TakeOff(s) ==
    /\ HandlerOf[s] \notin halted /\ s \notin flying
    /\ flying' = flying \cup {s}
    /\ UNCHANGED <<halted, durable, reviewing>>

Land(s) ==
    /\ s \in flying /\ flying' = flying \ {s}
    /\ UNCHANGED <<halted, durable, reviewing>>

\* Any number of handlers at once; a durable halt is one of all handlers.  A
\* signal may end by halting.
Halt ==
    /\ halted' \in SUBSET Handlers /\ halted \subseteq halted'
    /\ durable' \in BOOLEAN /\ durable => durable'
    /\ durable' => halted' = Handlers
    /\ flying' \in SUBSET flying
    /\ UNCHANGED reviewing

Review ==
    /\ reviewing' = TRUE
    /\ halted' \in SUBSET halted /\ durable' \in BOOLEAN
    /\ durable' => durable /\ halted' = Handlers
    /\ UNCHANGED flying

\* A review ends, whether or not it reached every handler.
EndReview ==
    /\ reviewing /\ reviewing' = FALSE
    /\ halted' \in SUBSET halted /\ durable' \in BOOLEAN
    /\ durable' => durable /\ halted' = Handlers
    /\ UNCHANGED flying

Crash ==
    /\ flying' = {} /\ reviewing' = FALSE
    /\ halted' = IF durable THEN Handlers ELSE {}
    /\ UNCHANGED durable

Next ==
    \/ \E s \in Signals : TakeOff(s) \/ Land(s)
    \/ Halt \/ Review \/ EndReview \/ Crash

Spec == Init /\ [][Next]_vars
=============================================================================
