---------------------------- MODULE OrderOutcome ----------------------------
(* What the order ledger promises to everything that reads it: an order is   *)
(* placed, may start working at the exchange, and is decided at most once.   *)
(* The executed quantity only grows until then, and an order is filled only  *)
(* by working and only for exactly the quantity that was requested.          *)
EXTENDS Integers

CONSTANTS Orders, Requested, MaxFill

VARIABLES
    outcome,                \* order -> none, unsent, working or a final outcome
    executed                \* order -> executed quantity the ledger knows

ovars == <<outcome, executed>>

Final == {"FILLED", "CANCELED", "REJECTED", "EXPIRED"}

OInit ==
    /\ outcome = [o \in Orders |-> "none"]
    /\ executed = [o \in Orders |-> 0]

Place(o) ==
    /\ outcome[o] = "none"
    /\ outcome' = [outcome EXCEPT ![o] = "unsent"]
    /\ UNCHANGED executed

\* The ledger learns an executed quantity no smaller than the one it knew.
Learn(o) ==
    \E q \in 0..MaxFill :
        q >= executed[o] /\ executed' = [executed EXCEPT ![o] = q]

\* Submission, and everything observed while the order works.
Work(o) ==
    /\ outcome[o] \in {"unsent", "working"}
    /\ outcome' = [outcome EXCEPT ![o] = "working"]
    /\ Learn(o)

Decide(o, final) ==
    /\ \/ outcome[o] = "working"
       \/ outcome[o] = "unsent" /\ final \in {"CANCELED", "REJECTED"}
    /\ outcome' = [outcome EXCEPT ![o] = final]
    /\ Learn(o)
    /\ final = "FILLED" => executed'[o] = Requested

ONext ==
    \E o \in Orders :
        Place(o) \/ Work(o) \/ \E final \in Final : Decide(o, final)

OSpec == OInit /\ [][ONext]_ovars
=============================================================================
