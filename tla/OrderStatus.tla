---------------------------- MODULE OrderStatus ----------------------------
(* The order status graph of order_lifecycle.py and the acceptance rule of   *)
(* OrderRepository.transition_order_state, as operators on one order row.    *)
(* Quantities are whole lots: the 1e-9 relative tolerance of the code makes  *)
(* quantities equal or different, and a lot is what tells them apart.        *)
EXTENDS Integers

CONSTANT Requested          \* requested_qty of an order, in lots

ASSUME RequestedAssumption == Requested \in Nat \ {0}

Open == {"NEW", "SENT", "ACK", "PARTIAL", "UNKNOWN"}
Terminal == {"FILLED", "CANCELED", "REJECTED", "EXPIRED"}
Statuses == Open \cup Terminal

NoFill == -1                \* filled_qty=None: the caller reports no quantity

AllowedTransitions ==
    ({"NEW"} \X {"SENT", "CANCELED", "REJECTED"})
    \cup ({"SENT"} \X {"ACK", "CANCELED", "REJECTED", "EXPIRED", "UNKNOWN"})
    \cup ({"ACK"} \X {"PARTIAL", "FILLED", "CANCELED", "REJECTED", "EXPIRED",
                      "UNKNOWN"})
    \cup ({"PARTIAL"} \X {"PARTIAL", "FILLED", "CANCELED", "UNKNOWN"})
    \cup ({"UNKNOWN"} \X {"ACK", "PARTIAL", "FILLED", "CANCELED", "REJECTED",
                          "EXPIRED"})

\* Mutant: an acknowledgement may overtake the record of the submission.
AllowsUnsentAck(from, to) ==
    \/ <<from, to>> \in AllowedTransitions \cup {<<"NEW", "ACK">>}
    \/ from = to /\ from \in Terminal

\* Mutant: a late fill may still replace a recorded rejection.
AllowsLateFill(from, to) ==
    \/ <<from, to>> \in AllowedTransitions \cup {<<"REJECTED", "FILLED">>}
    \/ from = to /\ from \in Terminal

\* is_allowed_order_transition: only a terminal status may repeat itself,
\* and PARTIAL, which then carries a larger cumulative fill.
IsAllowed(from, to) ==
    \/ <<from, to>> \in AllowedTransitions
    \/ from = to /\ from \in Terminal

\* The quantity checks that come before the status graph is consulted.
FillFits(row, to, fill) ==
    /\ fill = NoFill => to # "FILLED"
    /\ fill # NoFill =>
        /\ fill >= row.filled
        /\ to = "PARTIAL" => 0 < fill /\ fill < Requested
        /\ to = "FILLED" => fill = Requested

\* Mutant: no write is recognised as a retry.
NeverRepeats(row, to, fill) == FALSE

\* A retry of what is already persisted: answered True, nothing written.
Repeats(row, to, fill) ==
    /\ row.status = to
    /\ to = "PARTIAL" => fill = row.filled

\* The reply of transition_order_state when the store does not fail.
Accepts(row, to, fill) ==
    /\ row.status \in Statuses
    /\ FillFits(row, to, fill)
    /\ Repeats(row, to, fill) \/ IsAllowed(row.status, to)

\* The call commits an UPDATE of the order and an INSERT into
\* order_state_transitions, in one transaction.
Commits(row, to, fill) ==
    Accepts(row, to, fill) /\ ~Repeats(row, to, fill)

\* Mutant: a write that names no quantity erases the recorded one.
UpdatedByNull(row, to, fill) == [row EXCEPT !.status = to, !.filled = fill]

\* Mutant: the cumulative quantity is stored as if it were an increment.
UpdatedBySum(row, to, fill) ==
    [row EXCEPT !.status = to,
                !.filled = IF fill = NoFill THEN @ ELSE @ + fill]

Updated(row, to, fill) ==
    [row EXCEPT !.status = to,
                !.filled = IF fill = NoFill THEN row.filled ELSE fill]
-----------------------------------------------------------------------------
\* Mutant: recovery writes REJECTED and EXPIRED over a partial fill directly.
NextHopFromPartial(at, goal) ==
    CASE at = "NEW" /\ goal \in {"EXPIRED", "FILLED", "UNKNOWN"} -> "SENT"
      [] at \in {"SENT", "UNKNOWN"} /\ goal = "FILLED" -> "ACK"
      [] OTHER -> goal

\* The next status recover_to_terminal or mark_recovery_unknown writes for an
\* order it believes to be at `at`: the states recovery may not skip.
NextHop(at, goal) ==
    CASE at = "NEW" /\ goal \in {"EXPIRED", "FILLED", "UNKNOWN"} -> "SENT"
      [] at \in {"SENT", "UNKNOWN"} /\ goal = "FILLED" -> "ACK"
      [] at = "PARTIAL" /\ goal \in {"REJECTED", "EXPIRED"} -> "UNKNOWN"
      [] OTHER -> goal
=============================================================================
