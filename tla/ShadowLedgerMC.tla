---------------------------- MODULE ShadowLedgerMC ---------------------------
(* Instances of ShadowLedger for TLC: an order of two processes and one of a  *)
(* single process; and the smallest one in which two fills pass one cap.      *)
EXTENDS ShadowLedger, TLC

CONSTANTS o1, o2, w1, w2, NULL

OneOrder == {o1}
TwoOrders == {o1, o2}
TwoWriters == {w1, w2}
Shared == [o \in OneOrder |-> TwoWriters]
SharedAndSole == [o \in TwoOrders |-> IF o = o1 THEN TwoWriters ELSE {w1}]
Three == [o \in OneOrder |-> 3]
ThreeEach == [o \in TwoOrders |-> 3]

Reduced == {[cap |-> 2, at |-> 0]}
ReducedOrNot == {[cap |-> 2, at |-> 0], [cap |-> NULL, at |-> 1]}

Report(o, type, at) == [order |-> o, type |-> type, at |-> at, reason |-> "report"]
Opening(o) == {Report(o, "CREATED", 0), Report(o, "SUBMITTED", 1),
               Report(o, "ACKNOWLEDGED", 2)}
Fill(o, id, quantity, at) == [id |-> id, order |-> o, quantity |-> quantity, at |-> at]

OpeningReports == Opening(o1)
TwoFills == {Fill(o1, "a", 1, 3), Fill(o1, "b", 2, 4)}

AllReports == Opening(o1) \cup Opening(o2) \cup
    {Report(o1, "UNKNOWN", 2), Report(o1, "CANCELLED", 4), Report(o1, "FILLED", 5),
     Report(o2, "UNKNOWN", 3), Report(o2, "CANCELLED", 4)}
AllFills ==
    {Fill(o1, "a", 1, 3), Fill(o1, "b", 2, 3), Fill(o1, "b", 2, 4), Fill(o1, "c", 3, 4),
     Fill(o1, "d", 1, 5),
     Fill(o2, "e", 1, 2), Fill(o2, "f", 1, 3), Fill(o2, "f", 2, 3), Fill(o2, "g", 2, 5)}
=============================================================================
