--------------------------- MODULE PositionExitMC ---------------------------
(* Instances of PositionExit for TLC.                                        *)
EXTENDS PositionExit, TLC

CONSTANTS i1, i2, p1, p2, p3, p4, o1, o2, o3, s1, s2, e1, r1

OneInstance == {i1}
TwoInstances == {i1, i2}
OnePosition == {p1}
TwoPositions == {p1, p2}
FourPositions == {p1, p2, p3, p4}
TwoOrders == {o1, o2}
ThreeOrders == {o1, o2, o3}
NoTask == {}
OneSignal == {s1}
TwoSignals == {s1, s2}
OneExit == {e1}
OneReduction == {r1}

\* Nothing tells orders, instances, or tasks of one kind apart before they act.
PaperSymmetry == Permutations(Orders) \cup Permutations(Signals)
                 \cup Permutations(Instances)
LiveSymmetry == Permutations(Orders) \cup Permutations(Signals)
=============================================================================
