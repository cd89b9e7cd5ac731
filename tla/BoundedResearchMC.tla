-------------------------- MODULE BoundedResearchMC -------------------------
(* An instance of BoundedResearch for TLC: a smoke experiment and a data      *)
(* check compete for one feature snapshot, a second smoke experiment reads    *)
(* another, and a person records trials of the same campaign meanwhile.       *)
EXTENDS BoundedResearch, TLC

CONSTANTS a1, a2, a3, x1, w1, c1, c2, s1, s2, h1, NULL

TheExperiments == {a1, a2, a3, x1}
TheAutomated == {a1, a2, a3}
TheSmoke == {a1, a3}
TheSnapshots == [e \in TheAutomated |-> IF e = a3 THEN s2 ELSE s1]
TheCoordinators == {c1, c2}
TheWriters == {w1}
TheHoldouts == {h1}

Row(e, k, v) == [exp |-> e, kind |-> k, value |-> v]
TheRows == {Row(a1, "surface", "a"), Row(a1, "candidate", "a"),
            Row(a1, "candidate", "b"), Row(a3, "candidate", "a"),
            Row(x1, "candidate", "a")}

Nowhere == [e \in TheExperiments |-> NULL]
OneFamily == [e \in TheExperiments |-> "family"]
NoFloor == [e \in TheExperiments |-> 0]
NoGates == [e \in TheExperiments |-> 0]

InvocationSymmetry == Permutations(Coordinators)
=============================================================================
