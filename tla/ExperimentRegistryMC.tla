------------------------ MODULE ExperimentRegistryMC ------------------------
(* Instances of ExperimentRegistry for TLC.                                  *)
EXTENDS ExperimentRegistry, TLC

CONSTANTS x1, x2, x3, w1, w2, h1, NULL

TwoWriters == {w1, w2}
OneHoldout == {h1}
Row(e, k, v) == [exp |-> e, kind |-> k, value |-> v]

\* x1 and x2 share a campaign and want the same holdout; x3 would continue x1
\* on newer data.
Trio == {x1, x2, x3}
TrioHoldout == [e \in Trio |-> IF e = x3 THEN NULL ELSE h1]
TrioCampaign == [e \in Trio |-> "family"]
TrioPredecessor == [e \in Trio |-> IF e = x3 THEN x1 ELSE NULL]
TrioFloor == [e \in Trio |-> IF e = x3 THEN 1 ELSE 0]
TrioGates == [e \in Trio |-> CASE e = x1 -> 5 [] e = x2 -> 1 [] e = x3 -> 0]
TrioRows == {Row(x1, "candidate", "a"), Row(x2, "candidate", "a"),
             Row(x1, "final_holdout_review", "a"),
             Row(x2, "final_holdout_review", "a")}

WriterSymmetry == Permutations(Writers)
=============================================================================
