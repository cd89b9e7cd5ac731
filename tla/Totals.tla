------------------------------- MODULE Totals -------------------------------
(* The total of quantities, counted unit by unit: an x of the domain of f     *)
(* contributes the units <<x, 1>>, ..., <<x, f[x]>>.  A count of elements is  *)
(* what the provers can reason about; a fold over a set is not.               *)
EXTENDS Integers, FiniteSets

Units(f) == UNION {{x} \X (1..f[x]) : x \in DOMAIN f}

Total(f) == Cardinality(Units(f))
=============================================================================
