---------------------------- MODULE TotalsProofs ----------------------------
(* Lemmas about totals, for every finite domain.                              *)
EXTENDS Totals, FiniteSetTheorems, TLAPS

\* The share of one x.
LEMMA Share ==
    ASSUME NEW x, NEW n \in Nat
    PROVE  IsFiniteSet({x} \X (1..n)) /\ Cardinality({x} \X (1..n)) = n
  <1>1. IsFiniteSet({x}) /\ Cardinality({x}) = 1
    BY FS_Singleton
  <1>2. IsFiniteSet(1..n) /\ Cardinality(1..n) = n
    BY FS_Interval
  <1>3. /\ IsFiniteSet({x} \X (1..n))
        /\ Cardinality({x} \X (1..n)) = Cardinality({x}) * Cardinality(1..n)
    BY <1>1, <1>2, FS_Product, Zenon
  <1> QED BY <1>1, <1>2, <1>3

LEMMA UnitsFinite ==
    ASSUME NEW S, IsFiniteSet(S), NEW f \in [S -> Nat]
    PROVE  IsFiniteSet(Units(f)) /\ Total(f) \in Nat
  <1> DEFINE part == [x \in S |-> {x} \X (1..f[x])]
             parts == {{x} \X (1..f[x]) : x \in S}
  <1>1. part \in Surjection(S, parts)
    BY DEF Surjection
  <1>2. IsFiniteSet(parts)
    <2>1. ASSUME NEW A, NEW B, NEW g \in Surjection(A, B), IsFiniteSet(A)
          PROVE  IsFiniteSet(B)
      BY <2>1, FS_Surjection
    <2> HIDE DEF part, parts
    <2> QED BY <1>1, <2>1
  <1>3. \A T \in parts : IsFiniteSet(T)
    <2>1. ASSUME NEW x \in S
          PROVE  IsFiniteSet({x} \X (1..f[x]))
      <3>1. f[x] \in Nat
        OBVIOUS
      <3> QED BY <3>1, Share, Zenon
    <2> QED BY <2>1
  <1>4. Units(f) = UNION parts
    BY DEF Units
  <1> HIDE DEF parts
  <1>5. IsFiniteSet(Units(f))
    BY <1>2, <1>3, <1>4, FS_UNION
  <1> QED BY <1>5, FS_CardinalityType DEF Total

\* Where at most one contributes, the total is its share.
LEMMA TotalOfOne ==
    ASSUME NEW S, NEW f \in [S -> Nat], NEW y \in S, \A x \in S \ {y} : f[x] = 0
    PROVE  Total(f) = f[y]
  <1>1. ASSUME NEW x \in S, x # y
        PROVE  1..f[x] = {}
    BY <1>1
  <1>2. Units(f) = {y} \X (1..f[y])
    BY <1>1 DEF Units
  <1>3. f[y] \in Nat
    OBVIOUS
  <1>4. Cardinality({y} \X (1..f[y])) = f[y]
    BY <1>3, Share, Zenon
  <1> QED BY <1>2, <1>4 DEF Total

LEMMA TotalOfNone ==
    ASSUME NEW S, NEW f \in [S -> Nat], \A x \in S : f[x] = 0
    PROVE  Total(f) = 0
  <1>1. Units(f) = {}
    BY DEF Units
  <1> QED BY <1>1, FS_EmptySet DEF Total

\* A total grows with its domain and with what each of it contributes.
LEMMA TotalGrows ==
    ASSUME NEW T, IsFiniteSet(T), NEW S \in SUBSET T,
           NEW f \in [S -> Nat], NEW g \in [T -> Nat], \A x \in S : f[x] <= g[x]
    PROVE  Total(f) <= Total(g)
  <1>1. \A x \in S : 1..f[x] \subseteq 1..g[x]
    OBVIOUS
  <1>2. Units(f) \subseteq Units(g)
    BY <1>1 DEF Units
  <1>3. IsFiniteSet(Units(g))
    BY UnitsFinite
  <1> QED BY <1>2, <1>3, FS_Subset DEF Total

LEMMA TotalCovers ==
    ASSUME NEW S, IsFiniteSet(S), NEW f \in [S -> Nat], NEW y \in S
    PROVE  f[y] <= Total(f)
  <1>1. {y} \X (1..f[y]) \subseteq Units(f)
    BY DEF Units
  <1>2. IsFiniteSet(Units(f))
    BY UnitsFinite
  <1>3. Cardinality({y} \X (1..f[y])) <= Cardinality(Units(f))
    BY <1>1, <1>2, FS_Subset
  <1> QED BY <1>3, Share DEF Total

\* One more contributor adds its share.
LEMMA TotalAdds ==
    ASSUME NEW S, IsFiniteSet(S), NEW y, y \notin S, NEW f \in [S -> Nat],
           NEW g \in [S \cup {y} -> Nat], \A x \in S : g[x] = f[x]
    PROVE  Total(g) = Total(f) + g[y]
  <1> DEFINE share == {y} \X (1..g[y])
  <1>1. Units(g) = Units(f) \cup share
    BY DEF Units
  <1>2. Units(f) \cap share = {}
    BY DEF Units
  <1>3. IsFiniteSet(Units(f)) /\ Total(f) \in Nat
    BY UnitsFinite
  <1>4. IsFiniteSet(share) /\ Cardinality(share) = g[y]
    BY Share
  <1> HIDE DEF share
  <1>5. Cardinality(Units(f) \cup share) =
            Cardinality(Units(f)) + Cardinality(share) - Cardinality(Units(f) \cap share)
    BY <1>3, <1>4, FS_Union
  <1>6. Cardinality(Units(f) \cap share) = 0
    BY <1>2, FS_EmptySet
  <1> QED BY <1>1, <1>3, <1>4, <1>5, <1>6 DEF Total
=============================================================================
