---------------------------- MODULE RegistryProofs ----------------------------
(* Proofs about ExperimentRegistry for every set of processes, experiments,   *)
(* holdouts and rows, and every way the clock is set back; then about         *)
(* BoundedResearch for every set of invocations, experiments and snapshots,   *)
(* next to any use of the registry.                                           *)
EXTENDS BoundedResearch, FiniteSetTheorems, TLAPS

Steps == {"idle", "insert", "claimed", "unreviewed", "artifact"}
Calls == [step : Steps, row : Rows \cup {None}, exp : Experiments \cup {None},
          count : Nat]

Typed ==
    gates \in [Experiments -> Seq(Gate)] /\ call \in [Writers -> Calls]

\* The tables and the calls; what is counted is finite.
Types ==
    /\ registered \subseteq Experiments /\ reserved \subseteq Holdouts
    /\ claims \in [Holdouts -> Experiments \cup {None}]
    /\ trials \subseteq Rows
    /\ IsFiniteSet(registered) /\ IsFiniteSet(trials)
    /\ Typed

\* An experiment that owns the review of its reserved holdout.
Owns(e) == HoldoutOf[e] \in reserved /\ claims[HoldoutOf[e]] = e

\* Whoever is about to write a review row owns the holdout by then.
CallsOwn ==
    \A w \in Writers : call[w].step \in {"insert", "claimed", "unreviewed"} =>
        /\ call[w].row \in Rows
        /\ call[w].row.kind = "final_holdout_review" => Owns(call[w].row.exp)

\* No stage is recorded twice.
Differ(g) == \A i, j \in DOMAIN g : i # j => g[i].stage # g[j].stage
StagesDiffer == \A e \in Experiments : Differ(gates[e])

IInv ==
    /\ Types /\ CallsOwn /\ StagesDiffer
    /\ HoldoutReviewedForOneExperiment /\ ShadowReviewIsEarned
    /\ SuccessorsFollowMissingData /\ GatesAreAnUnbrokenRun
-----------------------------------------------------------------------------
\* What inserting into a list does to its rows.
RowOf(s, i, x, j) == IF j < i THEN s[j] ELSE IF j = i THEN x ELSE s[j - 1]

LEMMA InsertAtRows ==
    ASSUME NEW S, NEW s \in Seq(S), NEW i \in 1..(Len(s) + 1), NEW x \in S,
           NEW new, new = InsertAt(s, i, x)
    PROVE  /\ new \in Seq(S)
           /\ Len(new) = Len(s) + 1
           /\ \A j \in 1..(Len(s) + 1) : new[j] = RowOf(s, i, x, j)
  <1> DEFINE front == SubSeq(s, 1, i - 1)
             back == SubSeq(s, i, Len(s))
             first == front \o <<x>>
             all == first \o back
  <1>1. Len(s) \in Nat /\ i \in Nat /\ 1 <= i /\ i <= Len(s) + 1
    OBVIOUS
  <1>2. front \in Seq(S) /\ Len(front) = i - 1
    OBVIOUS
  <1>3. ASSUME NEW j \in 1..(i - 1) PROVE front[j] = s[j]
    OBVIOUS
  <1>4. back \in Seq(S) /\ Len(back) = Len(s) - i + 1
    OBVIOUS
  <1>5. ASSUME NEW j \in 1..(Len(s) - i + 1) PROVE back[j] = s[i + j - 1]
    OBVIOUS
  <1> HIDE DEF front, back
  <1>6. first \in Seq(S) /\ Len(first) = i
    BY <1>1, <1>2
  <1>7. ASSUME NEW j \in 1..(i - 1) PROVE first[j] = front[j]
    BY <1>1, <1>2
  <1>8. first[i] = x
    BY <1>1, <1>2
  <1> HIDE DEF first
  <1>9. all \in Seq(S) /\ Len(all) = Len(s) + 1
    BY <1>1, <1>4, <1>6
  <1>10. ASSUME NEW j \in 1..i PROVE all[j] = first[j]
    BY <1>1, <1>4, <1>6
  <1>11. ASSUME NEW j \in (i + 1)..(Len(s) + 1) PROVE all[j] = back[j - i]
    BY <1>1, <1>4, <1>6
  <1> HIDE DEF all
  <1>12. ASSUME NEW j \in 1..(Len(s) + 1)
         PROVE  all[j] = IF j < i THEN s[j] ELSE IF j = i THEN x ELSE s[j - 1]
    <2>1. CASE j < i
      <3>1. j \in 1..(i - 1) /\ j \in 1..i
        BY <1>1, <2>1
      <3> QED BY <1>3, <1>7, <1>10, <2>1, <3>1
    <2>2. CASE j = i
      <3>1. all[i] = first[i]
        BY <1>1, <1>10
      <3> QED BY <1>8, <2>2, <3>1
    <2>3. CASE j > i
      <3>1. j - i \in 1..(Len(s) - i + 1) /\ i + (j - i) - 1 = j - 1
        BY <1>1, <2>3
      <3>2. all[j] = back[j - i]
        BY <1>1, <1>11, <2>3
      <3>3. back[j - i] = s[i + (j - i) - 1]
        BY <1>5, <3>1
      <3> QED BY <1>1, <2>3, <3>1, <3>2, <3>3
    <2> QED BY <1>1, <2>1, <2>2, <2>3
  <1> QED BY <1>9, <1>12 DEF InsertAt, all, first, front, back, RowOf

LEMMA InsertAtKeeps ==
    ASSUME NEW S, NEW s \in Seq(S), NEW i \in 1..(Len(s) + 1), NEW x \in S,
           NEW new, new = InsertAt(s, i, x)
    PROVE  /\ new[i] = x /\ i \in DOMAIN new
           /\ \A k \in DOMAIN s : \E j \in DOMAIN new : j # i /\ new[j] = s[k]
           /\ \A j \in DOMAIN new : j # i => \E k \in DOMAIN s : new[j] = s[k]
           /\ \A j, l \in DOMAIN new : j # i /\ l # i /\ j # l =>
                 \E k, m \in DOMAIN s : k # m /\ new[j] = s[k] /\ new[l] = s[m]
  <1> DEFINE Old(j) == IF j < i THEN j ELSE j - 1
  <1>1. /\ new \in Seq(S) /\ Len(new) = Len(s) + 1
        /\ \A j \in 1..(Len(s) + 1) :
              new[j] = IF j < i THEN s[j] ELSE IF j = i THEN x ELSE s[j - 1]
    <2>1. new \in Seq(S)
      BY InsertAtRows
    <2>2. Len(new) = Len(s) + 1
      BY InsertAtRows
    <2>3. \A j \in 1..(Len(s) + 1) : new[j] = RowOf(s, i, x, j)
      BY InsertAtRows
    <2> QED BY <2>1, <2>2, <2>3 DEF RowOf
  <1>2. /\ Len(s) \in Nat /\ i \in Nat /\ 1 <= i /\ i <= Len(s) + 1
        /\ DOMAIN s = 1..Len(s) /\ DOMAIN new = 1..(Len(s) + 1)
    BY <1>1
  <1>3. new[i] = x /\ i \in DOMAIN new
    BY <1>1, <1>2
  <1>4. ASSUME NEW j \in DOMAIN new, j # i
        PROVE  Old(j) \in DOMAIN s /\ new[j] = s[Old(j)]
    <2>1. CASE j < i
      BY <1>1, <1>2, <1>4, <2>1
    <2>2. CASE j > i
      BY <1>1, <1>2, <1>4, <2>2
    <2> QED BY <1>2, <1>4, <2>1, <2>2
  <1>5. ASSUME NEW k \in DOMAIN s
        PROVE  \E j \in DOMAIN new : j # i /\ new[j] = s[k]
    <2>1. CASE k < i
      <3>1. k \in DOMAIN new /\ k # i /\ new[k] = s[k]
        BY <1>1, <1>2, <1>5, <2>1
      <3> QED BY <3>1
    <2>2. CASE k >= i
      <3>1. k + 1 \in DOMAIN new /\ k + 1 # i /\ new[k + 1] = s[k]
        <4>1. k + 1 \in DOMAIN new /\ ~(k + 1 < i) /\ k + 1 # i /\ (k + 1) - 1 = k
          BY <1>2, <1>5, <2>2
        <4> QED BY <1>1, <1>2, <4>1
      <3> QED BY <3>1
    <2> QED BY <1>2, <1>5, <2>1, <2>2
  <1>6. ASSUME NEW j \in DOMAIN new, NEW l \in DOMAIN new, j # i, l # i, j # l
        PROVE  Old(j) # Old(l)
    BY <1>2, <1>6
  <1> HIDE DEF Old
  <1>7. \A j \in DOMAIN new : j # i => \E k \in DOMAIN s : new[j] = s[k]
    BY <1>4
  <1>8. \A j, l \in DOMAIN new : j # i /\ l # i /\ j # l =>
                 \E k, m \in DOMAIN s : k # m /\ new[j] = s[k] /\ new[l] = s[m]
    BY <1>4, <1>6
  <1> QED BY <1>3, <1>5, <1>7, <1>8
-----------------------------------------------------------------------------
\* One more gate on an unbroken run: the stage after the last row, if no row
\* has it, is the stage after the highest, and all rows are passed.
Unbroken(g) ==
    /\ {g[i].stage : i \in DOMAIN g} = 1..Len(g)
    /\ \A i \in DOMAIN g : g[i].status # "PASSED" => g[i].stage = Len(g)

LEMMA RunExtends ==
    ASSUME NEW g \in Seq(Gate), Unbroken(g), Differ(g),
           NEW x \in Gate, NEW i \in 1..(Len(g) + 1),
           g = <<>> => x.stage = 1,
           g # <<>> => x.stage = g[Len(g)].stage + 1 /\ g[Len(g)].status = "PASSED",
           \A k \in DOMAIN g : g[k].stage # x.stage,
           NEW new, new = InsertAt(g, i, x)
    PROVE  Unbroken(new) /\ Differ(new)
  <1>a. new \in Seq(Gate) /\ Len(new) = Len(g) + 1
    BY InsertAtRows
  <1>b. /\ new[i] = x /\ i \in DOMAIN new
        /\ \A k \in DOMAIN g : \E j \in DOMAIN new : j # i /\ new[j] = g[k]
        /\ \A j \in DOMAIN new : j # i => \E k \in DOMAIN g : new[j] = g[k]
        /\ \A j, l \in DOMAIN new : j # i /\ l # i /\ j # l =>
              \E k, m \in DOMAIN g : k # m /\ new[j] = g[k] /\ new[l] = g[m]
    BY InsertAtKeeps
  <1>c. /\ DOMAIN g = 1..Len(g) /\ Len(g) \in Nat /\ DOMAIN new = 1..Len(new)
        /\ \A k \in DOMAIN g : g[k].stage \in 1..5
    <2>1. DOMAIN g = 1..Len(g) /\ Len(g) \in Nat /\ DOMAIN new = 1..Len(new)
      BY <1>a
    <2>2. ASSUME NEW k \in DOMAIN g PROVE g[k].stage \in 1..5
      <3>1. g[k] \in Gate
        BY <2>1
      <3> QED BY <3>1 DEF Gate, Stages
    <2> QED BY <2>1, <2>2
  <1>1. /\ Len(new) = Len(g) + 1 /\ Len(g) \in Nat
        /\ new[i] = x /\ i \in DOMAIN new /\ DOMAIN g = 1..Len(g)
        /\ \A k \in DOMAIN g : \E j \in DOMAIN new : j # i /\ new[j] = g[k]
        /\ \A j \in DOMAIN new : j # i => \E k \in DOMAIN g : new[j] = g[k]
    BY <1>a, <1>b, <1>c
  <1>2. x.stage = Len(g) + 1
    <2>1. CASE g = <<>>
      BY <2>1
    <2>2. CASE g # <<>>
      <3>1. Len(g) \in DOMAIN g /\ x.stage \in Nat
        <4>1. Len(g) # 0
          BY <2>2
        <4>2. x.stage \in 1..5
          BY DEF Gate, Stages
        <4> QED BY <1>1, <4>1, <4>2
      <3>2. g[Len(g)].stage \in 1..Len(g)
        BY <3>1 DEF Unbroken
      <3>3. x.stage \notin 1..Len(g)
        BY DEF Unbroken
      <3> QED BY <1>1, <2>2, <3>1, <3>2, <3>3
    <2> QED BY <2>1, <2>2
  <1>3. \A k \in DOMAIN g : g[k].status = "PASSED"
    <2> SUFFICES ASSUME NEW k \in DOMAIN g, g[k].status # "PASSED" PROVE FALSE
      OBVIOUS
    <2>1. g # <<>> /\ Len(g) \in DOMAIN g /\ g[k].stage = Len(g)
      <3>1. g[k].stage = Len(g)
        BY DEF Unbroken
      <3>2. Len(g) \in DOMAIN g /\ Len(g) # 0
        BY <1>c
      <3> QED BY <3>1, <3>2
    <2>2. g[Len(g)].stage = Len(g)
      <3>1. g[Len(g)].stage \in 1..5
        BY <1>c, <2>1
      <3>2. x.stage = g[Len(g)].stage + 1
        BY <2>1
      <3>3. Len(g) \in Nat
        BY <1>c
      <3> QED BY <1>2, <3>1, <3>2, <3>3
    <2>3. k = Len(g)
      BY <2>1, <2>2 DEF Differ
    <2> QED BY <2>1, <2>3
  <1>4. {new[j].stage : j \in DOMAIN new} = 1..Len(new)
    <2>1. ASSUME NEW j \in DOMAIN new PROVE new[j].stage \in 1..(Len(g) + 1)
      <3>1. CASE j = i
        BY <1>1, <1>2, <3>1
      <3>2. CASE j # i
        <4>1. PICK k \in DOMAIN g : new[j] = g[k]
          BY <1>1, <3>2
        <4>2. g[k].stage \in 1..Len(g)
          BY DEF Unbroken
        <4> QED BY <1>1, <4>1, <4>2
      <3> QED BY <3>1, <3>2
    <2>2. ASSUME NEW n \in 1..(Len(g) + 1) PROVE \E j \in DOMAIN new : new[j].stage = n
      <3>1. CASE n = Len(g) + 1
        BY <1>1, <1>2, <3>1
      <3>2. CASE n # Len(g) + 1
        <4>1. n \in 1..Len(g)
          BY <1>1, <3>2
        <4>2. PICK k \in DOMAIN g : g[k].stage = n
          BY <4>1 DEF Unbroken
        <4> QED BY <1>1, <4>2
      <3> QED BY <3>1, <3>2
    <2>3. Len(new) = Len(g) + 1
      BY <1>1
    <2>4. {new[j].stage : j \in DOMAIN new} = 1..(Len(g) + 1)
      BY <2>1, <2>2
    <2> QED BY <2>3, <2>4
  <1>5. \A j \in DOMAIN new : new[j].status # "PASSED" => new[j].stage = Len(new)
    BY <1>1, <1>2, <1>3
  <1>6. Differ(new)
    <2> SUFFICES ASSUME NEW j \in DOMAIN new, NEW l \in DOMAIN new, j # l
                 PROVE  new[j].stage # new[l].stage
      BY DEF Differ
    <2>1. CASE j = i \/ l = i
      BY <1>1, <2>1
    <2>2. CASE j # i /\ l # i
      <3>1. PICK k \in DOMAIN g, m \in DOMAIN g :
               k # m /\ new[j] = g[k] /\ new[l] = g[m]
        BY <1>b, <2>2
      <3> QED BY <3>1 DEF Differ
    <2> QED BY <2>1, <2>2
  <1> QED BY <1>4, <1>5, <1>6 DEF Unbroken
-----------------------------------------------------------------------------
\* What the trial counts are.
Candidates(rows) == {t \in rows : t.kind = "candidate"}

LEMMA CountedType ==
    ASSUME NEW rows, IsFiniteSet(rows)
    PROVE  Counted(rows) \in Nat /\ Counted(rows) >= Cardinality(Candidates(rows))
  <1>1. Candidates(rows) \in SUBSET rows
    BY DEF Candidates
  <1>2. /\ IsFiniteSet(Candidates(rows))
        /\ Cardinality(Candidates(rows)) \in Nat /\ Cardinality(rows) \in Nat
    BY <1>1, FS_Subset, FS_CardinalityType
  <1>3. CASE Candidates(rows) = {}
    BY <1>2, <1>3, FS_EmptySet DEF Counted, Candidates
  <1>4. CASE Candidates(rows) # {}
    BY <1>2, <1>4 DEF Counted, Candidates
  <1> QED BY <1>3, <1>4

LEMMA FloorType ==
    ASSUME registered \subseteq Experiments, IsFiniteSet(registered), NEW campaign
    PROVE  PredecessorTrialFloor(campaign) \in Nat
  <1> DEFINE S == {e \in registered : Campaign[e] = campaign /\ Predecessor[e] # None}
             burden == [e \in S |-> {Predecessor[e]} \X (1..Floor[e])]
             burdens == {{Predecessor[e]} \X (1..Floor[e]) : e \in S}
  <1>1. IsFiniteSet(S) /\ S \subseteq Experiments
    BY FS_Subset
  <1>2. burden \in Surjection(S, burdens)
    BY DEF Surjection
  <1>3. IsFiniteSet(burdens)
    <2>1. ASSUME NEW A, NEW B, NEW g \in Surjection(A, B), IsFiniteSet(A)
          PROVE  IsFiniteSet(B)
      BY <2>1, FS_Surjection
    <2> HIDE DEF S, burden, burdens
    <2> QED BY <1>1, <1>2, <2>1
  <1>4. \A B \in burdens : IsFiniteSet(B)
    <2>1. ASSUME NEW e \in S
          PROVE  IsFiniteSet({Predecessor[e]} \X (1..Floor[e]))
      <3>1. Floor[e] \in Int
        BY <1>1, SpecAssumption
      <3>2. IsFiniteSet({Predecessor[e]})
        BY FS_Singleton
      <3>3. IsFiniteSet(1..Floor[e])
        BY <3>1, FS_Interval
      <3> QED BY <3>2, <3>3, FS_Product, Zenon
    <2> QED BY <2>1
  <1>5. Cardinality(UNION burdens) \in Nat
    <2> HIDE DEF burdens
    <2> QED BY <1>3, <1>4, FS_UNION, FS_CardinalityType
  <1> QED BY <1>5 DEF PredecessorTrialFloor

\* The rows the count of an experiment is about.
Scope(e) == {t \in trials : Campaign[e] # None => Campaign[t.exp] = Campaign[e]}

LEMMA CountType ==
    ASSUME registered \subseteq Experiments, IsFiniteSet(registered),
           IsFiniteSet(trials), NEW e
    PROVE  /\ ValidationTrialCount(e) \in Nat
           /\ ValidationTrialCount(e) >= Cardinality(Candidates(Scope(e)))
           /\ IsFiniteSet(Candidates(Scope(e)))
  <1>1. IsFiniteSet(Scope(e)) /\ IsFiniteSet(Candidates(Scope(e)))
    BY FS_Subset DEF Scope, Candidates
  <1>2. /\ Counted(Scope(e)) \in Nat
        /\ Counted(Scope(e)) >= Cardinality(Candidates(Scope(e)))
        /\ Cardinality(Candidates(Scope(e))) \in Nat
    BY <1>1, CountedType, FS_CardinalityType
  <1>3. PredecessorTrialFloor(Campaign[e]) \in Nat
    BY FloorType
  <1>4. ValidationTrialCount(e) = Counted(Scope(e)) + PredecessorTrialFloor(Campaign[e])
    BY DEF ValidationTrialCount, Scope
  <1> QED BY <1>1, <1>2, <1>3, <1>4
-----------------------------------------------------------------------------
\* Each table has one writer.
LEMMA WhoWrites ==
    ASSUME [Next]_vars
    PROVE  /\ registered' = registered \/ \E e \in Experiments : RegisterExperiment(e)
           /\ reserved' = reserved \/ \E h \in Holdouts : ReserveHoldout(h)
           /\ claims' = claims \/ \E w \in Writers, row \in Rows :
                                        ClaimFinalHoldoutReview(w, row)
           /\ trials' = trials \/ \E w \in Writers : InsertTrial(w)
           /\ gates' = gates \/ \E w \in Writers, e \in Experiments :
                                   \E stage \in Stages, status \in Statuses :
                                        RecordGateResult(w, e, stage, status)
  <1>1. CASE UNCHANGED vars
    BY <1>1 DEF vars
  <1>2. CASE \E e \in Experiments : RegisterExperiment(e)
    BY <1>2 DEF RegisterExperiment
  <1>3. CASE \E h \in Holdouts : ReserveHoldout(h)
    BY <1>3 DEF ReserveHoldout
  <1>4. CASE \E w \in Writers, row \in Rows : RecordTrial(w, row)
    BY <1>4 DEF RecordTrial, tables
  <1>5. CASE \E w \in Writers, row \in Rows : ClaimFinalHoldoutReview(w, row)
    BY <1>5 DEF ClaimFinalHoldoutReview
  <1>6. CASE \E w \in Writers : InsertTrial(w)
    BY <1>6 DEF InsertTrial
  <1>7. CASE \E w \in Writers : CheckReview(w)
    BY <1>7 DEF CheckReview, tables
  <1>8. CASE \E w \in Writers, e \in Experiments : BuildArtifact(w, e)
    BY <1>8 DEF BuildArtifact, tables
  <1>9. CASE \E w \in Writers, e \in Experiments :
                \E stage \in Stages, status \in Statuses :
                     RecordGateResult(w, e, stage, status)
    BY <1>9 DEF RecordGateResult
  <1>10. CASE \E w \in Writers : Abandon(w)
    BY <1>10 DEF Abandon, tables
  <1> QED
    BY <1>1, <1>2, <1>3, <1>4, <1>5, <1>6, <1>7, <1>8, <1>9, <1>10 DEF Next

LEMMA SeqGrows ==
    ASSUME NEW S, NEW T, S \subseteq T, NEW s \in Seq(S)
    PROVE  s \in Seq(T)
  OBVIOUS

\* A recorded gate is one more row of one experiment's list.
LEMMA GateStep ==
    ASSUME Typed, NEW w \in Writers, NEW e \in Experiments,
           NEW stage \in Stages, NEW status \in Statuses,
           RecordGateResult(w, e, stage, status)
    PROVE  \E i \in 1..(Len(gates[e]) + 1), x \in Gate :
              /\ x.stage = stage /\ x.status = status /\ x.count = call[w].count
              /\ gates' = [gates EXCEPT ![e] = InsertAt(gates[e], i, x)]
  <1> DEFINE x == [stage |-> stage, status |-> status, count |-> call[w].count]
  <1>1. /\ x \in Gate /\ x.stage = stage /\ x.status = status
        /\ x.count = call[w].count
    BY DEF Typed, Calls, Gate
  <1>2. gates[e] \in Seq(Gate)
    BY DEF Typed
  <1>3. PICK i \in RecordedAt(e) :
            gates' = [gates EXCEPT ![e] = InsertAt(gates[e], i, x)]
    BY DEF RecordGateResult
  <1>4. i \in 1..(Len(gates[e]) + 1)
    BY <1>2, <1>3 DEF RecordedAt
  <1> HIDE DEF x
  <1> QED BY <1>1, <1>3, <1>4

LEMMA TypesInv ==
    ASSUME Types, CallsOwn, [Next]_vars
    PROVE  Types'
  <1>1. Typed
    BY DEF Types
  <1>2. registered' \subseteq Experiments /\ reserved' \subseteq Holdouts
    BY WhoWrites DEF Types, RegisterExperiment, ReserveHoldout
  <1>3. /\ claims' \in [Holdouts -> Experiments \cup {None}]
        /\ \A row \in Rows : row.exp \in Experiments
    BY SpecAssumption, WhoWrites DEF Types, ClaimFinalHoldoutReview
  <1>4. NoCall \in Calls
    BY <1>1 DEF NoCall, Calls, Steps
  <1>5. gates' \in [Experiments -> Seq(Gate)]
    <2>1. CASE gates' = gates
      BY <1>1, <2>1 DEF Typed
    <2>2. ASSUME NEW w \in Writers, NEW e \in Experiments, NEW stage \in Stages,
                 NEW status \in Statuses, RecordGateResult(w, e, stage, status)
          PROVE  gates' \in [Experiments -> Seq(Gate)]
      <3>1. PICK i \in 1..(Len(gates[e]) + 1), x \in Gate :
               gates' = [gates EXCEPT ![e] = InsertAt(gates[e], i, x)]
        BY <1>1, <2>2, GateStep
      <3>2. InsertAt(gates[e], i, x) \in Seq(Gate)
        BY <1>1, InsertAtRows DEF Typed
      <3> QED BY <1>1, <3>1, <3>2 DEF Typed
    <2> QED BY <2>1, <2>2, WhoWrites
  <1>6. ASSUME NEW w \in Writers, NEW new \in Calls, call' = [call EXCEPT ![w] = new]
        PROVE  call' \in [Writers -> Calls]
    BY <1>1, <1>6 DEF Typed
  <1>7. call' \in [Writers -> Calls]
    <2>1. CASE \E w \in Writers, row \in Rows : RecordTrial(w, row)
      <3>1. PICK w \in Writers, row \in Rows : RecordTrial(w, row)
        BY <2>1
      <3>2. [NoCall EXCEPT !.step = "insert", !.row = row] \in Calls
        BY <1>4 DEF NoCall, Calls, Steps
      <3> QED BY <1>6, <3>1, <3>2 DEF RecordTrial
    <2>2. CASE \E w \in Writers, row \in Rows : ClaimFinalHoldoutReview(w, row)
      <3>1. PICK w \in Writers, row \in Rows : ClaimFinalHoldoutReview(w, row)
        BY <2>2
      <3>2. [NoCall EXCEPT !.step = "claimed", !.row = row] \in Calls
        BY <1>4 DEF NoCall, Calls, Steps
      <3> QED BY <1>6, <3>1, <3>2 DEF ClaimFinalHoldoutReview
    <2>3. CASE \E w \in Writers : CheckReview(w)
      <3>1. PICK w \in Writers : CheckReview(w)
        BY <2>3
      <3>2. \/ call' = [call EXCEPT ![w] = NoCall]
            \/ \E step \in Steps : call' = [call EXCEPT ![w].step = step]
        <4>1. \/ call' = [call EXCEPT ![w] = NoCall]
              \/ call' = [call EXCEPT ![w].step = "unreviewed"]
              \/ call' = [call EXCEPT ![w].step = "insert"]
          BY <3>1, Zenon DEF CheckReview
        <4> QED BY <4>1 DEF Steps
      <3>3. ASSUME NEW step \in Steps
            PROVE  [call[w] EXCEPT !.step = step] \in Calls
        <4>1. call[w] \in Calls
          BY <1>1 DEF Typed
        <4> QED BY <4>1 DEF Calls
      <3>4. ASSUME NEW step \in Steps, call' = [call EXCEPT ![w].step = step]
            PROVE  call' \in [Writers -> Calls]
        BY <1>6, <3>3, <3>4
      <3> QED BY <1>4, <1>6, <3>2, <3>4
    <2>4. CASE \E w \in Writers : call' = [call EXCEPT ![w] = NoCall]
      BY <1>4, <1>6, <2>4
    <2>5. CASE call' = call
      BY <1>1, <2>5 DEF Typed
    <2>6. CASE \E w \in Writers, e \in Experiments : BuildArtifact(w, e)
      <3>1. PICK w \in Writers, e \in Experiments : BuildArtifact(w, e)
        BY <2>6
      <3>2. ValidationTrialCount(e) \in Nat
        BY CountType DEF Types
      <3>3. [NoCall EXCEPT !.step = "artifact", !.exp = e,
                           !.count = ValidationTrialCount(e)] \in Calls
        BY <1>4, <3>2 DEF NoCall, Calls, Steps
      <3> QED BY <1>6, <3>1, <3>3 DEF BuildArtifact
    <2> QED
      BY <2>1, <2>2, <2>3, <2>4, <2>5, <2>6
      DEF Next, vars, RegisterExperiment, ReserveHoldout, InsertTrial,
          RecordGateResult, Abandon
  <1>8. trials' \subseteq Rows
    BY WhoWrites DEF Types, CallsOwn, InsertTrial
  <1>9. IsFiniteSet(registered') /\ IsFiniteSet(trials')
    BY WhoWrites, FS_AddElement DEF Types, RegisterExperiment, InsertTrial
  <1> QED BY <1>2, <1>3, <1>5, <1>7, <1>8, <1>9 DEF Types, Typed
-----------------------------------------------------------------------------
\* What is committed stays: tables only grow, a claim keeps its owner, a
\* recorded gate stays among the experiment's gates.
LEMMA CommittedStays ==
    ASSUME Types, [Next]_vars
    PROVE  /\ registered \subseteq registered' /\ reserved \subseteq reserved'
           /\ trials \subseteq trials'
           /\ \A e \in Experiments : claims[HoldoutOf[e]] = e =>
                                            claims'[HoldoutOf[e]] = e
           /\ \A e \in Experiments : \A k \in DOMAIN gates[e] :
                 \E j \in DOMAIN gates'[e] : gates'[e][j] = gates[e][k]
  <1>1. registered \subseteq registered' /\ reserved \subseteq reserved'
    BY WhoWrites DEF RegisterExperiment, ReserveHoldout
  <1>2. trials \subseteq trials'
    BY WhoWrites DEF InsertTrial
  <1>3. ASSUME NEW e \in Experiments, claims[HoldoutOf[e]] = e
        PROVE  claims'[HoldoutOf[e]] = e
    <2>1. CASE claims' = claims
      BY <1>3, <2>1
    <2>2. ASSUME NEW w \in Writers, NEW row \in Rows, ClaimFinalHoldoutReview(w, row)
          PROVE  claims'[HoldoutOf[e]] = e
      <3>1. claims[HoldoutOf[row.exp]] \in {None, row.exp}
        BY <2>2 DEF ClaimFinalHoldoutReview, MayClaim
      <3>2. claims' = [claims EXCEPT ![HoldoutOf[row.exp]] = row.exp]
        BY <2>2 DEF ClaimFinalHoldoutReview
      <3>3. CASE HoldoutOf[e] = HoldoutOf[row.exp]
        <4>1. e = row.exp
          BY SpecAssumption, <1>3, <3>1, <3>3
        <4>2. HoldoutOf[row.exp] \in Holdouts
          BY <2>2 DEF Types, ClaimFinalHoldoutReview, MayClaim
        <4> QED BY <3>2, <4>1, <4>2 DEF Types
      <3>4. CASE HoldoutOf[e] # HoldoutOf[row.exp]
        BY <1>3, <3>2, <3>4 DEF Types
      <3> QED BY <3>3, <3>4
    <2> QED BY <2>1, <2>2, WhoWrites
  <1>4. ASSUME NEW e \in Experiments, NEW k \in DOMAIN gates[e]
        PROVE  \E j \in DOMAIN gates'[e] : gates'[e][j] = gates[e][k]
    <2>1. CASE gates' = gates
      BY <2>1
    <2>2. ASSUME NEW w \in Writers, NEW d \in Experiments, NEW stage \in Stages,
                 NEW status \in Statuses, RecordGateResult(w, d, stage, status)
          PROVE  \E j \in DOMAIN gates'[e] : gates'[e][j] = gates[e][k]
      <3>1. Typed
        BY DEF Types
      <3>2. PICK i \in 1..(Len(gates[d]) + 1), x \in Gate :
               gates' = [gates EXCEPT ![d] = InsertAt(gates[d], i, x)]
        BY <2>2, <3>1, GateStep
      <3>3. CASE d # e
        BY <3>1, <3>2, <3>3 DEF Typed
      <3>4. CASE d = e
        <4>1. gates'[e] = InsertAt(gates[e], i, x) /\ gates[e] \in Seq(Gate)
          BY <3>1, <3>2, <3>4 DEF Typed
        <4>2. \E j \in DOMAIN gates'[e] : j # i /\ gates'[e][j] = gates[e][k]
          BY <3>2, <3>4, <4>1, InsertAtKeeps
        <4> QED BY <4>2
      <3> QED BY <3>3, <3>4
    <2> QED BY <2>1, <2>2, WhoWrites
  <1> QED BY <1>1, <1>2, <1>3, <1>4

OwnsNext(e) == HoldoutOf[e] \in reserved' /\ claims'[HoldoutOf[e]] = e

LEMMA OwnersStay ==
    ASSUME Types, [Next]_vars, NEW e \in Experiments
    PROVE  /\ Owns(e) => OwnsNext(e)
           /\ HasFinalReview(e) => HasFinalReview(e)'
  BY CommittedStays DEF Owns, OwnsNext, HasFinalReview

LEMMA CallsOwnInv ==
    ASSUME Types, CallsOwn, [Next]_vars
    PROVE  CallsOwn'
  <1> DEFINE Fits(c) ==
        c.step \in {"insert", "claimed", "unreviewed"} =>
            c.row \in Rows /\ (c.row.kind = "final_holdout_review" => OwnsNext(c.row.exp))
  <1>1. Typed
    BY DEF Types
  <1>2. ASSUME NEW w \in Writers
        PROVE  Fits(call[w])
    <2> SUFFICES ASSUME call[w].step \in {"insert", "claimed", "unreviewed"}
                 PROVE  /\ call[w].row \in Rows
                        /\ call[w].row.kind = "final_holdout_review" =>
                                OwnsNext(call[w].row.exp)
      OBVIOUS
    <2>1. call[w].row \in Rows /\ call[w].row.exp \in Experiments
      BY SpecAssumption DEF CallsOwn
    <2> QED BY <2>1, OwnersStay DEF CallsOwn
  <1>3. Fits(NoCall)
    BY DEF NoCall
  <1>4. ASSUME NEW w \in Writers, NEW new, call' = [call EXCEPT ![w] = new], Fits(new)
        PROVE  \A v \in Writers : Fits(call'[v])
    BY <1>1, <1>2, <1>4 DEF Typed
  <1> SUFFICES \A v \in Writers : Fits(call'[v])
    BY DEF CallsOwn, Owns, OwnsNext
  <1>5. CASE call' = call
    BY <1>2, <1>5
  <1>6. CASE \E w \in Writers : call' = [call EXCEPT ![w] = NoCall]
    BY <1>3, <1>4, <1>6
  <1>7. CASE \E w \in Writers, row \in Rows : RecordTrial(w, row)
    <2>1. PICK w \in Writers, row \in Rows : RecordTrial(w, row)
      BY <1>7
    <2> DEFINE new == [NoCall EXCEPT !.step = "insert", !.row = row]
    <2>2. Fits(new)
      BY <2>1 DEF RecordTrial, NoCall
    <2>3. call' = [call EXCEPT ![w] = new]
      BY <2>1 DEF RecordTrial
    <2> HIDE DEF new, Fits
    <2> QED BY <1>4, <2>2, <2>3
  <1>8. CASE \E w \in Writers, row \in Rows : ClaimFinalHoldoutReview(w, row)
    <2>1. PICK w \in Writers, row \in Rows : ClaimFinalHoldoutReview(w, row)
      BY <1>8
    <2> DEFINE new == [NoCall EXCEPT !.step = "claimed", !.row = row]
    <2>2. OwnsNext(row.exp)
      BY <2>1 DEF ClaimFinalHoldoutReview, MayClaim, OwnsNext, Types
    <2>3. Fits(new)
      BY <2>1, <2>2 DEF NoCall
    <2>4. call' = [call EXCEPT ![w] = new]
      BY <2>1 DEF ClaimFinalHoldoutReview
    <2> HIDE DEF new, Fits
    <2> QED BY <1>4, <2>3, <2>4
  <1>9. CASE \E w \in Writers : CheckReview(w)
    <2>1. PICK w \in Writers : CheckReview(w)
      BY <1>9
    <2>2. /\ call[w].step \in {"claimed", "unreviewed"}
          /\ \/ call' = [call EXCEPT ![w] = NoCall]
             \/ call' = [call EXCEPT ![w].step = "unreviewed"]
             \/ call' = [call EXCEPT ![w].step = "insert"]
      BY <2>1, Zenon DEF CheckReview
    <2>3. ASSUME NEW step \in {"unreviewed", "insert"}
          PROVE  Fits([call[w] EXCEPT !.step = step])
      <3>1. call[w] \in Calls
        BY <1>1 DEF Typed
      <3>2. [call[w] EXCEPT !.step = step].row = call[w].row
        BY <3>1 DEF Calls
      <3> QED BY <1>2, <2>2, <3>2
    <2> HIDE DEF Fits
    <2> QED BY <1>3, <1>4, <2>2, <2>3
  <1>10. CASE \E w \in Writers, e \in Experiments : BuildArtifact(w, e)
    <2>1. PICK w \in Writers, e \in Experiments : BuildArtifact(w, e)
      BY <1>10
    <2> DEFINE n == ValidationTrialCount(e)
               new == [NoCall EXCEPT !.step = "artifact", !.exp = e, !.count = n]
    <2>2. call' = [call EXCEPT ![w] = new]
      BY <2>1 DEF BuildArtifact
    <2> HIDE DEF n
    <2>3. Fits(new)
      BY DEF NoCall
    <2> HIDE DEF new, Fits
    <2> QED BY <1>4, <2>2, <2>3
  <1> HIDE DEF Fits
  <1> QED
    BY <1>5, <1>6, <1>7, <1>8, <1>9, <1>10
    DEF Next, vars, RegisterExperiment, ReserveHoldout, InsertTrial,
        RecordGateResult, Abandon
-----------------------------------------------------------------------------
LEMMA ReviewsInv ==
    ASSUME Types, CallsOwn, HoldoutReviewedForOneExperiment, [Next]_vars
    PROVE  HoldoutReviewedForOneExperiment'
  <1> SUFFICES ASSUME NEW t \in trials', t.kind = "final_holdout_review"
               PROVE  OwnsNext(t.exp)
    BY DEF HoldoutReviewedForOneExperiment, OwnsNext
  <1>1. ASSUME t \in Rows, Owns(t.exp) PROVE OwnsNext(t.exp)
    <2>1. t.exp \in Experiments
      BY <1>1, SpecAssumption
    <2> QED BY <1>1, <2>1, OwnersStay
  <1>2. CASE t \in trials
    BY <1>1, <1>2 DEF HoldoutReviewedForOneExperiment, Owns, Types
  <1>3. CASE t \notin trials
    <2>1. PICK w \in Writers : InsertTrial(w)
      BY <1>3, WhoWrites
    <2>2. t = call[w].row /\ call[w].step = "insert"
      BY <1>3, <2>1 DEF InsertTrial
    <2> QED BY <1>1, <2>2 DEF CallsOwn
  <1> QED BY <1>2, <1>3

\* A gate that is not among an experiment's rows yet was recorded in this step.
LEMMA NewGate ==
    ASSUME Types, [Next]_vars, NEW e \in Experiments, NEW j \in DOMAIN gates'[e],
           \A k \in DOMAIN gates[e] : gates'[e][j] # gates[e][k]
    PROVE  \E w \in Writers, stage \in Stages, status \in Statuses :
              /\ RecordGateResult(w, e, stage, status)
              /\ gates'[e][j].stage = stage /\ gates'[e][j].status = status
              /\ gates'[e][j].count = call[w].count
  <1>1. Typed
    BY DEF Types
  <1>2. PICK w \in Writers, d \in Experiments, stage \in Stages, status \in Statuses :
            RecordGateResult(w, d, stage, status)
    BY WhoWrites
  <1>3. PICK i \in 1..(Len(gates[d]) + 1), x \in Gate :
            /\ x.stage = stage /\ x.status = status /\ x.count = call[w].count
            /\ gates' = [gates EXCEPT ![d] = InsertAt(gates[d], i, x)]
    BY <1>1, <1>2, GateStep
  <1>4. d = e
    BY <1>1, <1>3 DEF Typed
  <1>5. gates'[e] = InsertAt(gates[e], i, x) /\ gates[e] \in Seq(Gate)
    BY <1>1, <1>3, <1>4 DEF Typed
  <1>6. gates'[e][j] = x
    <2>1. /\ \A l \in DOMAIN gates'[e] : l # i =>
                \E k \in DOMAIN gates[e] : gates'[e][l] = gates[e][k]
          /\ gates'[e][i] = x
      BY <1>3, <1>4, <1>5, InsertAtKeeps
    <2> QED BY <2>1
  <1> QED BY <1>2, <1>3, <1>4, <1>6

LEMMA EarnedInv ==
    ASSUME Types, ShadowReviewIsEarned, [Next]_vars
    PROVE  ShadowReviewIsEarned'
  <1> SUFFICES ASSUME NEW e \in Experiments, NEW j \in DOMAIN gates'[e],
                      gates'[e][j].stage = SHADOW_REVIEW,
                      gates'[e][j].status = "PASSED"
               PROVE  HasFinalReview(e)'
    BY DEF ShadowReviewIsEarned
  <1>1. HasFinalReview(e)
    <2>1. CASE \E k \in DOMAIN gates[e] : gates'[e][j] = gates[e][k]
      BY <2>1 DEF ShadowReviewIsEarned
    <2>2. CASE \A k \in DOMAIN gates[e] : gates'[e][j] # gates[e][k]
      <3>1. PICK w \in Writers : RecordGateResult(w, e, SHADOW_REVIEW, "PASSED")
        BY <2>2, NewGate
      <3> QED BY <3>1 DEF RecordGateResult, EarnsPass
    <2> QED BY <2>1, <2>2
  <1> QED BY <1>1, OwnersStay

\* An experiment that has ended takes no further gate.
LEMMA EndedStays ==
    ASSUME Types, [Next]_vars, NEW p \in Experiments, IsTerminal(p)
    PROVE  gates'[p] = gates[p]
  <1>1. CASE gates' = gates
    BY <1>1
  <1>2. ASSUME NEW w \in Writers, NEW d \in Experiments, NEW stage \in Stages,
               NEW status \in Statuses, RecordGateResult(w, d, stage, status)
        PROVE  gates'[p] = gates[p]
    <2>1. d # p
      BY <1>2 DEF RecordGateResult, StageIsOpen
    <2>2. Typed
      BY DEF Types
    <2>3. PICK i \in 1..(Len(gates[d]) + 1), x \in Gate :
             gates' = [gates EXCEPT ![d] = InsertAt(gates[d], i, x)]
      BY <1>2, <2>2, GateStep
    <2> QED BY <2>1, <2>2, <2>3 DEF Typed
  <1> QED BY <1>1, <1>2, WhoWrites

LEMMA SuccessorsInv ==
    ASSUME Types, SuccessorsFollowMissingData, [Next]_vars
    PROVE  SuccessorsFollowMissingData'
  <1> SUFFICES ASSUME NEW e \in registered', Predecessor[e] # None
               PROVE  LatestStatus(Predecessor[e])' = "INSUFFICIENT_DATA"
    BY DEF SuccessorsFollowMissingData
  <1>1. Predecessor[e] \in Experiments
    BY SpecAssumption, WhoWrites DEF Types, RegisterExperiment
  <1>2. LatestStatus(Predecessor[e]) = "INSUFFICIENT_DATA"
    <2>1. CASE e \in registered
      BY <2>1 DEF SuccessorsFollowMissingData
    <2>2. CASE e \notin registered
      BY <2>2, WhoWrites DEF RegisterExperiment, SuccessorAccepted
    <2> QED BY <2>1, <2>2
  <1>3. gates'[Predecessor[e]] = gates[Predecessor[e]]
    BY <1>1, <1>2, EndedStays DEF IsTerminal, TerminalStatuses
  <1> QED BY <1>2, <1>3, Zenon DEF LatestStatus

LEMMA GatesInv ==
    ASSUME Types, StagesDiffer, GatesAreAnUnbrokenRun, [Next]_vars,
           NEW e \in Experiments
    PROVE  Unbroken(gates'[e]) /\ Differ(gates'[e])
  <1>1. Unbroken(gates[e]) /\ Differ(gates[e])
    BY DEF GatesAreAnUnbrokenRun, StagesDiffer, Unbroken
  <1>2. CASE gates' = gates
    BY <1>1, <1>2
  <1>3. ASSUME NEW w \in Writers, NEW d \in Experiments, NEW stage \in Stages,
               NEW status \in Statuses, RecordGateResult(w, d, stage, status)
        PROVE  Unbroken(gates'[e]) /\ Differ(gates'[e])
    <2>1. Typed
      BY DEF Types
    <2>2. PICK i \in 1..(Len(gates[d]) + 1), x \in Gate :
             /\ x.stage = stage /\ x.status = status
             /\ gates' = [gates EXCEPT ![d] = InsertAt(gates[d], i, x)]
      BY <1>3, <2>1, GateStep
    <2>3. CASE d # e
      BY <1>1, <2>1, <2>2, <2>3 DEF Typed
    <2>4. CASE d = e
      <3> DEFINE g == gates[e]
                 new == gates'[e]
      <3>1. new = InsertAt(g, i, x) /\ g \in Seq(Gate)
        BY <2>1, <2>2, <2>4 DEF Typed
      <3>2. /\ ~IsTerminal(e) /\ x.stage = LatestStage(e) + 1
            /\ \A k \in DOMAIN g : g[k].stage # x.stage
        BY <1>3, <2>2, <2>4 DEF RecordGateResult, StageIsOpen
      <3>3. g = <<>> => x.stage = 1
        BY <3>2 DEF LatestStage
      <3>4. g # <<>> => x.stage = g[Len(g)].stage + 1
        BY <3>2 DEF LatestStage, Last
      <3>5. ASSUME g # <<>> PROVE g[Len(g)].status = "PASSED"
        <4>1. g[Len(g)] \in Gate
          BY <3>1, <3>5
        <4>2. g[Len(g)].status \notin TerminalStatuses
          BY <3>2, <3>5 DEF IsTerminal, LatestStatus, Last
        <4> QED BY <4>1, <4>2 DEF Gate, Statuses
      <3>6. i \in 1..(Len(g) + 1)
        BY <2>2, <2>4
      <3>7. Unbroken(g) /\ Differ(g)
        BY <1>1
      <3> HIDE DEF g, new
      <3>8. Unbroken(new) /\ Differ(new)
        BY <3>1, <3>2, <3>3, <3>4, <3>5, <3>6, <3>7, RunExtends
      <3> QED BY <3>8 DEF new
    <2> QED BY <2>3, <2>4
  <1> QED BY <1>2, <1>3, WhoWrites
-----------------------------------------------------------------------------
LEMMA InitInv == Init => IInv
  <1> SUFFICES ASSUME Init PROVE IInv
    OBVIOUS
  <1>1. Types
    <2>1. Typed
      BY DEF Init, Typed, Calls, NoCall, Steps
    <2> QED BY <2>1, FS_EmptySet DEF Types, Init
  <1>2. CallsOwn
    BY DEF Init, CallsOwn, NoCall
  <1>3. ASSUME NEW e \in Experiments
        PROVE  /\ gates[e] = <<>> /\ DOMAIN gates[e] = {}
               /\ Unbroken(gates[e]) /\ Differ(gates[e])
    BY DEF Init, Unbroken, Differ
  <1>4. StagesDiffer /\ GatesAreAnUnbrokenRun /\ ShadowReviewIsEarned
    BY <1>3 DEF StagesDiffer, GatesAreAnUnbrokenRun, ShadowReviewIsEarned, Unbroken
  <1>5. HoldoutReviewedForOneExperiment /\ SuccessorsFollowMissingData
    BY DEF Init, HoldoutReviewedForOneExperiment, SuccessorsFollowMissingData
  <1> QED BY <1>1, <1>2, <1>4, <1>5 DEF IInv

\* The registry keeps its promises together: what its tables and the calls
\* under way hold, and how they fit, is preserved by every step of
\* research/experiment_registry.py, whichever processes take them.
THEOREM RegistryInvariant == Spec => []IInv
  <1>1. ASSUME IInv, [Next]_vars PROVE IInv'
    <2>1. Types' /\ CallsOwn'
      BY <1>1, TypesInv, CallsOwnInv DEF IInv
    <2>2. HoldoutReviewedForOneExperiment'
      BY <1>1, ReviewsInv DEF IInv
    <2>3. ShadowReviewIsEarned'
      BY <1>1, EarnedInv DEF IInv
    <2>4. SuccessorsFollowMissingData'
      BY <1>1, SuccessorsInv DEF IInv
    <2>5. \A e \in Experiments : Unbroken(gates'[e]) /\ Differ(gates'[e])
      BY <1>1, GatesInv DEF IInv
    <2>6. StagesDiffer' /\ GatesAreAnUnbrokenRun'
      BY <2>5 DEF StagesDiffer, GatesAreAnUnbrokenRun, Unbroken
    <2> QED BY <2>1, <2>2, <2>3, <2>4, <2>6 DEF IInv
  <1> QED BY <1>1, InitInv, PTL DEF Spec

\* record_final_holdout_review claims, checks and inserts in separate
\* transactions, yet a sealed holdout is reviewed for one experiment only.
THEOREM OneReviewer == Spec => []HoldoutReviewedForOneExperiment
  BY RegistryInvariant, PTL DEF IInv

\* record_gate_result passes SHADOW_REVIEW only on a review that is still
\* there: the claim behind it never changes hands.
THEOREM ReviewEarned == Spec => []ShadowReviewIsEarned
  BY RegistryInvariant, PTL DEF IInv

\* register_experiment lets a successor follow only an experiment that ended
\* for want of data, and no later gate or clock reopens or relabels it.
THEOREM SuccessorsFollow == Spec => []SuccessorsFollowMissingData
  BY RegistryInvariant, PTL DEF IInv

\* record_gate_result keeps every experiment's gates one unbroken run of
\* stages, also when rows are inserted behind later ones by a clock set back.
THEOREM UnbrokenRun == Spec => []GatesAreAnUnbrokenRun
  BY RegistryInvariant, PTL DEF IInv

\* What is counted is finite, so every count is a number: the tables and the
\* calls keep their types.
THEOREM RegistryTypes == Spec => []TypeOK
  <1>1. IInv => TypeOK
    BY DEF IInv, Types, Typed, Gate, Calls, Steps, TypeOK
  <1> QED BY <1>1, RegistryInvariant, PTL

\* record_gate_result counts the trials again when the stress gate is recorded:
\* a pass covers every candidate of its campaign that is on record by then, also
\* those another process committed after the statistics were computed.
THEOREM StressCountCurrent == Spec => StressCountIsCurrent
  <1> DEFINE Current == \A e \in Experiments : Len(gates'[e]) > Len(gates[e]) =>
          \A i \in DOMAIN gates'[e] :
              LET g == gates'[e][i] IN
              /\ g.stage = STRESS_MONTE_CARLO /\ g.status = "PASSED"
              /\ \A j \in DOMAIN gates[e] : gates[e][j].stage # g.stage
              => g.count >= Cardinality({t \in trials : t.kind = "candidate"
                                /\ Campaign[t.exp] = Campaign[e]})
  <1>1. ASSUME IInv, [Next]_vars
        PROVE  [Current]_vars
    <2> SUFFICES ASSUME NEW e \in Experiments, NEW i \in DOMAIN gates'[e],
                        gates'[e][i].stage = STRESS_MONTE_CARLO,
                        gates'[e][i].status = "PASSED",
                        \A j \in DOMAIN gates[e] : gates[e][j].stage # gates'[e][i].stage
                 PROVE  gates'[e][i].count >=
                            Cardinality({t \in trials : t.kind = "candidate"
                                /\ Campaign[t.exp] = Campaign[e]})
      OBVIOUS
    <2>1. PICK w \in Writers, stage \in Stages, status \in Statuses :
            /\ RecordGateResult(w, e, stage, status)
            /\ gates'[e][i].stage = stage /\ gates'[e][i].status = status
            /\ gates'[e][i].count = call[w].count
      BY <1>1, NewGate DEF IInv
    <2>2. gates'[e][i].count = ValidationTrialCount(e)
      BY <2>1 DEF RecordGateResult, EarnsPass, ArtifactMatches
    <2> DEFINE mine == {t \in trials : t.kind = "candidate"
                                       /\ Campaign[t.exp] = Campaign[e]}
    <2>3. /\ ValidationTrialCount(e) \in Nat /\ IsFiniteSet(Candidates(Scope(e)))
          /\ ValidationTrialCount(e) >= Cardinality(Candidates(Scope(e)))
      BY <1>1, CountType DEF IInv, Types
    <2>4. mine \in SUBSET Candidates(Scope(e))
      BY DEF Candidates, Scope
    <2> HIDE DEF mine
    <2>5. /\ Cardinality(mine) <= Cardinality(Candidates(Scope(e)))
          /\ Cardinality(mine) \in Nat /\ Cardinality(Candidates(Scope(e))) \in Nat
      BY <2>3, <2>4, FS_Subset, FS_CardinalityType
    <2> QED BY <2>2, <2>3, <2>5 DEF mine
  <1> QED BY <1>1, RegistryInvariant, PTL DEF StressCountIsCurrent, Spec
-----------------------------------------------------------------------------
(* BoundedResearch *)

RunSteps == {"idle", "claimed", "registered", "claiming", "planning",
             "inserting", "ready", "ran"}
Runs(F) == [step : RunSteps, exp : Automated \cup {None}, row : Rows \cup {None},
            floor : F]

\* The claims and the invocations, with whatever set the floors come from.
RunTypes ==
    /\ ran \in [Automated -> Nat]
    /\ \E F : 0 \in F /\ run \in [Coordinators -> Runs(F)]

Active(c) == run[c].step # "idle"
Source(c) == SnapshotOf[run[c].exp]

\* An invocation under way holds the claim on its snapshot alone, and nothing
\* made from that snapshot has run before it starts the runner.
ClaimsExclude ==
    \A c \in Coordinators : Active(c) =>
        /\ run[c].exp \in Automated /\ Source(c) \in snapshots
        /\ \A d \in Coordinators \ {c} : Active(d) => Source(d) # Source(c)
        /\ run[c].step # "ran" => \A e \in Automated :
                SnapshotOf[e] = Source(c) => ran[e] = 0

\* What ran did so once, on a claimed snapshot, alone.
RunsPaid ==
    \A e \in Automated : ran[e] # 0 =>
        /\ ran[e] = 1 /\ SnapshotOf[e] \in snapshots
        /\ \A d \in Automated \ {e} : SnapshotOf[d] = SnapshotOf[e] => ran[d] = 0

RunInv == RunTypes /\ ClaimsExclude /\ RunsPaid
-----------------------------------------------------------------------------
\* What a step does to an invocation: it goes on with its experiment, returns,
\* or leaves everything the claims are about alone.
Others(c) == \A d \in Coordinators \ {c} : run'[d] = run[d]

GoesOn(c) ==
    /\ run[c].step \notin {"idle", "ran"}
    /\ run'[c].step \notin {"idle", "ran"} /\ run'[c].exp = run[c].exp
    /\ \E F : 0 \in F /\ run' \in [Coordinators -> Runs(F)]
    /\ Others(c) /\ UNCHANGED <<snapshots, ran>>

Returns(c) == Return(c) /\ UNCHANGED <<snapshots, ran>>

Rests == UNCHANGED <<run, snapshots, ran>>

\* Going on to another step is only that.
LEMMA GotoGoesOn ==
    ASSUME NEW F, 0 \in F, run \in [Coordinators -> Runs(F)], NEW c \in Coordinators,
           NEW step \in RunSteps \ {"idle", "ran"}, Goto(c, step),
           run[c].step \notin {"idle", "ran"}, UNCHANGED <<snapshots, ran>>
    PROVE  GoesOn(c)
  <1>1. run[c] \in Runs(F)
    OBVIOUS
  <1> DEFINE new == [run[c] EXCEPT !.step = step]
  <1>2. run' = [run EXCEPT ![c] = new]
    BY DEF Goto
  <1>3. new \in Runs(F) /\ new.step = step /\ new.exp = run[c].exp
    BY <1>1 DEF Runs
  <1> HIDE DEF new
  <1>4. run' \in [Coordinators -> Runs(F)] /\ run'[c] = new /\ Others(c)
    BY <1>2, <1>3 DEF Others
  <1> QED BY <1>3, <1>4 DEF GoesOn

LEMMA PlanGoesOn ==
    ASSUME NEW F, 0 \in F, run \in [Coordinators -> Runs(F)], NEW c \in Coordinators,
           PlanTrial(c)
    PROVE  GoesOn(c) \/ Returns(c)
  <1>1. run[c] \in Runs(F)
    OBVIOUS
  <1>2. CASE Return(c)
    BY <1>2 DEF PlanTrial, Returns
  <1>3. ASSUME NEW step \in {"planning", "inserting"}, NEW row \in Rows \cup {None},
               run' = [run EXCEPT ![c].step = step, ![c].row = row]
        PROVE  GoesOn(c)
    <2> DEFINE new == [run[c] EXCEPT !.step = step, !.row = row]
    <2>1. run' = [run EXCEPT ![c] = new]
      BY <1>3
    <2>2. new \in Runs(F) /\ new.step = step /\ new.exp = run[c].exp
      BY <1>1 DEF Runs, RunSteps
    <2> HIDE DEF new
    <2>3. run' \in [Coordinators -> Runs(F)] /\ run'[c] = new /\ Others(c)
      BY <2>1, <2>2 DEF Others
    <2>4. run[c].step \notin {"idle", "ran"} /\ UNCHANGED <<snapshots, ran>>
      BY DEF PlanTrial
    <2> QED BY <2>2, <2>3, <2>4 DEF GoesOn
  <1>4. CASE ~Return(c)
    <2>1. CASE run[c].step = "planning"
      <3>1. PICK row \in NextRows(run[c].exp) :
                run' = [run EXCEPT ![c].step = "inserting", ![c].row = row]
        BY <1>4, <2>1 DEF PlanTrial
      <3>2. row \in Rows
        BY <3>1 DEF NextRows, Plan
      <3> QED BY <1>3, <3>1, <3>2
    <2>2. CASE run[c].step # "planning"
      <3>1. run' = [run EXCEPT ![c].step = "planning", ![c].row = None]
        BY <2>2 DEF PlanTrial
      <3> QED BY <1>3, <3>1
    <2> QED BY <2>1, <2>2
  <1> QED BY <1>2, <1>4

LEMMA Moves ==
    ASSUME RunTypes, [BoundedNext]_allVars
    PROVE  \/ Rests
           \/ \E c \in Coordinators : GoesOn(c) \/ Returns(c) \/ StartRunner(c)
           \/ \E c \in Coordinators, e \in Automated : ClaimSnapshot(c, e)
  <1>1. PICK F : 0 \in F /\ run \in [Coordinators -> Runs(F)]
    BY DEF RunTypes
  <1>2. CASE UNCHANGED allVars \/ (Next /\ UNCHANGED boundedVars)
    BY <1>2 DEF allVars, boundedVars, Rests
  <1>3. ASSUME NEW c \in Coordinators, Coordinate(c)
        PROVE  \/ Rests \/ GoesOn(c) \/ Returns(c) \/ StartRunner(c)
               \/ \E e \in Automated : ClaimSnapshot(c, e)
    <2>1. CASE RegisterMaterial(c)
      <3>1. CASE Return(c)
        BY <2>1, <3>1 DEF RegisterMaterial, Returns
      <3>2. CASE Goto(c, "registered")
        BY <1>1, <2>1, <3>2, GotoGoesOn DEF RegisterMaterial, RunSteps
      <3> QED BY <2>1, <3>1, <3>2 DEF RegisterMaterial
    <2>2. CASE ClaimExecution(c)
      <3>1. CASE Return(c)
        BY <2>2, <3>1 DEF ClaimExecution, Returns
      <3>2. CASE Goto(c, "claiming") \/ Goto(c, "planning")
        BY <1>1, <2>2, <3>2, GotoGoesOn DEF ClaimExecution, RunSteps
      <3> QED BY <2>2, <3>1, <3>2 DEF ClaimExecution
    <2>3. CASE PlanTrial(c)
      BY <1>1, <2>3, PlanGoesOn
    <2>4. CASE ReadFloor(c)
      <3> DEFINE n == ValidationTrialCount(run[c].exp)
                 G == F \cup {n}
                 new == [run[c] EXCEPT !.step = "ready", !.floor = n]
      <3>1. run' = [run EXCEPT ![c] = new]
        BY <2>4 DEF ReadFloor
      <3> HIDE DEF n
      <3>2. run[c] \in Runs(F)
        BY <1>1
      <3>3. new \in Runs(G) /\ new.step = "ready" /\ new.exp = run[c].exp
        BY <3>2 DEF Runs, RunSteps
      <3>4. run \in [Coordinators -> Runs(G)] /\ 0 \in G
        BY <1>1 DEF Runs
      <3> HIDE DEF new, G
      <3>5. run' \in [Coordinators -> Runs(G)] /\ run'[c] = new /\ Others(c)
        BY <3>1, <3>3, <3>4 DEF Others
      <3>6. run[c].step = "planning" /\ UNCHANGED <<snapshots, ran>>
        BY <2>4 DEF ReadFloor
      <3> QED BY <3>3, <3>4, <3>5, <3>6 DEF GoesOn
    <2>5. CASE \E status \in Statuses : RecordEvidence(c, status)
      BY <2>5 DEF RecordEvidence, Rests
    <2>6. CASE Finish(c)
      BY <2>6 DEF Finish, Returns
    <2> QED BY <1>3, <2>1, <2>2, <2>3, <2>4, <2>5, <2>6 DEF Coordinate
  <1> QED BY <1>2, <1>3 DEF BoundedNext
-----------------------------------------------------------------------------
LEMMA InitRunInv == BoundedInit => RunInv
  <1> SUFFICES ASSUME BoundedInit PROVE RunInv
    OBVIOUS
  <1>1. Idle \in Runs({0})
    BY DEF Idle, Runs, RunSteps
  <1>2. run \in [Coordinators -> Runs({0})] /\ ran \in [Automated -> Nat]
    BY <1>1 DEF BoundedInit
  <1>3. RunTypes
    BY <1>2 DEF RunTypes
  <1>4. ClaimsExclude /\ RunsPaid
    BY DEF BoundedInit, ClaimsExclude, RunsPaid, Active, Idle
  <1> QED BY <1>3, <1>4 DEF RunInv

\* The first statement of an invocation wins its snapshot or does nothing.
LEMMA ClaimInv ==
    ASSUME RunInv, NEW c \in Coordinators, NEW e \in Automated, ClaimSnapshot(c, e)
    PROVE  RunInv'
  <1>1. PICK F : 0 \in F /\ run \in [Coordinators -> Runs(F)]
    BY DEF RunInv, RunTypes
  <1> DEFINE new == [Idle EXCEPT !.step = "claimed", !.exp = e]
  <1>2. new \in Runs(F) /\ new.step = "claimed" /\ new.exp = e
    BY <1>1 DEF Idle, Runs, RunSteps
  <1>3. run' = [run EXCEPT ![c] = new]
    BY DEF ClaimSnapshot
  <1> HIDE DEF new
  <1>4. /\ run' \in [Coordinators -> Runs(F)] /\ run'[c] = new
        /\ \A d \in Coordinators \ {c} : run'[d] = run[d]
    BY <1>1, <1>2, <1>3
  <1>5. /\ SnapshotOf[e] \notin snapshots /\ ran' = ran
        /\ snapshots' = snapshots \cup {SnapshotOf[e]}
    BY DEF ClaimSnapshot, ClaimWon
  <1>6. RunTypes'
    BY <1>1, <1>4, <1>5 DEF RunTypes, RunInv
  <1>7. \A x \in Automated : SnapshotOf[x] = SnapshotOf[e] => ran[x] = 0
    BY <1>5 DEF RunInv, RunsPaid
  <1>8. ClaimsExclude'
    <2>1. ASSUME NEW d \in Coordinators \ {c}, Active(d)
          PROVE  Source(d) \in snapshots /\ Source(d) # SnapshotOf[e]
      BY <1>5, <2>1 DEF RunInv, ClaimsExclude
    <2>2. ASSUME NEW d \in Coordinators \ {c}, Active(d)'
          PROVE  /\ run'[d] = run[d] /\ Active(d) /\ Source(d) = Source(d)'
      BY <1>4, <2>2 DEF Active, Source
    <2>3. Source(c)' = SnapshotOf[e] /\ run'[c].exp = e
      BY <1>2, <1>4 DEF Source
    <2>4. ASSUME NEW d \in Coordinators, Active(d)', d # c
          PROVE  /\ run'[d].exp \in Automated /\ Source(d)' \in snapshots'
                 /\ Source(d)' # Source(c)'
                 /\ \A x \in Coordinators \ {d} : Active(x)' => Source(x)' # Source(d)'
                 /\ run'[d].step # "ran" => \A x \in Automated :
                        SnapshotOf[x] = Source(d)' => ran'[x] = 0
      <3>1. /\ run'[d] = run[d] /\ Active(d) /\ Source(d) = Source(d)'
        BY <2>2, <2>4
      <3>2. Source(d) \in snapshots /\ Source(d) # SnapshotOf[e]
        BY <2>1, <2>4, <3>1
      <3>3. ASSUME NEW x \in Coordinators \ {d}, Active(x)'
            PROVE  Source(x)' # Source(d)'
        <4>1. CASE x = c
          BY <2>3, <3>1, <3>2, <4>1
        <4>2. CASE x # c
          <5>1. Active(x) /\ Source(x) = Source(x)'
            BY <2>2, <3>3, <4>2
          <5> QED BY <3>1, <5>1, <3>3 DEF RunInv, ClaimsExclude
        <4> QED BY <4>1, <4>2
      <3> QED BY <1>5, <2>3, <3>1, <3>2, <3>3 DEF RunInv, ClaimsExclude
    <2>5. /\ run'[c].exp \in Automated /\ Source(c)' \in snapshots'
          /\ \A x \in Coordinators \ {c} : Active(x)' => Source(x)' # Source(c)'
          /\ \A x \in Automated : SnapshotOf[x] = Source(c)' => ran'[x] = 0
      BY <1>5, <1>7, <2>3, <2>4
    <2> QED BY <2>4, <2>5 DEF ClaimsExclude
  <1>9. RunsPaid'
    BY <1>5 DEF RunInv, RunsPaid
  <1> QED BY <1>6, <1>8, <1>9 DEF RunInv

\* Going on and returning leave the other claims as they are.
LEMMA GoInv ==
    ASSUME RunInv, NEW c \in Coordinators, GoesOn(c) \/ Returns(c)
    PROVE  RunInv'
  <1>1. PICK F : 0 \in F /\ run \in [Coordinators -> Runs(F)]
    BY DEF RunInv, RunTypes
  <1>2. Others(c) /\ snapshots' = snapshots /\ ran' = ran
    BY <1>1 DEF GoesOn, Returns, Return, Others
  <1>3. \E G : 0 \in G /\ run' \in [Coordinators -> Runs(G)]
    <2>1. CASE GoesOn(c)
      BY <2>1 DEF GoesOn
    <2>2. CASE Returns(c)
      <3>1. Idle \in Runs(F)
        BY <1>1 DEF Idle, Runs, RunSteps
      <3> QED BY <1>1, <2>2, <3>1 DEF Returns, Return
    <2> QED BY <2>1, <2>2
  <1>4. Active(c)' => /\ Active(c) /\ run[c].step # "ran"
                      /\ run'[c].exp = run[c].exp
    <2>1. CASE GoesOn(c)
      BY <2>1 DEF GoesOn, Active
    <2>2. CASE Returns(c)
      <3>1. run'[c] = Idle
        BY <1>1, <2>2 DEF Returns, Return
      <3> QED BY <3>1 DEF Active, Idle
    <2> QED BY <2>1, <2>2
  <1>5. ASSUME NEW d \in Coordinators, Active(d)'
        PROVE  /\ Active(d) /\ run'[d].exp = run[d].exp /\ Source(d)' = Source(d)
               /\ run'[d].step # "ran" => run[d].step # "ran"
    BY <1>2, <1>4, <1>5 DEF Others, Active, Source
  <1>6. ClaimsExclude'
    BY <1>2, <1>5 DEF RunInv, ClaimsExclude
  <1> QED BY <1>2, <1>3, <1>6 DEF RunInv, RunTypes, RunsPaid

\* The runner starts for the invocation that holds the claim.
LEMMA StartInv ==
    ASSUME RunInv, NEW c \in Coordinators, StartRunner(c)
    PROVE  RunInv'
  <1>1. PICK F : 0 \in F /\ run \in [Coordinators -> Runs(F)]
    BY DEF RunInv, RunTypes
  <1> DEFINE e == run[c].exp
             new == [run[c] EXCEPT !.step = "ran"]
  <1>2. run[c] \in Runs(F) /\ run[c].step = "ready" /\ Active(c)
    BY <1>1 DEF StartRunner, Active
  <1>3. /\ e \in Automated /\ SnapshotOf[e] \in snapshots /\ Source(c) = SnapshotOf[e]
        /\ \A d \in Coordinators \ {c} : Active(d) => Source(d) # Source(c)
        /\ \A x \in Automated : SnapshotOf[x] = Source(c) => ran[x] = 0
    BY <1>2 DEF RunInv, ClaimsExclude, Source
  <1>4. run' = [run EXCEPT ![c] = new]
    BY DEF StartRunner, Goto
  <1>5. new \in Runs(F) /\ new.step = "ran" /\ new.exp = e
    BY <1>2 DEF Runs, RunSteps
  <1>6. ran' = [ran EXCEPT ![e] = @ + 1] /\ snapshots' = snapshots
    BY DEF StartRunner
  <1> HIDE DEF new, e
  <1>7. /\ run' \in [Coordinators -> Runs(F)] /\ run'[c] = new
        /\ \A d \in Coordinators \ {c} : run'[d] = run[d]
    BY <1>1, <1>4, <1>5
  <1>8. /\ ran' \in [Automated -> Nat] /\ ran'[e] = 1
        /\ \A x \in Automated \ {e} : ran'[x] = ran[x]
    BY <1>3, <1>6 DEF RunInv, RunTypes
  <1>9. RunTypes'
    BY <1>1, <1>7, <1>8 DEF RunTypes
  <1>10. ASSUME NEW d \in Coordinators, Active(d)'
         PROVE  Active(d) /\ run'[d].exp = run[d].exp /\ Source(d)' = Source(d)
    <2>1. CASE d = c
      BY <1>2, <1>5, <1>7, <2>1 DEF Source, e
    <2>2. CASE d # c
      BY <1>7, <1>10, <2>2 DEF Active, Source
    <2> QED BY <2>1, <2>2
  <1>11. ClaimsExclude'
    <2> SUFFICES ASSUME NEW d \in Coordinators, Active(d)'
                 PROVE  /\ run'[d].exp \in Automated /\ Source(d)' \in snapshots'
                        /\ \A x \in Coordinators \ {d} :
                                Active(x)' => Source(x)' # Source(d)'
                        /\ run'[d].step # "ran" => \A x \in Automated :
                                SnapshotOf[x] = Source(d)' => ran'[x] = 0
      BY DEF ClaimsExclude
    <2>1. /\ run'[d].exp \in Automated /\ Source(d)' \in snapshots'
          /\ \A x \in Coordinators \ {d} : Active(x)' => Source(x)' # Source(d)'
      BY <1>6, <1>10 DEF RunInv, ClaimsExclude
    <2>2. ASSUME run'[d].step # "ran", NEW x \in Automated, SnapshotOf[x] = Source(d)'
          PROVE  ran'[x] = 0
      <3>1. d # c
        BY <1>5, <1>7, <2>2
      <3>2. Active(d) /\ Source(d)' = Source(d) /\ run[d].step # "ran"
        BY <1>7, <1>10, <2>2, <3>1
      <3>3. Source(d) # SnapshotOf[e]
        BY <1>3, <3>1, <3>2
      <3>4. ran[x] = 0
        BY <2>2, <3>2 DEF RunInv, ClaimsExclude
      <3> QED BY <1>8, <2>2, <3>2, <3>3, <3>4
    <2> QED BY <2>1, <2>2
  <1>12. RunsPaid'
    <2> SUFFICES ASSUME NEW x \in Automated, ran'[x] # 0
                 PROVE  /\ ran'[x] = 1 /\ SnapshotOf[x] \in snapshots'
                        /\ \A d \in Automated \ {x} :
                              SnapshotOf[d] = SnapshotOf[x] => ran'[d] = 0
      BY DEF RunsPaid
    <2>1. CASE x = e
      BY <1>3, <1>6, <1>8, <2>1
    <2>2. CASE x # e
      <3>1. ran[x] # 0 /\ SnapshotOf[x] # SnapshotOf[e]
        BY <1>3, <1>8, <2>2
      <3> QED BY <1>6, <1>8, <2>2, <3>1 DEF RunInv, RunsPaid
    <2> QED BY <2>1, <2>2
  <1> QED BY <1>9, <1>11, <1>12 DEF RunInv

LEMMA RunStep == RunInv /\ [BoundedNext]_allVars => RunInv'
  <1> SUFFICES ASSUME RunInv, [BoundedNext]_allVars PROVE RunInv'
    OBVIOUS
  <1>1. CASE Rests
    BY <1>1 DEF Rests, RunInv, RunTypes, ClaimsExclude, RunsPaid, Active, Source
  <1> QED BY <1>1, Moves, ClaimInv, GoInv, StartInv DEF RunInv

\* Claims exclude one another and every run is paid for by one, whatever dies,
\* repeats or writes the registry by hand.
THEOREM BoundedInvariant == BoundedSpec => []RunInv
  BY InitRunInv, RunStep, PTL DEF BoundedSpec

\* claim_bounded_research_snapshot is taken before anything else, so one
\* feature snapshot pays for one unattended run, over all invocations,
\* experiments built from it, crashes and repeats.
THEOREM RunPaidOnce == BoundedSpec => []OneRunPerSnapshot
  <1>1. RunInv => OneRunPerSnapshot
    <2> SUFFICES ASSUME RunInv, NEW s \in Snapshots
                 PROVE  LET used == {e \in Automated : SnapshotOf[e] = s /\ ran[e] > 0}
                        IN /\ Cardinality(used) <= 1
                           /\ \A e \in used : ran[e] = 1
      BY DEF OneRunPerSnapshot
    <2> DEFINE used == {e \in Automated : SnapshotOf[e] = s /\ ran[e] > 0}
    <2>1. \A e \in used : ran[e] # 0 /\ ran[e] = 1
      BY DEF RunInv, RunTypes, RunsPaid
    <2>2. \A e, d \in used : e = d
      BY <2>1 DEF RunInv, RunsPaid
    <2> HIDE DEF used
    <2>3. Cardinality(used) <= 1
      <3>1. CASE used = {}
        BY <3>1, FS_EmptySet
      <3>2. CASE used # {}
        <4>1. PICK e \in used : used = {e}
          BY <2>2, <3>2
        <4>2. Cardinality({e}) = 1
          BY FS_Singleton
        <4> QED BY <4>1, <4>2
      <3> QED BY <3>1, <3>2
    <2> QED BY <2>1, <2>3 DEF used
  <1> QED BY <1>1, BoundedInvariant, PTL
-----------------------------------------------------------------------------
\* What an invocation counts is finite, and it counted its own plan.
OwnCandidates(e) == {row \in Rows : row.exp = e /\ row.kind = "candidate"}

FloorsCover ==
    \A c \in Coordinators : run[c].step \in {"ready", "ran"} /\ run[c].exp \in Smoke =>
        run[c].floor >= Cardinality(OwnCandidates(run[c].exp))

CountInv ==
    /\ RunInv
    /\ registered \subseteq Experiments /\ IsFiniteSet(registered)
    /\ IsFiniteSet(trials)
    /\ FloorsCover

\* At most one trial is added in a step, and one experiment registered.
LEMMA CountsGrow ==
    ASSUME CountInv, [BoundedNext]_allVars
    PROVE  /\ registered' \subseteq Experiments /\ IsFiniteSet(registered')
           /\ IsFiniteSet(trials')
  <1>1. /\ trials' = trials \/ \E row : trials' = trials \cup {row}
        /\ registered' = registered
           \/ \E e \in Experiments : registered' = registered \cup {e}
    <2>1. CASE UNCHANGED allVars
      BY <2>1 DEF allVars, vars
    <2>2. CASE Next
      <3>1. [Next]_vars
        BY <2>2
      <3> QED BY <3>1, WhoWrites DEF InsertTrial, RegisterExperiment
    <2>3. ASSUME NEW c \in Coordinators, Coordinate(c)
          PROVE  /\ trials' = trials \/ \E row : trials' = trials \cup {row}
                 /\ registered' = registered
                    \/ \E e \in Experiments : registered' = registered \cup {e}
      <3>1. run[c].step = "claimed" => run[c].exp \in Experiments
        BY CoordinatorAssumption DEF CountInv, RunInv, ClaimsExclude, Active
      <3> QED
        BY <2>3, <3>1 DEF Coordinate, ClaimSnapshot, RegisterMaterial, ClaimExecution,
           PlanTrial, ReadFloor, StartRunner, RecordEvidence, Finish, vars
    <2> QED BY <2>1, <2>2, <2>3 DEF BoundedNext
  <1>2. \A x : IsFiniteSet(trials \cup {x}) /\ IsFiniteSet(registered \cup {x})
    BY FS_AddElement DEF CountInv
  <1> QED BY <1>1, <1>2 DEF CountInv

\* Only ReadFloor sets a floor.
LEMMA FloorsStay ==
    ASSUME RunTypes, [BoundedNext]_allVars, NEW c \in Coordinators,
           run'[c].step \in {"ready", "ran"}
    PROVE  \/ /\ run[c].step \in {"ready", "ran"}
              /\ run'[c].exp = run[c].exp /\ run'[c].floor = run[c].floor
           \/ /\ ReadFloor(c) /\ run'[c].exp = run[c].exp
              /\ run'[c].floor = ValidationTrialCount(run[c].exp)
  <1>1. PICK F : run \in [Coordinators -> Runs(F)]
    BY DEF RunTypes
  <1>2. CASE UNCHANGED run
    BY <1>2
  <1>3. ASSUME NEW d \in Coordinators, NEW new, run' = [run EXCEPT ![d] = new],
               new.step \notin {"ready", "ran"}
        PROVE  run'[c] = run[c]
    BY <1>1, <1>3
  <1>4. ASSUME NEW d \in Coordinators, NEW step, run' = [run EXCEPT ![d].step = step],
               step \notin {"ready", "ran"}
        PROVE  run'[c] = run[c]
    BY <1>1, <1>4 DEF Runs
  <1>5. ASSUME NEW d \in Coordinators, ReadFloor(d)
        PROVE  \/ run'[c] = run[c]
               \/ /\ d = c /\ run'[c].exp = run[c].exp
                  /\ run'[c].floor = ValidationTrialCount(run[c].exp)
    <2> DEFINE n == ValidationTrialCount(run[d].exp)
    <2>1. run' = [run EXCEPT ![d] = [run[d] EXCEPT !.step = "ready", !.floor = n]]
      BY <1>5 DEF ReadFloor
    <2>2. run[d] \in Runs(F)
      BY <1>1
    <2> HIDE DEF n
    <2>3. \/ run'[c] = run[c]
          \/ d = c /\ run'[c].exp = run[c].exp /\ run'[c].floor = n
      BY <1>1, <2>1, <2>2 DEF Runs
    <2> QED BY <2>3 DEF n
  <1>6. ASSUME NEW d \in Coordinators, StartRunner(d)
        PROVE  /\ run[c].step \in {"ready", "ran"}
               /\ run'[c].exp = run[c].exp /\ run'[c].floor = run[c].floor
    <2>1. run[c] \in Runs(F)
      BY <1>1
    <2> QED BY <1>1, <1>6, <2>1 DEF StartRunner, Goto, Runs
  <1>7. ASSUME NEW d \in Coordinators,
               \/ \E e \in Automated : ClaimSnapshot(d, e)
               \/ Return(d) \/ Goto(d, "registered") \/ Goto(d, "claiming")
               \/ Goto(d, "planning") \/ PlanTrial(d)
        PROVE  run'[c] = run[c]
    <2>1. CASE \E e \in Automated : ClaimSnapshot(d, e)
      <3>1. PICK e \in Automated :
                run' = [run EXCEPT ![d] = [Idle EXCEPT !.step = "claimed", !.exp = e]]
        BY <2>1 DEF ClaimSnapshot
      <3> QED BY <1>3, <3>1 DEF Idle
    <2>2. CASE Return(d)
      BY <1>3, <2>2 DEF Return, Idle
    <2>3. CASE Goto(d, "registered") \/ Goto(d, "claiming") \/ Goto(d, "planning")
      BY <1>4, <2>3 DEF Goto
    <2>4. CASE PlanTrial(d) /\ ~Return(d)
      <3>1. \/ \E row \in NextRows(run[d].exp) :
                  run' = [run EXCEPT ![d].step = "inserting", ![d].row = row]
            \/ run' = [run EXCEPT ![d].step = "planning", ![d].row = None]
        BY <2>4 DEF PlanTrial
      <3>2. PICK new : /\ run' = [run EXCEPT ![d] = new]
                       /\ new.step \notin {"ready", "ran"}
        <4>1. run[d] \in Runs(F)
          BY <1>1
        <4>2. ASSUME NEW step \in {"inserting", "planning"}, NEW row,
                     run' = [run EXCEPT ![d].step = step, ![d].row = row]
              PROVE  \E new : /\ run' = [run EXCEPT ![d] = new]
                              /\ new.step \notin {"ready", "ran"}
          <5> DEFINE new == [run[d] EXCEPT !.step = step, !.row = row]
          <5>1. run' = [run EXCEPT ![d] = new]
            BY <4>2
          <5>2. new.step = step
            BY <4>1 DEF Runs
          <5> HIDE DEF new
          <5> QED BY <5>1, <5>2
        <4> QED BY <3>1, <4>2
      <3> QED BY <1>3, <3>2
    <2> QED BY <1>7, <2>1, <2>2, <2>3, <2>4
  <1>8. \/ UNCHANGED run
        \/ \E d \in Coordinators :
             \/ ReadFloor(d) \/ StartRunner(d)
             \/ \E e \in Automated : ClaimSnapshot(d, e)
             \/ Return(d) \/ Goto(d, "registered") \/ Goto(d, "claiming")
             \/ Goto(d, "planning") \/ PlanTrial(d)
    BY DEF BoundedNext, Coordinate, RegisterMaterial, ClaimExecution, RecordEvidence,
           Finish, allVars, boundedVars
  <1>9. CASE run'[c] = run[c]
    BY <1>9
  <1> QED BY <1>2, <1>5, <1>6, <1>7, <1>8, <1>9

LEMMA CountsInv ==
    ASSUME CountInv, RunInv', [BoundedNext]_allVars
    PROVE  CountInv'
  <1>1. ASSUME NEW c \in Coordinators, run'[c].step \in {"ready", "ran"},
               run'[c].exp \in Smoke
        PROVE  run'[c].floor >= Cardinality(OwnCandidates(run'[c].exp))
    <2>1. CASE ReadFloor(c) /\ run'[c].exp = run[c].exp
               /\ run'[c].floor = ValidationTrialCount(run[c].exp)
      <3> DEFINE e == run[c].exp
      <3>1. PlanComplete(e)
        BY <1>1, <2>1 DEF ReadFloor
      <3>2. OwnCandidates(e) \in SUBSET Candidates(Scope(e))
        BY <3>1 DEF OwnCandidates, PlanComplete, Plan, Candidates, Scope
      <3> HIDE DEF e
      <3>3. /\ ValidationTrialCount(e) \in Nat /\ IsFiniteSet(Candidates(Scope(e)))
            /\ ValidationTrialCount(e) >= Cardinality(Candidates(Scope(e)))
        BY CountType DEF CountInv
      <3>4. /\ Cardinality(OwnCandidates(e)) <= Cardinality(Candidates(Scope(e)))
            /\ Cardinality(OwnCandidates(e)) \in Nat
            /\ Cardinality(Candidates(Scope(e))) \in Nat
        BY <3>2, <3>3, FS_Subset, FS_CardinalityType
      <3>5. ValidationTrialCount(e) >= Cardinality(OwnCandidates(e))
        BY <3>3, <3>4
      <3> QED BY <2>1, <3>5 DEF e
    <2>2. CASE /\ run[c].step \in {"ready", "ran"}
               /\ run'[c].exp = run[c].exp /\ run'[c].floor = run[c].floor
      BY <1>1, <2>2 DEF CountInv, FloorsCover
    <2> QED BY <1>1, <2>1, <2>2, FloorsStay DEF CountInv, RunInv
  <1>2. FloorsCover'
    BY <1>1 DEF FloorsCover, OwnCandidates
  <1> QED BY <1>2, CountsGrow DEF CountInv

\* What an invocation corrects for is a number that covers its own plan.
THEOREM CountInvariant == BoundedSpec => []CountInv
  <1>1. BoundedInit => CountInv
    BY InitRunInv, FS_EmptySet DEF BoundedInit, Init, CountInv, FloorsCover, Idle
  <1>2. CountInv /\ [BoundedNext]_allVars => CountInv'
    BY CountsInv, RunStep DEF CountInv
  <1> QED BY <1>1, <1>2, PTL DEF BoundedSpec

\* run_bounded_research_coordinator reads the trial count after its plan is on
\* record, so no run corrects for fewer candidates than it makes itself.
THEOREM RunnerCounts == BoundedSpec => []RunnerCountsItsOwnPlan
  <1>1. CountInv => RunnerCountsItsOwnPlan
    BY DEF CountInv, FloorsCover, OwnCandidates, RunnerCountsItsOwnPlan
  <1> QED BY <1>1, CountInvariant, PTL
=============================================================================
