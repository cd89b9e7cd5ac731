------------------------- MODULE ExperimentRegistry -------------------------
(* research/experiment_registry.py: the append-only SQLite registry that the  *)
(* command line and the bounded coordinator write from several processes.     *)
(*                                                                            *)
(* A write that goes through _run_write holds BEGIN IMMEDIATE from its first  *)
(* read to its commit and is one step.  record_trial and the final review do  *)
(* not: their reads run in autocommit mode and the INSERT opens a transaction *)
(* of its own, so each is several steps, with the process's place in the call *)
(* kept in call[w].  Refused calls raise and change nothing.                  *)
(*                                                                            *)
(* An experiment name stands for one material fingerprint, so everything its  *)
(* immutable spec fixes is a constant.  All experiments test one hypothesis   *)
(* with one template on distinct data signatures.                             *)
EXTENDS Integers, FiniteSets, SequencesExt

CONSTANTS
    Experiments,     \* material experiments that may be registered
    Writers,         \* processes running registry commands
    Holdouts,        \* sealed data partitions
    Rows,            \* the content-addressed trial rows that may be recorded
    None,            \* SQL NULL
    HoldoutOf,       \* spec.holdout_id
    Campaign,        \* spec.research_campaign_id
    Predecessor,     \* spec.predecessor_experiment_id
    Floor,           \* spec.predecessor_trial_count_floor
    ClockMayStepBack,\* whether the wall clock may be set back
    MaxGates         \* bound: gates recorded for each experiment

\* Which table dimension a row belongs to: a counted candidate or regime split,
\* another recorded dimension, or the final holdout review.
Kinds == {"candidate", "surface", "final_holdout_review"}

TerminalStatuses == {"REJECTED", "INSUFFICIENT_DATA"}
Statuses == {"PASSED"} \cup TerminalStatuses

ASSUME SpecAssumption ==
    /\ None \notin Experiments \cup Holdouts \cup Statuses /\ None \notin Rows
    /\ Rows \subseteq [exp : Experiments, kind : Kinds, value : STRING]
    /\ HoldoutOf \in [Experiments -> Holdouts \cup {None}]
    /\ Predecessor \in [Experiments -> Experiments \cup {None}]
    /\ Floor \in [Experiments -> Nat]
    /\ DOMAIN Campaign = Experiments
    /\ ClockMayStepBack \in BOOLEAN
    /\ MaxGates \in [Experiments -> Nat]
    /\ \A e \in Experiments : Predecessor[e] # None =>
            Floor[e] > 0 /\ Campaign[e] # None

VARIABLES
    registered,  \* experiments
    reserved,    \* holdout_reservations
    claims,      \* final_holdout_review_claims: who owns a holdout's review
    trials,      \* experiment_trials
    gates,       \* experiment_transitions, per experiment by recorded_at
    call         \* where each process is in a call that takes several steps

tables == <<registered, reserved, claims, trials, gates>>
vars == <<registered, reserved, claims, trials, gates, call>>

\* The canonical stages by position: DATA_CHECK, NET_SMOKE, WALK_FORWARD,
\* STRESS_MONTE_CARLO, SHADOW_REVIEW.
Stages == 1..5
NET_SMOKE == 2
STRESS_MONTE_CARLO == 4
SHADOW_REVIEW == 5

NoCall == [step |-> "idle", row |-> None, exp |-> None, count |-> 0]

Init ==
    /\ registered = {}
    /\ reserved = {}
    /\ claims = [h \in Holdouts |-> None]
    /\ trials = {}
    /\ gates = [e \in Experiments |-> <<>>]
    /\ call = [w \in Writers |-> NoCall]
-----------------------------------------------------------------------------
\* _state: the row with the greatest recorded_at decides stage and status.
LatestStatus(e) == IF gates[e] = <<>> THEN None ELSE Last(gates[e]).status
LatestStage(e) == IF gates[e] = <<>> THEN 0 ELSE Last(gates[e]).stage

IsTerminal(e) ==
    \/ LatestStatus(e) \in TerminalStatuses
    \/ LatestStage(e) = SHADOW_REVIEW

\* Candidate rows if there are any, otherwise every row.
Counted(rows) ==
    LET candidates == {t \in rows : t.kind = "candidate"}
    IN IF candidates # {} THEN Cardinality(candidates) ELSE Cardinality(rows)

CandidateTrialCount(e) == Counted({t \in trials : t.exp = e})

\* Each predecessor's burden is inherited once, at the highest floor any of its
\* successors in the campaign declares: the trials <<p, 1>>, <<p, 2>>, ... that
\* one of them declares for it.
PredecessorTrialFloor(campaign) ==
    LET successors == {e \in registered : Campaign[e] = campaign
                                            /\ Predecessor[e] # None}
    IN IF campaign = None THEN 0
       ELSE Cardinality(UNION {{Predecessor[e]} \X (1..Floor[e]) : e \in successors})

\* Mutant: the inherited floor is taken off instead of added.
ValidationTrialCountLess(e) ==
    Counted({t \in trials : Campaign[e] # None => Campaign[t.exp] = Campaign[e]})
      - PredecessorTrialFloor(Campaign[e])

\* The count multiple-testing statistics must use for e: its whole campaign,
\* or the whole hypothesis when e names no campaign.
ValidationTrialCount(e) ==
    Counted({t \in trials : Campaign[e] # None => Campaign[t.exp] = Campaign[e]})
      + PredecessorTrialFloor(Campaign[e])

\* The review must be e's own row on a holdout whose claim e holds.
HasFinalReview(e) ==
    /\ HoldoutOf[e] # None
    /\ claims[HoldoutOf[e]] = e
    /\ \E t \in trials : t.exp = e /\ t.kind = "final_holdout_review"
-----------------------------------------------------------------------------
\* A successor continues an experiment that ended for want of data, and takes
\* over at least the candidates that experiment has recorded so far.
SuccessorAccepted(e) ==
    Predecessor[e] # None =>
        /\ Predecessor[e] \in registered
        /\ LatestStatus(Predecessor[e]) = "INSUFFICIENT_DATA"
        /\ Floor[e] >= CandidateTrialCount(Predecessor[e])

RegisterExperiment(e) ==
    /\ e \notin registered
    /\ SuccessorAccepted(e)
    /\ registered' = registered \cup {e}
    /\ UNCHANGED <<reserved, claims, trials, gates, call>>

ReserveHoldout(h) ==
    /\ h \notin reserved
    /\ reserved' = reserved \cup {h}
    /\ UNCHANGED <<registered, claims, trials, gates, call>>
-----------------------------------------------------------------------------
\* record_trial and record_regime_segmentation_trial: the state is read here,
\* the row is inserted by InsertTrial.
RecordTrial(w, row) ==
    /\ call[w].step = "idle"
    /\ row.kind # "final_holdout_review"
    /\ row.exp \in registered
    /\ ~IsTerminal(row.exp)
    /\ call' = [call EXCEPT ![w] = [NoCall EXCEPT !.step = "insert", !.row = row]]
    /\ UNCHANGED tables

\* INSERT OR IGNORE in a transaction of its own.
InsertTrial(w) ==
    /\ call[w].step = "insert"
    /\ trials' = trials \cup {call[w].row}
    /\ call' = [call EXCEPT ![w] = NoCall]
    /\ UNCHANGED <<registered, reserved, claims, gates>>

\* Mutant: the owner of an existing claim is not compared.
MayClaimAnyway(e) ==
    /\ HoldoutOf[e] \in reserved

MayClaim(e) ==
    /\ HoldoutOf[e] \in reserved
    /\ claims[HoldoutOf[e]] \in {None, e}

\* record_final_holdout_review starts by claiming the holdout for good.
ClaimFinalHoldoutReview(w, row) ==
    /\ call[w].step = "idle"
    /\ row.kind = "final_holdout_review"
    /\ row.exp \in registered
    /\ MayClaim(row.exp)
    /\ claims' = [claims EXCEPT ![HoldoutOf[row.exp]] = row.exp]
    /\ call' = [call EXCEPT ![w] = [NoCall EXCEPT !.step = "claimed", !.row = row]]
    /\ UNCHANGED <<registered, reserved, trials, gates>>

\* Then, in two separate reads, it refuses a second review and a terminal
\* experiment, and goes on to the insert.
CheckReview(w) ==
    LET e == call[w].row.exp
        Goto(step) == call' = [call EXCEPT ![w].step = step]
        Refuse == call' = [call EXCEPT ![w] = NoCall]
    IN /\ \/ /\ call[w].step = "claimed"
             /\ IF HasFinalReview(e) THEN Refuse ELSE Goto("unreviewed")
          \/ /\ call[w].step = "unreviewed"
             /\ IF IsTerminal(e) THEN Refuse ELSE Goto("insert")
       /\ UNCHANGED tables
-----------------------------------------------------------------------------
\* build_statistical_validation_artifact: a read-only count taken before the
\* gate.  The effective count may not understate it; the least one is modelled.
\* Bound: only built when the stress gate is next; the gate refuses it otherwise.
BuildArtifact(w, e) ==
    /\ call[w].step = "idle"
    /\ e \in registered
    /\ LatestStage(e) = STRESS_MONTE_CARLO - 1
    /\ call' = [call EXCEPT ![w] = [NoCall EXCEPT !.step = "artifact", !.exp = e,
                                        !.count = ValidationTrialCount(e)]]
    /\ UNCHANGED tables

\* Mutant: a stage the clock hid from _state is recorded a second time.
StageIsOpenNow(e, stage) ==
    /\ ~IsTerminal(e)
    /\ stage = LatestStage(e) + 1

\* Mutant: an experiment that has ended takes the next stage all the same.
StageIsOpenAfterEnd(e, stage) ==
    /\ stage = LatestStage(e) + 1
    /\ \A i \in DOMAIN gates[e] : gates[e][i].stage # stage

\* The stage is the one after the latest, and no row of it exists: an earlier
\* time stamp can hide a recorded stage from the first test, not the second.
StageIsOpen(e, stage) ==
    /\ ~IsTerminal(e)
    /\ stage = LatestStage(e) + 1
    /\ \A i \in DOMAIN gates[e] : gates[e][i].stage # stage

\* Mutant: the artifact is taken at its word.
ArtifactTrusted(w, e) ==
    call[w].step = "artifact" /\ call[w].exp = e

\* The gate counts the rows again and compares.
ArtifactMatches(w, e) ==
    /\ call[w].step = "artifact" /\ call[w].exp = e
    /\ call[w].count = ValidationTrialCount(e)

\* Mutant: the last stage passes like any other.
ReviewNotRequired(w, e, stage) ==
    stage = STRESS_MONTE_CARLO => ArtifactMatches(w, e)

\* What a PASSED row needs beyond the reports every stage carries.
EarnsPass(w, e, stage) ==
    /\ stage = STRESS_MONTE_CARLO => ArtifactMatches(w, e)
    /\ stage = SHADOW_REVIEW => HasFinalReview(e)

\* Where the row lands by recorded_at: last, unless the clock was set back.
RecordedAt(e) ==
    IF ClockMayStepBack THEN 1..(Len(gates[e]) + 1) ELSE {Len(gates[e]) + 1}

\* record_gate_result.  Repeating a recorded call returns the state unchanged;
\* any other disagreement raises.
RecordGateResult(w, e, stage, status) ==
    /\ call[w].step \in {"idle", "artifact"}
    /\ e \in registered
    /\ Len(gates[e]) < MaxGates[e]
    /\ StageIsOpen(e, stage)
    /\ status = "PASSED" => EarnsPass(w, e, stage)
    /\ \E i \in RecordedAt(e) :
          gates' = [gates EXCEPT ![e] =
                InsertAt(@, i, [stage |-> stage, status |-> status,
                                count |-> call[w].count])]
    /\ call' = [call EXCEPT ![w] = NoCall]
    /\ UNCHANGED <<registered, reserved, claims, trials>>

\* The call raises half way or its process dies; committed rows stay.
Abandon(w) ==
    /\ call[w].step # "idle"
    /\ call' = [call EXCEPT ![w] = NoCall]
    /\ UNCHANGED tables

Next ==
    \/ \E e \in Experiments : RegisterExperiment(e)
    \/ \E h \in Holdouts : ReserveHoldout(h)
    \/ \E w \in Writers :
          \/ \E row \in Rows : RecordTrial(w, row) \/ ClaimFinalHoldoutReview(w, row)
          \/ InsertTrial(w)
          \/ CheckReview(w)
          \/ \E e \in Experiments :
                \/ BuildArtifact(w, e)
                \/ \E stage \in Stages, status \in Statuses :
                      RecordGateResult(w, e, stage, status)
          \/ Abandon(w)

Spec == Init /\ [][Next]_vars
-----------------------------------------------------------------------------
Gate == [stage : Stages, status : Statuses, count : Nat]

TypeOK ==
    /\ registered \subseteq Experiments
    /\ reserved \subseteq Holdouts
    /\ claims \in [Holdouts -> Experiments \cup {None}]
    /\ trials \subseteq Rows
    /\ gates \in [Experiments -> Seq(Gate)]
    /\ call \in [Writers ->
            [step : {"idle", "insert", "claimed", "unreviewed", "artifact"},
             row : Rows \cup {None}, exp : Experiments \cup {None}, count : Nat]]

\* Only an experiment that ended for want of data has a successor, and it stays
\* ended that way: no call that overlaps the registration and no clock set back
\* afterwards reopens it or turns its ending into a performance rejection.
SuccessorsFollowMissingData ==
    \A e \in registered :
        Predecessor[e] # None => LatestStatus(Predecessor[e]) = "INSUFFICIENT_DATA"

\* One sealed holdout is looked at for one experiment only: every review row
\* on a holdout, whichever process wrote it and however many crashed before,
\* belongs to the experiment that owns the claim.
HoldoutReviewedForOneExperiment ==
    \A t \in trials : t.kind = "final_holdout_review" =>
        /\ HoldoutOf[t.exp] \in reserved
        /\ claims[HoldoutOf[t.exp]] = t.exp

\* An experiment's gates are an unbroken run of stages from DATA_CHECK, each
\* recorded once, all PASSED but possibly the highest: a rejection ends it.
\* This survives a clock that was set back between two gates.
GatesAreAnUnbrokenRun ==
    \A e \in Experiments :
        LET g == gates[e] IN
        /\ {g[i].stage : i \in DOMAIN g} = 1..Len(g)
        /\ \A i \in DOMAIN g : g[i].status # "PASSED" => g[i].stage = Len(g)

\* A passed SHADOW_REVIEW always stands on a final review of the experiment's
\* own reserved holdout.
ShadowReviewIsEarned ==
    \A e \in Experiments : \A i \in DOMAIN gates[e] :
        gates[e][i].stage = SHADOW_REVIEW /\ gates[e][i].status = "PASSED" =>
            HasFinalReview(e)

\* A stress gate passes only with a trial count that covers every candidate of
\* its campaign on record at that moment, also those other processes committed
\* after the statistics were computed.
StressCountIsCurrent ==
    [][\A e \in Experiments : Len(gates'[e]) > Len(gates[e]) =>
          \A i \in DOMAIN gates'[e] :
              LET g == gates'[e][i] IN
              /\ g.stage = STRESS_MONTE_CARLO /\ g.status = "PASSED"
              /\ \A j \in DOMAIN gates[e] : gates[e][j].stage # g.stage
              => g.count >= Cardinality({t \in trials : t.kind = "candidate"
                                /\ Campaign[t.exp] = Campaign[e]})]_vars

=============================================================================
