--------------------------- MODULE BoundedResearch --------------------------
(* research/bounded_research_coordinator.py on top of the registry: the daily *)
(* unattended invocation that may run one approved experiment per feature     *)
(* snapshot, next to processes that write the same registry by hand.          *)
(*                                                                            *)
(* An invocation is a process c; it may die at any step and a later one (or a *)
(* second timer) starts from the top.  What scheduler, templates and manifest *)
(* yield is the choice of an experiment; SnapshotOf is the fingerprint of the *)
(* feature bundle that experiment reads.                                      *)
EXTENDS ExperimentRegistry

CONSTANTS
    Coordinators,   \* invocations of run_bounded_research_coordinator
    Automated,      \* the experiments the coordinator builds
    SnapshotOf,     \* claim_snapshot_fingerprint of each of them
    Smoke           \* those run in smoke mode; the others are data checks

ASSUME CoordinatorAssumption ==
    /\ Automated \subseteq Experiments
    /\ Smoke \subseteq Automated
    /\ DOMAIN SnapshotOf = Automated

VARIABLES
    snapshots,   \* bounded_research_snapshot_claims: the invocation that claimed
    executions,  \* bounded_research_execution_claims
    run,         \* where each invocation is
    ran          \* history: how often the runner was started, per experiment

boundedVars == <<snapshots, executions, run, ran>>
allVars == <<vars, boundedVars>>

Snapshots == {SnapshotOf[e] : e \in Automated}
Idle == [step |-> "idle", exp |-> None, row |-> None, floor |-> 0]

BoundedInit ==
    /\ Init
    /\ snapshots = {}
    /\ executions = {}
    /\ run = [c \in Coordinators |-> Idle]
    /\ ran = [e \in Automated |-> 0]

Goto(c, step) == run' = [run EXCEPT ![c].step = step]
Return(c) == run' = [run EXCEPT ![c] = Idle]
-----------------------------------------------------------------------------
\* Mutant: a claim that was ignored because it exists still counts as won.
ClaimWonAnyway(taken, item) == TRUE

\* INSERT OR IGNORE in one statement; the row count tells whether it won.
ClaimWon(taken, item) == item \notin taken

\* The snapshot is claimed before the experiment is even registered.
ClaimSnapshot(c, e) ==
    /\ run[c].step = "idle"
    /\ ClaimWon(snapshots, SnapshotOf[e])
    /\ snapshots' = snapshots \cup {SnapshotOf[e]}
    /\ run' = [run EXCEPT ![c] = [Idle EXCEPT !.step = "claimed", !.exp = e]]
    /\ UNCHANGED <<vars, executions, ran>>

\* register_experiment, and the two tests on the state it returns.
RegisterMaterial(c) ==
    LET e == run[c].exp IN
    /\ run[c].step = "claimed"
    /\ e \in registered \/ SuccessorAccepted(e)
    /\ registered' = registered \cup {e}
    /\ IF gates[e] # <<>> THEN Return(c) ELSE Goto(c, "registered")
    /\ UNCHANGED <<reserved, claims, trials, gates, call,
                   snapshots, executions, ran>>

\* claim_bounded_research_execution: a read, then INSERT OR IGNORE.
ClaimExecution(c) ==
    LET e == run[c].exp IN
    /\ \/ /\ run[c].step = "registered"
          /\ IF IsTerminal(e) THEN Return(c) ELSE Goto(c, "claiming")
          /\ UNCHANGED executions
       \/ /\ run[c].step = "claiming"
          /\ executions' = executions \cup {e}
          /\ IF ClaimWon(executions, e) THEN Goto(c, "planning") ELSE Return(c)
    /\ UNCHANGED <<vars, snapshots, ran>>
-----------------------------------------------------------------------------
\* record_trial_plan: every dimension row comes before the first candidate.
Plan(e) == {row \in Rows : row.exp = e /\ row.kind # "final_holdout_review"}

NextRows(e) ==
    LET missing == Plan(e) \ trials
        surface == {row \in missing : row.kind = "surface"}
    IN IF surface # {} THEN surface ELSE missing

\* Mutant: the plan is recorded as far as the first row.
PlanStarted(e) == Plan(e) # {} => Plan(e) \cap trials # {}

PlanComplete(e) == Plan(e) \subseteq trials

\* Smoke mode only.  Each row is a registry call of its own: the state is read,
\* the row is inserted; a terminal experiment raises out of the coordinator.
PlanTrial(c) ==
    LET e == run[c].exp IN
    /\ e \in Smoke
    /\ \/ /\ run[c].step = "planning"
          /\ ~PlanComplete(e)
          /\ IF IsTerminal(e) THEN Return(c)
             ELSE \E row \in NextRows(e) :
                    run' = [run EXCEPT ![c].step = "inserting", ![c].row = row]
          /\ UNCHANGED trials
       \/ /\ run[c].step = "inserting"
          /\ trials' = trials \cup {run[c].row}
          /\ run' = [run EXCEPT ![c].step = "planning", ![c].row = None]
    /\ UNCHANGED <<registered, reserved, claims, gates, call,
                   snapshots, executions, ran>>

\* The trial count the runner must correct for is read after the plan.
ReadFloor(c) ==
    LET e == run[c].exp IN
    /\ run[c].step = "planning"
    /\ e \in Smoke => PlanComplete(e)
    /\ run' = [run EXCEPT ![c].step = "ready",
                          ![c].floor = ValidationTrialCount(e)]
    /\ UNCHANGED <<vars, snapshots, executions, ran>>

StartRunner(c) ==
    /\ run[c].step = "ready"
    /\ ran' = [ran EXCEPT ![run[c].exp] = @ + 1]
    /\ Goto(c, "ran")
    /\ UNCHANGED <<vars, snapshots, executions>>

\* record_runner_evidence, one gate of the report at a time, each recorded in
\* the registry's own transaction.  A smoke report ends with NET_SMOKE, a data
\* check with DATA_CHECK; the return after the last one is Finish.
RecordEvidence(c, status) ==
    LET e == run[c].exp
        stage == LatestStage(e) + 1 IN
    /\ run[c].step = "ran"
    /\ ~IsTerminal(e)
    /\ stage <= IF e \in Smoke THEN NET_SMOKE ELSE 1
    /\ StageIsOpen(e, stage)
    /\ \E i \in RecordedAt(e) :
          gates' = [gates EXCEPT ![e] =
                InsertAt(@, i, [stage |-> stage, status |-> status, count |-> 0])]
    /\ UNCHANGED <<registered, reserved, claims, trials, call,
                   snapshots, executions, ran, run>>

\* The report is complete, the runner or a gate raised, or the process died:
\* the claims stay.
Finish(c) ==
    /\ run[c].step # "idle"
    /\ Return(c)
    /\ UNCHANGED <<vars, snapshots, executions, ran>>

Coordinate(c) ==
    \/ \E e \in Automated : ClaimSnapshot(c, e)
    \/ RegisterMaterial(c)
    \/ ClaimExecution(c)
    \/ PlanTrial(c)
    \/ ReadFloor(c)
    \/ StartRunner(c)
    \/ \E status \in Statuses : RecordEvidence(c, status)
    \/ Finish(c)

BoundedNext ==
    \/ \E c \in Coordinators : Coordinate(c)
    \/ Next /\ UNCHANGED boundedVars

BoundedSpec == BoundedInit /\ [][BoundedNext]_allVars
-----------------------------------------------------------------------------
\* One feature snapshot pays for one unattended run at most, over all
\* invocations, experiments built from it, crashes and repeats.
OneRunPerSnapshot ==
    \A s \in Snapshots :
        LET used == {e \in Automated : SnapshotOf[e] = s /\ ran[e] > 0} IN
        /\ Cardinality(used) <= 1
        /\ \A e \in used : ran[e] = 1

\* A run never corrects for fewer trials than it makes itself: when the runner
\* starts, every configuration of its plan is on record and in the floor.
RunnerCountsItsOwnPlan ==
    \A c \in Coordinators : run[c].step = "ran" /\ run[c].exp \in Smoke =>
        run[c].floor >= Cardinality({row \in Rows : row.exp = run[c].exp
                                                 /\ row.kind = "candidate"})

=============================================================================
