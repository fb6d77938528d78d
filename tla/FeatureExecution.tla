-------------------------- MODULE FeatureExecution --------------------------
(***************************************************************************)
(* The feature runs of one project and the commands that move them         *)
(* (core/src/commands/handlers/feature, .../github, the merge gate and the *)
(* automation switch).  A handler is one transaction that checks the run's *)
(* version, so each is one atomic action here.                             *)
(*                                                                         *)
(* What GitHub reports (CI, reviews, mergeability, a closed pull request)  *)
(* and what a reviewer or an arbiter finds is an input, chosen freely by   *)
(* the action that reads it.  Leases are modelled in WorkflowLocks.        *)
(***************************************************************************)
EXTENDS FeatureMatrix, Naturals, FiniteSets

CONSTANTS
    Feature,       \* feature runs, one per feature request
    DependsOn,     \* DependsOn[f]: the dependencies of f
    None,          \* no active feature run
    FixThreshold,  \* FIX_ATTEMPT_THRESHOLD
    Foreign        \* runs with a pull request at the forge that they did not
                   \* open, on a branch named minicoder/<fr_id>

ASSUME FeatureAssumption ==
    /\ DependsOn \in [Feature -> SUBSET Feature]
    /\ None \notin Feature
    /\ FixThreshold \in Nat
    /\ Foreign \subseteq Feature

VARIABLES
    state,       \* feature_runs.current_execution_state
    fixes,       \* feature_runs.fix_attempt_count
    tracked,     \* the run has a pull_requests row
    unresolved,  \* it has an unresolved blocking or requires-human finding
    barred,      \* it has a rejected or deferred human_approvals row
    dispute,     \* it has an open or escalated disagreement record
    active,      \* workflow_states.active_feature_run_id
    automation   \* workflow_states.automation_state; the three paused states
                 \* are told apart by no command below

run == <<state, fixes>>
records == <<unresolved, barred, dispute>>
project == <<active, automation>>
vars == <<run, tracked, records, project>>

TypeOK ==
    /\ state \in [Feature -> State]
    /\ fixes \in [Feature -> 0 .. FixThreshold]
    /\ tracked \in [Feature -> BOOLEAN]
    /\ unresolved \in [Feature -> BOOLEAN]
    /\ barred \in [Feature -> BOOLEAN]
    /\ dispute \in [Feature -> BOOLEAN]
    /\ active \in Feature \cup {None}
    /\ automation \in {"running", "paused"}

\* The state ActivatePlan leaves: every run pending, automation running.
Init ==
    /\ state = [f \in Feature |-> "approved_pending_execution"]
    /\ fixes = [f \in Feature |-> 0]
    /\ tracked = [f \in Feature |-> FALSE]
    /\ unresolved = [f \in Feature |-> FALSE]
    /\ barred = [f \in Feature |-> FALSE]
    /\ dispute = [f \in Feature |-> FALSE]
    /\ active = None
    /\ automation = "running"

-----------------------------------------------------------------------------
Valid(f, to) == <<state[f], to>> \in Matrix

Move(f, to) == state' = [state EXCEPT ![f] = to]

\* Mutant of DepsMerged: a skipped dependency counts as met.
DepsSettled(f) == \A d \in DependsOn[f] : state[d] \in {"merged", "skipped"}

\* Every dependency has a run that reached 'merged'.
DepsMerged(f) == \A d \in DependsOn[f] : state[d] = "merged"

\* Mutant of ClearActive: the pointer is left alone.
KeepActive(f) == active' = active

ClearActive(f) == active' = IF active = f THEN None ELSE active

-----------------------------------------------------------------------------
(* Selection and coding                                                    *)

SelectFeature(f) ==
    /\ Valid(f, "selected") /\ DepsMerged(f)
    /\ automation = "running" /\ active = None
    /\ Move(f, "selected")
    /\ active' = f
    /\ UNCHANGED <<fixes, tracked, records, automation>>

StartCoding(f) ==
    /\ Valid(f, "coding")
    /\ active = f /\ automation = "running"
    /\ Move(f, "coding")
    /\ UNCHANGED <<fixes, tracked, records, project>>

\* resolves: the payload names the open findings.  run-coder reads them before
\* it calls the coder, and only when the run is fixing then.
RecordCodePushed(f, resolves) ==
    /\ Valid(f, "code_pushed")
    /\ Move(f, "code_pushed")
    /\ unresolved' = [unresolved EXCEPT ![f] = @ /\ ~resolves]
    /\ UNCHANGED <<fixes, tracked, barred, dispute, project>>

\* changes_requested -> fixing checks neither the active run nor the threshold.
StartFixing(f) ==
    /\ Valid(f, "fixing")
    /\ automation = "running"
    /\ Move(f, "fixing")
    /\ UNCHANGED <<fixes, tracked, records, project>>

-----------------------------------------------------------------------------
(* What reconcileGithubState does with an observed pull request.  The      *)
(* handlers ask for no more than a pair of the matrix; that a pass asks    *)
(* for what fits the run rests on its view of the run (Reconciliation).    *)

\* resolveFeatureRunId: a webhook finds its run by a pull_requests row (number
\* or head commit) or by a branch named minicoder/<fr_id>.  The coder's own
\* branches carry the run's id instead, so only foreign ones match that way.
Observed(f) == tracked[f] \/ f \in Foreign

\* The scheduled task looks for the pull request of a run that pushed code.

RecordPrOpened(f) ==
    /\ Valid(f, "pr_opened")
    /\ Move(f, "pr_opened")
    /\ tracked' = [tracked EXCEPT ![f] = TRUE]
    /\ UNCHANGED <<fixes, records, project>>

RecordCiRunning(f) ==
    /\ Valid(f, "ci_running") /\ Observed(f)
    /\ Move(f, "ci_running")
    /\ UNCHANGED <<fixes, tracked, records, project>>

RecordCiPassed(f) ==
    /\ Valid(f, "under_review") /\ Observed(f)
    /\ Move(f, "under_review")
    /\ UNCHANGED <<fixes, tracked, records, project>>

\* Findings are keyed by run, review cycle and position and an existing row
\* stays as it is: the failure's finding is not kept when a review has used
\* the cycle that the fix count names.
RecordCiFailed(f) ==
    /\ Valid(f, "ci_failed") /\ Observed(f)
    /\ Move(f, "ci_failed")
    /\ \E kept \in BOOLEAN :
           unresolved' = [unresolved EXCEPT ![f] = @ \/ kept]
    /\ UNCHANGED <<fixes, tracked, barred, dispute, project>>

\* The defense-in-depth guard and the increment of fix_attempt_count.
CountFix(f) == fixes[f] < FixThreshold /\ fixes' = [fixes EXCEPT ![f] = @ + 1]

RequestChangesAfterCiFail(f) ==
    /\ Valid(f, "changes_requested") /\ Observed(f)
    /\ CountFix(f)
    /\ Move(f, "changes_requested")
    /\ UNCHANGED <<tracked, records, project>>

\* The observed pull request is closed and was not merged.
EscalateClosed(f) ==
    /\ Valid(f, "human_required") /\ Observed(f)
    /\ Move(f, "human_required")
    /\ UNCHANGED <<fixes, tracked, records, project>>

\* The fix-attempt threshold is reached after a CI failure or a change request
\* on GitHub; neither escalation carries findings.
EscalateFixLimit(f) ==
    /\ Valid(f, "human_required") /\ Observed(f)
    /\ fixes[f] >= FixThreshold
    /\ Move(f, "human_required")
    /\ UNCHANGED <<fixes, tracked, records, project>>

-----------------------------------------------------------------------------
(* Review: a human's change request on GitHub, and the run-review task     *)

\* found: blocking findings are written.  GitHub's change requests come with
\* none, and a reviewer's are not kept when another review used their cycle.
RecordChangesRequested(f, found) ==
    /\ Valid(f, "changes_requested")
    /\ tracked[f] \/ (~found /\ f \in Foreign)
    /\ CountFix(f)
    /\ Move(f, "changes_requested")
    /\ unresolved' = [unresolved EXCEPT ![f] = @ \/ found]
    /\ UNCHANGED <<tracked, barred, dispute, project>>

\* A requires-human finding, a blocking one at the threshold, or an arbiter
\* that gives up: the findings are written with the transition.
EscalateReview(f, found) ==
    /\ state[f] = "under_review" /\ tracked[f]
    /\ Move(f, "human_required")
    /\ unresolved' = [unresolved EXCEPT ![f] = @ \/ found]
    /\ UNCHANGED <<fixes, tracked, barred, dispute, project>>

\* A blocking finding recurs: the record is written before the arbiter runs,
\* whatever has become of the run since the review began.
OpenDispute(f) ==
    /\ tracked[f]
    /\ dispute' = [dispute EXCEPT ![f] = TRUE]
    /\ UNCHANGED <<run, tracked, unresolved, barred, project>>

\* The arbiter's disposition: it escalates the record, or resolves it and
\* leaves another one open.  Neither the record nor the run is checked.
ArbiterRules(f, open) ==
    /\ tracked[f]
    /\ dispute' = [dispute EXCEPT ![f] = open]
    /\ UNCHANGED <<run, tracked, unresolved, barred, project>>

-----------------------------------------------------------------------------
(* Merge gate and merge                                                    *)

\* Mutant of GatePasses: human_approvals is not consulted.
GateIgnoresVeto(f) == active = f /\ tracked[f] /\ ~unresolved[f]

\* The parts of evaluateMergeGate that concern this state; the mirrored pull
\* request and the budget may also reject.
GatePasses(f) == active = f /\ tracked[f] /\ ~unresolved[f] /\ ~barred[f]

\* The run-merge-gate task.
RecordApprovedByPolicy(f) ==
    /\ Valid(f, "approved_by_policy") /\ GatePasses(f)
    /\ Move(f, "approved_by_policy")
    /\ UNCHANGED <<fixes, tracked, records, project>>

MergeIfReady(f) ==
    /\ Valid(f, "merge_ready") /\ GatePasses(f)
    /\ Move(f, "merge_ready")
    /\ UNCHANGED <<fixes, tracked, records, project>>

RecordMerged(f) ==
    /\ Valid(f, "merged")
    /\ Move(f, "merged")
    /\ ClearActive(f)
    /\ UNCHANGED <<fixes, tracked, records, automation>>

RecordMergeFailed(f) ==
    /\ Valid(f, "merge_failed")
    /\ Move(f, "merge_failed")
    /\ UNCHANGED <<fixes, tracked, records, project>>

ReconcileMergeFailed(f) ==
    /\ state[f] = "merge_failed"
    /\ Move(f, "under_review")
    /\ UNCHANGED <<fixes, tracked, records, project>>

EscalateMergeFailed(f) ==
    /\ state[f] = "merge_failed"
    /\ Move(f, "human_required")
    /\ UNCHANGED <<fixes, tracked, records, project>>

-----------------------------------------------------------------------------
(* What a human may do                                                     *)

ResolveDisagreement(f) ==
    /\ Valid(f, "changes_requested")
    /\ dispute[f]
    /\ dispute' = [dispute EXCEPT ![f] = FALSE]
    /\ Move(f, "changes_requested")
    /\ UNCHANGED <<fixes, tracked, unresolved, barred, project>>

\* With a disagreement id the command resolves that disagreement too.
ResumeFeatureExecution(f) ==
    /\ Valid(f, "under_review")
    /\ \E open \in BOOLEAN :
           /\ open => dispute[f]
           /\ dispute' = [dispute EXCEPT ![f] = open]
    /\ Move(f, "under_review")
    /\ UNCHANGED <<fixes, tracked, unresolved, barred, project>>

RetryFeature(f) ==
    /\ Valid(f, "selected")
    /\ active = f
    /\ Move(f, "selected")
    /\ UNCHANGED <<fixes, tracked, records, project>>

\* Mutant of Cascade: the dependents are left where they are.
CascadeNothing(f, g) == FALSE

\* SkipFeature blocks the direct dependents that are still pending.
Cascade(f, g) ==
    f \in DependsOn[g] /\ state[g] = "approved_pending_execution"

SkipFeature(f) ==
    /\ Valid(f, "skipped")
    /\ state' = [g \in Feature |-> IF g = f THEN "skipped"
                                   ELSE IF Cascade(f, g) THEN "blocked"
                                   ELSE state[g]]
    /\ ClearActive(f)
    /\ barred' = [barred EXCEPT ![f] = TRUE]
    /\ UNCHANGED <<fixes, tracked, unresolved, dispute, automation>>

\* The pair approved_pending_execution -> blocked is in the matrix for the
\* cascade, so a pending run can be blocked by hand as well.
BlockFeature(f) ==
    /\ Valid(f, "blocked")
    /\ Move(f, "blocked")
    /\ ClearActive(f)
    /\ barred' = [barred EXCEPT ![f] = TRUE]
    /\ UNCHANGED <<fixes, tracked, unresolved, dispute, automation>>

\* UnblockFeature, which nothing dispatches, differs only in its actor.
HumanUnblockFeature(f) ==
    /\ Valid(f, "approved_pending_execution") /\ DepsMerged(f)
    /\ Move(f, "approved_pending_execution")
    /\ UNCHANGED <<fixes, tracked, records, project>>

\* PauseAutomation by an operator, RecordBudgetExceeded and
\* RecordBudgetApprovalWaiting by the budget check.
PauseAutomation ==
    /\ automation = "running"
    /\ automation' = "paused"
    /\ UNCHANGED <<run, tracked, records, active>>

\* ResumeAutomation and ApproveBudgetOverride: each is valid from every paused
\* state, whichever of the two the matrix names for it.
ResumeAutomation ==
    /\ automation = "paused"
    /\ automation' = "running"
    /\ UNCHANGED <<run, tracked, records, active>>

-----------------------------------------------------------------------------
Code(f) ==
    \/ SelectFeature(f) \/ StartCoding(f) \/ StartFixing(f)
    \/ \E resolves \in BOOLEAN : RecordCodePushed(f, resolves)

Reconcile(f) ==
    \/ RecordPrOpened(f) \/ RecordCiRunning(f) \/ RecordCiPassed(f)
    \/ RecordCiFailed(f) \/ RequestChangesAfterCiFail(f)
    \/ EscalateClosed(f) \/ EscalateFixLimit(f)

Review(f) ==
    \/ \E found \in BOOLEAN : RecordChangesRequested(f, found)
    \/ \E found \in BOOLEAN : EscalateReview(f, found)
    \/ OpenDispute(f) \/ \E open \in BOOLEAN : ArbiterRules(f, open)

Merge(f) ==
    \/ RecordApprovedByPolicy(f) \/ MergeIfReady(f) \/ RecordMerged(f)
    \/ RecordMergeFailed(f) \/ ReconcileMergeFailed(f) \/ EscalateMergeFailed(f)

Human(f) ==
    \/ ResolveDisagreement(f) \/ ResumeFeatureExecution(f) \/ RetryFeature(f)
    \/ SkipFeature(f) \/ BlockFeature(f) \/ HumanUnblockFeature(f)

Next ==
    \/ \E f \in Feature : Code(f) \/ Reconcile(f) \/ Review(f) \/ Merge(f) \/ Human(f)
    \/ PauseAutomation \/ ResumeAutomation

Spec == Init /\ [][Next]_vars

-----------------------------------------------------------------------------
(* Properties                                                              *)

NotStarted == {"approved_pending_execution", "blocked", "skipped"}

MergeStage == {"approved_by_policy", "merge_ready", "merge_failed"}

\* A run is past approved_pending_execution only if everything it depends on
\* has merged, whichever of select, retry, resume or a webhook moved it.
StartedAfterDependencies ==
    \A f \in Feature \ Foreign : state[f] \notin NotStarted =>
        \A d \in DependsOn[f] : state[d] = "merged"

\* The active pointer never dangles: it names a run that is being worked on or
\* waits for a human, so the lane is not held by a run that is done or parked.
ActiveIsOccupied ==
    active # None => state[active] \in Working \cup {"human_required"}

\* Between the gate's approval and the merge a run stays the active one, so
\* two runs are never in the merge stage together.
MergeStageIsActive ==
    \A f \in Feature : state[f] \in MergeStage => active = f

\* What the gate checked still holds when the merge is recorded: no handler
\* adds a blocking finding or a human veto behind its back.
NothingOutstandingAtMerge ==
    \A f \in Feature : state[f] \in MergeStage \cup {"merged"} =>
        tracked[f] /\ ~unresolved[f] /\ ~barred[f]

\* No run waits for execution on a direct dependency that was skipped
\* (the cascade of SkipFeature, and the guard of the unblock commands).
NoPendingBehindSkipped ==
    \A f, d \in Feature :
        d \in DependsOn[f] /\ state[d] = "skipped"
            => state[f] # "approved_pending_execution"
=============================================================================
