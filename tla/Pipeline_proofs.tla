--------------------------- MODULE Pipeline_proofs ---------------------------
(***************************************************************************)
(* Proofs about the feature runs and the tasks that drive them, for a      *)
(* project of any size, any dependencies, any number of workers and        *)
(* commits, any fix threshold and any set of foreign pull requests.        *)
(*                                                                         *)
(* First the runs.  MatrixTo says what the state machine alone guarantees  *)
(* about a valid transition; each property is then an invariant of its     *)
(* own, carried through the groups of commands one after the other.        *)
(*                                                                         *)
(* Then the tasks.  Every step of a task is a command of FeatureExecution  *)
(* or leaves the runs alone, so all that is shown of the runs holds while  *)
(* tasks interleave, fail and replay.  The last part is the workspace: an  *)
(* invocation that is about to push has cloned a commit that exists        *)
(* (ClonedInv), and one that is about to record has pushed it.             *)
(***************************************************************************)
EXTENDS Pipeline, ProjectCompletion, SequenceTheorems, TLAPS

\* What a valid pair of the matrix tells of its two ends.
LEMMA MatrixTo ==
    ASSUME NEW from, NEW to, <<from, to>> \in Matrix
    PROVE  /\ to \in State
           /\ to = "approved_pending_execution" => from = "blocked"
           /\ to = "blocked" => from \in {"approved_pending_execution", "human_required"}
           /\ to = "skipped" => from = "human_required"
           /\ to = "merged" => from = "merge_ready"
           /\ to = "merge_ready" => from = "approved_by_policy"
           /\ to = "merge_failed" => from = "merge_ready"
           /\ to = "approved_by_policy" => from = "under_review"
           /\ from # "merged" /\ from # "skipped"
           /\ from = "blocked" => to = "approved_pending_execution"
           /\ from = "approved_pending_execution"
                => to \in {"selected", "blocked", "human_required"}
  BY DEF Matrix, MainFlow, Divergence, CiOutcomes, ReviewLoop, MergePath,
         Failures, Dispositions, State, Working

\* The states that actions name without asking the matrix.
LEMMA StateNames ==
    {"under_review", "changes_requested", "human_required", "blocked", "skipped"}
        \subseteq State
  BY DEF State, Working

LEMMA Sets ==
    /\ NotStarted = {"approved_pending_execution", "blocked", "skipped"}
    /\ MergeStage = {"approved_by_policy", "merge_ready", "merge_failed"}
    /\ Working = {"selected", "coding", "code_pushed", "pr_opened", "ci_running",
                  "ci_failed", "under_review", "changes_requested", "fixing",
                  "approved_by_policy", "merge_ready", "merge_failed"}
  BY DEF NotStarted, MergeStage, Working

-----------------------------------------------------------------------------
\* Every command keeps the types; the threshold bounds the fix count.
LEMMA Typing == TypeOK /\ [Next]_vars => TypeOK'
<1> SUFFICES ASSUME TypeOK, [Next]_vars PROVE TypeOK'
  OBVIOUS
<1> USE FeatureAssumption, MatrixTo, StateNames
    DEF TypeOK, run, records, project
<1>1. ASSUME NEW f \in Feature, Code(f) PROVE TypeOK'
  <2>1. CASE SelectFeature(f)
    BY <2>1 DEF SelectFeature, Valid, Move
  <2>2. CASE StartCoding(f)
    BY <2>2 DEF StartCoding, Valid, Move
  <2>3. ASSUME NEW resolves \in BOOLEAN, RecordCodePushed(f, resolves) PROVE TypeOK'
    BY <2>3 DEF RecordCodePushed, Valid, Move
  <2>4. CASE StartFixing(f)
    BY <2>4 DEF StartFixing, Valid, Move
  <2> QED
    BY <1>1, <2>1, <2>2, <2>3, <2>4 DEF Code
<1>2. ASSUME NEW f \in Feature, Reconcile(f) PROVE TypeOK'
  <2>1. CASE RecordPrOpened(f)
    BY <2>1 DEF RecordPrOpened, Valid, Move
  <2>2. CASE RecordCiRunning(f)
    BY <2>2 DEF RecordCiRunning, Valid, Move
  <2>3. CASE RecordCiPassed(f)
    BY <2>3 DEF RecordCiPassed, Valid, Move
  <2>4. CASE RecordCiFailed(f)
    BY <2>4 DEF RecordCiFailed, Valid, Move
  <2>5. CASE RequestChangesAfterCiFail(f)
    BY <2>5 DEF RequestChangesAfterCiFail, Valid, Move, CountFix
  <2>6. CASE EscalateClosed(f)
    BY <2>6 DEF EscalateClosed, Valid, Move
  <2>7. CASE EscalateFixLimit(f)
    BY <2>7 DEF EscalateFixLimit, Valid, Move
  <2> QED
    BY <1>2, <2>1, <2>2, <2>3, <2>4, <2>5, <2>6, <2>7 DEF Reconcile
<1>3. ASSUME NEW f \in Feature, Review(f) PROVE TypeOK'
  <2>1. ASSUME NEW found \in BOOLEAN, RecordChangesRequested(f, found) PROVE TypeOK'
    BY <2>1 DEF RecordChangesRequested, Move, CountFix
  <2>2. ASSUME NEW found \in BOOLEAN, EscalateReview(f, found) PROVE TypeOK'
    BY <2>2 DEF EscalateReview, Valid, Move
  <2>3. CASE OpenDispute(f)
    BY <2>3 DEF OpenDispute, Valid, Move
  <2>4. ASSUME NEW open \in BOOLEAN, ArbiterRules(f, open) PROVE TypeOK'
    BY <2>4 DEF ArbiterRules, Valid, Move
  <2> QED
    BY <1>3, <2>1, <2>2, <2>3, <2>4 DEF Review
<1>4. ASSUME NEW f \in Feature, Merge(f) PROVE TypeOK'
  <2>1. CASE RecordApprovedByPolicy(f)
    BY <2>1 DEF RecordApprovedByPolicy, Valid, Move
  <2>2. CASE MergeIfReady(f)
    BY <2>2 DEF MergeIfReady, Valid, Move
  <2>3. CASE RecordMerged(f)
    BY <2>3 DEF RecordMerged, Valid, Move, ClearActive
  <2>4. CASE RecordMergeFailed(f)
    BY <2>4 DEF RecordMergeFailed, Valid, Move
  <2>5. CASE ReconcileMergeFailed(f)
    BY <2>5 DEF ReconcileMergeFailed, Valid, Move
  <2>6. CASE EscalateMergeFailed(f)
    BY <2>6 DEF EscalateMergeFailed, Valid, Move
  <2> QED
    BY <1>4, <2>1, <2>2, <2>3, <2>4, <2>5, <2>6 DEF Merge
<1>5. ASSUME NEW f \in Feature, Human(f) PROVE TypeOK'
  <2>1. CASE ResolveDisagreement(f)
    BY <2>1 DEF ResolveDisagreement, Valid, Move
  <2>2. CASE ResumeFeatureExecution(f)
    BY <2>2 DEF ResumeFeatureExecution, Valid, Move
  <2>3. CASE RetryFeature(f)
    BY <2>3 DEF RetryFeature, Valid, Move
  <2>4. CASE SkipFeature(f)
    BY <2>4 DEF SkipFeature, Valid, Move, Cascade, ClearActive
  <2>5. CASE BlockFeature(f)
    BY <2>5 DEF BlockFeature, Valid, Move, ClearActive
  <2>6. CASE HumanUnblockFeature(f)
    BY <2>6 DEF HumanUnblockFeature, Valid, Move
  <2> QED
    BY <1>5, <2>1, <2>2, <2>3, <2>4, <2>5, <2>6 DEF Human
<1>6. CASE PauseAutomation \/ ResumeAutomation
  BY <1>6 DEF PauseAutomation, ResumeAutomation
<1>7. CASE UNCHANGED vars
  BY <1>7 DEF vars
<1> QED
  BY <1>1, <1>2, <1>3, <1>4, <1>5, <1>6, <1>7 DEF Next

\* The variables of every run keep their types, and no run's fix count passes
\* FIX_ATTEMPT_THRESHOLD.
THEOREM TypeCorrect == Spec => []TypeOK
<1>1. Init => TypeOK
  BY FeatureAssumption DEF Init, TypeOK, State
<1> QED
  BY <1>1, Typing, PTL DEF Spec

-----------------------------------------------------------------------------
\* Only skip, block and merge retire a run, and each clears its pointer.
LEMMA ActiveStep == TypeOK /\ ActiveIsOccupied /\ [Next]_vars => ActiveIsOccupied'
<1> SUFFICES ASSUME TypeOK, ActiveIsOccupied, [Next]_vars PROVE ActiveIsOccupied'
  OBVIOUS
<1> USE FeatureAssumption, MatrixTo, Sets
    DEF TypeOK, run, records, project, ActiveIsOccupied
<1>1. ASSUME NEW f \in Feature, Code(f) PROVE ActiveIsOccupied'
  BY <1>1
  DEF Code, SelectFeature, StartCoding, RecordCodePushed, StartFixing, Valid, Move
<1>2. ASSUME NEW f \in Feature, Reconcile(f) PROVE ActiveIsOccupied'
  BY <1>2
  DEF Reconcile, RecordPrOpened, RecordCiRunning, RecordCiPassed,
         RecordCiFailed, RequestChangesAfterCiFail, EscalateClosed, EscalateFixLimit,
         CountFix, Valid, Move
<1>3. ASSUME NEW f \in Feature, Review(f) PROVE ActiveIsOccupied'
  BY <1>3
  DEF Review, RecordChangesRequested, EscalateReview, OpenDispute,
         ArbiterRules, CountFix, Move
<1>4. ASSUME NEW f \in Feature, Merge(f) PROVE ActiveIsOccupied'
  BY <1>4
  DEF Merge, RecordApprovedByPolicy, MergeIfReady, RecordMerged,
         RecordMergeFailed, ReconcileMergeFailed, EscalateMergeFailed,
         GatePasses, ClearActive, Valid, Move
<1>5. ASSUME NEW f \in Feature, Human(f) PROVE ActiveIsOccupied'
  BY <1>5
  DEF Human, ResolveDisagreement, ResumeFeatureExecution, RetryFeature,
         SkipFeature, BlockFeature, HumanUnblockFeature, Cascade, ClearActive, Valid, Move
<1>6. CASE PauseAutomation \/ ResumeAutomation
  BY <1>6 DEF PauseAutomation, ResumeAutomation
<1>7. CASE UNCHANGED vars
  BY <1>7 DEF vars
<1> QED
  BY <1>1, <1>2, <1>3, <1>4, <1>5, <1>6, <1>7 DEF Next

\* The active pointer of workflow_states names a run that is being worked on
\* or waits for a human.
THEOREM ActiveNeverDangles == Spec => []ActiveIsOccupied
<1>1. Init => ActiveIsOccupied
  BY DEF Init, ActiveIsOccupied, DepsMerged, NotStarted, MergeStage
<1>2. TypeOK /\ ActiveIsOccupied /\ [Next]_vars => ActiveIsOccupied'
  BY ActiveStep
<1> QED
  BY <1>1, <1>2, TypeCorrect, PTL DEF Spec

-----------------------------------------------------------------------------
\* The gate demands the active run; select needs a free pointer.
LEMMA MergeStageStep == TypeOK /\ MergeStageIsActive /\ [Next]_vars => MergeStageIsActive'
<1> SUFFICES ASSUME TypeOK, MergeStageIsActive, [Next]_vars PROVE MergeStageIsActive'
  OBVIOUS
<1> USE FeatureAssumption, MatrixTo, Sets
    DEF TypeOK, run, records, project, MergeStageIsActive
<1>1. ASSUME NEW f \in Feature, Code(f) PROVE MergeStageIsActive'
  BY <1>1
  DEF Code, SelectFeature, StartCoding, RecordCodePushed, StartFixing, Valid, Move
<1>2. ASSUME NEW f \in Feature, Reconcile(f) PROVE MergeStageIsActive'
  BY <1>2
  DEF Reconcile, RecordPrOpened, RecordCiRunning, RecordCiPassed,
         RecordCiFailed, RequestChangesAfterCiFail, EscalateClosed, EscalateFixLimit,
         CountFix, Valid, Move
<1>3. ASSUME NEW f \in Feature, Review(f) PROVE MergeStageIsActive'
  BY <1>3
  DEF Review, RecordChangesRequested, EscalateReview, OpenDispute,
         ArbiterRules, CountFix, Move
<1>4. ASSUME NEW f \in Feature, Merge(f) PROVE MergeStageIsActive'
  BY <1>4
  DEF Merge, RecordApprovedByPolicy, MergeIfReady, RecordMerged,
         RecordMergeFailed, ReconcileMergeFailed, EscalateMergeFailed,
         GatePasses, ClearActive, Valid, Move
<1>5. ASSUME NEW f \in Feature, Human(f) PROVE MergeStageIsActive'
  BY <1>5
  DEF Human, ResolveDisagreement, ResumeFeatureExecution, RetryFeature,
         SkipFeature, BlockFeature, HumanUnblockFeature, Cascade, ClearActive, Valid, Move
<1>6. CASE PauseAutomation \/ ResumeAutomation
  BY <1>6 DEF PauseAutomation, ResumeAutomation
<1>7. CASE UNCHANGED vars
  BY <1>7 DEF vars
<1> QED
  BY <1>1, <1>2, <1>3, <1>4, <1>5, <1>6, <1>7 DEF Next

\* A run in the merge stage is the active run.
THEOREM MergeStageHoldsLane == Spec => []MergeStageIsActive
<1>1. Init => MergeStageIsActive
  BY DEF Init, MergeStageIsActive, DepsMerged, NotStarted, MergeStage
<1>2. TypeOK /\ MergeStageIsActive /\ [Next]_vars => MergeStageIsActive'
  BY MergeStageStep
<1> QED
  BY <1>1, <1>2, TypeCorrect, PTL DEF Spec

\* Two runs are never in the merge stage together.
COROLLARY OneMergeAtATime ==
    Spec => [](\A f, g \in Feature :
                   state[f] \in MergeStage /\ state[g] \in MergeStage => f = g)
<1>1. MergeStageIsActive => \A f, g \in Feature :
          state[f] \in MergeStage /\ state[g] \in MergeStage => f = g
  BY DEF MergeStageIsActive
<1> QED
  BY <1>1, MergeStageHoldsLane, PTL

-----------------------------------------------------------------------------
\* A finding or a veto always comes with a move out of the merge stage.
LEMMA OutstandingStep == TypeOK /\ NothingOutstandingAtMerge /\ [Next]_vars => NothingOutstandingAtMerge'
<1> SUFFICES ASSUME TypeOK, NothingOutstandingAtMerge, [Next]_vars PROVE NothingOutstandingAtMerge'
  OBVIOUS
<1> USE FeatureAssumption, MatrixTo, Sets
    DEF TypeOK, run, records, project, NothingOutstandingAtMerge
<1>1. ASSUME NEW f \in Feature, Code(f) PROVE NothingOutstandingAtMerge'
  BY <1>1
  DEF Code, SelectFeature, StartCoding, RecordCodePushed, StartFixing, Valid, Move
<1>2. ASSUME NEW f \in Feature, Reconcile(f) PROVE NothingOutstandingAtMerge'
  BY <1>2
  DEF Reconcile, RecordPrOpened, RecordCiRunning, RecordCiPassed,
         RecordCiFailed, RequestChangesAfterCiFail, EscalateClosed, EscalateFixLimit,
         CountFix, Valid, Move
<1>3. ASSUME NEW f \in Feature, Review(f) PROVE NothingOutstandingAtMerge'
  BY <1>3
  DEF Review, RecordChangesRequested, EscalateReview, OpenDispute,
         ArbiterRules, CountFix, Move
<1>4. ASSUME NEW f \in Feature, Merge(f) PROVE NothingOutstandingAtMerge'
  BY <1>4
  DEF Merge, RecordApprovedByPolicy, MergeIfReady, RecordMerged,
         RecordMergeFailed, ReconcileMergeFailed, EscalateMergeFailed,
         GatePasses, ClearActive, Valid, Move
<1>5. ASSUME NEW f \in Feature, Human(f) PROVE NothingOutstandingAtMerge'
  BY <1>5
  DEF Human, ResolveDisagreement, ResumeFeatureExecution, RetryFeature,
         SkipFeature, BlockFeature, HumanUnblockFeature, Cascade, ClearActive, Valid, Move
<1>6. CASE PauseAutomation \/ ResumeAutomation
  BY <1>6 DEF PauseAutomation, ResumeAutomation
<1>7. CASE UNCHANGED vars
  BY <1>7 DEF vars
<1> QED
  BY <1>1, <1>2, <1>3, <1>4, <1>5, <1>6, <1>7 DEF Next

\* A merged run had a tracked pull request, no unresolved blocking finding and
\* no standing human veto, from the gate's approval to the merge.
THEOREM MergedWithNothingOutstanding == Spec => []NothingOutstandingAtMerge
<1>1. Init => NothingOutstandingAtMerge
  BY DEF Init, NothingOutstandingAtMerge, DepsMerged, NotStarted, MergeStage
<1>2. TypeOK /\ NothingOutstandingAtMerge /\ [Next]_vars => NothingOutstandingAtMerge'
  BY OutstandingStep
<1> QED
  BY <1>1, <1>2, TypeCorrect, PTL DEF Spec

-----------------------------------------------------------------------------
\* Skip blocks its dependents; unblock asks for merged dependencies.
LEMMA SkippedStep == TypeOK /\ NoPendingBehindSkipped /\ [Next]_vars => NoPendingBehindSkipped'
<1> SUFFICES ASSUME TypeOK, NoPendingBehindSkipped, [Next]_vars PROVE NoPendingBehindSkipped'
  OBVIOUS
<1> USE FeatureAssumption, MatrixTo, Sets
    DEF TypeOK, run, records, project, NoPendingBehindSkipped, DepsMerged
<1>1. ASSUME NEW f \in Feature, Code(f) PROVE NoPendingBehindSkipped'
  BY <1>1
  DEF Code, SelectFeature, StartCoding, RecordCodePushed, StartFixing, Valid, Move
<1>2. ASSUME NEW f \in Feature, Reconcile(f) PROVE NoPendingBehindSkipped'
  BY <1>2
  DEF Reconcile, RecordPrOpened, RecordCiRunning, RecordCiPassed,
         RecordCiFailed, RequestChangesAfterCiFail, EscalateClosed, EscalateFixLimit,
         CountFix, Valid, Move
<1>3. ASSUME NEW f \in Feature, Review(f) PROVE NoPendingBehindSkipped'
  BY <1>3
  DEF Review, RecordChangesRequested, EscalateReview, OpenDispute,
         ArbiterRules, CountFix, Move
<1>4. ASSUME NEW f \in Feature, Merge(f) PROVE NoPendingBehindSkipped'
  BY <1>4
  DEF Merge, RecordApprovedByPolicy, MergeIfReady, RecordMerged,
         RecordMergeFailed, ReconcileMergeFailed, EscalateMergeFailed,
         GatePasses, ClearActive, Valid, Move
<1>5. ASSUME NEW f \in Feature, Human(f) PROVE NoPendingBehindSkipped'
  BY <1>5
  DEF Human, ResolveDisagreement, ResumeFeatureExecution, RetryFeature,
         SkipFeature, BlockFeature, HumanUnblockFeature, Cascade, ClearActive, Valid, Move
<1>6. CASE PauseAutomation \/ ResumeAutomation
  BY <1>6 DEF PauseAutomation, ResumeAutomation
<1>7. CASE UNCHANGED vars
  BY <1>7 DEF vars
<1> QED
  BY <1>1, <1>2, <1>3, <1>4, <1>5, <1>6, <1>7 DEF Next

\* No run is pending behind a direct dependency that was skipped.
THEOREM SkipCascades == Spec => []NoPendingBehindSkipped
<1>1. Init => NoPendingBehindSkipped
  BY DEF Init, NoPendingBehindSkipped, DepsMerged, NotStarted, MergeStage
<1>2. TypeOK /\ NoPendingBehindSkipped /\ [Next]_vars => NoPendingBehindSkipped'
  BY SkippedStep
<1> QED
  BY <1>1, <1>2, TypeCorrect, PTL DEF Spec

-----------------------------------------------------------------------------
\* A tracked pull request is a trace of an earlier start: by it a webhook can
\* move a run that was blocked and unblocked again.
TrackedAfterDependencies ==
    \A f \in Feature \ Foreign : tracked[f] => DepsMerged(f)

\* StartedAfterDependencies in the words of the gate, DepsMerged.
PastTheGate ==
    \A f \in Feature \ Foreign : state[f] \notin NotStarted => DepsMerged(f)

StartedInv == TrackedAfterDependencies /\ PastTheGate

\* 'merged' is final, so dependencies once merged stay merged.
LEMMA DepsMergedStable ==
    ASSUME TypeOK, [Next]_vars, NEW g \in Feature, DepsMerged(g)
    PROVE  DepsMerged(g)'
<1> USE FeatureAssumption, MatrixTo, Sets DEF TypeOK, run, records, project, DepsMerged
<1>1. ASSUME NEW f \in Feature, Code(f) PROVE DepsMerged(g)'
  BY <1>1 DEF Code, SelectFeature, StartCoding, RecordCodePushed, StartFixing, Valid, Move
<1>2. ASSUME NEW f \in Feature, Reconcile(f) PROVE DepsMerged(g)'
  BY <1>2
  DEF Reconcile, RecordPrOpened, RecordCiRunning, RecordCiPassed, RecordCiFailed,
      RequestChangesAfterCiFail, EscalateClosed, EscalateFixLimit, Valid, Move
<1>3. ASSUME NEW f \in Feature, Review(f) PROVE DepsMerged(g)'
  BY <1>3
  DEF Review, RecordChangesRequested, EscalateReview, OpenDispute, ArbiterRules, Valid, Move
<1>4. ASSUME NEW f \in Feature, Merge(f) PROVE DepsMerged(g)'
  BY <1>4
  DEF Merge, RecordApprovedByPolicy, MergeIfReady, RecordMerged, RecordMergeFailed,
      ReconcileMergeFailed, EscalateMergeFailed, Valid, Move
<1>5. ASSUME NEW f \in Feature, Human(f) PROVE DepsMerged(g)'
  <2>1. CASE SkipFeature(f)
    BY <2>1 DEF SkipFeature, Cascade, Valid
  <2>2. CASE ~SkipFeature(f)
    BY <1>5, <2>2
    DEF Human, ResolveDisagreement, ResumeFeatureExecution, RetryFeature,
        BlockFeature, HumanUnblockFeature, Valid, Move
  <2> QED
    BY <2>1, <2>2
<1>6. CASE PauseAutomation \/ ResumeAutomation
  BY <1>6 DEF PauseAutomation, ResumeAutomation
<1>7. CASE UNCHANGED vars
  BY <1>7 DEF vars
<1> QED
  BY <1>1, <1>2, <1>3, <1>4, <1>5, <1>6, <1>7 DEF Next

\* A run leaves NotStarted by select, or by a webhook through its pull request;
\* retry asks for the active run, which is never a pending one.
LEMMA StartedStep == TypeOK /\ ActiveIsOccupied /\ StartedInv /\ [Next]_vars => StartedInv'
<1> SUFFICES ASSUME TypeOK, ActiveIsOccupied, StartedInv, [Next]_vars PROVE StartedInv'
  OBVIOUS
<1> USE FeatureAssumption, MatrixTo, Sets, DepsMergedStable
    DEF TypeOK, run, records, project, StartedInv, PastTheGate,
        TrackedAfterDependencies, Observed
<1>1. ASSUME NEW f \in Feature, Code(f) PROVE StartedInv'
  BY <1>1
  DEF Code, SelectFeature, StartCoding, RecordCodePushed, StartFixing, Valid, Move
<1>2. ASSUME NEW f \in Feature, Reconcile(f) PROVE StartedInv'
  BY <1>2
  DEF Reconcile, RecordPrOpened, RecordCiRunning, RecordCiPassed,
         RecordCiFailed, RequestChangesAfterCiFail, EscalateClosed, EscalateFixLimit,
         CountFix, Valid, Move
<1>3. ASSUME NEW f \in Feature, Review(f) PROVE StartedInv'
  BY <1>3
  DEF Review, RecordChangesRequested, EscalateReview, OpenDispute,
         ArbiterRules, CountFix, Move
<1>4. ASSUME NEW f \in Feature, Merge(f) PROVE StartedInv'
  BY <1>4
  DEF Merge, RecordApprovedByPolicy, MergeIfReady, RecordMerged,
         RecordMergeFailed, ReconcileMergeFailed, EscalateMergeFailed,
         GatePasses, ClearActive, Valid, Move
<1>5. ASSUME NEW f \in Feature, Human(f) PROVE StartedInv'
  <2>1. CASE SkipFeature(f)
    <3> SUFFICES ASSUME NEW g \in Feature \ Foreign,
                        tracked'[g] \/ state'[g] \notin NotStarted
                 PROVE  DepsMerged(g)'
      OBVIOUS
    <3>1. tracked' = tracked
      BY <2>1 DEF SkipFeature
    <3>2. state'[g] \notin NotStarted => state[g] = state'[g]
      BY <2>1 DEF SkipFeature
    <3>3. DepsMerged(g)
      BY <3>1, <3>2
    <3> QED
      BY <3>3, DepsMergedStable
  <2>2. CASE ResolveDisagreement(f)
    BY <2>2 DEF ResolveDisagreement, Valid, Move
  <2>3. CASE ResumeFeatureExecution(f)
    BY <2>3 DEF ResumeFeatureExecution, Valid, Move
  <2>4. CASE RetryFeature(f)
    BY <2>4 DEF RetryFeature, Valid, Move, ActiveIsOccupied
  <2>5. CASE BlockFeature(f)
    BY <2>5 DEF BlockFeature, Valid, Move
  <2>6. CASE HumanUnblockFeature(f)
    BY <2>6 DEF HumanUnblockFeature, Valid, Move
  <2> QED
    BY <1>5, <2>1, <2>2, <2>3, <2>4, <2>5, <2>6 DEF Human
<1>6. CASE PauseAutomation \/ ResumeAutomation
  BY <1>6 DEF PauseAutomation, ResumeAutomation
<1>7. CASE UNCHANGED vars
  BY <1>7 DEF vars
<1> QED
  BY <1>1, <1>2, <1>3, <1>4, <1>5, <1>6, <1>7 DEF Next

\* No run of a branch of its own is past approved_pending_execution unless all
\* its dependencies have merged.
THEOREM DependenciesComeFirst == Spec => []StartedAfterDependencies
<1>1. Init => StartedInv
  BY DEF Init, StartedInv, TrackedAfterDependencies, PastTheGate, NotStarted
<1>2. StartedInv => StartedAfterDependencies
  BY DEF StartedInv, PastTheGate, DepsMerged, StartedAfterDependencies
<1> QED
  BY <1>1, <1>2, StartedStep, TypeCorrect, ActiveNeverDangles, PTL DEF Spec

-----------------------------------------------------------------------------
(* The completion of the project                                           *)

\* Every run is skipped, or merged with nothing outstanding.
Delivered ==
    \A f \in Feature : \/ state[f] = "skipped"
                       \/ state[f] = "merged" /\ ~unresolved[f]

\* No pair of the matrix leaves merged or skipped, and the actions that do not
\* ask the matrix name the state they start from.
LEMMA DeliveredStep == TypeOK /\ Delivered /\ [Next]_vars => Delivered'
<1> SUFFICES ASSUME TypeOK, Delivered, [Next]_vars PROVE Delivered'
  OBVIOUS
<1> USE FeatureAssumption, MatrixTo DEF TypeOK, run, records, project, Delivered
<1>1. ASSUME NEW f \in Feature, Code(f) PROVE Delivered'
  BY <1>1
  DEF Code, SelectFeature, StartCoding, RecordCodePushed, StartFixing, Valid, Move
<1>2. ASSUME NEW f \in Feature, Reconcile(f) PROVE Delivered'
  BY <1>2
  DEF Reconcile, RecordPrOpened, RecordCiRunning, RecordCiPassed,
         RecordCiFailed, RequestChangesAfterCiFail, EscalateClosed, EscalateFixLimit,
         CountFix, Valid, Move
<1>3. ASSUME NEW f \in Feature, Review(f) PROVE Delivered'
  BY <1>3
  DEF Review, RecordChangesRequested, EscalateReview, OpenDispute,
         ArbiterRules, CountFix, Valid, Move
<1>4. ASSUME NEW f \in Feature, Merge(f) PROVE Delivered'
  BY <1>4
  DEF Merge, RecordApprovedByPolicy, MergeIfReady, RecordMerged,
         RecordMergeFailed, ReconcileMergeFailed, EscalateMergeFailed,
         GatePasses, ClearActive, Valid, Move
<1>5. ASSUME NEW f \in Feature, Human(f) PROVE Delivered'
  BY <1>5
  DEF Human, ResolveDisagreement, ResumeFeatureExecution, RetryFeature,
         SkipFeature, BlockFeature, HumanUnblockFeature, Cascade, ClearActive, Valid, Move
<1>6. CASE PauseAutomation \/ ResumeAutomation
  BY <1>6 DEF PauseAutomation, ResumeAutomation
<1>7. CASE UNCHANGED vars
  BY <1>7 DEF vars
<1> QED
  BY <1>1, <1>2, <1>3, <1>4, <1>5, <1>6, <1>7 DEF Next

\* What the open transaction saw and what the completed project was judged by
\* still holds, however many commands have run since.
CompletionInv ==
    passed \/ delivery = "implementation_complete" => Delivered

\* A completed project fails its acceptance only through work that was added:
\* no command on a feature run, before or after the commit, invalidates it.
THEOREM CompletionIsFinal == CompletionSpec => []OnlyLateWorkViolates
<1> DEFINE Inv == TypeOK /\ CompletionInv
<1>1. CompletionInit => Inv
  <2> SUFFICES ASSUME CompletionInit PROVE Inv
    OBVIOUS
  <2>1. TypeOK
    BY FeatureAssumption DEF CompletionInit, Init, TypeOK, State
  <2> QED
    BY <2>1 DEF CompletionInit, CompletionInv
<1>2. Inv /\ [CompletionNext]_<<vars, completion>> => Inv'
  <2> SUFFICES ASSUME Inv, [CompletionNext]_<<vars, completion>> PROVE Inv'
    OBVIOUS
  <2>1. CASE Next /\ UNCHANGED completion
    BY <2>1, Typing, DeliveredStep DEF completion, CompletionInv
  <2>2. CASE UNCHANGED vars /\ (Complete \/ UNCHANGED completion)
    <3>1. TypeOK' /\ (Delivered <=> Delivered')
      BY <2>2, Typing DEF vars, run, records, Delivered
    <3>2. CASE EvaluateAcceptance
      BY <3>1, <3>2 DEF EvaluateAcceptance, Accepted, Delivered, CompletionInv
    <3>3. CASE MarkImplementationComplete \/ RollBack \/ ExtendBacklog
      BY <3>1, <3>3 DEF MarkImplementationComplete, RollBack, ExtendBacklog, CompletionInv
    <3>4. CASE UNCHANGED completion
      BY <3>1, <3>4 DEF completion, CompletionInv
    <3> QED
      BY <2>2, <3>2, <3>3, <3>4 DEF Complete
  <2>3. Complete => UNCHANGED vars
    BY DEF Complete, EvaluateAcceptance, MarkImplementationComplete, RollBack, ExtendBacklog
  <2> QED
    BY <2>1, <2>2, <2>3 DEF CompletionNext
<1>3. Inv => OnlyLateWorkViolates
  BY DEF CompletionInv, Delivered, OnlyLateWorkViolates, AcceptanceViolated, Accepted
<1> QED
  BY <1>1, <1>2, <1>3, PTL DEF CompletionSpec

-----------------------------------------------------------------------------
(* The tasks                                                               *)

LEMMA IdleIsNoTask == Idle \notin Task
  BY DEF Idle, Task, Step

\* A task that is not idle works on one of the runs.
LEMMA TaskRuns ==
    ASSUME PipelineTypeOK, NEW w \in Worker, task[w] # Idle
    PROVE  task[w] \in Task /\ task[w].run \in Feature
  BY DEF PipelineTypeOK, Task

\* What a worker goes on as, and what the others become, are invocations.
LEMMA ContinueTyped ==
    ASSUME PipelineTypeOK, NEW w \in Worker, NEW t \in Task \cup {Idle}, Continue(w, t)
    PROVE  task' \in [Worker -> Task \cup {Idle}]
<1>1. \A v \in Worker : Aged(v) \in Task \cup {Idle}
  BY DEF Aged, PipelineTypeOK, Task
<1> QED
  BY <1>1 DEF Continue

LEMMA ContinueWritingTyped ==
    ASSUME PipelineTypeOK, NEW w \in Worker, NEW t \in Task \cup {Idle},
           NEW how \in {"written", "requested"}, ContinueWriting(w, t, how)
    PROVE  task' \in [Worker -> Task \cup {Idle}]
<1>1. \A v \in Worker : Aged(v) \in Task \cup {Idle}
  BY DEF Aged, PipelineTypeOK, Task
<1>2. ASSUME NEW v \in Worker, task[v] # Idle
      PROVE  [Aged(v) EXCEPT !.cycle = IF @ = "requested" THEN @ ELSE how] \in Task
  <2>1. task[v] \in Task /\ Aged(v) \in Task
    BY <1>2 DEF Aged, PipelineTypeOK, Task
  <2> HIDE DEF Aged
  <2>2. \A t1 \in Task, c \in {"free", "written", "requested"} :
            [t1 EXCEPT !.cycle = c] \in Task
    BY DEF Task
  <2>3. (IF Aged(v).cycle = "requested" THEN Aged(v).cycle ELSE how)
            \in {"free", "written", "requested"}
    OBVIOUS
  <2> QED
    BY <2>1, <2>2, <2>3
<1> QED
  BY <1>1, <1>2 DEF ContinueWriting

LEMMA OthersTyped ==
    ASSUME PipelineTypeOK, Others
    PROVE  task' \in [Worker -> Task \cup {Idle}]
<1>1. \A v \in Worker : Aged(v) \in Task \cup {Idle}
  BY DEF Aged, PipelineTypeOK, Task
<1> QED
  BY <1>1 DEF Others

\* The records that invocations begin and go on with.
LEMMA BegunTyped ==
    ASSUME FixThreshold \in Nat, MaxCommits \in Nat, NEW step \in Step, NEW f \in Feature
    PROVE  /\ Begun(step, f) \in Task
           /\ [Begun(step, f) EXCEPT !.current = FALSE] \in Task
           /\ \A given \in BOOLEAN :
                [Begun(step, f) EXCEPT !.current = FALSE, !.given = given] \in Task
           /\ \A n \in 0 .. FixThreshold, c \in 0 .. MaxCommits :
                [Begun(step, f) EXCEPT !.fixes = n, !.commit = c] \in Task
<1>1. Begun(step, f) \in Task
  BY SMT DEF Begun, Task
<1>2. \A t \in Task : [t EXCEPT !.current = FALSE] \in Task
  BY DEF Task
<1>3. \A t \in Task, given \in BOOLEAN :
          [t EXCEPT !.current = FALSE, !.given = given] \in Task
  BY DEF Task
<1>4. \A t \in Task, n \in 0 .. FixThreshold, c \in 0 .. MaxCommits :
          [t EXCEPT !.fixes = n, !.commit = c] \in Task
  BY DEF Task
<1> QED
  BY <1>1, <1>2, <1>3, <1>4

LEMMA ToTyped ==
    ASSUME PipelineTypeOK, FixThreshold \in Nat, MaxCommits \in Nat,
           NEW w \in Worker, task[w] # Idle, NEW step \in Step
    PROVE  /\ To(w, step) \in Task
           /\ \A c \in 0 .. MaxCommits : [To(w, step) EXCEPT !.commit = c] \in Task
<1>1. \A t \in Task, cu \in BOOLEAN, n \in 0 .. FixThreshold, c \in 0 .. MaxCommits :
          [t EXCEPT !.at = step, !.current = cu, !.fixes = n, !.commit = c] \in Task
  BY DEF Task
<1>2. /\ (task[w].current /\ step # "clear") \in BOOLEAN
      /\ (IF step = "clear" THEN 0 ELSE task[w].fixes) \in 0 .. FixThreshold
      /\ (IF step \in {"request", "escalate"} THEN 0 ELSE task[w].commit) \in 0 .. MaxCommits
  BY TaskRuns DEF Task
<1>3. To(w, step) \in Task
  BY <1>1, <1>2, TaskRuns DEF To
<1>4. \A t \in Task, c \in 0 .. MaxCommits : [t EXCEPT !.commit = c] \in Task
  BY DEF Task
<1> QED
  BY <1>3, <1>4

LEMMA StepNames ==
    /\ {"start coding", "clone", "push", "record push", "open pr", "review"}
           \subseteq Step
    /\ {"dispute", "arbiter", "clear", "request", "escalate", "start fixing"}
           \subseteq Step
  BY DEF Step

-----------------------------------------------------------------------------
\* Every step of a task, of the forge, of the reconciliation or of a human is a
\* command of FeatureExecution or leaves the runs alone.
LEMMA StepsAreCommands == PipelineTypeOK /\ PipelineNext => [Next]_vars
<1> SUFFICES ASSUME PipelineTypeOK, PipelineNext PROVE [Next]_vars
  OBVIOUS
<1>1. ASSUME NEW w \in Worker, NEW f \in Feature, TriggerTask(w, f) PROVE [Next]_vars
  <2>1. CASE StartNextFeature(w, f)
    BY <2>1 DEF StartNextFeature, Once, Next, Code
  <2>2. CASE RunCoder(w, f) \/ RunReview(w, f)
    BY <2>2 DEF RunCoder, RunReview, Begin
  <2> QED
    BY <1>1, <2>1, <2>2 DEF TriggerTask
<1>2. ASSUME NEW w \in Worker, RunStep(w) PROVE [Next]_vars
  <2>1. CASE DispatchStartCoding(w)
    BY <2>1, TaskRuns DEF DispatchStartCoding, At, Once, Next, Code
  <2>2. CASE DispatchCodePushed(w)
    <3>1. task[w].given \in BOOLEAN
      BY <2>2, TaskRuns DEF DispatchCodePushed, At, Task
    <3> QED
      BY <2>2, <3>1, TaskRuns DEF DispatchCodePushed, At, Once, Next, Code
  <2>3. CASE InsertDisagreement(w)
    BY <2>3, TaskRuns DEF InsertDisagreement, At, Next, Review
  <2>4. CASE Arbitrate(w)
    BY <2>4, TaskRuns DEF Arbitrate, At, Next, Review
  <2>5. CASE RequestChanges(w)
    BY <2>5, TaskRuns DEF RequestChanges, At, Kept, Next, Review
  <2>6. CASE DispatchEscalation(w)
    BY <2>6, TaskRuns DEF DispatchEscalation, At, Kept, Once, Next, Review
  <2>7. CASE DispatchStartFixing(w)
    BY <2>7, TaskRuns DEF DispatchStartFixing, At, Next, Code
  <2>8. CASE PrepareBranch(w) \/ CommitAndPush(w) \/ CreatePullRequest(w)
             \/ Judge(w) \/ ClearReview(w)
    BY <2>8 DEF PrepareBranch, CommitAndPush, CreatePullRequest, Judge, ClearReview
  <2> QED
    BY <1>2, <2>1, <2>2, <2>3, <2>4, <2>5, <2>6, <2>7, <2>8 DEF RunStep
<1>3. ASSUME NEW w \in Worker, Quit(w) PROVE [Next]_vars
  BY <1>3 DEF Quit
<1>4. ASSUME NEW f \in Feature, HumanPush(f) PROVE [Next]_vars
  BY <1>4 DEF HumanPush
<1>5. ASSUME NEW f \in Feature, RunMergeGate(f) PROVE [Next]_vars
  BY <1>5 DEF RunMergeGate, Next, Merge
<1>6. ASSUME NEW f \in Feature, ObservePullRequest(f) PROVE [Next]_vars
  BY <1>6 DEF ObservePullRequest, Next, Review
<1>7. CASE Intervene
  BY <1>7 DEF Intervene, MergeRun, Next, Merge
<1> QED
  BY <1>1, <1>2, <1>3, <1>4, <1>5, <1>6, <1>7 DEF PipelineNext

-----------------------------------------------------------------------------
(* Typing                                                                  *)

LEMMA KeysTyped ==
    ASSUME MaxCommits \in Nat, PipelineTypeOK, NEW f \in Feature, NEW n \in 0 .. MaxCommits,
           NEW name \in {"select", "start", "push", "escalate"},
           keys' \subseteq keys \cup {<<name, f, n>>}
    PROVE  keys' \subseteq {"select", "start", "push", "escalate"}
                              \X Feature \X (0 .. MaxCommits)
<1> DEFINE K == {"select", "start", "push", "escalate"} \X Feature \X (0 .. MaxCommits)
<1>1. <<name, f, n>> \in K
  OBVIOUS
<1>2. keys \subseteq K
  BY DEF PipelineTypeOK
<1> QED
  BY <1>1, <1>2

LEMMA BranchTyped ==
    ASSUME MaxCommits \in Nat, PipelineTypeOK, NEW f \in Feature,
           NEW author \in {"coder", "human"}, Len(branch[f]) < MaxCommits,
           branch' = [branch EXCEPT ![f] = Append(@, author)]
    PROVE  /\ branch' \in [Feature -> Seq({"coder", "human"})]
           /\ \A g \in Feature : Len(branch'[g]) <= MaxCommits
<1>1. branch[f] \in Seq({"coder", "human"})
  BY DEF PipelineTypeOK
<1>2. /\ Append(branch[f], author) \in Seq({"coder", "human"})
      /\ Len(Append(branch[f], author)) = Len(branch[f]) + 1
  BY <1>1, AppendProperties
<1>3. Len(branch[f]) + 1 <= MaxCommits
  BY <1>1, LenProperties
<1> QED
  BY <1>1, <1>2, <1>3 DEF PipelineTypeOK

\* The rows a step does not touch keep their types.
LEMMA PipelineTyping == PipelineTypeOK /\ [PipelineNext]_pipelineVars => PipelineTypeOK'
<1> SUFFICES ASSUME PipelineTypeOK, [PipelineNext]_pipelineVars PROVE PipelineTypeOK'
  OBVIOUS
<1> USE FeatureAssumption, PipelineAssumption
<1>1. TypeOK'
  BY StepsAreCommands, Typing DEF PipelineTypeOK, pipelineVars
<1>2. CASE UNCHANGED pipelineVars
  BY <1>1, <1>2 DEF PipelineTypeOK, pipelineVars, forge, observed
<1>3. ASSUME UNCHANGED <<keys, forge, observed>>, task' \in [Worker -> Task \cup {Idle}]
      PROVE  PipelineTypeOK'
  BY <1>1, <1>3 DEF PipelineTypeOK, forge, observed
<1>4. ASSUME NEW w \in Worker, NEW f \in Feature, TriggerTask(w, f) PROVE PipelineTypeOK'
  <2>1. CASE StartNextFeature(w, f)
    <3>1. task' \in [Worker -> Task \cup {Idle}]
      BY <2>1, BegunTyped, StepNames, ContinueTyped DEF StartNextFeature
    <3>2. keys' \subseteq keys \cup {<<"select", f, 0>>}
      BY <2>1 DEF StartNextFeature, Once
    <3>3. keys' \subseteq {"select", "start", "push", "escalate"}
                             \X Feature \X (0 .. MaxCommits)
      BY <3>2, KeysTyped
    <3> QED
      BY <1>1, <2>1, <3>1, <3>3 DEF StartNextFeature, PipelineTypeOK, forge, observed
  <2>2. CASE RunCoder(w, f)
    <3>1. (state[f] = "fixing" /\ unresolved[f]) \in BOOLEAN
      OBVIOUS
    <3>2. PICK t \in Task : Begin(w, t)
      BY <2>2, <3>1, BegunTyped, StepNames DEF RunCoder
    <3> QED
      BY <1>3, <3>2, ContinueTyped DEF Begin
  <2>3. CASE RunReview(w, f)
    <3>1. fixes[f] \in 0 .. FixThreshold /\ mirror[f] \in 0 .. MaxCommits
      BY DEF PipelineTypeOK, TypeOK
    <3>2. PICK t \in Task : Begin(w, t)
      BY <2>3, <3>1, BegunTyped, StepNames DEF RunReview
    <3> QED
      BY <1>3, <3>2, ContinueTyped DEF Begin
  <2> QED
    BY <1>4, <2>1, <2>2, <2>3 DEF TriggerTask
<1>5. ASSUME NEW w \in Worker, RunStep(w) PROVE PipelineTypeOK'
  <2>1. CASE DispatchStartCoding(w)
    <3>1. task[w] # Idle /\ task[w].run \in Feature
      BY <2>1, TaskRuns DEF DispatchStartCoding, At
    <3>2. task' \in [Worker -> Task \cup {Idle}]
      BY <2>1, ContinueTyped DEF DispatchStartCoding
    <3>3. keys' \subseteq keys \cup {<<"start", task[w].run, 0>>}
      BY <2>1 DEF DispatchStartCoding, Once
    <3>4. keys' \subseteq {"select", "start", "push", "escalate"}
                             \X Feature \X (0 .. MaxCommits)
      BY <3>1, <3>3, KeysTyped
    <3> QED
      BY <1>1, <2>1, <3>1, <3>2, <3>4
      DEF DispatchStartCoding, PipelineTypeOK, forge, observed
  <2>2. CASE PrepareBranch(w)
    <3>1. task[w] # Idle /\ Len(branch[task[w].run]) \in 0 .. MaxCommits
      BY <2>2, TaskRuns DEF PrepareBranch, At, PipelineTypeOK
    <3>2. [To(w, "push") EXCEPT !.commit = Len(branch[task[w].run])] \in Task
      BY <3>1, ToTyped, StepNames
    <3> QED
      BY <1>3, <2>2, <3>2, ContinueTyped DEF PrepareBranch
  <2>3. CASE CommitAndPush(w)
    <3>1. task[w] # Idle /\ task[w].run \in Feature
      BY <2>3, TaskRuns DEF CommitAndPush, At
    <3>2. To(w, "record push") \in Task
      BY <3>1, ToTyped, StepNames
    <3>3. CASE Continue(w, To(w, "record push")) /\ UNCHANGED branch
      BY <1>3, <2>3, <3>2, <3>3, ContinueTyped DEF CommitAndPush, forge
    <3>4. CASE /\ Len(branch[task[w].run]) < MaxCommits
               /\ branch' = [branch EXCEPT ![task[w].run] = Append(@, "coder")]
               /\ Continue(w, [To(w, "record push") EXCEPT
                                   !.commit = Len(branch[task[w].run]) + 1])
      <4>1. Len(branch[task[w].run]) + 1 \in 0 .. MaxCommits
        <5> branch[task[w].run] \in Seq({"coder", "human"})
          BY <3>1 DEF PipelineTypeOK
        <5>1. Len(branch[task[w].run]) \in Nat
          BY LenProperties
        <5>2. \A l \in Nat : l < MaxCommits => l + 1 \in 0 .. MaxCommits
          OBVIOUS
        <5>3. Len(branch[task[w].run]) < MaxCommits
          BY <3>4
        <5> QED
          BY ONLY <5>1, <5>2, <5>3
      <4>2. [To(w, "record push") EXCEPT !.commit = Len(branch[task[w].run]) + 1] \in Task
        BY <3>1, <4>1, ToTyped, StepNames
      <4>3. task' \in [Worker -> Task \cup {Idle}]
        BY <3>4, <4>2, ContinueTyped
      <4>4. /\ branch' \in [Feature -> Seq({"coder", "human"})]
            /\ \A f \in Feature : Len(branch'[f]) <= MaxCommits
        BY <3>1, <3>4, BranchTyped
      <4> QED
        BY <1>1, <2>3, <4>3, <4>4 DEF CommitAndPush, PipelineTypeOK, observed
    <3> QED
      BY <2>3, <3>3, <3>4 DEF CommitAndPush
  <2>4. CASE DispatchCodePushed(w)
    <3>1. task[w] # Idle /\ task[w].run \in Feature /\ task[w].commit \in 0 .. MaxCommits
      BY <2>4, TaskRuns DEF DispatchCodePushed, At, Task
    <3>2. task' \in [Worker -> Task \cup {Idle}]
      BY <2>4, <3>1, BegunTyped, StepNames, ContinueTyped DEF DispatchCodePushed
    <3>3. keys' \subseteq keys \cup {<<"push", task[w].run, task[w].commit>>}
      BY <2>4 DEF DispatchCodePushed, Once
    <3>4. keys' \subseteq {"select", "start", "push", "escalate"}
                             \X Feature \X (0 .. MaxCommits)
      BY <3>1, <3>3, KeysTyped
    <3> QED
      BY <1>1, <2>4, <3>1, <3>2, <3>4
      DEF DispatchCodePushed, PipelineTypeOK, forge, observed
  <2>5. CASE CreatePullRequest(w)
    <3>1. task[w] # Idle /\ task[w].run \in Feature
      BY <2>5, TaskRuns DEF CreatePullRequest, At
    <3>2. task' \in [Worker -> Task \cup {Idle}]
      BY <2>5, ContinueTyped DEF CreatePullRequest
    <3> QED
      BY <1>1, <2>5, <3>1, <3>2 DEF CreatePullRequest, PipelineTypeOK, observed
  <2>6. CASE Judge(w)
    <3>1. PICK next \in {"clear", "escalate", "request", "dispute"} : Continue(w, To(w, next))
      BY <2>6 DEF Judge
    <3>2. task[w] # Idle /\ next \in Step
      BY <2>6, StepNames DEF Judge, At
    <3> QED
      BY <1>3, <2>6, <3>1, <3>2, ToTyped, ContinueTyped DEF Judge
  <2>7. CASE InsertDisagreement(w)
    <3>1. task[w] # Idle
      BY <2>7 DEF InsertDisagreement, At
    <3> QED
      BY <1>3, <2>7, <3>1, StepNames, ToTyped, ContinueTyped DEF InsertDisagreement
  <2>8. CASE Arbitrate(w)
    <3>1. PICK next \in {"escalate", "request", "clear"} : Continue(w, To(w, next))
      BY <2>8 DEF Arbitrate
    <3>2. task[w] # Idle /\ next \in Step
      BY <2>8, StepNames DEF Arbitrate, At
    <3> QED
      BY <1>3, <2>8, <3>1, <3>2, ToTyped, ContinueTyped DEF Arbitrate
  <2>9. CASE ClearReview(w)
    <3>1. task' \in [Worker -> Task \cup {Idle}]
      BY <2>9, ContinueTyped, ContinueWritingTyped DEF ClearReview
    <3>2. cleared' \in [Feature -> BOOLEAN]
      BY <2>9 DEF ClearReview, PipelineTypeOK
    <3> QED
      BY <1>1, <2>9, <3>1, <3>2 DEF ClearReview, PipelineTypeOK, forge
  <2>10. CASE RequestChanges(w)
    <3>1. Begun("start fixing", task[w].run) \in Task
      BY <2>10, TaskRuns, BegunTyped, StepNames DEF RequestChanges, At
    <3> QED
      BY <1>3, <2>10, <3>1, ContinueTyped, ContinueWritingTyped DEF RequestChanges
  <2>11. CASE DispatchEscalation(w)
    <3>1. task[w] # Idle /\ task[w].run \in Feature
      BY <2>11, TaskRuns DEF DispatchEscalation, At
    <3>2. task' \in [Worker -> Task \cup {Idle}]
      BY <2>11, ContinueTyped, ContinueWritingTyped DEF DispatchEscalation
    <3>3. keys' \subseteq keys \cup {<<"escalate", task[w].run, 0>>}
      BY <2>11 DEF DispatchEscalation, Once
    <3>4. keys' \subseteq {"select", "start", "push", "escalate"}
                             \X Feature \X (0 .. MaxCommits)
      BY <3>1, <3>3, KeysTyped
    <3> QED
      BY <1>1, <2>11, <3>1, <3>2, <3>4
      DEF DispatchEscalation, PipelineTypeOK, forge, observed
  <2>12. CASE DispatchStartFixing(w)
    BY <1>3, <2>12, ContinueTyped DEF DispatchStartFixing
  <2> QED
    BY <1>5, <2>1, <2>2, <2>3, <2>4, <2>5, <2>6, <2>7, <2>8, <2>9, <2>10, <2>11, <2>12
    DEF RunStep
<1>6. ASSUME NEW w \in Worker, Quit(w) PROVE PipelineTypeOK'
  BY <1>3, <1>6 DEF Quit, PipelineTypeOK
<1>7. ASSUME NEW f \in Feature, RunMergeGate(f) PROVE PipelineTypeOK'
  BY <1>3, <1>7, OthersTyped DEF RunMergeGate
<1>8. ASSUME NEW f \in Feature, HumanPush(f) PROVE PipelineTypeOK'
  <2>1. /\ branch' \in [Feature -> Seq({"coder", "human"})]
        /\ \A g \in Feature : Len(branch'[g]) <= MaxCommits
    BY <1>8, BranchTyped DEF HumanPush
  <2> QED
    BY <1>1, <1>8, <2>1 DEF HumanPush, PipelineTypeOK, observed
<1>9. ASSUME NEW f \in Feature, ObservePullRequest(f) PROVE PipelineTypeOK'
  <2>1. task' \in [Worker -> Task \cup {Idle}]
    BY <1>9, OthersTyped DEF ObservePullRequest
  <2>2. mirror' \in [Feature -> 0 .. MaxCommits] /\ cleared' \in [Feature -> BOOLEAN]
    BY <1>9 DEF ObservePullRequest, PipelineTypeOK
  <2> QED
    BY <1>1, <1>9, <2>1, <2>2 DEF ObservePullRequest, PipelineTypeOK, forge
<1>10. CASE Intervene
  BY <1>3, <1>10, OthersTyped DEF Intervene
<1> QED
  BY <1>2, <1>4, <1>5, <1>6, <1>7, <1>8, <1>9, <1>10 DEF PipelineNext

\* Invocations, keys, branches and mirrors are well formed in every state.
THEOREM PipelineTypeCorrect == PipelineSpec => []PipelineTypeOK
<1>1. PipelineInit => PipelineTypeOK
  BY FeatureAssumption, PipelineAssumption
  DEF PipelineInit, PipelineTypeOK, Init, TypeOK, State, Working
<1> QED
  BY <1>1, PipelineTyping, PTL DEF PipelineSpec

\* The tasks, interleaved, retried and killed, implement FeatureExecution: what
\* its theorems say of the runs holds under them.
THEOREM TasksImplementFeatureExecution == PipelineSpec => Spec
<1>1. PipelineInit => Init
  BY DEF PipelineInit
<1>2. PipelineTypeOK /\ [PipelineNext]_pipelineVars => [Next]_vars
  BY StepsAreCommands DEF pipelineVars
<1> QED
  BY <1>1, <1>2, PipelineTypeCorrect, PTL DEF PipelineSpec, Spec

-----------------------------------------------------------------------------
(* The branch                                                              *)

\* The forge only appends to a branch, and appends the coder's commit to
\* nothing or to a human's.
LEMMA BranchSteps ==
    ASSUME PipelineTypeOK, [PipelineNext]_pipelineVars, NEW f \in Feature
    PROVE  \/ branch'[f] = branch[f]
           \/ branch'[f] = Append(branch[f], "human")
           \/ /\ branch'[f] = Append(branch[f], "coder")
              /\ Len(branch[f]) = 0 \/ branch[f][Len(branch[f])] # "coder"
<1>1. CASE UNCHANGED branch
  BY <1>1
<1>2. ASSUME NEW w \in Worker, CommitAndPush(w), branch' # branch
      PROVE  /\ branch'[f] \in {branch[f], Append(branch[f], "coder")}
             /\ branch'[f] # branch[f] =>
                    Len(branch[f]) = 0 \/ branch[f][Len(branch[f])] # "coder"
  <2> DEFINE g == task[w].run
             n == task[w].commit
  <2>1. ~Existing(g, n) /\ FastForward(g, n)
        /\ branch' = [branch EXCEPT ![g] = Append(@, "coder")]
    BY <1>2 DEF CommitAndPush
  <2>2. g \in Feature /\ n \in Nat
    <3>1. task[w] # Idle
      BY <1>2 DEF CommitAndPush, At
    <3>2. g \in Feature /\ n \in 0 .. MaxCommits
      BY <3>1, TaskRuns DEF Task
    <3> QED
      BY <3>2, PipelineAssumption
  <2>3. CASE f = g
    <3>1. branch'[f] = Append(branch[f], "coder")
      BY <2>1, <2>3 DEF PipelineTypeOK
    <3>2. Len(branch[f]) = n /\ ~(n > 0 /\ branch[f][n] = "coder")
      BY <2>1, <2>3 DEF Existing, FastForward
    <3> QED
      BY <2>2, <3>1, <3>2
  <2>4. CASE f # g
    BY <2>1, <2>2, <2>4 DEF PipelineTypeOK
  <2> QED
    BY <2>3, <2>4
<1>3. ASSUME NEW g \in Feature, HumanPush(g)
      PROVE  branch'[f] \in {branch[f], Append(branch[f], "human")}
  BY <1>3 DEF HumanPush, PipelineTypeOK
<1>4. ASSUME branch' # branch
      PROVE  (\E w \in Worker : CommitAndPush(w)) \/ (\E g \in Feature : HumanPush(g))
  <2>1. ASSUME NEW w \in Worker, NEW g \in Feature, TriggerTask(w, g) PROVE FALSE
    BY <1>4, <2>1 DEF TriggerTask, StartNextFeature, RunCoder, RunReview, Begin, forge
  <2>2. ASSUME NEW w \in Worker, RunStep(w), ~CommitAndPush(w) PROVE FALSE
    BY <1>4, <2>2 DEF RunStep, DispatchStartCoding, PrepareBranch, DispatchCodePushed,
       CreatePullRequest, Judge, InsertDisagreement, Arbitrate, ClearReview,
       RequestChanges, DispatchEscalation, DispatchStartFixing, forge
  <2>3. ASSUME NEW w \in Worker, Quit(w) PROVE FALSE
    BY <1>4, <2>3 DEF Quit, forge
  <2>4. ASSUME NEW g \in Feature, RunMergeGate(g) \/ ObservePullRequest(g) PROVE FALSE
    BY <1>4, <2>4 DEF RunMergeGate, ObservePullRequest, forge
  <2>5. CASE Intervene
    BY <1>4, <2>5 DEF Intervene, forge
  <2>6. CASE UNCHANGED pipelineVars
    BY <1>4, <2>6 DEF pipelineVars, forge
  <2> QED
    BY <2>1, <2>2, <2>3, <2>4, <2>5, <2>6 DEF PipelineNext
<1> QED
  BY <1>1, <1>2, <1>3, <1>4

\* Appending keeps the length and the elements that were there.
LEMMA Appended ==
    ASSUME NEW S, NEW s \in Seq(S), NEW e \in S
    PROVE  /\ Append(s, e) \in Seq(S) /\ Len(Append(s, e)) = Len(s) + 1 /\ Len(s) \in Nat
           /\ \A i \in 1 .. Len(s) : Append(s, e)[i] = s[i]
           /\ Append(s, e)[Len(s) + 1] = e
  BY AppendProperties, LenProperties

\* findExistingRunCommit and the forge's refusal of a stale push together keep
\* the same work from being committed twice.
THEOREM WorkIsCommittedOnce == PipelineSpec => []NoCommitTwice
<1>1. PipelineInit => NoCommitTwice
  BY DEF PipelineInit, NoCommitTwice
<1>2. PipelineTypeOK /\ NoCommitTwice /\ [PipelineNext]_pipelineVars => NoCommitTwice'
  <2> SUFFICES ASSUME PipelineTypeOK, NoCommitTwice, [PipelineNext]_pipelineVars,
                      NEW f \in Feature, NEW n \in 1 .. Len(branch'[f]) - 1,
                      branch'[f][n] = "coder"
               PROVE  branch'[f][n + 1] # "coder"
    BY DEF NoCommitTwice
  <2>1. branch[f] \in Seq({"coder", "human"}) /\ Len(branch[f]) \in Nat
    BY LenProperties DEF PipelineTypeOK
  <2>2. \A i \in 1 .. Len(branch[f]) - 1 :
            branch[f][i] = "coder" => branch[f][i + 1] # "coder"
    BY DEF NoCommitTwice
  <2>3. CASE branch'[f] = branch[f]
    BY <2>1, <2>2, <2>3
  <2>4. CASE branch'[f] = Append(branch[f], "human")
    BY <2>1, <2>2, <2>4, Appended
  <2>5. CASE /\ branch'[f] = Append(branch[f], "coder")
             /\ Len(branch[f]) = 0 \/ branch[f][Len(branch[f])] # "coder"
    BY <2>1, <2>2, <2>5, Appended
  <2> QED
    BY <2>3, <2>4, <2>5, BranchSteps
<1> QED
  BY <1>1, <1>2, PipelineTypeCorrect, PTL DEF PipelineSpec

\* A branch keeps the commits it has.
LEMMA BranchGrows ==
    ASSUME PipelineTypeOK, [PipelineNext]_pipelineVars, NEW f \in Feature
    PROVE  /\ Len(branch[f]) \in Nat /\ Len(branch'[f]) \in Nat
           /\ Len(branch[f]) <= Len(branch'[f])
           /\ \A i \in 1 .. Len(branch[f]) : branch'[f][i] = branch[f][i]
<1>1. branch[f] \in Seq({"coder", "human"}) /\ Len(branch[f]) \in Nat
  BY LenProperties DEF PipelineTypeOK
<1> QED
  BY <1>1, BranchSteps, Appended

\* An invocation that is about to push has cloned a commit that exists; one
\* that is about to record has its commit at the forge.
Cloned(t) == t # Idle =>
    /\ t.at = "push" => t.commit <= Len(branch[t.run])
    /\ t.at = "record push" => /\ t.commit \in 1 .. Len(branch[t.run])
                               /\ branch[t.run][t.commit] = "coder"

ClonedInv == \A w \in Worker : Cloned(task[w])

RecordedInv ==
    \A f \in Feature, n \in 0 .. MaxCommits : <<"push", f, n>> \in keys =>
        n \in 1 .. Len(branch[f]) /\ branch[f][n] = "coder"

\* What a worker leaves alone of another's invocation.
LEMMA AgedKeeps ==
    ASSUME PipelineTypeOK, NEW v \in Worker, task[v] # Idle
    PROVE  /\ Aged(v).at = task[v].at /\ Aged(v).run = task[v].run
           /\ Aged(v).commit = task[v].commit /\ Aged(v).fixes = task[v].fixes
           /\ Aged(v).current => task[v].current /\ ~Moved(task[v].run)
           /\ \A c \in {"free", "written", "requested"} :
                /\ [Aged(v) EXCEPT !.cycle = c].at = task[v].at
                /\ [Aged(v) EXCEPT !.cycle = c].run = task[v].run
                /\ [Aged(v) EXCEPT !.cycle = c].commit = task[v].commit
                /\ [Aged(v) EXCEPT !.cycle = c].fixes = task[v].fixes
                /\ [Aged(v) EXCEPT !.cycle = c].current = Aged(v).current
<1>1. task[v] \in Task
  BY TaskRuns
<1> QED
  BY <1>1 DEF Aged, Task

Same(t, u) == /\ t # Idle /\ u # Idle
              /\ t.at = u.at /\ t.run = u.run /\ t.commit = u.commit
              /\ t.fixes = u.fixes /\ (u.current => t.current /\ ~Moved(t.run))

\* A step of w leaves the invocations of the others as they were, apart from
\* the cycle and the version they hold.
LEMMA OthersKeep ==
    ASSUME PipelineTypeOK, NEW w \in Worker, NEW t,
           \/ Continue(w, t)
           \/ \E how \in {"written", "requested"} : ContinueWriting(w, t, how)
    PROVE  /\ task'[w] = t
           /\ \A v \in Worker \ {w} : task'[v] = Idle \/ Same(task[v], task'[v])
<1>1. ASSUME NEW v \in Worker, v # w, task[v] = Idle PROVE task'[v] = Idle
  BY <1>1 DEF Continue, ContinueWriting, Aged
<1>2. ASSUME NEW v \in Worker, v # w, task[v] # Idle PROVE Same(task[v], task'[v])
  <2>1. task[v] \in Task /\ Aged(v) \in Task
    BY <1>2, TaskRuns DEF Aged, Task
  <2>2. CASE task'[v] = Aged(v)
    BY <1>2, <2>1, <2>2, AgedKeeps, IdleIsNoTask DEF Same
  <2>3. CASE \E c \in {"free", "written", "requested"} :
                 task'[v] = [Aged(v) EXCEPT !.cycle = c]
    <3>1. \A u \in Task, c \in {"free", "written", "requested"} :
              [u EXCEPT !.cycle = c] \in Task
      BY DEF Task
    <3>2. PICK c \in {"free", "written", "requested"} :
              task'[v] = [Aged(v) EXCEPT !.cycle = c]
      BY <2>3
    <3>3. task'[v] \in Task /\ task'[v] # Idle
      BY <2>1, <3>1, <3>2, IdleIsNoTask
    <3>4. /\ Aged(v).current => task[v].current /\ ~Moved(task[v].run)
          /\ task'[v].at = task[v].at /\ task'[v].run = task[v].run
          /\ task'[v].commit = task[v].commit /\ task'[v].fixes = task[v].fixes
          /\ task'[v].current = Aged(v).current
      <4>1. \A t1 : task'[v] = t1 =>
                task'[v].at = t1.at /\ task'[v].run = t1.run
                /\ task'[v].commit = t1.commit /\ task'[v].fixes = t1.fixes
                /\ task'[v].current = t1.current
        OBVIOUS
      <4> HIDE DEF Aged
      <4> QED
        BY <1>2, <3>2, <4>1, AgedKeeps
    <3> QED
      BY <1>2, <3>3, <3>4 DEF Same
  <2>4. Aged(v).cycle \in {"free", "written", "requested"}
    BY <2>1 DEF Task
  <2> QED
    BY <1>2, <2>2, <2>3, <2>4 DEF Continue, ContinueWriting
<1>3. task'[w] = t
  BY DEF Continue, ContinueWriting
<1> QED
  BY <1>1, <1>2, <1>3

LEMMA OthersAllKeep ==
    ASSUME PipelineTypeOK, Others
    PROVE  \A v \in Worker : task'[v] = Idle \/ Same(task[v], task'[v])
<1>1. ASSUME NEW v \in Worker, task[v] = Idle PROVE task'[v] = Idle
  BY <1>1 DEF Others, Aged
<1>2. ASSUME NEW v \in Worker, task[v] # Idle PROVE Same(task[v], task'[v])
  <2>1. task'[v] = Aged(v) /\ task[v] \in Task /\ Aged(v) \in Task
    BY <1>2, TaskRuns DEF Others, Aged, Task
  <2> QED
    BY <1>2, <2>1, AgedKeeps, IdleIsNoTask DEF Same
<1> QED
  BY <1>1, <1>2

\* An invocation that a step does not end is its own step's or is kept.
Acts(v) == (\E f \in Feature : TriggerTask(v, f)) \/ RunStep(v)

LEMMA KeptOrActs ==
    ASSUME PipelineTypeOK, [PipelineNext]_pipelineVars, NEW v \in Worker
    PROVE  task'[v] = Idle \/ Same(task[v], task'[v]) \/ Acts(v)
<1>1. ASSUME UNCHANGED state, task'[v] = task[v]
      PROVE  task'[v] = Idle \/ Same(task[v], task'[v])
  BY <1>1 DEF Same, Moved
<1>2. CASE UNCHANGED pipelineVars
  BY <1>1, <1>2 DEF pipelineVars, vars, run
<1>3. ASSUME NEW w \in Worker, w # v, Acts(w)
      PROVE  task'[v] = Idle \/ Same(task[v], task'[v])
  <2>1. \E t : \/ Continue(w, t)
               \/ \E how \in {"written", "requested"} : ContinueWriting(w, t, how)
    <3>1. ASSUME NEW f \in Feature, TriggerTask(w, f) PROVE \E t : Continue(w, t)
      BY <3>1 DEF TriggerTask, StartNextFeature, RunCoder, RunReview, Begin
    <3>2. CASE DispatchStartCoding(w) \/ PrepareBranch(w) \/ DispatchCodePushed(w)
               \/ CreatePullRequest(w)
      BY <3>2 DEF DispatchStartCoding, PrepareBranch, DispatchCodePushed, CreatePullRequest
    <3>3. CASE CommitAndPush(w)
      BY <3>3 DEF CommitAndPush
    <3>4. CASE Judge(w) \/ InsertDisagreement(w) \/ Arbitrate(w) \/ DispatchStartFixing(w)
      BY <3>4 DEF Judge, InsertDisagreement, Arbitrate, DispatchStartFixing
    <3>5. CASE ClearReview(w)
      BY <3>5 DEF ClearReview
    <3>6. CASE RequestChanges(w)
      BY <3>6 DEF RequestChanges
    <3>7. CASE DispatchEscalation(w)
      BY <3>7 DEF DispatchEscalation
    <3> QED
      BY <1>3, <3>1, <3>2, <3>3, <3>4, <3>5, <3>6, <3>7 DEF Acts, RunStep
  <2> QED
    BY <1>3, <2>1, OthersKeep
<1>4. ASSUME NEW w \in Worker, Quit(w)
      PROVE  task'[v] = Idle \/ Same(task[v], task'[v])
  <2>1. UNCHANGED state /\ (w # v => task'[v] = task[v]) /\ (w = v => task'[v] = Idle)
    BY <1>4 DEF Quit, PipelineTypeOK, vars, run
  <2> QED
    BY <1>1, <2>1
<1>5. ASSUME NEW f \in Feature, HumanPush(f)
      PROVE  task'[v] = Idle \/ Same(task[v], task'[v])
  BY <1>1, <1>5 DEF HumanPush, vars, run
<1>6. CASE Others
  BY <1>6, OthersAllKeep
<1>7. (\E f \in Feature : RunMergeGate(f) \/ ObservePullRequest(f)) \/ Intervene => Others
  BY DEF RunMergeGate, ObservePullRequest, Intervene
<1> QED
  BY <1>2, <1>3, <1>4, <1>5, <1>6, <1>7 DEF PipelineNext, Acts

\* Only a clone makes an invocation that is about to push, and only a push one
\* that is about to record.
LEMMA ClonedStep ==
    PipelineTypeOK /\ ClonedInv /\ [PipelineNext]_pipelineVars => ClonedInv'
<1> SUFFICES ASSUME PipelineTypeOK, ClonedInv, [PipelineNext]_pipelineVars,
                    NEW v \in Worker
             PROVE  Cloned(task[v])'
  BY DEF ClonedInv
<1>1. CASE task'[v] = Idle
  BY <1>1 DEF Cloned
<1>2. CASE Same(task[v], task'[v])
  <2>1. Cloned(task[v])
    BY DEF ClonedInv
  <2>2. task[v].run \in Feature /\ task[v].commit \in 0 .. MaxCommits
    BY <1>2, TaskRuns DEF Same, Task
  <2> DEFINE g == task[v].run
             n == task[v].commit
  <2>3. /\ Len(branch[g]) <= Len(branch'[g])
        /\ Len(branch[g]) \in Nat /\ Len(branch'[g]) \in Nat
        /\ \A i \in 1 .. Len(branch[g]) : branch'[g][i] = branch[g][i]
    BY <2>2, BranchGrows
  <2>4. task[v].at = "push" => n <= Len(branch'[g])
    BY <1>2, <2>1, <2>2, <2>3, PipelineAssumption DEF Cloned, Same
  <2>5. task[v].at = "record push" =>
            n \in 1 .. Len(branch'[g]) /\ branch'[g][n] = "coder"
    <3>1. CASE task[v].at = "record push"
      <4>1. n \in 1 .. Len(branch[g]) /\ branch[g][n] = "coder"
        BY <1>2, <2>1, <3>1 DEF Cloned, Same
      <4>2. n \in 1 .. Len(branch'[g])
        BY <2>3, <4>1
      <4>3. branch'[g][n] = branch[g][n]
        BY <2>3, <4>1
      <4> QED
        BY <4>1, <4>2, <4>3
    <3> QED
      BY <3>1
  <2> QED
    BY <1>2, <2>4, <2>5 DEF Cloned, Same
<1>3. ASSUME NEW f \in Feature, TriggerTask(v, f) PROVE Cloned(task[v])'
  <2>1. task'[v].at \notin {"push", "record push"}
    <3>1. CASE StartNextFeature(v, f)
      <4>1. task'[v] = [Begun("start coding", f) EXCEPT !.current = FALSE]
        BY <3>1, OthersKeep DEF StartNextFeature
      <4> QED
        BY <4>1 DEF Begun
    <3>2. CASE RunCoder(v, f)
      <4>1. \E b \in BOOLEAN : task'[v] = [Begun("clone", f) EXCEPT !.current = FALSE, !.given = b]
        BY <3>2, OthersKeep DEF RunCoder, Begin
      <4> QED
        BY <4>1 DEF Begun
    <3>3. CASE RunReview(v, f)
      <4>1. \/ task'[v] = [Begun("review", f) EXCEPT !.fixes = fixes[f], !.commit = mirror[f]]
            \/ task'[v] = Begun("start fixing", f)
        BY <3>3, OthersKeep DEF RunReview, Begin
      <4>2. /\ [Begun("review", f) EXCEPT !.fixes = fixes[f], !.commit = mirror[f]].at = "review"
            /\ Begun("start fixing", f).at = "start fixing"
        BY DEF Begun
      <4> QED
        BY <4>1, <4>2
    <3> QED
      BY <1>3, <3>1, <3>2, <3>3 DEF TriggerTask
  <2> QED
    BY <2>1 DEF Cloned
<1>4. CASE PrepareBranch(v)
  <2>1. task[v] \in Task /\ task[v].run \in Feature
    BY <1>4, TaskRuns DEF PrepareBranch, At
  <2>2. task'[v] = [To(v, "push") EXCEPT !.commit = Len(branch[task[v].run])]
    BY <1>4, OthersKeep DEF PrepareBranch
  <2>3. /\ task'[v].at = "push" /\ task'[v].run = task[v].run
        /\ task'[v].commit = Len(branch[task[v].run])
    BY <2>1, <2>2 DEF To, Task
  <2>4. branch' = branch /\ Len(branch[task[v].run]) \in Nat
    BY <1>4, <2>1, BranchGrows DEF PrepareBranch, forge
  <2> QED
    BY <2>3, <2>4 DEF Cloned
<1>5. CASE CommitAndPush(v)
  <2>1. task[v] \in Task /\ task[v].run \in Feature /\ task[v].commit \in Nat
    <3>1. task[v] \in Task /\ task[v].run \in Feature
      BY <1>5, TaskRuns DEF CommitAndPush, At
    <3>2. task[v].commit \in 0 .. MaxCommits
      BY <3>1 DEF Task
    <3> QED
      BY <3>1, <3>2, PipelineAssumption
  <2>2. task[v].commit <= Len(branch[task[v].run])
    BY <1>5 DEF CommitAndPush, At, ClonedInv, Cloned
  <2> DEFINE g == task[v].run
             n == task[v].commit
  <2>3. Len(branch[g]) \in Nat /\ branch[g] \in Seq({"coder", "human"})
    BY <2>1, LenProperties DEF PipelineTypeOK
  <2>4. CASE Existing(g, n) /\ Continue(v, To(v, "record push")) /\ UNCHANGED branch
    <3>1. task'[v] = To(v, "record push")
      BY <2>4, OthersKeep
    <3>2. task'[v].at = "record push" /\ task'[v].run = g /\ task'[v].commit = n
      BY <2>1, <3>1 DEF To, Task
    <3>3. n \in 1 .. Len(branch[g]) /\ branch[g][n] = "coder"
      <4>1. n > 0 /\ branch[g][n] = "coder"
        BY <2>4 DEF Existing
      <4> QED
        BY <2>1, <2>2, <2>3, <4>1
    <3> QED
      BY <2>4, <3>2, <3>3 DEF Cloned
  <2>5. CASE /\ branch' = [branch EXCEPT ![g] = Append(@, "coder")]
             /\ Continue(v, [To(v, "record push") EXCEPT !.commit = Len(branch[g]) + 1])
    <3>1. task'[v] = [To(v, "record push") EXCEPT !.commit = Len(branch[g]) + 1]
      BY <2>5, OthersKeep
    <3>2. /\ task'[v].at = "record push" /\ task'[v].run = g
          /\ task'[v].commit = Len(branch[g]) + 1
      BY <2>1, <3>1 DEF To, Task
    <3>3. branch'[g] = Append(branch[g], "coder")
      BY <2>1, <2>5 DEF PipelineTypeOK
    <3>4. /\ Len(branch'[g]) = Len(branch[g]) + 1
          /\ branch'[g][Len(branch[g]) + 1] = "coder"
      BY <2>3, <3>3, Appended
    <3>5. task'[v].commit \in 1 .. Len(branch'[g])
      <4>1. \A l \in Nat : l + 1 \in 1 .. l + 1
        OBVIOUS
      <4> QED
        BY <2>3, <3>2, <3>4, <4>1
    <3> QED
      BY <3>2, <3>4, <3>5 DEF Cloned
  <2> QED
    BY <1>5, <2>4, <2>5 DEF CommitAndPush
<1>6. ASSUME RunStep(v), ~PrepareBranch(v), ~CommitAndPush(v) PROVE Cloned(task[v])'
  <2>1. CASE DispatchStartCoding(v) \/ CreatePullRequest(v) \/ DispatchStartFixing(v)
             \/ ClearReview(v)
    <3>1. task'[v] = Idle
      BY <2>1, OthersKeep
      DEF DispatchStartCoding, CreatePullRequest, DispatchStartFixing, ClearReview
    <3> QED
      BY <3>1 DEF Cloned
  <2>2. CASE DispatchEscalation(v)
    <3>1. task'[v] = Idle
      BY <2>2, OthersKeep DEF DispatchEscalation
    <3> QED
      BY <3>1 DEF Cloned
  <2>3. CASE DispatchCodePushed(v)
    <3>1. task'[v] = [Begun("open pr", task[v].run) EXCEPT !.current = FALSE]
      BY <2>3, OthersKeep DEF DispatchCodePushed
    <3> QED
      BY <3>1 DEF Cloned, Begun
  <2>4. CASE RequestChanges(v)
    <3>1. task'[v] = Begun("start fixing", task[v].run)
      BY <2>4, OthersKeep DEF RequestChanges
    <3>2. Begun("start fixing", task[v].run).at = "start fixing"
      BY DEF Begun
    <3> QED
      BY <3>1, <3>2 DEF Cloned
  <2>5. CASE Judge(v) \/ InsertDisagreement(v) \/ Arbitrate(v)
    <3>1. \E next \in Step \ {"push", "record push"} : task'[v] = To(v, next)
      BY <2>5, OthersKeep, StepNames DEF Judge, InsertDisagreement, Arbitrate
    <3>2. task[v] \in Task
      BY <2>5, TaskRuns DEF Judge, InsertDisagreement, Arbitrate, At
    <3> QED
      BY <3>1, <3>2 DEF Cloned, To, Task
  <2> QED
    BY <1>6, <2>1, <2>2, <2>3, <2>4, <2>5 DEF RunStep
<1> QED
  BY <1>1, <1>2, <1>3, <1>4, <1>5, <1>6, KeptOrActs DEF Acts

\* What record push keys name is in the branch, for it was when they were
\* written and the branch only grows.
LEMMA RecordedStep ==
    PipelineTypeOK /\ ClonedInv /\ RecordedInv /\ [PipelineNext]_pipelineVars
        => RecordedInv'
<1> SUFFICES ASSUME PipelineTypeOK, ClonedInv, RecordedInv, [PipelineNext]_pipelineVars,
                    NEW f \in Feature, NEW n \in 0 .. MaxCommits, <<"push", f, n>> \in keys'
             PROVE  n \in 1 .. Len(branch'[f]) /\ branch'[f][n] = "coder"
  BY DEF RecordedInv
<1>1. \/ n \in 1 .. Len(branch[f]) /\ branch[f][n] = "coder"
      \/ <<"push", f, n>> \notin keys
  BY DEF RecordedInv
<1>2. ASSUME <<"push", f, n>> \notin keys
      PROVE  n \in 1 .. Len(branch[f]) /\ branch[f][n] = "coder"
  <2>1. ASSUME NEW w \in Worker, NEW g \in Feature, TriggerTask(w, g) PROVE FALSE
    <3>1. keys' \subseteq keys \cup {<<"select", g, 0>>}
      BY <2>1 DEF TriggerTask, StartNextFeature, Once, RunCoder, RunReview, Begin
    <3> QED
      BY <1>2, <3>1
  <2>2. ASSUME NEW w \in Worker, DispatchCodePushed(w)
        PROVE  n \in 1 .. Len(branch[f]) /\ branch[f][n] = "coder"
    <3>1. task[w].run = f /\ task[w].commit = n
      <4>1. keys' \subseteq keys \cup {<<"push", task[w].run, task[w].commit>>}
        BY <2>2 DEF DispatchCodePushed, Once
      <4>2. <<"push", f, n>> = <<"push", task[w].run, task[w].commit>>
        BY <1>2, <4>1
      <4> QED
        BY <4>2
    <3> QED
      BY <2>2, <3>1 DEF DispatchCodePushed, At, ClonedInv, Cloned
  <2>3. ASSUME NEW w \in Worker, RunStep(w), ~DispatchCodePushed(w) PROVE FALSE
    <3>1. keys' \subseteq keys \cup {<<"start", task[w].run, 0>>, <<"escalate", task[w].run, 0>>}
      BY <2>3 DEF RunStep, DispatchStartCoding, PrepareBranch, CommitAndPush,
         CreatePullRequest, Judge, InsertDisagreement, Arbitrate, ClearReview,
         RequestChanges, DispatchEscalation, DispatchStartFixing, Once
    <3> QED
      BY <1>2, <3>1
  <2>4. ASSUME NEW w \in Worker, Quit(w) PROVE FALSE
    BY <1>2, <2>4 DEF Quit
  <2>5. ASSUME NEW g \in Feature, RunMergeGate(g) \/ HumanPush(g) \/ ObservePullRequest(g)
        PROVE  FALSE
    BY <1>2, <2>5 DEF RunMergeGate, HumanPush, ObservePullRequest
  <2>6. CASE Intervene
    BY <1>2, <2>6 DEF Intervene
  <2>7. CASE UNCHANGED pipelineVars
    BY <1>2, <2>7 DEF pipelineVars
  <2> QED
    BY <2>1, <2>2, <2>3, <2>4, <2>5, <2>6, <2>7 DEF PipelineNext
<1> QED
  BY <1>1, <1>2, BranchGrows

\* What the database takes for pushed work is the coder's work, at the forge.
THEOREM RecordedWorkExists == PipelineSpec => []RecordedIsTheCoders
<1>1. PipelineInit => ClonedInv /\ RecordedInv
  BY DEF PipelineInit, ClonedInv, Cloned, RecordedInv
<1>2. PipelineTypeOK /\ RecordedInv => RecordedIsTheCoders
  <2>1. PipelineTypeOK => \A f \in Feature : DOMAIN branch[f] = 1 .. Len(branch[f])
    BY LenProperties DEF PipelineTypeOK
  <2> QED
    BY <2>1 DEF RecordedInv, RecordedIsTheCoders
<1> QED
  BY <1>1, <1>2, ClonedStep, RecordedStep, PipelineTypeCorrect, PTL DEF PipelineSpec

-----------------------------------------------------------------------------
(* Verdicts                                                                *)

\* A fix cycle is only counted by a step that moves the run.
LEMMA FixesMove ==
    ASSUME TypeOK, [Next]_vars, NEW f \in Feature, fixes'[f] # fixes[f]
    PROVE  Moved(f)
<1>1. CASE UNCHANGED fixes
  BY <1>1
<1>2. ASSUME NEW g \in Feature, state[g] # "changes_requested", Move(g, "changes_requested"),
             fixes' = [fixes EXCEPT ![g] = @ + 1]
      PROVE  Moved(f)
  BY <1>2 DEF TypeOK, Move, Moved
<1>a. \A g \in Feature : Valid(g, "changes_requested") => state[g] # "changes_requested"
  BY DEF Valid, Matrix, MainFlow, Divergence, CiOutcomes, ReviewLoop,
              MergePath, Failures, Dispositions, Working
<1>3. ASSUME NEW g \in Feature, RequestChangesAfterCiFail(g) PROVE Moved(f)
  BY <1>2, <1>3, <1>a DEF RequestChangesAfterCiFail, CountFix
<1>4. ASSUME NEW g \in Feature, NEW found \in BOOLEAN, RecordChangesRequested(g, found)
      PROVE  Moved(f)
  BY <1>2, <1>4, <1>a DEF RecordChangesRequested, CountFix
<1>5. ASSUME NEW g \in Feature, Code(g) PROVE UNCHANGED fixes
  BY <1>5 DEF Code, SelectFeature, StartCoding, RecordCodePushed, StartFixing
<1>6. ASSUME NEW g \in Feature, Reconcile(g), ~RequestChangesAfterCiFail(g)
      PROVE  UNCHANGED fixes
  BY <1>6 DEF Reconcile, RecordPrOpened, RecordCiRunning, RecordCiPassed, RecordCiFailed,
     EscalateClosed, EscalateFixLimit
<1>7. ASSUME NEW g \in Feature, Review(g),
             \A found \in BOOLEAN : ~RecordChangesRequested(g, found)
      PROVE  UNCHANGED fixes
  BY <1>7 DEF Review, EscalateReview, OpenDispute, ArbiterRules, run
<1>8. ASSUME NEW g \in Feature, Merge(g) \/ Human(g) PROVE UNCHANGED fixes
  BY <1>8 DEF Merge, RecordApprovedByPolicy, MergeIfReady, RecordMerged, RecordMergeFailed,
     ReconcileMergeFailed, EscalateMergeFailed, Human, ResolveDisagreement,
     ResumeFeatureExecution, RetryFeature, SkipFeature, BlockFeature, HumanUnblockFeature
<1>9. CASE PauseAutomation \/ ResumeAutomation \/ UNCHANGED vars
  BY <1>9 DEF PauseAutomation, ResumeAutomation, vars, run
<1> QED
  BY <1>1, <1>3, <1>4, <1>5, <1>6, <1>7, <1>8, <1>9 DEF Next

Verdict == {"review", "dispute", "arbiter", "request", "escalate"}

\* A review that still holds the run's version holds its fix cycle as well.
Dated(t) == t # Idle /\ t.at \in Verdict /\ t.current => t.fixes = fixes[t.run]

DatedInv == \A w \in Worker : Dated(task[w])

LEMMA DatedStep ==
    PipelineTypeOK /\ DatedInv /\ [PipelineNext]_pipelineVars => DatedInv'
<1> SUFFICES ASSUME PipelineTypeOK, DatedInv, [PipelineNext]_pipelineVars,
                    NEW v \in Worker
             PROVE  Dated(task[v])'
  BY DEF DatedInv
<1>1. CASE task'[v] = Idle
  BY <1>1 DEF Dated
<1>2. CASE Same(task[v], task'[v])
  <2>1. Dated(task[v]) /\ task[v].run \in Feature
    BY <1>2, TaskRuns DEF DatedInv, Same
  <2>2. TypeOK /\ [Next]_vars
    BY StepsAreCommands DEF PipelineTypeOK, pipelineVars
  <2>3. ~Moved(task[v].run) => fixes'[task[v].run] = fixes[task[v].run]
    BY <2>1, <2>2, FixesMove
  <2> QED
    BY <1>2, <2>1, <2>3 DEF Dated, Same
<1>3. ASSUME NEW f \in Feature, TriggerTask(v, f) PROVE Dated(task[v])'
  <2>1. CASE StartNextFeature(v, f)
    <3>1. task'[v] = [Begun("start coding", f) EXCEPT !.current = FALSE]
      BY <2>1, OthersKeep DEF StartNextFeature
    <3> QED
      BY <3>1 DEF Begun, Dated, Verdict
  <2>2. CASE RunCoder(v, f)
    <3>1. \E b \in BOOLEAN : task'[v] = [Begun("clone", f) EXCEPT !.current = FALSE, !.given = b]
      BY <2>2, OthersKeep DEF RunCoder, Begin
    <3> QED
      BY <3>1 DEF Begun, Dated, Verdict
  <2>3. CASE RunReview(v, f)
    <3>1. \/ task'[v] = [Begun("review", f) EXCEPT !.fixes = fixes[f], !.commit = mirror[f]]
          \/ task'[v] = Begun("start fixing", f)
      BY <2>3, OthersKeep DEF RunReview, Begin
    <3>2. fixes' = fixes
      BY <2>3 DEF RunReview, Begin, vars, run
    <3>3. [Begun("review", f) EXCEPT !.fixes = fixes[f], !.commit = mirror[f]].fixes = fixes[f]
          /\ [Begun("review", f) EXCEPT !.fixes = fixes[f], !.commit = mirror[f]].run = f
          /\ Begun("start fixing", f).at \notin Verdict
      BY DEF Begun, Verdict
    <3> QED
      BY <3>1, <3>2, <3>3 DEF Dated
  <2> QED
    BY <1>3, <2>1, <2>2, <2>3 DEF TriggerTask
<1>4. CASE Judge(v) \/ InsertDisagreement(v) \/ Arbitrate(v)
  <2>1. \E next \in Step : task'[v] = To(v, next)
    BY <1>4, OthersKeep, StepNames DEF Judge, InsertDisagreement, Arbitrate
  <2>2. task[v] \in Task /\ task[v].at \in Verdict /\ Dated(task[v])
    BY <1>4, TaskRuns DEF Judge, InsertDisagreement, Arbitrate, At, Verdict, DatedInv
  <2>3. fixes' = fixes
    BY <1>4 DEF Judge, InsertDisagreement, Arbitrate, OpenDispute, ArbiterRules, vars, run
  <2>4. \A next \in Step : /\ To(v, next).at = next /\ To(v, next).run = task[v].run
                           /\ To(v, next).current => task[v].current /\ next # "clear"
                           /\ next # "clear" => To(v, next).fixes = task[v].fixes
    BY <2>2 DEF To, Task
  <2> QED
    BY <2>1, <2>2, <2>3, <2>4, IdleIsNoTask DEF Dated
<1>5. CASE PrepareBranch(v) \/ CommitAndPush(v)
  <2>1. task[v] \in Task
    BY <1>5, TaskRuns DEF PrepareBranch, CommitAndPush, At
  <2>2. \E step \in {"push", "record push"} :
            task'[v] = To(v, step) \/ \E c : task'[v] = [To(v, step) EXCEPT !.commit = c]
    BY <1>5, OthersKeep DEF PrepareBranch, CommitAndPush
  <2>3. task'[v].at \notin Verdict
    BY <2>1, <2>2 DEF To, Task, Verdict
  <2> QED
    BY <2>3 DEF Dated
<1>6. CASE DispatchCodePushed(v)
  <2>1. task'[v] = [Begun("open pr", task[v].run) EXCEPT !.current = FALSE]
    BY <1>6, OthersKeep DEF DispatchCodePushed
  <2> QED
    BY <2>1 DEF Begun, Dated, Verdict
<1>7. CASE RequestChanges(v)
  <2>1. task'[v] = Begun("start fixing", task[v].run)
    BY <1>7, OthersKeep DEF RequestChanges
  <2>2. Begun("start fixing", task[v].run).at \notin Verdict
    BY DEF Begun, Verdict
  <2> QED
    BY <2>1, <2>2 DEF Dated
<1>8. CASE DispatchStartCoding(v) \/ CreatePullRequest(v) \/ ClearReview(v)
           \/ DispatchEscalation(v) \/ DispatchStartFixing(v)
  <2>1. task'[v] = Idle
    BY <1>8, OthersKeep DEF DispatchStartCoding, CreatePullRequest, ClearReview,
       DispatchEscalation, DispatchStartFixing
  <2> QED
    BY <2>1 DEF Dated
<1> QED
  BY <1>1, <1>2, <1>3, <1>4, <1>5, <1>6, <1>7, <1>8, KeptOrActs DEF Acts, RunStep

\* A verdict moves a run only in the fix cycle that was reviewed.
THEOREM VerdictsMoveTheirCycle == PipelineSpec => VerdictsAreCurrent
<1>1. PipelineInit => DatedInv
  BY DEF PipelineInit, DatedInv, Dated
<1>2. PipelineTypeOK /\ DatedInv /\ [PipelineNext]_pipelineVars
          => [\A w \in Worker :
                 /\ RequestChanges(w) \/ DispatchEscalation(w)
                 /\ Moved(task[w].run)
                 => task[w].fixes = fixes[task[w].run]]_pipelineVars
  <2> SUFFICES ASSUME PipelineTypeOK, DatedInv, NEW w \in Worker,
                      RequestChanges(w) \/ DispatchEscalation(w), Moved(task[w].run)
               PROVE  task[w].fixes = fixes[task[w].run]
    OBVIOUS
  <2>1. Fresh(w) /\ task[w] # Idle /\ task[w].at \in Verdict
    BY DEF RequestChanges, DispatchEscalation, Once, Moved, At, Verdict, vars, run
  <2> QED
    BY <2>1 DEF DatedInv, Dated, Fresh
<1> QED
  BY <1>1, <1>2, DatedStep, PipelineTypeCorrect, PTL DEF PipelineSpec, VerdictsAreCurrent
=============================================================================
