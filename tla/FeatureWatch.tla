----------------------------- MODULE FeatureWatch -----------------------------
(***************************************************************************)
(* `minicoder run feature --watch' (cli/src/commands/run.ts): a process    *)
(* that follows one feature run.  Nothing chains the automation tasks, so  *)
(* it polls the run's state and asks for the task that the state calls     *)
(* for, through the enqueue routes (api/src/commands/task-trigger-         *)
(* routes.ts); workers execute what is queued.  A job may fail for good.   *)
(* The driver notices only that the state stays: it asks again at once in  *)
(* some states, in the others when it has been stuck for long enough.      *)
(*                                                                         *)
(* What the tasks do step by step is in Pipeline and Reconciliation; here  *)
(* a hop of the run is one step.  Automation is running, no human reviews  *)
(* at the forge, and the run is the only one of its project.               *)
(***************************************************************************)
EXTENDS FeatureMatrix, Naturals

CONSTANTS
    FixThreshold,  \* FIX_ATTEMPT_THRESHOLD
    MaxFailures    \* bound: jobs that fail for good

ASSUME FeatureWatchAssumption == FixThreshold \in Nat /\ MaxFailures \in Nat

VARIABLES
    run,       \* the feature run
    forge,     \* its branch and pull request
    pr,        \* its pull_requests row
    queue,     \* the kinds of jobs that are queued
    failures,  \* how many failed
    driver     \* the process

watchVars == <<run, forge, pr, queue, failures, driver>>

Kind == {"start", "coder", "reconcile", "review", "gate"}

\* findings: an unresolved finding blocks; cleared: a review found the commit clean;
\* spent: the keys of start-next-feature that are recorded; pushed: so is that of the
\* coder's last push.
FeatureRun == [state : State, fixes : 0 .. FixThreshold, findings : BOOLEAN,
               cleared : BOOLEAN, spent : SUBSET {"select", "start"}, pushed : BOOLEAN]
CiVerdict == {"pending", "passed", "failed"}
Forge == [last : {"none", "coder", "other"}, opened : BOOLEAN, ci : CiVerdict]

\* green: it shows that CI passed.  Pushes are seen at once (Webhooks).
MirrorRow == [tracked : BOOLEAN, green : BOOLEAN]

\* known: it has found the run; late: the state has stayed for stuckRetryMs.
Driver == [at : {"tick", "act", "ended"}, known : BOOLEAN, late : BOOLEAN,
           last : State \cup {"none", "discovering"}]

WatchTypeOK ==
    /\ run \in FeatureRun /\ forge \in Forge /\ pr \in MirrorRow
    /\ queue \subseteq Kind /\ failures \in 0 .. MaxFailures
    /\ driver \in Driver

WatchInit ==
    /\ run = [state |-> "approved_pending_execution", fixes |-> 0, findings |-> FALSE,
              cleared |-> FALSE, spent |-> {}, pushed |-> FALSE]
    /\ forge = [last |-> "none", opened |-> FALSE, ci |-> "pending"]
    /\ pr = [tracked |-> FALSE, green |-> FALSE]
    /\ queue = {} /\ failures = 0
    /\ driver \in [at : {"tick"}, known : BOOLEAN, late : {FALSE}, last : {"none"}]

state == run.state
Becomes(to) == run' = [run EXCEPT !.state = to]

-----------------------------------------------------------------------------
(* The jobs                                                                *)

\* start-next-feature: a recorded key replays, and the run stays where it is.
Starts ==
    \/ state = "approved_pending_execution" /\ "select" \notin run.spent
    \/ state = "selected" /\ "start" \notin run.spent

StartNextFeature ==
    /\ Starts
    /\ IF state = "selected"
       THEN run' = [run EXCEPT !.state = "coding", !.spent = @ \cup {"start"}]
       ELSE run' = [run EXCEPT !.state = "selected", !.spent = @ \cup {"select"}]
    /\ UNCHANGED <<forge, pr, queue>>

\* run-coder takes a commit of its own for what it was to make (Pipeline), and reports
\* each commit once.
Codes == state \in {"coding", "fixing"} /\ (forge.last # "coder" \/ ~run.pushed)

Committed(who) ==
    /\ forge' = [forge EXCEPT !.last = who, !.ci = "pending"]
    /\ pr' = [pr EXCEPT !.green = FALSE]

Pushed ==
    [forge EXCEPT !.last = "coder", !.ci = IF forge.last = "coder" THEN @ ELSE "pending"]
Failure == failures < MaxFailures /\ failures' = failures + 1

\* A pull request that cannot be opened is not tried again.
RunCoder ==
    /\ Codes
    /\ run' = [run EXCEPT !.state = "code_pushed", !.pushed = TRUE,
                          !.findings = @ /\ state # "fixing", !.cleared = FALSE]
    /\ \/ forge' = [Pushed EXCEPT !.opened = TRUE] /\ UNCHANGED failures
       \/ forge' = Pushed /\ ~forge.opened /\ Failure
    /\ pr' = [pr EXCEPT !.green = @ /\ forge.last = "coder"]
    /\ queue' = queue \ {"coder"}

\* What follows from the pull request, one command at a time (Reconciliation).
CiEnded == forge.ci # "pending"

NextState ==
    CASE state = "code_pushed" -> "pr_opened"
      [] state = "pr_opened" /\ CiEnded -> "ci_running"
      [] state = "ci_running" /\ CiEnded ->
             IF forge.ci = "passed" THEN "under_review" ELSE "ci_failed"
      [] state = "ci_failed" ->
             IF run.fixes < FixThreshold THEN "changes_requested" ELSE "human_required"
      [] state = "changes_requested" -> "fixing"
      [] OTHER -> state

\* The run has a row, or its pull request is discovered by its branch.
Reconciles ==
    /\ pr.tracked \/ (state = "code_pushed" /\ forge.opened)
    /\ NextState # state

Observe ==
    /\ pr' = [tracked |-> TRUE, green |-> forge.ci = "passed"]
    /\ run' = [run EXCEPT !.state = NextState,
                          !.fixes = IF NextState = "changes_requested" THEN @ + 1 ELSE @]

Reconcile == Reconciles /\ Observe /\ UNCHANGED <<forge, queue>>

\* run-review: nothing that blocks, a blocking finding, or one that needs a human.
Reviews ==
    \/ state = "changes_requested"
    \/ state = "under_review" /\ pr.tracked /\ ~run.cleared

RunReview ==
    /\ Reviews
    /\ \/ state = "changes_requested" /\ Becomes("fixing")
       \/ state = "under_review" /\ run' = [run EXCEPT !.cleared = TRUE]
       \/ /\ state = "under_review" /\ run.fixes < FixThreshold
          /\ run' = [run EXCEPT !.state = "changes_requested", !.findings = TRUE,
                                !.fixes = @ + 1]
       \/ /\ state = "under_review"
          /\ run' = [run EXCEPT !.state = "human_required", !.findings = TRUE]
    /\ UNCHANGED <<forge, pr, queue>>

\* evaluateMergeGate, without labels, budgets and approvals.  It asks for no review.
GatePasses == pr.tracked /\ pr.green /\ ~run.findings
Approves == state = "under_review" /\ GatePasses

RunMergeGate == Approves /\ Becomes("approved_by_policy") /\ UNCHANGED <<forge, pr, queue>>

\* There is something to do for a job of kind k.
Useful(k) ==
    CASE k = "start" -> Starts
      [] k = "coder" -> Codes
      [] k = "reconcile" -> Reconciles
      [] k = "review" -> Reviews
      [] k = "gate" -> Approves

Execute(k) ==
    /\ k \in queue
    /\ \/ k = "start" /\ StartNextFeature /\ UNCHANGED failures
       \/ k = "coder" /\ RunCoder
       \/ k = "reconcile" /\ Reconcile /\ UNCHANGED failures
       \/ k = "review" /\ RunReview /\ UNCHANGED failures
       \/ k = "gate" /\ RunMergeGate /\ UNCHANGED failures
    /\ UNCHANGED driver

End(k) ==
    /\ k \in queue /\ ~Useful(k)
    /\ queue' = queue \ {k}
    /\ UNCHANGED <<run, forge, pr, failures, driver>>

\* A worker gives the job up, wherever it is: a coder may have pushed.
Fail(k) ==
    /\ k \in queue /\ Failure
    /\ queue' = queue \ {k}
    /\ \/ UNCHANGED <<run, forge, pr>>
       \/ /\ k = "coder" /\ Codes /\ forge.last # "coder"
          /\ Committed("coder") /\ run' = [run EXCEPT !.pushed = FALSE, !.cleared = FALSE]
    /\ UNCHANGED driver

-----------------------------------------------------------------------------
(* The driver                                                              *)
AlwaysReissue == {"code_pushed", "pr_opened", "ci_running", "changes_requested",
                  "ci_failed", "merge_failed", "under_review", "approved_by_policy"}

\* The states it ends in; at merge_ready a merge was cut short.
Ends == {"merged", "skipped", "human_required", "blocked", "failed", "system_failed",
         "merge_ready"}

\* What a process knows ends with it.
Over == [at |-> "ended", known |-> TRUE, late |-> FALSE, last |-> "none"]

\* actOnState: the jobs to ask for, in this order.
Jobs(s) ==
    CASE s \in {"approved_pending_execution", "selected"} -> {"start"}
      [] s \in {"coding", "fixing"} -> {"coder"}
      [] s = "under_review" -> {"review", "gate"}
      [] s = "approved_by_policy" -> {}
      [] OTHER -> {"reconcile"}

\* workflow_states.active_feature_run_id names the run.
Active == state \in Working \cup {"human_required"}

\* The run is looked for, and asked for once.
FindRun ==
    /\ driver.at = "tick" /\ ~driver.known
    /\ \/ Active /\ driver' = [driver EXCEPT !.known = TRUE] /\ UNCHANGED queue
       \/ /\ ~Active /\ driver.last # "discovering"
          /\ driver' = [driver EXCEPT !.last = "discovering"]
          /\ queue' = queue \cup {"start"}
    /\ UNCHANGED <<run, forge, pr, failures>>

\* Mutant of ShouldAct: it acts when the state has changed.
OnlyOnChange == state # driver.last

ShouldAct == state # driver.last \/ state \in AlwaysReissue \/ driver.late

Poll ==
    /\ driver.at = "tick" /\ driver.known
    /\ \/ state \in Ends /\ driver' = Over
       \/ /\ state \notin Ends /\ ShouldAct
          /\ driver' = [driver EXCEPT !.at = "act", !.last = state,
                                      !.late = @ /\ state = driver.last]
    /\ UNCHANGED <<run, forge, pr, queue, failures>>

StuckLongEnough ==
    /\ driver.at = "tick" /\ driver.last = state /\ ~driver.late
    /\ driver' = [driver EXCEPT !.late = TRUE]
    /\ UNCHANGED <<run, forge, pr, queue, failures>>

\* The state may have changed since it was read.
ActOnState ==
    /\ driver.at = "act" /\ driver.last # "approved_by_policy"
    /\ queue' = queue \cup Jobs(driver.last)
    /\ driver' = [driver EXCEPT !.at = "tick"]
    /\ UNCHANGED <<run, forge, pr, failures>>

\* The merge is no job: the route makes it while the driver waits (MergeRoute).
MergeIfReady ==
    /\ driver.at = "act" /\ driver.last = "approved_by_policy"
    /\ LET ready == state = "approved_by_policy" /\ GatePasses
       IN  \/ ready /\ driver' = [driver EXCEPT !.at = "tick"]
              /\ \E s \in {"merged", "under_review", "human_required"} : Becomes(s)
           \/ ready /\ driver' = Over  \* the route dies
              /\ \E s \in {"merge_ready", "merge_failed"} : Becomes(s)
           \/ /\ ~ready
              /\ driver' = IF state = "approved_by_policy"
                           THEN [driver EXCEPT !.at = "tick"] ELSE Over
              /\ UNCHANGED run
    /\ UNCHANGED <<forge, pr, queue, failures>>

\* A signal, the timeout, --no-merge, or a request that fails, the second one perhaps.
Stop ==
    /\ driver.at # "ended"
    /\ driver' = Over
    /\ queue' = queue \/ (driver.at = "act" /\ driver.last = "under_review"
                            /\ queue' = queue \cup {"review"})
    /\ UNCHANGED <<run, forge, pr, failures>>

\* Somebody calls the command again, with --feature-run.
WatchAgain ==
    /\ driver.at = "ended" /\ state \notin Ends
    /\ driver' = [Over EXCEPT !.at = "tick"]
    /\ UNCHANGED <<run, forge, pr, queue, failures>>

-----------------------------------------------------------------------------
(* The others                                                              *)

\* A webhook starts a pass as well.
Webhook ==
    /\ pr.tracked /\ Observe
    /\ UNCHANGED <<forge, queue, failures, driver>>

CiEnds ==
    /\ forge.opened /\ ~CiEnded
    /\ \E r \in {"passed", "failed"} : forge' = [forge EXCEPT !.ci = r]
    /\ UNCHANGED <<run, pr, queue, failures, driver>>

\* Somebody commits, or opens the pull request.
People ==
    /\ \/ forge.last = "coder" /\ Committed("other") /\ run' = [run EXCEPT !.cleared = FALSE]
       \/ /\ forge.last # "none" /\ ~forge.opened
          /\ forge' = [forge EXCEPT !.opened = TRUE]
          /\ UNCHANGED <<run, pr>>
    /\ UNCHANGED <<queue, failures, driver>>

\* A human disposes of a run that waits for one.
Dispose ==
    /\ \E to \in State : <<state, to>> \in Dispositions \cup Failures /\ Becomes(to)
    /\ UNCHANGED <<forge, pr, queue, failures, driver>>

Job(k) == Execute(k) \/ End(k)
Watch == FindRun \/ Poll \/ ActOnState \/ MergeIfReady

WatchNext ==
    \/ Watch \/ StuckLongEnough \/ Stop \/ WatchAgain
    \/ \E k \in Kind : Job(k) \/ Fail(k)
    \/ Webhook \/ CiEnds \/ People \/ Dispose

\* The driver goes on until it ends and its timer runs; a worker takes every job.
WatchFairness ==
    WF_watchVars(Watch) /\ WF_watchVars(StuckLongEnough)
    /\ \A k \in Kind : WF_watchVars(Job(k))

WatchSpec == WatchInit /\ [][WatchNext]_watchVars /\ WatchFairness

-----------------------------------------------------------------------------
(* What the driver is for                                                  *)

\* There is a hop that what the driver asks for can make.
Movable ==
    \/ \E k \in Jobs(state) : Useful(k)
    \/ state = "approved_by_policy" /\ GatePasses

Following == driver.known /\ driver.at # "ended"

\* However many jobs fail: a driver that has found its run never follows it for ever
\* through one state, if there is all the time a hop that it may ask for.
NoHopIsLost ==
    <>[](Following /\ Movable) => []<><<state' # state>>_watchVars

\* The gate's approval, which the driver asks for together with the review, follows
\* the review: no run is approved whose commit no review found clean.
ApprovalFollowsReview ==
    [][state # "approved_by_policy" /\ state' = "approved_by_policy" => run.cleared]_watchVars
=============================================================================
