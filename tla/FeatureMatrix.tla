---------------------------- MODULE FeatureMatrix ----------------------------
(***************************************************************************)
(* The execution states of a feature run and the transitions the validator *)
(* admits (core/src/statemachine/machines/feature-execution.ts), in the    *)
(* sections of FEATURE_EXECUTION_MATRIX.                                   *)
(***************************************************************************)
Working ==
    {"selected", "coding", "code_pushed", "pr_opened", "ci_running",
     "ci_failed", "under_review", "changes_requested", "fixing",
     "approved_by_policy", "merge_ready", "merge_failed"}

State ==
    Working \cup {"approved_pending_execution", "human_required", "blocked",
                  "skipped", "merged", "failed", "system_failed"}

MainFlow ==
    {<<"approved_pending_execution", "selected">>, <<"selected", "coding">>,
     <<"coding", "code_pushed">>, <<"code_pushed", "pr_opened">>,
     <<"pr_opened", "ci_running">>}

\* Reconciliation escalates a closed pull request from wherever the run is.
Divergence ==
    {"approved_pending_execution", "selected", "coding", "code_pushed",
     "pr_opened", "ci_running", "changes_requested", "fixing",
     "approved_by_policy", "merge_ready"} \X {"human_required"}

CiOutcomes ==
    {<<"ci_running", "under_review">>, <<"ci_running", "ci_failed">>,
     <<"ci_failed", "changes_requested">>, <<"ci_failed", "human_required">>}

ReviewLoop ==
    {<<"under_review", "changes_requested">>,
     <<"under_review", "human_required">>,
     <<"under_review", "approved_by_policy">>,
     <<"changes_requested", "fixing">>, <<"fixing", "code_pushed">>}

MergePath ==
    {<<"approved_by_policy", "merge_ready">>, <<"merge_ready", "merged">>,
     <<"merge_ready", "merge_failed">>, <<"merge_failed", "under_review">>,
     <<"merge_failed", "human_required">>}

Failures ==
    {<<"failed", "human_required">>, <<"system_failed", "human_required">>,
     <<"blocked", "approved_pending_execution">>}

\* What a human may do with a run that waits for one, and the skip cascade.
Dispositions ==
    ({"human_required"} \X {"changes_requested", "under_review", "selected",
                            "skipped", "blocked"})
    \cup {<<"approved_pending_execution", "blocked">>}

\* The validator looks up the pair of states only, never the command that asks.
Matrix ==
    MainFlow \cup Divergence \cup CiOutcomes \cup ReviewLoop \cup MergePath
    \cup Failures \cup Dispositions
=============================================================================
