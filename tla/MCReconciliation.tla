--------------------------- MODULE MCReconciliation ---------------------------
EXTENDS Reconciliation, TLC
CONSTANTS f1, w1, w2

Workers == Permutations({w1, w2})

\* An operator holds the run, and sends it back.
Operator == {<<"pr_opened", "human_required">>, <<"human_required", "under_review">>}

Settings ==
    {<<"github", {"close"}, {<<"under_review", "approved_by_policy">>}>>, <<"github", {"object"}, {}>>,
     <<"gitea", {"rerun"}, Operator>>, <<"gitlab", {}, {}>>}
=============================================================================
