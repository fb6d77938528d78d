----------------------------- MODULE MCAgentRuns -----------------------------
EXTENDS AgentRuns, TLC
CONSTANTS w1, w2, f1

Workers == Permutations({w1, w2})
Estimates == [r \in Tasks |-> IF r = "coder" THEN 1 ELSE 2]
Offers ==
    {[implementation |-> "a", declares |-> TRUE, active |-> TRUE],
     [implementation |-> "b", declares |-> FALSE, active |-> TRUE],
     [implementation |-> "b", declares |-> TRUE, active |-> FALSE]}
Limits == [f \in Feature |-> 3]
=============================================================================
