----------------------------- MODULE MCPipeline -----------------------------
\* One feature run and two workers that may run any task.
EXTENDS Pipeline, TLC

CONSTANTS f1, w1, w2

TaskWorkers == Permutations({w1, w2})

NoDependencies == [f \in Feature |-> {}]
=============================================================================
