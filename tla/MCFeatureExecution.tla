------------------------ MODULE MCFeatureExecution ------------------------
\* Three feature runs, a pair and a run beside it: dependencies and rival runs
\* both occur.  The project is completed in the end.
EXTENDS ProjectCompletion, TLC

CONSTANTS a, b, c

PairDependsOn == (a :> {}) @@ (b :> {a}) @@ (c :> {})
=============================================================================
