---------------------------- MODULE MCTaskQueue -----------------------------
(* TaskQueue for TLC. *)
EXTENDS TaskQueue, TLC
CONSTANTS w1, w2, coder, export

\* Tasks of id export are not registered: it was renamed.
CoderAlone == [t \in {coder} |-> 1]
Backoffs == [n \in 1 .. MaxAttempts |-> 1]
=============================================================================
