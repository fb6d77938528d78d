---------------------------- MODULE MCMergeRoute ----------------------------
(* MergeRoute and MergeCommand for TLC.  All that may overlap is too much for
   one search, so the initial states choose what does: calls, while one
   reconciliation follows another; or reconciliations, around one request and a
   pull request that nobody closes, at a forge that compares the head. *)
EXTENDS MergeCommand, TLC
CONSTANTS r1, r2, k1, c1, c2

VARIABLE overlap

\* A request and its retry.
Retried == [r \in Request |-> k1]
Symmetry == Permutations(Request)

OnlyRequest(r) == \A q \in Request \ {r} : At(q, "idle")

MCInit ==
    /\ CommandInit /\ overlap \in {"calls", "reconciliations"}
    /\ overlap = "reconciliations" => forge.provider = "gitlab"

MCNext ==
    /\ UNCHANGED overlap
    /\ \/ /\ UNCHANGED command
          /\ \/ \E r \in Request : (overlap = "calls" \/ OnlyRequest(r)) /\ Serve(r)
             \/ \E c \in Reconciler : (overlap = "reconciliations" \/ c = c1) /\ Reconcile(c)
             \/ People
       \/ overlap = "calls" /\ \E t \in Tool : Invoke(t)
    /\ overlap = "reconciliations" => forge'.status # "closed"

MCSpec == MCInit /\ [][MCNext]_<<vars, command, overlap>>
=============================================================================
