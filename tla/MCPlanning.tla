----------------------------- MODULE MCPlanning -----------------------------
(* Planning for TLC. *)
EXTENDS Planning, TLC
CONSTANTS a1, a2, p1, p2, f1, f2

Symmetry == Permutations({a1, a2}) \cup Permutations({p1, p2})
            \cup Permutations({f1, f2})
=============================================================================
