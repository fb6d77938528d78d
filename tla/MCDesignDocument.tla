-------------------------- MODULE MCDesignDocument --------------------------
(* DesignDocument for TLC. *)
EXTENDS DesignDocument, TLC
CONSTANTS r1, r2, q1, q2, h1

Symmetry == Permutations({r1, r2}) \cup Permutations({q1, q2})
=============================================================================
