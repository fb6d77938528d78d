--------------------------- MODULE FencingTokens ---------------------------
(***************************************************************************)
(* What a fenced lock promises to the core writes it guards                *)
(* (docs/01-system-specification.md section 6, "Lock fencing"): tokens are *)
(* issued in increasing order, and a write is accepted only while the      *)
(* token it carries is the latest one issued.                              *)
(***************************************************************************)
EXTENDS Naturals

VARIABLES
    issued,     \* the latest token issued, 0 before the first
    accepted    \* the token of the last accepted write, 0 before the first

Init == issued = 0 /\ accepted = 0

\* A holder takes the lock, or retires its token by releasing the lock.
Issue == issued' = issued + 1 /\ UNCHANGED accepted

\* The holder of the latest token writes.
Accept == issued > 0 /\ accepted' = issued /\ UNCHANGED issued

Next == Issue \/ Accept

Spec == Init /\ [][Next]_<<issued, accepted>>
=============================================================================
