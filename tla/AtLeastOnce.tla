---------------------------- MODULE AtLeastOnce ----------------------------
(***************************************************************************)
(* What the event dispatchers and the task queue promise for an item that  *)
(* was recorded: its handler may run any number of times, also to no avail *)
(* or on behalf of a worker that lost the item, but the item is settled    *)
(* only after a run that succeeded, a settled item stays settled, and at   *)
(* most MaxAttempts failures are counted before it is given up.  What an   *)
(* operator withdraws never comes back.                                    *)
(***************************************************************************)
EXTENDS Naturals

CONSTANTS Item, MaxAttempts

VARIABLES
    phase,     \* "absent", "queued", "settled" or "withdrawn"
    failures,  \* failed attempts counted
    handled    \* items a handler has completed for

vars == <<phase, failures, handled>>

Init ==
    /\ phase = [i \in Item |-> "absent"]
    /\ failures = [i \in Item |-> 0]
    /\ handled = {}

Enqueue(i) ==
    /\ phase[i] = "absent"
    /\ phase' = [phase EXCEPT ![i] = "queued"]
    /\ UNCHANGED <<failures, handled>>

Handle(i) ==
    /\ phase[i] # "absent"
    /\ handled' = handled \cup {i}
    /\ UNCHANGED <<phase, failures>>

Settle(i) ==
    /\ phase[i] = "queued" /\ i \in handled /\ failures[i] < MaxAttempts
    /\ phase' = [phase EXCEPT ![i] = "settled"]
    /\ UNCHANGED <<failures, handled>>

Fail(i) ==
    /\ phase[i] = "queued" /\ failures[i] < MaxAttempts
    /\ failures' = [failures EXCEPT ![i] = @ + 1]
    /\ UNCHANGED <<phase, handled>>

Withdraw(i) ==
    /\ phase[i] # "absent"
    /\ phase' = [phase EXCEPT ![i] = "withdrawn"]
    /\ failures' = [failures EXCEPT ![i] = MaxAttempts]
    /\ UNCHANGED handled

Next ==
    \E i \in Item :
        Enqueue(i) \/ Handle(i) \/ Settle(i) \/ Fail(i) \/ Withdraw(i)

Spec == Init /\ [][Next]_vars
=============================================================================
