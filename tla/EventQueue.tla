----------------------------- MODULE EventQueue -----------------------------
(***************************************************************************)
(* The inbox processor and the outbox dispatcher, which run the same code  *)
(* over two tables (packages/workflow/src/inbox, .../outbox): concurrent   *)
(* polls that reset stale claims, select a batch, and claim, handle and    *)
(* mark its rows one after the other, with a heartbeat beside the handler. *)
(*                                                                         *)
(* A row's version only grows, so a poll's copy of it is compared with the *)
(* row by asking whether anything wrote the row since: current[p] holds    *)
(* the rows of which p still has the latest version.  Times are kept as    *)
(* time elapsed (age) and time left (wait, beat).                          *)
(***************************************************************************)
EXTENDS Naturals, FiniteSets

CONSTANTS
    Event,        \* events, in the order of their created_at
    Known,        \* those with a handler
    Processor,    \* processes that poll
    None,
    BatchSize, MaxAttempts, Stale, Base, MaxBackoff,   \* the options
    MaxFaults     \* bound on crashes, failed database calls and delays

ASSUME QueueAssumption ==
    /\ Event \subseteq Nat /\ IsFiniteSet(Event)
    /\ Known \subseteq Event
    /\ None \notin Event
    /\ BatchSize \in Nat \ {0} /\ MaxAttempts \in Nat \ {0}
    /\ Stale \in Nat \ {0, 1}
    /\ Base \in Nat /\ MaxBackoff \in Nat
    /\ MaxFaults \in Nat

VARIABLES
    status,    \* status of each row, "absent" before it is inserted
    attempts,  \* attempts
    wait,      \* time left until next_retry_at
    age,       \* time since updated_at of a row being processed, up to Stale
    pc,        \* where each poll is
    batch,     \* rows selected and not yet looked at
    seen,      \* attempts as selected
    current,   \* rows whose version the poll knows
    item,      \* the row being handled
    beat,      \* time left until its next heartbeat
    lost,      \* lostOwnership
    handled,   \* events for which a handler has completed
    late,      \* a heartbeat or a final update has been late or failed
    faults

rows == <<status, attempts, wait, age>>
local == <<pc, batch, seen, current, item, beat, lost>>
vars == <<rows, local, handled, late, faults>>

Open == {"pending", "failed"}
Working == {"handling", "succeeded", "threw", "unhandled"}
Interval == IF Stale \div 2 > 1 THEN Stale \div 2 ELSE 1

TypeOK ==
    /\ status \in [Event -> Open \cup {"absent", "processing", "processed"}]
    /\ attempts \in [Event -> 0 .. MaxAttempts]
    /\ wait \in [Event -> 0 .. MaxBackoff]
    /\ age \in [Event -> 0 .. Stale]
    /\ pc \in [Processor -> Working \cup {"idle", "recovered", "busy"}]
    /\ batch \in [Processor -> SUBSET Event]
    /\ seen \in [Processor -> [Event -> 0 .. MaxAttempts]]
    /\ current \in [Processor -> SUBSET Event]
    /\ item \in [Processor -> Event \cup {None}]
    /\ beat \in [Processor -> 0 .. Interval]
    /\ lost \in [Processor -> BOOLEAN]
    /\ handled \subseteq Event
    /\ late \in BOOLEAN
    /\ faults \in 0 .. MaxFaults

Init ==
    /\ status = [e \in Event |-> "absent"]
    /\ attempts = [e \in Event |-> 0]
    /\ wait = [e \in Event |-> 0]
    /\ age = [e \in Event |-> 0]
    /\ pc = [p \in Processor |-> "idle"]
    /\ batch = [p \in Processor |-> {}]
    /\ seen = [p \in Processor |-> [e \in Event |-> 0]]
    /\ current = [p \in Processor |-> {}]
    /\ item = [p \in Processor |-> None]
    /\ beat = [p \in Processor |-> 0]
    /\ lost = [p \in Processor |-> FALSE]
    /\ handled = {}
    /\ late = FALSE
    /\ faults = 0

-----------------------------------------------------------------------------
\* deterministicBackoff(n, Base, MaxBackoff), for n > 0.
Backoff(n) ==
    LET b == Base * 2 ^ (n - 1) IN IF b < MaxBackoff THEN b ELSE MaxBackoff

\* A webhook delivery inserts its row once (dedup_key is UNIQUE).
Insert(e) ==
    /\ status[e] = "absent"
    /\ \A d \in Event : d < e => status[d] # "absent"
    /\ status' = [status EXCEPT ![e] = "pending"]
    /\ UNCHANGED <<attempts, wait, age, local, handled, late, faults>>

Fault == faults < MaxFaults /\ faults' = faults + 1

\* The poll owes its row an update: a heartbeat, or the one that ends the claim.
Owing(p) ==
    \/ pc[p] \in Working \ {"handling"}
    \/ pc[p] = "handling" /\ ~lost[p] /\ beat[p] = 0

\* Time passes.  It is a fault if an update that is due is kept waiting.
Tick ==
    /\ IF \E p \in Processor : Owing(p)
       THEN Fault /\ late' = TRUE
       ELSE UNCHANGED <<late, faults>>
    /\ wait' = [e \in Event |-> IF wait[e] > 0 THEN wait[e] - 1 ELSE 0]
    /\ age' = [e \in Event |-> IF status[e] = "processing" /\ age[e] < Stale
                               THEN age[e] + 1 ELSE age[e]]
    /\ beat' = [p \in Processor |-> IF beat[p] > 0 THEN beat[p] - 1 ELSE 0]
    /\ UNCHANGED <<status, attempts, pc, batch, seen, current, item, lost, handled>>

\* The poll writes the rows S: version + 1, and its own copy of them follows.
Wrote(p, S) ==
    current' = [q \in Processor |-> IF q = p THEN current[q] ELSE current[q] \ S]

\* Mutants of IsStale: a claim is reset before a heartbeat was due, or never.
IsStaleEarly(e) == status[e] = "processing" /\ age[e] >= Stale \div 2
NeverStale(e) == FALSE

\* UPDATE ... WHERE status = 'processing' AND updated_at <= staleThreshold.
IsStale(e) == status[e] = "processing" /\ age[e] >= Stale

Recover(p) ==
    LET stuck == {e \in Event : IsStale(e)} IN
    /\ pc[p] = "idle"
    /\ pc' = [pc EXCEPT ![p] = "recovered"]
    /\ status' = [e \in Event |-> IF e \in stuck THEN "pending" ELSE status[e]]
    /\ age' = [e \in Event |-> IF e \in stuck THEN 0 ELSE age[e]]
    /\ Wrote(p, stuck)
    /\ UNCHANGED <<attempts, wait, batch, seen, item, beat, lost, handled, late, faults>>

Eligible == {e \in Event : status[e] \in Open /\ attempts[e] < MaxAttempts
                           /\ wait[e] = 0}

\* Known event types fill the batch first, then the oldest.
Before(d, e) ==
    \/ d \in Known /\ e \notin Known
    \/ (d \in Known <=> e \in Known) /\ d < e

Select(p) ==
    /\ pc[p] = "recovered"
    /\ \E B \in SUBSET Eligible :
           /\ Cardinality(B) <= BatchSize
           /\ Cardinality(B) = BatchSize \/ B = Eligible
           /\ \A d \in B, e \in Eligible \ B : Before(d, e)
           /\ batch' = [batch EXCEPT ![p] = B]
           /\ current' = [current EXCEPT ![p] = B]
    /\ seen' = [seen EXCEPT ![p] = attempts]
    /\ pc' = [pc EXCEPT ![p] = "busy"]
    /\ UNCHANGED <<rows, item, beat, lost, handled, late, faults>>

\* Mutant of CanClaim: the claiming UPDATE forgets the version.
CanClaimByStatus(p, e) == status[e] \in Open

\* UPDATE ... WHERE status IN ('pending', 'failed') AND version = selected.
CanClaim(p, e) == status[e] \in Open /\ e \in current[p]

Claim(p, e) ==
    /\ pc[p] = "busy" /\ e \in batch[p]
    /\ \A d \in batch[p] \ {e} : Before(e, d)
    /\ batch' = [batch EXCEPT ![p] = @ \ {e}]
    /\ \/ /\ CanClaim(p, e)
          /\ status' = [status EXCEPT ![e] = "processing"]
          /\ age' = [age EXCEPT ![e] = 0]
          /\ item' = [item EXCEPT ![p] = e]
          /\ beat' = [beat EXCEPT ![p] = Interval]
          /\ pc' = [pc EXCEPT ![p] = IF e \in Known THEN "handling" ELSE "unhandled"]
          /\ Wrote(p, {e})
       \/ /\ ~CanClaim(p, e)
          /\ UNCHANGED <<status, age, item, beat, pc, current>>
    /\ UNCHANGED <<attempts, wait, seen, lost, handled, late, faults>>

\* Mutant of OwnsClaim: the final update forgets the claimed version.
OwnsAlways(p) == TRUE

\* The version the poll left the row with when it claimed it.
OwnsClaim(p) == item[p] \in current[p]

\* The loop goes on with the next row of the batch.
NextRow(p) ==
    /\ pc' = [pc EXCEPT ![p] = "busy"]
    /\ item' = [item EXCEPT ![p] = None]
    /\ beat' = [beat EXCEPT ![p] = 0]
    /\ lost' = [lost EXCEPT ![p] = FALSE]

\* No handler is registered: the row is put off, its attempts are not counted.
PushBack(p) ==
    /\ pc[p] = "unhandled"
    /\ NextRow(p)
    /\ IF OwnsClaim(p)
       THEN /\ status' = [status EXCEPT ![item[p]] = "pending"]
            /\ wait' = [wait EXCEPT ![item[p]] = MaxBackoff]
            /\ Wrote(p, {item[p]})
       ELSE UNCHANGED <<status, wait, current>>
    /\ UNCHANGED <<attempts, age, batch, seen, handled, late, faults>>

\* The heartbeat renews updated_at, or learns that the row was reclaimed.
Beat(p) ==
    /\ pc[p] = "handling" /\ ~lost[p] /\ beat[p] = 0
    /\ \/ /\ OwnsClaim(p) /\ status[item[p]] = "processing"
          /\ age' = [age EXCEPT ![item[p]] = 0]
          /\ beat' = [beat EXCEPT ![p] = Interval]
          /\ lost' = lost
       \/ /\ ~OwnsClaim(p)
          /\ lost' = [lost EXCEPT ![p] = TRUE]
          /\ UNCHANGED <<age, beat>>
    /\ UNCHANGED <<status, attempts, wait, pc, batch, seen, current, item,
                   handled, late, faults>>

\* A heartbeat that fails counts as lost, though the claim may still stand.
BeatFails(p) ==
    /\ Fault /\ late' = TRUE
    /\ pc[p] = "handling" /\ ~lost[p] /\ beat[p] = 0
    /\ lost' = [lost EXCEPT ![p] = TRUE]
    /\ UNCHANGED <<rows, pc, batch, seen, current, item, beat, handled>>

Finish(p) ==
    /\ pc[p] = "handling"
    /\ pc' = [pc EXCEPT ![p] = "succeeded"]
    /\ handled' = handled \cup {item[p]}
    /\ UNCHANGED <<rows, batch, seen, current, item, beat, lost, late, faults>>

\* The handler throws, or the payload does not validate.
Throw(p) ==
    /\ pc[p] = "handling"
    /\ pc' = [pc EXCEPT ![p] = "threw"]
    /\ UNCHANGED <<rows, batch, seen, current, item, beat, lost, handled, late, faults>>

MarkProcessed(p) ==
    /\ pc[p] = "succeeded"
    /\ NextRow(p)
    /\ IF ~lost[p] /\ OwnsClaim(p)
       THEN /\ status' = [status EXCEPT ![item[p]] = "processed"]
            /\ Wrote(p, {item[p]})
       ELSE UNCHANGED <<status, current>>
    /\ UNCHANGED <<attempts, wait, age, batch, seen, handled, late, faults>>

\* markProcessed runs inside the try: if it fails, the catch counts a failure.
MarkProcessedFails(p) ==
    /\ Fault /\ pc[p] = "succeeded"
    /\ pc' = [pc EXCEPT ![p] = "threw"]
    /\ UNCHANGED <<rows, batch, seen, current, item, beat, lost, handled, late>>

MarkFailed(p) ==
    /\ pc[p] = "threw"
    /\ NextRow(p)
    /\ IF ~lost[p] /\ OwnsClaim(p)
       THEN /\ status' = [status EXCEPT ![item[p]] = "failed"]
            /\ attempts' = [attempts EXCEPT ![item[p]] = seen[p][item[p]] + 1]
            /\ wait' = [wait EXCEPT ![item[p]] = Backoff(seen[p][item[p]] + 1)]
            /\ Wrote(p, {item[p]})
       ELSE UNCHANGED <<status, attempts, wait, current>>
    /\ UNCHANGED <<age, batch, seen, handled, late, faults>>

\* The poll forgets what it selected.
Forget(p) ==
    /\ pc' = [pc EXCEPT ![p] = "idle"]
    /\ batch' = [batch EXCEPT ![p] = {}]
    /\ seen' = [seen EXCEPT ![p] = [e \in Event |-> 0]]
    /\ current' = [current EXCEPT ![p] = {}]
    /\ item' = [item EXCEPT ![p] = None]
    /\ beat' = [beat EXCEPT ![p] = 0]
    /\ lost' = [lost EXCEPT ![p] = FALSE]

EndPoll(p) ==
    /\ pc[p] = "busy" /\ batch[p] = {}
    /\ Forget(p)
    /\ UNCHANGED <<rows, handled, late, faults>>

\* The process dies, or a database call outside the try fails and ends the poll.
Abort(p) ==
    /\ Fault /\ pc[p] # "idle"
    /\ Forget(p)
    /\ UNCHANGED <<rows, handled, late>>

Poll(p) ==
    \/ Recover(p) \/ Select(p) \/ (\E e \in Event : Claim(p, e))
    \/ PushBack(p) \/ Beat(p) \/ Finish(p) \/ Throw(p)
    \/ MarkProcessed(p) \/ MarkFailed(p) \/ EndPoll(p)

Next ==
    \/ \E e \in Event : Insert(e)
    \/ \E p \in Processor : Poll(p) \/ BeatFails(p) \/ MarkProcessedFails(p) \/ Abort(p)
    \/ Tick

\* The worker polls on an interval timer and survives a failed poll; handlers
\* return or throw; time passes.
Fairness ==
    /\ WF_vars(Tick)
    /\ \A p \in Processor : WF_vars(Poll(p)) /\ WF_vars(Finish(p) \/ Throw(p))

Spec == Init /\ [][Next]_vars

FairSpec == Spec /\ Fairness

-----------------------------------------------------------------------------
(* Properties                                                              *)

\* What the acceptance validation, the doctor and state reconcile call a stuck
\* row (their limit, 5 attempts, is the one the queues are built with).
Stuck(e) == status[e] \in {"pending", "processing"} /\ attempts[e] >= MaxAttempts

\* No row is ever stuck in that sense: whatever polls overlap, crash and reset
\* each other's claims, the last failure leaves the row 'failed' and nobody
\* takes it up again.  So an event that was never delivered does not keep a
\* project from being complete, and state reconcile --all has no row to clear.
NothingIsStuck == \A e \in Event : ~Stuck(e)

\* While heartbeats and updates are on time no two handlers of one event run at
\* the same time: a stale claim is reset only when its poll is gone.
NoDoubleHandling ==
    ~late => \A p, q \in Processor :
        p # q /\ pc[p] = "handling" /\ pc[q] = "handling" => item[p] # item[q]

Settled(e) == status[e] = "processed" \/ attempts[e] = MaxAttempts

\* docs/01 13: every event that has a handler is delivered or used up its
\* attempts in the end, whatever crashes and whatever the others do.
EventuallySettled ==
    \A e \in Known : status[e] # "absent" ~> Settled(e)

\* The queue is an at-least-once delivery of its events.
Delivery == INSTANCE AtLeastOnce WITH
    Item <- Event,
    phase <- [e \in Event |-> CASE status[e] = "absent" -> "absent"
                                [] status[e] = "processed" -> "settled"
                                [] OTHER -> "queued"],
    failures <- attempts

DeliverySpec == Delivery!Spec
=============================================================================
