----------------------------- MODULE TaskQueue ------------------------------
(***************************************************************************)
(* The task queue and its workers (packages/triggerdev/src/task-worker.ts, *)
(* enqueued by api/src/default-task-trigger-client.ts).  A worker resets   *)
(* stale claims, selects candidates, and claims them one by one, each in a *)
(* transaction that holds the gate of the job's task and counts its rows;  *)
(* claimed jobs run side by side while the scan goes on.                   *)
(*                                                                         *)
(* Versions and times are kept as in EventQueue: current[w] and owned[w]   *)
(* are the rows of which w has the latest version, as selected and as      *)
(* claimed.  A worker runs a job once at a time.                           *)
(***************************************************************************)
EXTENDS Naturals, FiniteSets

CONSTANTS
    Job,          \* rows of task_queue, in the order of their created_at
    Task,         \* task ids
    Limit,        \* concurrencyLimit of the registered tasks
    Worker,       \* 'minicoder tasks worker' processes
    None,
    BatchSize, MaxAttempts, Stale, Backoff, MaxBackoff,
    DbFails,      \* database calls may fail
    MaxFaults     \* bound on crashes, failed calls, delays and cancellations

ASSUME TaskQueueAssumption ==
    /\ Job \subseteq Nat /\ IsFiniteSet(Job)
    /\ DOMAIN Limit \subseteq Task
    /\ \A t \in DOMAIN Limit : Limit[t] \in Nat \ {0}
    /\ None \notin Worker \cup Job \cup Task
    /\ BatchSize \in Nat \ {0} /\ MaxAttempts \in Nat
    /\ Stale \in Nat \ {0, 1} /\ MaxBackoff \in Nat
    /\ Backoff \in [1 .. MaxAttempts -> 0 .. MaxBackoff]  \* deterministicBackoff
    /\ DbFails \in BOOLEAN /\ MaxFaults \in Nat

VARIABLES
    task, status, attempts, wait, age,   \* the rows, as in EventQueue
    gate,      \* who holds the row lock in task_concurrency_gates
    pc,        \* where each worker's poll is
    scan,      \* candidates the poll has yet to look at
    seen,      \* attempts as selected
    current, owned,
    claiming,  \* the job of the running claim transaction
    read,      \* inFlightCount, read before the claim
    inFlight,  \* the worker's map of running jobs per task
    run,       \* where the worker's run of each job is
    beat,      \* time left until the run's next heartbeat
    lost,      \* its lostOwnership
    mine,      \* jobs started by this poll
    awaited,   \* jobs whose promise a Promise.all has taken
    handled,   \* jobs a task implementation has completed for
    late,      \* a heartbeat or a final update has been late or failed
    faults

rows == <<task, status, attempts, wait, age>>
poll == <<pc, scan, seen, current, claiming, read, mine>>
runs == <<run, beat, lost, awaited>>
vars == <<rows, gate, poll, owned, inFlight, runs, handled, late, faults>>

Open == {"pending", "failed"}
Claiming == {"gate", "locked", "counted"}
Cancelled == MaxAttempts + 1   \* a number of attempts above any worker's limit
Interval == IF Stale \div 2 > 1 THEN Stale \div 2 ELSE 1

TypeOK ==
    /\ task \in [Job -> Task \cup {None}]
    /\ status \in [Job -> Open \cup {"absent", "processing", "succeeded"}]
    /\ attempts \in [Job -> 0 .. Cancelled]
    /\ wait \in [Job -> 0 .. MaxBackoff]
    /\ age \in [Job -> 0 .. Stale]
    /\ gate \in [Task -> Worker \cup {None}]
    /\ pc \in [Worker -> Claiming \cup {"idle", "recovered", "scanning", "waiting"}]
    /\ scan \in [Worker -> SUBSET Job]
    /\ seen \in [Worker -> [Job -> 0 .. MaxAttempts]]
    /\ current \in [Worker -> SUBSET Job]
    /\ owned \in [Worker -> SUBSET Job]
    /\ claiming \in [Worker -> Job \cup {None}]
    /\ read \in [Worker -> Nat]
    /\ inFlight \in [Worker -> [Task -> Nat]]
    /\ run \in [Worker -> [Job -> {"none", "running", "succeeded", "threw", "marked"}]]
    /\ beat \in [Worker -> [Job -> 0 .. Interval]]
    /\ lost \in [Worker -> [Job -> BOOLEAN]]
    /\ mine \in [Worker -> SUBSET Job]
    /\ awaited \in [Worker -> SUBSET Job]
    /\ handled \subseteq Job
    /\ late \in BOOLEAN
    /\ faults \in 0 .. MaxFaults

Init ==
    /\ task = [j \in Job |-> None]
    /\ status = [j \in Job |-> "absent"]
    /\ attempts = [j \in Job |-> 0]
    /\ wait = [j \in Job |-> 0]
    /\ age = [j \in Job |-> 0]
    /\ gate = [t \in Task |-> None]
    /\ pc = [w \in Worker |-> "idle"]
    /\ scan = [w \in Worker |-> {}]
    /\ seen = [w \in Worker |-> [j \in Job |-> 0]]
    /\ current = [w \in Worker |-> {}]
    /\ owned = [w \in Worker |-> {}]
    /\ claiming = [w \in Worker |-> None]
    /\ read = [w \in Worker |-> 0]
    /\ inFlight = [w \in Worker |-> [t \in Task |-> 0]]
    /\ run = [w \in Worker |-> [j \in Job |-> "none"]]
    /\ beat = [w \in Worker |-> [j \in Job |-> 0]]
    /\ lost = [w \in Worker |-> [j \in Job |-> FALSE]]
    /\ mine = [w \in Worker |-> {}]
    /\ awaited = [w \in Worker |-> {}]
    /\ handled = {}
    /\ late = FALSE
    /\ faults = 0

-----------------------------------------------------------------------------
\* A row is inserted once per project, task and idempotency key.
Append(j, t) ==
    /\ status[j] = "absent"
    /\ \A i \in Job : i < j => status[i] # "absent"
    /\ task' = [task EXCEPT ![j] = t]
    /\ status' = [status EXCEPT ![j] = "pending"]
    /\ UNCHANGED <<attempts, wait, age, gate, poll, owned, inFlight, runs, handled, late, faults>>

\* A request to one of the trigger routes, with a key that is new to its task
\* and project; any other is answered with the row there is.
Enqueue(j) == \E t \in Task : Append(j, t)

\* trigger replay-run: the task and payload of an earlier row, under a new key.
Replay(i, j) == status[i] # "absent" /\ Append(j, task[i])

Fault == faults < MaxFaults /\ faults' = faults + 1

\* The run owes its row a heartbeat or the update that ends the claim.
Owing(w, j) ==
    \/ run[w][j] \in {"succeeded", "threw"}
    \/ run[w][j] = "running" /\ ~lost[w][j] /\ beat[w][j] = 0

\* Time passes.  It is a fault if an update that is due is kept waiting.
Tick ==
    /\ IF \E w \in Worker, j \in Job : Owing(w, j)
       THEN Fault /\ late' = TRUE
       ELSE UNCHANGED <<late, faults>>
    /\ wait' = [j \in Job |-> IF wait[j] > 0 THEN wait[j] - 1 ELSE 0]
    /\ age' = [j \in Job |-> IF status[j] = "processing" /\ age[j] < Stale
                             THEN age[j] + 1 ELSE age[j]]
    /\ beat' = [w \in Worker |-> [j \in Job |->
                   IF beat[w][j] > 0 THEN beat[w][j] - 1 ELSE 0]]
    /\ UNCHANGED <<task, status, attempts, gate, poll, owned, inFlight, run, lost,
                   awaited, handled>>

\* Nobody's version of the rows S is the latest any more.
Outdated(known, S) == [w \in Worker |-> known[w] \ S]

\* trigger cancel-run, whatever the row's state; what runs goes on running.
Cancel(j) ==
    /\ Fault
    /\ status[j] # "absent"
    /\ status' = [status EXCEPT ![j] = "failed"]
    /\ attempts' = [attempts EXCEPT ![j] = Cancelled]
    /\ age' = [age EXCEPT ![j] = 0]
    /\ current' = Outdated(current, {j})
    /\ owned' = Outdated(owned, {j})
    /\ UNCHANGED <<task, wait, gate, pc, scan, seen, claiming, read, mine,
                   inFlight, runs, handled, late>>

-----------------------------------------------------------------------------
(* A poll: recover, select, scan                                           *)

\* Mutants of IsStale: a claim is reset before a heartbeat was due, or never.
IsStaleEarly(j) == status[j] = "processing" /\ age[j] >= Stale \div 2
NeverStale(j) == FALSE

IsStale(j) == status[j] = "processing" /\ age[j] >= Stale

Recover(w) ==
    LET stuck == {j \in Job : IsStale(j)} IN
    /\ pc[w] = "idle"
    /\ pc' = [pc EXCEPT ![w] = "recovered"]
    /\ status' = [j \in Job |-> IF j \in stuck THEN "pending" ELSE status[j]]
    /\ age' = [j \in Job |-> IF j \in stuck THEN 0 ELSE age[j]]
    /\ current' = Outdated(current, stuck)
    /\ owned' = Outdated(owned, stuck)
    /\ UNCHANGED <<task, attempts, wait, gate, scan, seen, claiming, read, mine,
                   inFlight, runs, handled, late, faults>>

Eligible == {j \in Job : status[j] \in Open /\ attempts[j] < MaxAttempts
                         /\ wait[j] = 0}

Select(w) ==
    /\ pc[w] = "recovered"
    /\ \E B \in SUBSET Eligible :
           /\ Cardinality(B) <= BatchSize
           /\ Cardinality(B) = BatchSize \/ B = Eligible
           /\ \A i \in B, j \in Eligible \ B : i < j
           /\ scan' = [scan EXCEPT ![w] = B]
           /\ current' = [current EXCEPT ![w] = B]
           /\ seen' = [seen EXCEPT ![w] = [j \in Job |->
                          IF j \in B THEN attempts[j] ELSE @[j]]]
    /\ pc' = [pc EXCEPT ![w] = "scanning"]
    /\ UNCHANGED <<rows, gate, owned, claiming, read, mine, inFlight, runs, handled, late, faults>>

Scan(w, j) ==
    /\ pc[w] = "scanning"
    /\ j \in scan[w] /\ \A i \in scan[w] : j <= i
    /\ scan' = [scan EXCEPT ![w] = @ \ {j}]

\* A task_id that is not registered is put off with one guarded update.
PushBack(w, j) ==
    /\ Scan(w, j)
    /\ task[j] \notin DOMAIN Limit
    /\ IF j \in current[w]
       THEN /\ wait' = [wait EXCEPT ![j] = MaxBackoff]
            /\ current' = Outdated(current, {j})
            /\ owned' = Outdated(owned, {j})
       ELSE UNCHANGED <<wait, current, owned>>
    /\ UNCHANGED <<task, status, attempts, age, gate, pc, seen, claiming, read, mine,
                   inFlight, runs, handled, late, faults>>

\* The local pre-filter rejects the candidate.
AtCapacity(w, t) == inFlight[w][t] >= Limit[t]

PassOver(w, j) ==
    /\ Scan(w, j)
    /\ task[j] \in DOMAIN Limit /\ AtCapacity(w, task[j])
    /\ current' = [current EXCEPT ![w] = @ \ {j}]
    /\ UNCHANGED <<rows, gate, pc, seen, owned, claiming, read, mine,
                   inFlight, runs, handled, late, faults>>

BeginClaim(w, j) ==
    /\ Scan(w, j)
    /\ task[j] \in DOMAIN Limit /\ ~AtCapacity(w, task[j])
    /\ run[w][j] = "none"
    /\ read' = [read EXCEPT ![w] = inFlight[w][task[j]]]
    /\ claiming' = [claiming EXCEPT ![w] = j]
    /\ pc' = [pc EXCEPT ![w] = "gate"]
    /\ UNCHANGED <<rows, gate, seen, current, owned, mine, inFlight, runs, handled, late, faults>>

-----------------------------------------------------------------------------
(* The claim transaction                                                   *)

\* Mutant of GateFree: the claim does not lock the gate row.
GateOpen(t) == TRUE

GateFree(t) == gate[t] = None

LockGate(w) ==
    LET t == task[claiming[w]] IN
    /\ pc[w] = "gate" /\ GateFree(t)
    /\ gate' = [gate EXCEPT ![t] = w]
    /\ pc' = [pc EXCEPT ![w] = "locked"]
    /\ UNCHANGED <<rows, scan, seen, current, owned, claiming, read, mine,
                   inFlight, runs, handled, late, faults>>

Processing(t) == {j \in Job : task[j] = t /\ status[j] = "processing"}

\* The transaction ends: the gate is free, the scan goes on.
EndClaim(w) ==
    /\ gate' = [t \in Task |-> IF gate[t] = w THEN None ELSE gate[t]]
    /\ claiming' = [claiming EXCEPT ![w] = None]
    /\ read' = [read EXCEPT ![w] = 0]
    /\ pc' = [pc EXCEPT ![w] = "scanning"]

Count(w) ==
    LET t == task[claiming[w]] IN
    /\ pc[w] = "locked"
    /\ IF Cardinality(Processing(t)) < Limit[t]
       THEN /\ pc' = [pc EXCEPT ![w] = "counted"]
            /\ UNCHANGED <<gate, claiming, read, current>>
       ELSE /\ EndClaim(w)
            /\ current' = [current EXCEPT ![w] = @ \ {claiming[w]}]
    /\ UNCHANGED <<rows, scan, seen, owned, mine, inFlight, runs, handled, late, faults>>

\* Mutant of CanClaim: the claiming UPDATE forgets the version.
CanClaimByStatus(w, j) == status[j] \in Open

CanClaim(w, j) == status[j] \in Open /\ j \in current[w]

\* inFlight is set from the count read before the transaction.
CountStart(w, j) == inFlight' = [inFlight EXCEPT ![w][task[j]] = read[w] + 1]

Claim(w) ==
    LET j == claiming[w] IN
    /\ pc[w] = "counted"
    /\ EndClaim(w)
    /\ IF CanClaim(w, j)
       THEN /\ status' = [status EXCEPT ![j] = "processing"]
            /\ age' = [age EXCEPT ![j] = 0]
            /\ current' = Outdated(current, {j})
            /\ owned' = [Outdated(owned, {j}) EXCEPT ![w] = @ \cup {j}]
            /\ CountStart(w, j)
            /\ run' = [run EXCEPT ![w][j] = "running"]
            /\ beat' = [beat EXCEPT ![w][j] = Interval]
            /\ lost' = [lost EXCEPT ![w][j] = FALSE]
            /\ mine' = [mine EXCEPT ![w] = @ \cup {j}]
            /\ awaited' = [awaited EXCEPT ![w] = @ \ {j}]
       ELSE UNCHANGED <<status, age, current, owned, inFlight, runs, mine>>
    /\ UNCHANGED <<task, attempts, wait, scan, seen, handled, late, faults>>

\* await Promise.all(running)
WaitAll(w) ==
    /\ pc[w] = "scanning" /\ scan[w] = {}
    /\ pc' = [pc EXCEPT ![w] = "waiting"]
    /\ awaited' = [awaited EXCEPT ![w] = @ \cup mine[w]]
    /\ UNCHANGED <<rows, gate, scan, seen, current, owned, claiming, read, mine,
                   inFlight, run, beat, lost, handled, late, faults>>

\* The poll returns; jobs of an earlier, failed poll may still be running.
ForgetPoll(w) ==
    /\ pc' = [pc EXCEPT ![w] = "idle"]
    /\ scan' = [scan EXCEPT ![w] = {}]
    /\ current' = [current EXCEPT ![w] = {}]
    /\ claiming' = [claiming EXCEPT ![w] = None]
    /\ read' = [read EXCEPT ![w] = 0]
    /\ mine' = [mine EXCEPT ![w] = {}]
    /\ seen' = [seen EXCEPT ![w] = [j \in Job |->
                   IF run[w][j] = "none" THEN 0 ELSE @[j]]]

EndPoll(w) ==
    /\ pc[w] = "waiting"
    /\ \A j \in mine[w] : run[w][j] = "none"
    /\ ForgetPoll(w)
    /\ UNCHANGED <<rows, gate, owned, inFlight, runs, handled, late, faults>>

-----------------------------------------------------------------------------
(* A run                                                                   *)

Beat(w, j) ==
    /\ run[w][j] = "running" /\ ~lost[w][j] /\ beat[w][j] = 0
    /\ \/ /\ j \in owned[w] /\ status[j] = "processing"
          /\ age' = [age EXCEPT ![j] = 0]
          /\ beat' = [beat EXCEPT ![w][j] = Interval]
          /\ lost' = lost
       \/ /\ j \notin owned[w]
          /\ lost' = [lost EXCEPT ![w][j] = TRUE]
          /\ UNCHANGED <<age, beat>>
    /\ UNCHANGED <<task, status, attempts, wait, gate, poll, owned, inFlight, run,
                   awaited, handled, late, faults>>

\* A heartbeat that fails counts as lost, though the claim may still stand.
BeatFails(w, j) ==
    /\ DbFails /\ Fault /\ late' = TRUE
    /\ run[w][j] = "running" /\ ~lost[w][j] /\ beat[w][j] = 0
    /\ lost' = [lost EXCEPT ![w][j] = TRUE]
    /\ UNCHANGED <<rows, gate, poll, owned, inFlight, run, beat, awaited, handled>>

Finish(w, j) ==
    /\ run[w][j] = "running"
    /\ run' = [run EXCEPT ![w][j] = "succeeded"]
    /\ beat' = [beat EXCEPT ![w][j] = 0]
    /\ handled' = handled \cup {j}
    /\ UNCHANGED <<rows, gate, poll, owned, inFlight, lost, awaited, late, faults>>

Throw(w, j) ==
    /\ run[w][j] = "running"
    /\ run' = [run EXCEPT ![w][j] = "threw"]
    /\ beat' = [beat EXCEPT ![w][j] = 0]
    /\ UNCHANGED <<rows, gate, poll, owned, inFlight, lost, awaited, handled, late, faults>>

\* Mutant of OwnsClaim: the final update forgets the claimed version.
OwnsAlways(w, j) == TRUE

OwnsClaim(w, j) == ~lost[w][j] /\ j \in owned[w]

MarkSucceeded(w, j) ==
    /\ run[w][j] = "succeeded"
    /\ run' = [run EXCEPT ![w][j] = "marked"]
    /\ IF OwnsClaim(w, j)
       THEN /\ status' = [status EXCEPT ![j] = "succeeded"]
            /\ age' = [age EXCEPT ![j] = 0]
            /\ current' = Outdated(current, {j})
            /\ owned' = Outdated(owned, {j})
       ELSE UNCHANGED <<status, age, current, owned>>
    /\ UNCHANGED <<task, attempts, wait, gate, pc, scan, seen, claiming, read, mine,
                   inFlight, beat, lost, awaited, handled, late, faults>>

MarkFailed(w, j) ==
    /\ run[w][j] = "threw"
    /\ run' = [run EXCEPT ![w][j] = "marked"]
    /\ IF OwnsClaim(w, j)
       THEN /\ status' = [status EXCEPT ![j] = "failed"]
            /\ attempts' = [attempts EXCEPT ![j] = seen[w][j] + 1]
            /\ age' = [age EXCEPT ![j] = 0]
            /\ wait' = [wait EXCEPT ![j] = Backoff[seen[w][j] + 1]]
            /\ current' = Outdated(current, {j})
            /\ owned' = Outdated(owned, {j})
       ELSE UNCHANGED <<status, attempts, age, wait, current, owned>>
    /\ UNCHANGED <<task, gate, pc, scan, seen, claiming, read, mine,
                   inFlight, beat, lost, awaited, handled, late, faults>>

\* The run is over and leaves the worker's tables.
EndRun(w, j) ==
    /\ run' = [run EXCEPT ![w][j] = "none"]
    /\ beat' = [beat EXCEPT ![w][j] = 0]
    /\ lost' = [lost EXCEPT ![w][j] = FALSE]
    /\ awaited' = [awaited EXCEPT ![w] = @ \ {j}]

\* The continuation of runOne takes the job out of the worker's count.
Resolve(w, j) ==
    /\ run[w][j] = "marked"
    /\ EndRun(w, j)
    /\ inFlight' = [inFlight EXCEPT ![w][task[j]] = @ - 1]
    /\ UNCHANGED <<rows, gate, poll, owned, handled, late, faults>>

-----------------------------------------------------------------------------
(* Faults                                                                  *)

\* The process dies; its transaction is rolled back, a new process starts.
Die(w) ==
    /\ pc' = [pc EXCEPT ![w] = "idle"]
    /\ scan' = [scan EXCEPT ![w] = {}]
    /\ current' = [current EXCEPT ![w] = {}]
    /\ claiming' = [claiming EXCEPT ![w] = None]
    /\ read' = [read EXCEPT ![w] = 0]
    /\ mine' = [mine EXCEPT ![w] = {}]
    /\ gate' = [t \in Task |-> IF gate[t] = w THEN None ELSE gate[t]]
    /\ seen' = [seen EXCEPT ![w] = [j \in Job |-> 0]]
    /\ owned' = [owned EXCEPT ![w] = {}]
    /\ inFlight' = [inFlight EXCEPT ![w] = [t \in Task |-> 0]]
    /\ run' = [run EXCEPT ![w] = [j \in Job |-> "none"]]
    /\ beat' = [beat EXCEPT ![w] = [j \in Job |-> 0]]
    /\ lost' = [lost EXCEPT ![w] = [j \in Job |-> FALSE]]
    /\ awaited' = [awaited EXCEPT ![w] = {}]
    /\ UNCHANGED <<rows, handled, late>>

Crash(w) == Fault /\ Die(w)

\* The claim transaction fails and with it the poll, not the running jobs.
ClaimFails(w) ==
    /\ DbFails /\ Fault /\ pc[w] \in Claiming
    /\ ForgetPoll(w)
    /\ gate' = [t \in Task |-> IF gate[t] = w THEN None ELSE gate[t]]
    /\ UNCHANGED <<rows, owned, inFlight, runs, handled, late>>

\* markSucceeded is inside the try, so its failure counts as the task's.
MarkSucceededFails(w, j) ==
    /\ DbFails /\ Fault /\ run[w][j] = "succeeded"
    /\ run' = [run EXCEPT ![w][j] = "threw"]
    /\ UNCHANGED <<rows, gate, poll, owned, inFlight, beat, lost, awaited, handled, late>>

\* markFailed is inside the catch: runOne rejects, its continuation is skipped.
\* Promise.all ends the poll it belongs to; a rejection that no Promise.all has
\* taken ends the process.
MarkFailedFails(w, j) ==
    /\ DbFails /\ Fault /\ run[w][j] = "threw" /\ ~lost[w][j]
    /\ IF j \in awaited[w]
       THEN /\ EndRun(w, j)
            /\ IF pc[w] = "waiting" /\ j \in mine[w]
               THEN ForgetPoll(w)
               ELSE UNCHANGED poll
            /\ UNCHANGED <<rows, gate, owned, inFlight, handled, late>>
       ELSE Die(w)

-----------------------------------------------------------------------------
\* A poll of a worker's timer, or of trigger drain-queue.
Poll(w) ==
    \/ Recover(w) \/ Select(w) \/ LockGate(w) \/ Count(w) \/ Claim(w)
    \/ WaitAll(w) \/ EndPoll(w)
    \/ \E j \in Job : PushBack(w, j) \/ PassOver(w, j) \/ BeginClaim(w, j)

Run(w, j) ==
    \/ Beat(w, j) \/ MarkSucceeded(w, j) \/ MarkFailed(w, j) \/ Resolve(w, j)

Execute(w, j) == Finish(w, j) \/ Throw(w, j)

Next ==
    \/ \E j \in Job : Enqueue(j) \/ Cancel(j) \/ \E i \in Job : Replay(i, j)
    \/ Tick
    \/ \E w \in Worker :
           \/ Poll(w) \/ Crash(w) \/ ClaimFails(w)
           \/ \E j \in Job : \/ Run(w, j) \/ Execute(w, j)
                             \/ BeatFails(w, j)
                             \/ MarkSucceededFails(w, j) \/ MarkFailedFails(w, j)

\* A worker polls on an interval timer and survives a failed poll; tasks return
\* or throw; a gate is granted in the end; time passes.
Fairness ==
    /\ WF_vars(Tick)
    /\ \A w \in Worker :
           /\ WF_vars(Poll(w)) /\ SF_vars(LockGate(w))
           /\ \A j \in Job : WF_vars(Run(w, j)) /\ WF_vars(Execute(w, j))

Spec == Init /\ [][Next]_vars

FairSpec == Spec /\ Fairness

-----------------------------------------------------------------------------
(* Properties                                                              *)

Registered == DOMAIN Limit

\* The gate makes count-then-claim atomic per task, whatever claims, recovers,
\* crashes or finishes meanwhile: no more rows of a task are processing than
\* its concurrencyLimit.
ProcessingWithinLimit ==
    \A t \in Registered : Cardinality(Processing(t)) <= Limit[t]

Executing(t) ==
    {x \in Worker \X Job : /\ run[x[1]][x[2]] = "running" /\ task[x[2]] = t
                           /\ attempts[x[2]] # Cancelled}

\* task-worker.ts: running several workers honours each task's limit.  While
\* heartbeats and updates are on time the rows being processed are the tasks
\* really executing, but for those that run on after they were cancelled.
ExecutingWithinLimit ==
    ~late => \A t \in Registered : Cardinality(Executing(t)) <= Limit[t]

Settled(j) == status[j] = "succeeded" \/ attempts[j] >= MaxAttempts

Running(w, t) == {j \in Job : run[w][j] # "none" /\ task[j] = t}

\* A worker counts more running jobs of the task than it has.
Leaked(w, t) == inFlight[w][t] > Cardinality(Running(w, t))

\* Every job of a registered task succeeds or uses up its attempts in the end,
\* unless a worker has leaked a slot of the task and passes its jobs over.
EventuallySettled ==
    \A j \in Job, t \in Registered :
        task[j] = t ~> Settled(j) \/ \E w \in Worker : Leaked(w, t)

\* The queue is an at-least-once delivery of its jobs; a cancelled one is not
\* started again, whichever poll had selected it.
Delivery == INSTANCE AtLeastOnce WITH
    Item <- Job,
    phase <- [j \in Job |-> CASE status[j] = "absent" -> "absent"
                              [] status[j] = "failed" /\ attempts[j] = Cancelled -> "withdrawn"
                              [] status[j] = "succeeded" -> "settled"
                              [] OTHER -> "queued"],
    failures <- [j \in Job |-> IF attempts[j] = Cancelled THEN MaxAttempts
                               ELSE attempts[j]]

DeliverySpec == Delivery!Spec
=============================================================================
