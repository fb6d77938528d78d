-------------------------- MODULE TaskQueue_proofs --------------------------
(***************************************************************************)
(* Proofs about the task queue for any number of jobs, tasks and workers,  *)
(* any limits, batch size, number of attempts and stale timeout, and any   *)
(* number of crashes, failed calls, delays and cancellations.              *)
(*                                                                         *)
(* Three arguments meet.  The gate (LimitInv): who has counted a task's    *)
(* rows holds its gate, so that the count still stands when the row is     *)
(* claimed.  The versions (KnowledgeInv): a row that a poll still knows is *)
(* as selected, and a claim that still stands is its worker's alone.  The  *)
(* time (TimeInv): while heartbeats and updates are on time, the claim of  *)
(* a running job stands and is renewed before it can be stale.             *)
(***************************************************************************)
EXTENDS TaskQueue, FiniteSetTheorems, TLAPS

\* TypeOK in three parts.
RowTypes ==
    /\ task \in [Job -> Task \cup {None}]
    /\ status \in [Job -> Open \cup {"absent", "processing", "succeeded"}]
    /\ attempts \in [Job -> 0 .. Cancelled]
    /\ wait \in [Job -> 0 .. MaxBackoff]
    /\ age \in [Job -> 0 .. Stale]
    /\ gate \in [Task -> Worker \cup {None}]
    /\ handled \subseteq Job
    /\ late \in BOOLEAN
    /\ faults \in 0 .. MaxFaults

PollTypes ==
    /\ pc \in [Worker -> Claiming \cup {"idle", "recovered", "scanning", "waiting"}]
    /\ scan \in [Worker -> SUBSET Job]
    /\ seen \in [Worker -> [Job -> 0 .. MaxAttempts]]
    /\ current \in [Worker -> SUBSET Job]
    /\ owned \in [Worker -> SUBSET Job]
    /\ claiming \in [Worker -> Job \cup {None}]
    /\ read \in [Worker -> Nat]
    /\ mine \in [Worker -> SUBSET Job]

RunTypes ==
    /\ inFlight \in [Worker -> [Task -> Nat]]
    /\ run \in [Worker -> [Job -> {"none", "running", "succeeded", "threw", "marked"}]]
    /\ beat \in [Worker -> [Job -> 0 .. Interval]]
    /\ lost \in [Worker -> [Job -> BOOLEAN]]
    /\ awaited \in [Worker -> SUBSET Job]

\* A row has a task once it is inserted, and only such a row is run.
RowInv ==
    \A j \in Job :
        /\ status[j] = "absent" <=> task[j] = None
        /\ status[j] = "absent" => \A w \in Worker : run[w][j] = "none"

\* A claim is for a job of a registered task that its worker does not run yet.
ClaimInv ==
    \A w \in Worker : pc[w] \in Claiming =>
        /\ claiming[w] \in Job
        /\ task[claiming[w]] \in DOMAIN Limit
        /\ run[w][claiming[w]] = "none"

\* A row whose selected version is the latest is free and as it was selected; one
\* whose claimed version is the latest is processing and its worker's alone.
Knows(w, j) ==
    /\ j \in current[w] =>
          /\ status[j] \in Open
          /\ attempts[j] = seen[w][j] /\ attempts[j] < MaxAttempts
    /\ j \in owned[w] =>
          /\ status[j] = "processing"
          /\ \A v \in Worker \ {w} : j \notin owned[v]
          /\ run[w][j] # "none" => attempts[j] = seen[w][j] /\ attempts[j] < MaxAttempts

KnowledgeInv == \A w \in Worker, j \in Job : Knows(w, j)

\* A worker that counted still holds the gate, and its count still stands.
GateHeld(w) ==
    /\ pc[w] \in {"locked", "counted"} => gate[task[claiming[w]]] = w
    /\ pc[w] = "counted" =>
         Cardinality(Processing(task[claiming[w]])) < Limit[task[claiming[w]]]

LimitInv == ProcessingWithinLimit /\ \A w \in Worker : GateHeld(w)

\* A worker never counts fewer jobs of a task than it has, so that the count is not
\* taken below zero.
CountInv ==
    \A w \in Worker :
        /\ \A t \in Task : Cardinality(Running(w, t)) <= inFlight[w][t]
        /\ pc[w] \in Claiming => Cardinality(Running(w, task[claiming[w]])) <= read[w]

\* A run about to mark its job has completed it.
HandledInv == \A w \in Worker, j \in Job : run[w][j] = "succeeded" => j \in handled

InTime(w, j) ==
    run[w][j] = "running" /\ attempts[j] # Cancelled =>
        /\ j \in owned[w] /\ lost[w][j] = FALSE
        /\ age[j] + beat[w][j] <= Interval

\* While heartbeats and updates are on time, the claim of a running job that was not
\* cancelled stands and is renewed before it can be stale.
TimeInv == ~late => \A w \in Worker, j \in Job : InTime(w, j)

TaskQueueInv ==
    /\ TypeOK /\ RowInv /\ ClaimInv /\ KnowledgeInv
    /\ LimitInv /\ CountInv /\ HandledInv /\ TimeInv

-----------------------------------------------------------------------------
\* A heartbeat is due before the claim is stale.
LEMMA IntervalBeforeStale == Interval \in Nat \ {0} /\ Interval < Stale
  BY TaskQueueAssumption DEF Interval

LEMMA CancelledIsMore == Cancelled \in Nat /\ MaxAttempts \in Nat /\ MaxAttempts < Cancelled
  BY TaskQueueAssumption DEF Cancelled

LEMMA TypeParts == TypeOK <=> RowTypes /\ PollTypes /\ RunTypes
  BY DEF TypeOK, RowTypes, PollTypes, RunTypes

LEMMA TypePartsNext == TypeOK' <=> RowTypes' /\ PollTypes' /\ RunTypes'
  BY DEF TypeOK, RowTypes, PollTypes, RunTypes

\* Sets of jobs are finite.
LEMMA JobsAreFinite ==
    ASSUME NEW S, S \subseteq Job
    PROVE  IsFiniteSet(S) /\ Cardinality(S) \in Nat
<1>1. IsFiniteSet(S)
  BY TaskQueueAssumption, FS_Subset
<1> QED
  BY <1>1, FS_CardinalityType

LEMMA FewerJobs ==
    ASSUME NEW S, S \subseteq Job, NEW T, T \subseteq S
    PROVE  Cardinality(T) <= Cardinality(S)
  BY JobsAreFinite, FS_Subset

LEMMA OneMoreJob ==
    ASSUME NEW S, S \subseteq Job, NEW j, NEW T, T \subseteq S \cup {j}
    PROVE  Cardinality(T) <= Cardinality(S) + 1
<1>1. IsFiniteSet(S) /\ Cardinality(S) \in Nat
  BY JobsAreFinite
<1>2. IsFiniteSet(S \cup {j}) /\ Cardinality(S \cup {j}) <= Cardinality(S) + 1
  BY <1>1, FS_AddElement
<1>3. IsFiniteSet(T) /\ Cardinality(T) <= Cardinality(S \cup {j})
  BY <1>2, FS_Subset
<1>4. Cardinality(T) \in Nat /\ Cardinality(S \cup {j}) \in Nat
  BY <1>2, <1>3, FS_CardinalityType
<1> QED
  BY <1>1, <1>2, <1>3, <1>4

LEMMA OneJobLess ==
    ASSUME NEW S, S \subseteq Job, NEW j \in S, NEW T, T \subseteq S \ {j}
    PROVE  Cardinality(T) + 1 <= Cardinality(S)
<1>1. IsFiniteSet(S) /\ Cardinality(S) \in Nat
  BY JobsAreFinite
<1>2. IsFiniteSet(S \ {j}) /\ Cardinality(S \ {j}) = Cardinality(S) - 1
  BY <1>1, FS_RemoveElement
<1>3. Cardinality(T) <= Cardinality(S \ {j}) /\ IsFiniteSet(T)
  BY <1>2, FS_Subset
<1>4. Cardinality(T) \in Nat
  BY <1>3, FS_CardinalityType
<1> QED
  BY <1>1, <1>2, <1>3, <1>4

LEMMA InitTaskQueue == Init => TaskQueueInv
<1> SUFFICES ASSUME Init PROVE TaskQueueInv
  OBVIOUS
<1>1. TypeOK
  <2>1. /\ 0 \in 0 .. Cancelled /\ 0 \in 0 .. MaxBackoff /\ 0 \in 0 .. Stale
        /\ 0 \in 0 .. MaxFaults /\ 0 \in 0 .. MaxAttempts /\ 0 \in 0 .. Interval
    BY TaskQueueAssumption, IntervalBeforeStale, CancelledIsMore
  <2>2. RowTypes
    BY <2>1 DEF Init, RowTypes
  <2>3. PollTypes
    BY <2>1 DEF Init, PollTypes
  <2>4. RunTypes
    BY <2>1 DEF Init, RunTypes
  <2> QED
    BY <2>2, <2>3, <2>4, TypeParts
<1>2. RowInv /\ ClaimInv /\ KnowledgeInv /\ HandledInv /\ TimeInv
  BY DEF Init, RowInv, ClaimInv, Claiming, KnowledgeInv, Knows, HandledInv, TimeInv, InTime
<1>3. Cardinality({}) = 0
  BY FS_EmptySet
<1>4. ASSUME NEW t PROVE Cardinality(Processing(t)) = 0
  <2>1. Processing(t) = {}
    BY DEF Init, Processing
  <2> QED
    BY <1>3, <2>1
<1>5. LimitInv
  <2>1. \A t \in Registered : Limit[t] \in Nat
    BY TaskQueueAssumption DEF Registered
  <2> QED
    BY <1>4, <2>1 DEF Init, LimitInv, ProcessingWithinLimit, GateHeld
<1>6. ASSUME NEW w \in Worker, NEW t \in Task PROVE Cardinality(Running(w, t)) = 0
  <2>1. Running(w, t) = {}
    BY DEF Init, Running
  <2> QED
    BY <1>3, <2>1
<1>7. CountInv
  BY <1>6 DEF Init, CountInv, Claiming
<1> QED
  BY <1>1, <1>2, <1>5, <1>7 DEF TaskQueueInv
-----------------------------------------------------------------------------
(* What a step may do to a row, to a poll and to a run.                    *)

\* Rows are inserted for a task id.
LEMMA InsertsForATask ==
    ASSUME TypeOK, RowInv, NEW j \in Job, Enqueue(j) \/ \E i \in Job : Replay(i, j)
    PROVE  \E t \in Task : Append(j, t)
<1>1. ASSUME NEW i \in Job, Replay(i, j) PROVE \E t \in Task : Append(j, t)
  <2>1. task[i] \in Task
    BY <1>1 DEF Replay, RowInv, TypeOK
  <2> QED
    BY <1>1, <2>1 DEF Replay
<1> QED
  BY <1>1 DEF Enqueue

\* The claim a worker is about to make is for a row that is there.
LEMMA ClaimedRow ==
    ASSUME TypeOK, RowInv, ClaimInv, NEW w \in Worker, pc[w] \in Claiming
    PROVE  /\ claiming[w] \in Job /\ status[claiming[w]] # "absent"
           /\ task[claiming[w]] \in Task /\ task[claiming[w]] \in Registered
           /\ run[w][claiming[w]] = "none"
<1>1. DOMAIN Limit \subseteq Task /\ None \notin Task
  BY TaskQueueAssumption
<1> QED
  BY <1>1 DEF ClaimInv, RowInv, Registered

\* A run whose claim still stands may count its failure.
LEMMA StandingClaim ==
    ASSUME TypeOK, KnowledgeInv, NEW w \in Worker, NEW j \in Job,
           run[w][j] # "none", OwnsClaim(w, j)
    PROVE  /\ status[j] = "processing"
           /\ attempts[j] = seen[w][j] /\ attempts[j] < MaxAttempts
           /\ seen[w][j] + 1 \in 1 .. MaxAttempts
<1>1. /\ status[j] = "processing"
      /\ attempts[j] = seen[w][j] /\ attempts[j] < MaxAttempts
  BY DEF OwnsClaim, KnowledgeInv, Knows
<1>2. seen[w][j] \in 0 .. MaxAttempts
  BY DEF TypeOK
<1> QED
  BY <1>1, <1>2, CancelledIsMore

LEMMA RowTypesStep ==
    ASSUME TypeOK, RowInv, ClaimInv, KnowledgeInv, [Next]_vars
    PROVE  RowTypes'
<1> RowTypes
  BY TypeParts
<1> USE DEF RowTypes, rows
<1>0. ASSUME NEW j \in Job, age' = [age EXCEPT ![j] = 0] \/ age' = age
      PROVE  age' \in [Job -> 0 .. Stale]
  <2>1. 0 \in 0 .. Stale
    BY TaskQueueAssumption
  <2> QED
    BY <1>0, <2>1
<1>1. ASSUME NEW j \in Job, NEW t \in Task, Append(j, t) PROVE RowTypes'
  BY <1>1 DEF Append, Open
<1>2. ASSUME Fault PROVE faults' \in 0 .. MaxFaults
  <2>1. faults' = faults + 1 /\ faults < MaxFaults /\ faults \in 0 .. MaxFaults
    BY <1>2 DEF Fault
  <2> QED
    BY <2>1, TaskQueueAssumption
<1>3. CASE Tick
  <2>1. wait' \in [Job -> 0 .. MaxBackoff]
    BY <1>3, TaskQueueAssumption DEF Tick
  <2>2. age' \in [Job -> 0 .. Stale]
    BY <1>3, TaskQueueAssumption DEF Tick
  <2>3. (late' = TRUE /\ Fault) \/ UNCHANGED <<late, faults>>
    BY <1>3 DEF Tick
  <2>4. late' \in BOOLEAN /\ faults' \in 0 .. MaxFaults
    BY <1>2, <2>3
  <2> QED
    BY <1>3, <2>1, <2>2, <2>4 DEF Tick
<1>4. ASSUME NEW j \in Job, Cancel(j) PROVE RowTypes'
  <2>1. /\ status' = [status EXCEPT ![j] = "failed"]
        /\ attempts' = [attempts EXCEPT ![j] = Cancelled]
        /\ age' = [age EXCEPT ![j] = 0]
        /\ UNCHANGED <<task, wait, gate, handled, late>>
    BY <1>4 DEF Cancel
  <2>2. attempts' \in [Job -> 0 .. Cancelled]
    BY <2>1, CancelledIsMore
  <2>3. age' \in [Job -> 0 .. Stale]
    BY <1>0, <2>1
  <2>4. faults' \in 0 .. MaxFaults
    BY <1>2, <1>4 DEF Cancel
  <2> QED
    BY <2>1, <2>2, <2>3, <2>4 DEF Open
<1>5. ASSUME NEW w \in Worker, Recover(w) PROVE RowTypes'
  <2>1. age' \in [Job -> 0 .. Stale]
    BY <1>5, TaskQueueAssumption DEF Recover
  <2>2. status' \in [Job -> Open \cup {"absent", "processing", "succeeded"}]
    BY <1>5 DEF Recover, Open
  <2> QED
    BY <1>5, <2>1, <2>2 DEF Recover
<1>6. ASSUME NEW w \in Worker, NEW j \in Job, PushBack(w, j) PROVE RowTypes'
  <2>1. wait' = [wait EXCEPT ![j] = MaxBackoff] \/ wait' = wait
    BY <1>6 DEF PushBack
  <2>2. wait' \in [Job -> 0 .. MaxBackoff]
    BY <2>1, TaskQueueAssumption
  <2> QED
    BY <1>6, <2>2 DEF PushBack
<1>7. ASSUME NEW w \in Worker,
             gate' = [t \in Task |-> IF gate[t] = w THEN None ELSE gate[t]]
      PROVE  gate' \in [Task -> Worker \cup {None}]
  BY <1>7
<1>8. ASSUME NEW w \in Worker, LockGate(w) PROVE RowTypes'
  BY <1>8 DEF LockGate
<1>9. ASSUME NEW w \in Worker, Count(w) PROVE RowTypes'
  <2>1. /\ gate' = gate \/ gate' = [t \in Task |-> IF gate[t] = w THEN None ELSE gate[t]]
        /\ UNCHANGED <<rows, handled, late, faults>>
    BY <1>9 DEF Count, EndClaim
  <2> QED
    BY <1>7, <2>1
<1>10. ASSUME NEW w \in Worker, Claim(w) PROVE RowTypes'
  <2>1. /\ EndClaim(w) /\ UNCHANGED <<task, attempts, wait, handled, late, faults>>
        /\ \/ /\ status' = [status EXCEPT ![claiming[w]] = "processing"]
              /\ age' = [age EXCEPT ![claiming[w]] = 0]
           \/ UNCHANGED <<status, age>>
    BY <1>10 DEF Claim
  <2>2. status' \in [Job -> Open \cup {"absent", "processing", "succeeded"}]
    BY <2>1
  <2>3. age' \in [Job -> 0 .. Stale]
    BY <1>0, <1>10, <2>1, ClaimedRow DEF Claim, Claiming
  <2>4. gate' \in [Task -> Worker \cup {None}]
    BY <1>7, <2>1 DEF EndClaim
  <2> QED
    BY <2>1, <2>2, <2>3, <2>4
<1>11. ASSUME NEW w \in Worker, NEW j \in Job, Beat(w, j) PROVE RowTypes'
  <2>1. age' = [age EXCEPT ![j] = 0] \/ age' = age
    BY <1>11 DEF Beat
  <2>2. age' \in [Job -> 0 .. Stale]
    BY <1>0, <2>1
  <2> QED
    BY <1>11, <2>2 DEF Beat
<1>12. ASSUME NEW w \in Worker, NEW j \in Job, Finish(w, j) PROVE RowTypes'
  BY <1>12 DEF Finish
<1>13. ASSUME NEW w \in Worker, NEW j \in Job, MarkSucceeded(w, j) PROVE RowTypes'
  <2>1. /\ UNCHANGED <<task, attempts, wait, gate, handled, late, faults>>
        /\ \/ /\ status' = [status EXCEPT ![j] = "succeeded"]
              /\ age' = [age EXCEPT ![j] = 0]
           \/ UNCHANGED <<status, age>>
    BY <1>13 DEF MarkSucceeded
  <2>2. age' = [age EXCEPT ![j] = 0] \/ age' = age
    BY <2>1
  <2>3. age' \in [Job -> 0 .. Stale]
    BY <1>0, <2>2
  <2>4. status' \in [Job -> Open \cup {"absent", "processing", "succeeded"}]
    BY <2>1
  <2> QED
    BY <2>1, <2>3, <2>4
<1>14. ASSUME NEW w \in Worker, NEW j \in Job, MarkFailed(w, j) PROVE RowTypes'
  <2>1. UNCHANGED <<task, gate, handled, late, faults>>
    BY <1>14 DEF MarkFailed
  <2>2. CASE UNCHANGED <<status, attempts, age, wait>>
    BY <2>1, <2>2
  <2>3. CASE /\ OwnsClaim(w, j)
             /\ status' = [status EXCEPT ![j] = "failed"]
             /\ attempts' = [attempts EXCEPT ![j] = seen[w][j] + 1]
             /\ age' = [age EXCEPT ![j] = 0]
             /\ wait' = [wait EXCEPT ![j] = Backoff[seen[w][j] + 1]]
    <3>1. run[w][j] # "none"
      BY <1>14 DEF MarkFailed
    <3>2. seen[w][j] + 1 \in 1 .. MaxAttempts
      BY <2>3, <3>1, StandingClaim
    <3>3. seen[w][j] + 1 \in 0 .. Cancelled /\ Backoff[seen[w][j] + 1] \in 0 .. MaxBackoff
      BY <3>2, CancelledIsMore, TaskQueueAssumption
    <3>4. /\ attempts' \in [Job -> 0 .. Cancelled]
          /\ wait' \in [Job -> 0 .. MaxBackoff]
      BY <2>3, <3>3
    <3>5. age' \in [Job -> 0 .. Stale]
      BY <1>0, <2>3
    <3> QED
      BY <2>1, <2>3, <3>4, <3>5 DEF Open
  <2> QED
    BY <1>14, <2>2, <2>3 DEF MarkFailed
<1>15. ASSUME NEW w \in Worker, Crash(w) \/ ClaimFails(w) PROVE RowTypes'
  <2>1. /\ UNCHANGED <<task, status, attempts, wait, age, handled, late>>
        /\ gate' = [t \in Task |-> IF gate[t] = w THEN None ELSE gate[t]]
        /\ Fault
    BY <1>15 DEF Crash, Die, ClaimFails
  <2> QED
    BY <1>2, <1>7, <2>1
<1>16. ASSUME NEW w \in Worker, NEW j \in Job,
              BeatFails(w, j) \/ MarkSucceededFails(w, j) \/ MarkFailedFails(w, j)
       PROVE  RowTypes'
  <2>1. /\ UNCHANGED <<task, status, attempts, wait, age, handled>>
        /\ gate' = gate \/ gate' = [t \in Task |-> IF gate[t] = w THEN None ELSE gate[t]]
        /\ late' = TRUE \/ late' = late
        /\ Fault
    BY <1>16 DEF BeatFails, MarkSucceededFails, MarkFailedFails, Die
  <2> QED
    BY <1>2, <1>7, <2>1
<1>17. CASE UNCHANGED <<task, status, attempts, wait, age, gate, handled, late, faults>>
  BY <1>17
<1>18. ASSUME NEW w \in Worker, Select(w) \/ WaitAll(w) \/ EndPoll(w)
       PROVE  UNCHANGED <<task, status, attempts, wait, age, gate, handled, late, faults>>
  BY <1>18 DEF Select, WaitAll, EndPoll
<1>19. ASSUME NEW w \in Worker, NEW j \in Job,
              PassOver(w, j) \/ BeginClaim(w, j) \/ Throw(w, j) \/ Resolve(w, j)
       PROVE  UNCHANGED <<task, status, attempts, wait, age, gate, handled, late, faults>>
  BY <1>19 DEF PassOver, BeginClaim, Throw, Resolve
<1>20. ASSUME UNCHANGED vars
       PROVE  UNCHANGED <<task, status, attempts, wait, age, gate, handled, late, faults>>
  BY <1>20 DEF vars
<1>21. ASSUME NEW j \in Job, Enqueue(j) \/ Cancel(j) \/ \E i \in Job : Replay(i, j)
       PROVE  RowTypes'
  BY <1>1, <1>4, <1>21, InsertsForATask
<1> HIDE DEF RowTypes, rows
<1>22. ASSUME NEW w \in Worker, Poll(w) PROVE RowTypes'
  BY <1>5, <1>6, <1>8, <1>9, <1>10, <1>17, <1>18, <1>19, <1>22 DEF Poll
<1>23. ASSUME NEW w \in Worker, NEW j \in Job, Run(w, j) \/ Execute(w, j) PROVE RowTypes'
  BY <1>11, <1>12, <1>13, <1>14, <1>17, <1>19, <1>23 DEF Run, Execute
<1> QED
  BY <1>3, <1>15, <1>16, <1>17, <1>20, <1>21, <1>22, <1>23 DEF Next

LEMMA PollTypesStep ==
    ASSUME TypeOK, [Next]_vars
    PROVE  PollTypes'
<1> PollTypes
  BY TypeParts
<1> USE DEF PollTypes
<1>1. ASSUME NEW known, known \in [Worker -> SUBSET Job], NEW S
      PROVE  Outdated(known, S) \in [Worker -> SUBSET Job]
  BY <1>1 DEF Outdated
<1>2. ASSUME UNCHANGED <<pc, scan, seen, claiming, read, mine>>,
             \/ UNCHANGED <<current, owned>>
             \/ \E S : current' = Outdated(current, S) /\ owned' = Outdated(owned, S)
      PROVE  PollTypes'
  BY <1>1, <1>2
<1>3. ASSUME NEW j \in Job, Cancel(j) PROVE PollTypes'
  BY <1>2, <1>3 DEF Cancel
<1>4. ASSUME NEW w \in Worker, NEW j \in Job, MarkSucceeded(w, j) \/ MarkFailed(w, j)
      PROVE  PollTypes'
  BY <1>2, <1>4 DEF MarkSucceeded, MarkFailed
<1>5. ASSUME NEW w \in Worker, Recover(w) PROVE PollTypes'
  <2>1. /\ pc' = [pc EXCEPT ![w] = "recovered"]
        /\ current' = Outdated(current, {j \in Job : IsStale(j)})
        /\ owned' = Outdated(owned, {j \in Job : IsStale(j)})
        /\ UNCHANGED <<scan, seen, claiming, read, mine>>
    BY <1>5 DEF Recover
  <2>2. current' \in [Worker -> SUBSET Job] /\ owned' \in [Worker -> SUBSET Job]
    BY <1>1, <2>1
  <2> QED
    BY <2>1, <2>2
<1>6. ASSUME NEW w \in Worker, Select(w) PROVE PollTypes'
  <2>1. PICK B \in SUBSET Eligible :
            /\ scan' = [scan EXCEPT ![w] = B]
            /\ current' = [current EXCEPT ![w] = B]
            /\ seen' = [seen EXCEPT ![w] = [j \in Job |-> IF j \in B THEN attempts[j] ELSE @[j]]]
    BY <1>6 DEF Select
  <2>2. B \in SUBSET Job
    BY DEF Eligible
  <2>3. \A j \in B : attempts[j] \in 0 .. MaxAttempts
    BY CancelledIsMore DEF Eligible, TypeOK
  <2>4. seen' \in [Worker -> [Job -> 0 .. MaxAttempts]]
    BY <2>1, <2>3
  <2> QED
    BY <1>6, <2>1, <2>2, <2>4 DEF Select
<1>7. ASSUME NEW w \in Worker, NEW j \in Job, Scan(w, j)
      PROVE  scan' \in [Worker -> SUBSET Job]
  BY <1>7 DEF Scan
<1>8. ASSUME NEW w \in Worker, NEW j \in Job, PushBack(w, j) PROVE PollTypes'
  <2>1. UNCHANGED <<pc, seen, claiming, read, mine>>
    BY <1>8 DEF PushBack
  <2>2. \/ UNCHANGED <<current, owned>>
        \/ current' = Outdated(current, {j}) /\ owned' = Outdated(owned, {j})
    BY <1>8 DEF PushBack
  <2> QED
    BY <1>1, <1>7, <1>8, <2>1, <2>2 DEF PushBack
<1>9. ASSUME NEW w \in Worker, NEW j \in Job, PassOver(w, j) PROVE PollTypes'
  BY <1>7, <1>9 DEF PassOver
<1>10. ASSUME NEW w \in Worker, NEW j \in Job, BeginClaim(w, j) PROVE PollTypes'
  <2>1. scan' \in [Worker -> SUBSET Job]
    BY <1>7, <1>10 DEF BeginClaim
  <2>2. task[j] \in Task
    BY <1>10, TaskQueueAssumption DEF BeginClaim
  <2>3. inFlight[w][task[j]] \in Nat
    BY <2>2 DEF TypeOK
  <2> QED
    BY <1>10, <2>1, <2>3 DEF BeginClaim, Claiming
<1>11. ASSUME NEW w \in Worker, LockGate(w) PROVE PollTypes'
  BY <1>11 DEF LockGate, Claiming
<1>12. ASSUME NEW w \in Worker, EndClaim(w)
       PROVE  /\ pc' \in [Worker -> Claiming \cup {"idle", "recovered", "scanning", "waiting"}]
              /\ claiming' \in [Worker -> Job \cup {None}]
              /\ read' \in [Worker -> Nat]
  BY <1>12 DEF EndClaim
<1>13. ASSUME NEW w \in Worker, Count(w) PROVE PollTypes'
  <2>1. CASE pc' = [pc EXCEPT ![w] = "counted"] /\ UNCHANGED <<claiming, read, current>>
    BY <1>13, <2>1 DEF Count, Claiming
  <2>2. CASE EndClaim(w) /\ current' = [current EXCEPT ![w] = @ \ {claiming[w]}]
    BY <1>12, <1>13, <2>2 DEF Count
  <2> QED
    BY <1>13, <2>1, <2>2 DEF Count
<1>14. ASSUME NEW w \in Worker, Claim(w) PROVE PollTypes'
  <2>1. EndClaim(w) /\ UNCHANGED <<scan, seen>>
    BY <1>14 DEF Claim
  <2>2. CASE UNCHANGED <<current, owned, mine>>
    BY <1>12, <2>1, <2>2
  <2>3. CASE /\ CanClaim(w, claiming[w])
             /\ current' = Outdated(current, {claiming[w]})
             /\ owned' = [Outdated(owned, {claiming[w]}) EXCEPT ![w] = @ \cup {claiming[w]}]
             /\ mine' = [mine EXCEPT ![w] = @ \cup {claiming[w]}]
    <3>1. claiming[w] \in Job
      BY <2>3 DEF CanClaim
    <3>2. Outdated(owned, {claiming[w]}) \in [Worker -> SUBSET Job]
      BY <1>1
    <3>3. owned' \in [Worker -> SUBSET Job]
      BY <2>3, <3>1, <3>2
    <3>4. current' \in [Worker -> SUBSET Job]
      BY <1>1, <2>3
    <3> QED
      BY <1>12, <2>1, <2>3, <3>1, <3>3, <3>4
  <2> QED
    BY <1>14, <2>2, <2>3 DEF Claim
<1>15. ASSUME NEW w \in Worker, WaitAll(w) PROVE PollTypes'
  BY <1>15 DEF WaitAll
<1>16. ASSUME NEW w \in Worker, ForgetPoll(w), UNCHANGED owned PROVE PollTypes'
  <2>1. 0 \in 0 .. MaxAttempts
    BY CancelledIsMore
  <2>2. seen' \in [Worker -> [Job -> 0 .. MaxAttempts]]
    BY <1>16, <2>1 DEF ForgetPoll
  <2> QED
    BY <1>16, <2>2 DEF ForgetPoll
<1>17. ASSUME NEW w \in Worker, Die(w) PROVE PollTypes'
  <2>1. 0 \in 0 .. MaxAttempts
    BY CancelledIsMore
  <2>2. seen' \in [Worker -> [Job -> 0 .. MaxAttempts]]
    BY <1>17, <2>1 DEF Die
  <2> QED
    BY <1>17, <2>2 DEF Die
<1>18. ASSUME NEW w \in Worker, NEW j \in Job, MarkFailedFails(w, j) PROVE PollTypes'
  <2>1. \/ ForgetPoll(w) /\ UNCHANGED owned
        \/ UNCHANGED <<poll, owned>>
        \/ Die(w)
    BY <1>18 DEF MarkFailedFails
  <2> QED
    BY <1>16, <1>17, <2>1 DEF poll
<1>19. CASE UNCHANGED <<pc, scan, seen, current, owned, claiming, read, mine>>
  BY <1>19
<1>20. ASSUME NEW j \in Job, Enqueue(j) \/ \E i \in Job : Replay(i, j)
       PROVE  UNCHANGED <<pc, scan, seen, current, owned, claiming, read, mine>>
  BY <1>20 DEF Enqueue, Replay, Append, poll
<1>21. ASSUME NEW w \in Worker, NEW j \in Job,
              Beat(w, j) \/ BeatFails(w, j) \/ Finish(w, j) \/ Throw(w, j) \/ Resolve(w, j)
                \/ MarkSucceededFails(w, j)
       PROVE  UNCHANGED <<pc, scan, seen, current, owned, claiming, read, mine>>
  BY <1>21 DEF Beat, BeatFails, Finish, Throw, Resolve, MarkSucceededFails, poll
<1>22. ASSUME Tick \/ UNCHANGED vars
       PROVE  UNCHANGED <<pc, scan, seen, current, owned, claiming, read, mine>>
  BY <1>22 DEF Tick, vars, poll
<1> HIDE DEF PollTypes
<1>23. ASSUME NEW w \in Worker, EndPoll(w) \/ Crash(w) \/ ClaimFails(w) PROVE PollTypes'
  BY <1>16, <1>17, <1>23 DEF EndPoll, Crash, ClaimFails
<1>24. ASSUME NEW w \in Worker, Poll(w) PROVE PollTypes'
  BY <1>5, <1>6, <1>8, <1>9, <1>10, <1>11, <1>13, <1>14, <1>15, <1>23, <1>24 DEF Poll
<1>25. ASSUME NEW w \in Worker, NEW j \in Job, Run(w, j) \/ Execute(w, j) PROVE PollTypes'
  BY <1>4, <1>19, <1>21, <1>25 DEF Run, Execute
<1> QED
  BY <1>3, <1>18, <1>19, <1>20, <1>21, <1>22, <1>23, <1>24, <1>25 DEF Next

\* A worker counts the jobs it has, so that there is one to take from the count.
LEMMA CountIsPositive ==
    ASSUME TypeOK, RowInv, CountInv, NEW w \in Worker, NEW j \in Job, run[w][j] # "none"
    PROVE  task[j] \in Task /\ inFlight[w][task[j]] \in Nat \ {0}
<1>1. task[j] \in Task
  BY DEF RowInv, TypeOK
<1>2. j \in Running(w, task[j]) /\ Running(w, task[j]) \subseteq Job
  BY DEF Running
<1>3. 1 <= Cardinality(Running(w, task[j])) /\ Cardinality(Running(w, task[j])) \in Nat
  <2>1. Cardinality({}) = 0
    BY FS_EmptySet
  <2>2. Cardinality({}) + 1 <= Cardinality(Running(w, task[j]))
    BY <1>2, OneJobLess
  <2> QED
    BY <1>2, <2>1, <2>2, JobsAreFinite
<1>4. inFlight[w][task[j]] \in Nat /\ Cardinality(Running(w, task[j])) <= inFlight[w][task[j]]
  BY <1>1 DEF CountInv, TypeOK
<1> QED
  BY <1>1, <1>3, <1>4

LEMMA RunTypesStep ==
    ASSUME TypeOK, RowInv, ClaimInv, CountInv, [Next]_vars
    PROVE  RunTypes'
<1> RunTypes
  BY TypeParts
<1> USE DEF RunTypes, runs
<1>1. CASE Tick
  <2>1. beat' \in [Worker -> [Job -> 0 .. Interval]]
    BY <1>1, IntervalBeforeStale DEF Tick
  <2> QED
    BY <1>1, <2>1 DEF Tick
<1>2. ASSUME NEW w \in Worker, NEW j \in Job,
             beat' = [beat EXCEPT ![w][j] = 0] \/ beat' = [beat EXCEPT ![w][j] = Interval]
               \/ beat' = beat
      PROVE  beat' \in [Worker -> [Job -> 0 .. Interval]]
  <2> DEFINE Left == 0 .. Interval
  <2>1. 0 \in Left /\ Interval \in Left
    BY IntervalBeforeStale
  <2>2. beat \in [Worker -> [Job -> Left]]
    OBVIOUS
  <2> HIDE DEF Left
  <2>3. ASSUME NEW n \in Left, beat' = [beat EXCEPT ![w][j] = n]
        PROVE  beat' \in [Worker -> [Job -> Left]]
    BY <2>2, <2>3
  <2>4. beat' \in [Worker -> [Job -> Left]]
    BY <1>2, <2>1, <2>2, <2>3
  <2> QED
    BY <2>4 DEF Left
<1>3. ASSUME NEW w \in Worker, NEW j \in Job,
             NEW x \in {"none", "running", "succeeded", "threw", "marked"},
             run' = [run EXCEPT ![w][j] = x]
      PROVE  run' \in [Worker -> [Job -> {"none", "running", "succeeded", "threw", "marked"}]]
  BY <1>3
<1>4. ASSUME NEW w \in Worker, Claim(w) PROVE RunTypes'
  <2> DEFINE j == claiming[w]
  <2>1. CASE UNCHANGED <<inFlight, runs>>
    BY <2>1
  <2>2. CASE /\ CountStart(w, j)
             /\ run' = [run EXCEPT ![w][j] = "running"]
             /\ beat' = [beat EXCEPT ![w][j] = Interval]
             /\ lost' = [lost EXCEPT ![w][j] = FALSE]
             /\ awaited' = [awaited EXCEPT ![w] = @ \ {j}]
    <3>1. j \in Job /\ task[j] \in Task
      BY <1>4, ClaimedRow DEF Claim, Claiming
    <3>2. read[w] + 1 \in Nat
      BY DEF TypeOK
    <3> HIDE DEF j
    <3>3. inFlight' \in [Worker -> [Task -> Nat]]
      BY <2>2, <3>1, <3>2 DEF CountStart
    <3>4. beat' \in [Worker -> [Job -> 0 .. Interval]]
      BY <1>2, <2>2, <3>1
    <3>5. run' \in [Worker -> [Job -> {"none", "running", "succeeded", "threw", "marked"}]]
      BY <1>3, <2>2, <3>1
    <3> QED
      BY <2>2, <3>1, <3>3, <3>4, <3>5
  <2> QED
    BY <1>4, <2>1, <2>2 DEF Claim
<1>5. ASSUME NEW w \in Worker, WaitAll(w) PROVE RunTypes'
  BY <1>5 DEF WaitAll, TypeOK
<1>6. ASSUME NEW w \in Worker, NEW j \in Job, Beat(w, j) \/ BeatFails(w, j) PROVE RunTypes'
  <2>1. /\ UNCHANGED <<inFlight, run, awaited>>
        /\ beat' = [beat EXCEPT ![w][j] = Interval] \/ beat' = beat
        /\ lost' = [lost EXCEPT ![w][j] = TRUE] \/ lost' = lost
    BY <1>6 DEF Beat, BeatFails
  <2>2. lost' \in [Worker -> [Job -> BOOLEAN]]
    <3>1. CASE lost' = [lost EXCEPT ![w][j] = TRUE]
      BY <3>1
    <3>2. CASE lost' = lost
      BY <3>2
    <3> QED
      BY <2>1, <3>1, <3>2
  <2>3. beat' \in [Worker -> [Job -> 0 .. Interval]]
    BY <1>2, <2>1
  <2> QED
    BY <2>1, <2>2, <2>3
<1>7. ASSUME NEW w \in Worker, NEW j \in Job,
             \/ Finish(w, j) \/ Throw(w, j) \/ MarkSucceeded(w, j) \/ MarkFailed(w, j)
             \/ MarkSucceededFails(w, j)
      PROVE  RunTypes'
  <2>1. /\ UNCHANGED <<inFlight, lost, awaited>>
        /\ beat' = [beat EXCEPT ![w][j] = 0] \/ beat' = beat
    BY <1>7 DEF Finish, Throw, MarkSucceeded, MarkFailed, MarkSucceededFails
  <2>2. \/ run' = [run EXCEPT ![w][j] = "succeeded"]
        \/ run' = [run EXCEPT ![w][j] = "threw"]
        \/ run' = [run EXCEPT ![w][j] = "marked"]
    BY <1>7 DEF Finish, Throw, MarkSucceeded, MarkFailed, MarkSucceededFails
  <2>3. run' \in [Worker -> [Job -> {"none", "running", "succeeded", "threw", "marked"}]]
    BY <1>3, <2>2
  <2>4. beat' \in [Worker -> [Job -> 0 .. Interval]]
    BY <1>2, <2>1
  <2> QED
    BY <2>1, <2>3, <2>4
<1>8. ASSUME NEW w \in Worker, NEW j \in Job, EndRun(w, j)
      PROVE  /\ run' \in [Worker -> [Job -> {"none", "running", "succeeded", "threw", "marked"}]]
             /\ beat' \in [Worker -> [Job -> 0 .. Interval]]
             /\ lost' \in [Worker -> [Job -> BOOLEAN]]
             /\ awaited' \in [Worker -> SUBSET Job]
  <2>1. beat' \in [Worker -> [Job -> 0 .. Interval]]
    BY <1>2, <1>8 DEF EndRun
  <2>2. run' \in [Worker -> [Job -> {"none", "running", "succeeded", "threw", "marked"}]]
    BY <1>3, <1>8 DEF EndRun
  <2> QED
    BY <1>8, <2>1, <2>2 DEF EndRun
<1>9. ASSUME NEW w \in Worker, NEW j \in Job, Resolve(w, j) PROVE RunTypes'
  <2>1. task[j] \in Task /\ inFlight[w][task[j]] \in Nat \ {0}
    BY <1>9, CountIsPositive DEF Resolve
  <2>2. inFlight' \in [Worker -> [Task -> Nat]]
    <3>1. inFlight[w][task[j]] - 1 \in Nat
      BY <2>1
    <3> QED
      BY <1>9, <2>1, <3>1 DEF Resolve
  <2> QED
    BY <1>8, <1>9, <2>2 DEF Resolve
<1>10. ASSUME NEW w \in Worker, Die(w) PROVE RunTypes'
  <2>1. 0 \in 0 .. Interval
    BY IntervalBeforeStale
  <2> QED
    BY <1>10, <2>1 DEF Die
<1>11. ASSUME NEW w \in Worker, NEW j \in Job, MarkFailedFails(w, j) PROVE RunTypes'
  BY <1>8, <1>10, <1>11 DEF MarkFailedFails
<1>12. CASE UNCHANGED <<inFlight, runs>>
  BY <1>12
<1>13. ASSUME NEW j \in Job, Enqueue(j) \/ (\E i \in Job : Replay(i, j)) \/ Cancel(j)
       PROVE  UNCHANGED <<inFlight, runs>>
  BY <1>13 DEF Enqueue, Replay, Append, Cancel
<1>14. ASSUME NEW w \in Worker, NEW j \in Job,
              PushBack(w, j) \/ PassOver(w, j) \/ BeginClaim(w, j)
       PROVE  UNCHANGED <<inFlight, runs>>
  BY <1>14 DEF PushBack, PassOver, BeginClaim
<1>15. ASSUME NEW w \in Worker,
              Recover(w) \/ Select(w) \/ LockGate(w) \/ Count(w) \/ EndPoll(w) \/ ClaimFails(w)
       PROVE  UNCHANGED <<inFlight, runs>>
  BY <1>15 DEF Recover, Select, LockGate, Count, EndPoll, ClaimFails
<1>16. ASSUME UNCHANGED vars PROVE UNCHANGED <<inFlight, runs>>
  BY <1>16 DEF vars
<1> HIDE DEF RunTypes, runs
<1>17. ASSUME NEW w \in Worker, Poll(w) PROVE RunTypes'
  BY <1>4, <1>5, <1>12, <1>14, <1>15, <1>17 DEF Poll
<1>18. ASSUME NEW w \in Worker, NEW j \in Job, Run(w, j) \/ Execute(w, j) PROVE RunTypes'
  BY <1>6, <1>7, <1>9, <1>18 DEF Run, Execute
<1> QED
  BY <1>1, <1>6, <1>7, <1>10, <1>11, <1>12, <1>13, <1>15, <1>16, <1>17, <1>18 DEF Next, Crash

\* One entry of a table of runs is set.
LEMMA RunIsSet ==
    ASSUME NEW S, NEW f \in [Worker -> [Job -> S]], NEW w \in Worker, NEW j \in Job, NEW x
    PROVE  \A v \in Worker, i \in Job :
               [f EXCEPT ![w][j] = x][v][i] = IF v = w /\ i = j THEN x ELSE f[v][i]
  OBVIOUS

LEMMA LostIsSet ==
    ASSUME lost \in [Worker -> [Job -> BOOLEAN]], NEW w \in Worker, NEW j \in Job, NEW x,
           lost' = [lost EXCEPT ![w][j] = x],
           NEW v \in Worker, NEW i \in Job, ~(v = w /\ i = j)
    PROVE  lost'[v][i] = lost[v][i]
  OBVIOUS

\* A row keeps its task, and nothing takes it out of the table.
LEMMA RowsAreKept ==
    ASSUME TypeOK, [Next]_vars, NEW i \in Job, status[i] # "absent"
    PROVE  task'[i] = task[i] /\ status'[i] # "absent"
<1> USE DEF rows
<1>1. ASSUME NEW j \in Job, NEW t, Append(j, t)
      PROVE  task'[i] = task[i] /\ status'[i] # "absent"
  <2>1. i # j
    BY <1>1 DEF Append
  <2> QED
    BY <1>1, <2>1 DEF Append, TypeOK
<1>2. ASSUME NEW j \in Job, NEW s \in {"processing", "failed", "succeeded"},
             task' = task, status' = [status EXCEPT ![j] = s] \/ status' = status
      PROVE  task'[i] = task[i] /\ status'[i] # "absent"
  BY <1>2 DEF TypeOK
<1>3. ASSUME NEW j \in Job, Cancel(j)
      PROVE  task'[i] = task[i] /\ status'[i] # "absent"
  BY <1>2, <1>3 DEF Cancel
<1>4. ASSUME NEW w \in Worker, Recover(w)
      PROVE  task'[i] = task[i] /\ status'[i] # "absent"
  BY <1>4 DEF Recover
<1>5. ASSUME NEW w \in Worker, Claim(w)
      PROVE  task'[i] = task[i] /\ status'[i] # "absent"
  <2>1. task' = task
    BY <1>5 DEF Claim
  <2>2. status' = [status EXCEPT ![claiming[w]] = "processing"] \/ status' = status
    BY <1>5 DEF Claim
  <2> QED
    BY <2>1, <2>2 DEF TypeOK
<1>6. ASSUME NEW w \in Worker, NEW j \in Job, MarkSucceeded(w, j)
      PROVE  task'[i] = task[i] /\ status'[i] # "absent"
  BY <1>2, <1>6 DEF MarkSucceeded
<1>7. ASSUME NEW w \in Worker, NEW j \in Job, MarkFailed(w, j)
      PROVE  task'[i] = task[i] /\ status'[i] # "absent"
  BY <1>2, <1>7 DEF MarkFailed
<1>8. CASE UNCHANGED <<task, status>>
  BY <1>8
<1>9. ASSUME NEW w \in Worker, NEW j \in Job,
             BeatFails(w, j) \/ MarkSucceededFails(w, j) \/ MarkFailedFails(w, j)
      PROVE  UNCHANGED <<task, status>>
  BY <1>9 DEF BeatFails, MarkSucceededFails, MarkFailedFails, Die
<1>10. ASSUME NEW w \in Worker, NEW j \in Job,
              PushBack(w, j) \/ PassOver(w, j) \/ BeginClaim(w, j) \/ Beat(w, j)
                \/ Resolve(w, j) \/ Finish(w, j) \/ Throw(w, j)
       PROVE  UNCHANGED <<task, status>>
  BY <1>10 DEF PushBack, PassOver, BeginClaim, Beat, Resolve, Finish, Throw
<1>11. ASSUME NEW w \in Worker,
              Select(w) \/ LockGate(w) \/ Count(w) \/ WaitAll(w) \/ EndPoll(w) \/ Crash(w)
                \/ ClaimFails(w)
       PROVE  UNCHANGED <<task, status>>
  BY <1>11 DEF Select, LockGate, Count, WaitAll, EndPoll, Crash, Die, ClaimFails
<1> QED
  BY <1>1, <1>3, <1>4, <1>5, <1>6, <1>7, <1>8, <1>9, <1>10, <1>11
     DEF Next, Poll, Run, Execute, Enqueue, Replay, Tick, vars

\* Only a claim makes a row processing.
LEMMA OnlyClaimsProcess ==
    ASSUME TypeOK, [Next]_vars, NEW i \in Job, status[i] # "processing",
           \A w \in Worker : Claim(w) => claiming[w] # i
    PROVE  status'[i] # "processing"
<1> USE DEF rows
<1>1. ASSUME NEW j \in Job, NEW s \in {"pending", "failed", "succeeded"},
             status' = [status EXCEPT ![j] = s] \/ status' = status
      PROVE  status'[i] # "processing"
  BY <1>1 DEF TypeOK
<1>2. ASSUME NEW j \in Job, Enqueue(j) \/ (\E k \in Job : Replay(k, j)) \/ Cancel(j)
      PROVE  status'[i] # "processing"
  BY <1>1, <1>2 DEF Enqueue, Replay, Append, Cancel
<1>3. ASSUME NEW w \in Worker, Recover(w) PROVE status'[i] # "processing"
  BY <1>3 DEF Recover
<1>4. ASSUME NEW w \in Worker, Claim(w) PROVE status'[i] # "processing"
  <2>1. status' = [status EXCEPT ![claiming[w]] = "processing"] \/ status' = status
    BY <1>4 DEF Claim
  <2>2. claiming[w] # i
    BY <1>4
  <2> QED
    BY <2>1, <2>2 DEF TypeOK
<1>5. ASSUME NEW w \in Worker, NEW j \in Job, MarkSucceeded(w, j) \/ MarkFailed(w, j)
      PROVE  status'[i] # "processing"
  BY <1>1, <1>5 DEF MarkSucceeded, MarkFailed
<1>6. CASE UNCHANGED status
  BY <1>6
<1>7. ASSUME NEW w \in Worker, NEW j \in Job,
             BeatFails(w, j) \/ MarkSucceededFails(w, j) \/ MarkFailedFails(w, j)
      PROVE  UNCHANGED status
  BY <1>7 DEF BeatFails, MarkSucceededFails, MarkFailedFails, Die
<1>8. ASSUME NEW w \in Worker, NEW j \in Job,
             PushBack(w, j) \/ PassOver(w, j) \/ BeginClaim(w, j) \/ Beat(w, j)
               \/ Resolve(w, j) \/ Finish(w, j) \/ Throw(w, j)
      PROVE  UNCHANGED status
  BY <1>8 DEF PushBack, PassOver, BeginClaim, Beat, Resolve, Finish, Throw
<1>9. ASSUME NEW w \in Worker,
             Select(w) \/ LockGate(w) \/ Count(w) \/ WaitAll(w) \/ EndPoll(w) \/ Crash(w)
               \/ ClaimFails(w)
      PROVE  UNCHANGED status
  BY <1>9 DEF Select, LockGate, Count, WaitAll, EndPoll, Crash, Die, ClaimFails
<1> QED
  BY <1>2, <1>3, <1>4, <1>5, <1>6, <1>7, <1>8, <1>9 DEF Next, Poll, Run, Execute, Tick, vars

\* Only a claim starts a run, and it starts the run of the job it is for.
LEMMA OnlyClaimsStart ==
    ASSUME TypeOK, [Next]_vars, NEW v \in Worker, NEW i \in Job, run[v][i] = "none",
           Claim(v) => claiming[v] # i
    PROVE  run'[v][i] = "none"
<1> USE DEF runs
<1>1. run \in [Worker -> [Job -> {"none", "running", "succeeded", "threw", "marked"}]]
  BY DEF TypeOK
<1>2. ASSUME NEW w \in Worker, NEW j \in Job, NEW x, run' = [run EXCEPT ![w][j] = x],
             run[w][j] # "none" \/ x = "none"
      PROVE  run'[v][i] = "none"
  BY <1>1, <1>2, RunIsSet
<1>3. ASSUME NEW w \in Worker, Claim(w) PROVE run'[v][i] = "none"
  <2>1. CASE UNCHANGED runs
    BY <2>1
  <2>2. CASE CanClaim(w, claiming[w]) /\ run' = [run EXCEPT ![w][claiming[w]] = "running"]
    <3>1. claiming[w] \in Job
      BY <2>2 DEF CanClaim, TypeOK
    <3>2. ~(v = w /\ i = claiming[w])
      BY <1>3
    <3> QED
      BY <1>1, <2>2, <3>1, <3>2, RunIsSet
  <2> QED
    BY <1>3, <2>1, <2>2 DEF Claim
<1>4. ASSUME NEW w \in Worker, NEW j \in Job,
             \/ Finish(w, j) \/ Throw(w, j) \/ MarkSucceeded(w, j) \/ MarkFailed(w, j)
             \/ MarkSucceededFails(w, j)
      PROVE  run'[v][i] = "none"
  <2>1. \E x : run' = [run EXCEPT ![w][j] = x] /\ run[w][j] # "none"
    BY <1>4 DEF Finish, Throw, MarkSucceeded, MarkFailed, MarkSucceededFails
  <2> QED
    BY <1>2, <2>1
<1>5. ASSUME NEW w \in Worker, NEW j \in Job, EndRun(w, j) PROVE run'[v][i] = "none"
  BY <1>2, <1>5 DEF EndRun
<1>6. ASSUME NEW w \in Worker, Die(w) PROVE run'[v][i] = "none"
  BY <1>1, <1>6 DEF Die
<1>7. ASSUME NEW w \in Worker, NEW j \in Job, Resolve(w, j) \/ MarkFailedFails(w, j)
      PROVE  run'[v][i] = "none"
  BY <1>5, <1>6, <1>7 DEF Resolve, MarkFailedFails
<1>8. CASE UNCHANGED run
  BY <1>8
<1>9. ASSUME NEW j \in Job, Enqueue(j) \/ (\E k \in Job : Replay(k, j)) \/ Cancel(j)
      PROVE  UNCHANGED run
  BY <1>9 DEF Enqueue, Replay, Append, Cancel
<1>10. ASSUME NEW w \in Worker, NEW j \in Job,
              PushBack(w, j) \/ PassOver(w, j) \/ BeginClaim(w, j) \/ Beat(w, j)
                \/ BeatFails(w, j)
       PROVE  UNCHANGED run
  BY <1>10 DEF PushBack, PassOver, BeginClaim, Beat, BeatFails
<1>11. ASSUME NEW w \in Worker,
              Recover(w) \/ Select(w) \/ LockGate(w) \/ Count(w) \/ WaitAll(w) \/ EndPoll(w)
                \/ ClaimFails(w)
       PROVE  UNCHANGED run
  BY <1>11 DEF Recover, Select, LockGate, Count, WaitAll, EndPoll, ClaimFails
<1> QED
  BY <1>3, <1>4, <1>6, <1>7, <1>8, <1>9, <1>10, <1>11
     DEF Next, Poll, Run, Execute, Tick, Crash, vars

\* A worker in a claim is where it was, and still holds what it held, but for the
\* three steps it takes there.
LEMMA ClaimProceeds ==
    ASSUME TypeOK, [Next]_vars, NEW v \in Worker, pc'[v] \in Claiming
    PROVE  \/ /\ pc'[v] = pc[v] /\ claiming'[v] = claiming[v] /\ read'[v] = read[v]
              /\ \A t \in Task : gate[t] = v => gate'[t] = v
              /\ ~Claim(v)
           \/ \E j \in Job : BeginClaim(v, j)
           \/ LockGate(v) \/ Count(v)
<1> DEFINE Stays == /\ pc'[v] = pc[v] /\ claiming'[v] = claiming[v] /\ read'[v] = read[v]
                    /\ \A t \in Task : gate[t] = v => gate'[t] = v
<1> PollTypes /\ RowTypes
  BY TypeParts
<1> USE DEF PollTypes, Claiming
<1>1. ~Claim(v)
  BY DEF Claim, EndClaim
<1>2. ASSUME UNCHANGED <<pc, claiming, read, gate>> PROVE Stays
  BY <1>2
<1>3. ASSUME NEW w \in Worker \ {v},
             \E x : pc' = [pc EXCEPT ![w] = x],
             (\E x : claiming' = [claiming EXCEPT ![w] = x]) \/ claiming' = claiming,
             (\E x : read' = [read EXCEPT ![w] = x]) \/ read' = read,
             \A t \in Task : gate[t] = v => gate'[t] = v
      PROVE  Stays
  BY <1>3
<1>4. ASSUME NEW w \in Worker \ {v}, gate' = [t \in Task |-> IF gate[t] = w THEN None ELSE gate[t]]
      PROVE  \A t \in Task : gate[t] = v => gate'[t] = v
  BY <1>4
<1>5. ASSUME NEW w \in Worker, Recover(w) \/ Select(w) \/ WaitAll(w) PROVE Stays
  <2>1. UNCHANGED <<claiming, read, gate>>
    BY <1>5 DEF Recover, Select, WaitAll
  <2>2. \/ pc' = [pc EXCEPT ![w] = "recovered"] \/ pc' = [pc EXCEPT ![w] = "scanning"]
        \/ pc' = [pc EXCEPT ![w] = "waiting"]
    BY <1>5 DEF Recover, Select, WaitAll
  <2>3. w # v
    BY <2>2
  <2> QED
    BY <1>3, <2>1, <2>2, <2>3
<1>6. ASSUME NEW w \in Worker, NEW j \in Job, BeginClaim(w, j), w # v PROVE Stays
  BY <1>3, <1>6 DEF BeginClaim
<1>7. ASSUME NEW w \in Worker, LockGate(w), w # v PROVE Stays
  <2>1. \A t \in Task : gate[t] = v => gate'[t] = v
    <3>1. None # v
      BY TaskQueueAssumption
    <3>2. gate' = [gate EXCEPT ![task[claiming[w]]] = w] /\ gate[task[claiming[w]]] = None
      BY <1>7 DEF LockGate, GateFree
    <3> QED
      BY <3>1, <3>2 DEF RowTypes
  <2> QED
    BY <1>3, <1>7, <2>1 DEF LockGate
<1>8. ASSUME NEW w \in Worker, EndClaim(w) PROVE Stays
  <2>1. w # v
    BY <1>8 DEF EndClaim
  <2> QED
    BY <1>3, <1>4, <1>8, <2>1 DEF EndClaim
<1>9. ASSUME NEW w \in Worker, Count(w), w # v PROVE Stays
  <2>1. CASE pc' = [pc EXCEPT ![w] = "counted"] /\ UNCHANGED <<gate, claiming, read>>
    BY <1>3, <1>9, <2>1
  <2> QED
    BY <1>8, <1>9, <2>1 DEF Count
<1>10. ASSUME NEW w \in Worker, Claim(w) PROVE Stays
  BY <1>8, <1>10 DEF Claim
<1>11. ASSUME NEW w \in Worker, ForgetPoll(w),
              \/ gate' = gate
              \/ gate' = [t \in Task |-> IF gate[t] = w THEN None ELSE gate[t]]
       PROVE  Stays
  <2>1. w # v
    BY <1>11 DEF ForgetPoll
  <2> QED
    BY <1>3, <1>4, <1>11, <2>1 DEF ForgetPoll
<1>12. ASSUME NEW w \in Worker, Die(w) PROVE Stays
  <2>1. w # v
    BY <1>12 DEF Die
  <2> QED
    BY <1>3, <1>4, <1>12, <2>1 DEF Die
<1>13. ASSUME NEW w \in Worker, EndPoll(w) \/ ClaimFails(w) PROVE Stays
  BY <1>11, <1>13 DEF EndPoll, ClaimFails
<1>14. ASSUME NEW w \in Worker, NEW j \in Job, MarkFailedFails(w, j) PROVE Stays
  BY <1>2, <1>11, <1>12, <1>14 DEF MarkFailedFails, poll
<1>15. ASSUME NEW j \in Job, Enqueue(j) \/ (\E k \in Job : Replay(k, j)) \/ Cancel(j)
       PROVE  Stays
  BY <1>2, <1>15 DEF Enqueue, Replay, Append, Cancel, poll
<1>16. ASSUME NEW w \in Worker, NEW j \in Job,
              PushBack(w, j) \/ PassOver(w, j) \/ Beat(w, j) \/ BeatFails(w, j)
                \/ Finish(w, j) \/ Throw(w, j)
       PROVE  Stays
  BY <1>2, <1>16 DEF PushBack, PassOver, Beat, BeatFails, Finish, Throw, poll
<1>17. ASSUME NEW w \in Worker, NEW j \in Job,
              MarkSucceeded(w, j) \/ MarkFailed(w, j) \/ MarkSucceededFails(w, j)
                \/ Resolve(w, j)
       PROVE  Stays
  BY <1>2, <1>17 DEF MarkSucceeded, MarkFailed, MarkSucceededFails, Resolve, poll
<1>18. ASSUME Tick \/ UNCHANGED vars PROVE Stays
  BY <1>2, <1>18 DEF Tick, vars, poll
<1> HIDE DEF Stays
<1>19. ASSUME NEW w \in Worker, Poll(w) \/ Crash(w) \/ ClaimFails(w)
       PROVE  Stays \/ (\E j \in Job : BeginClaim(v, j)) \/ LockGate(v) \/ Count(v)
  BY <1>5, <1>6, <1>7, <1>9, <1>10, <1>12, <1>13, <1>16, <1>19 DEF Poll, Crash
<1>20. ASSUME NEW w \in Worker, NEW j \in Job,
              Run(w, j) \/ Execute(w, j) \/ BeatFails(w, j) \/ MarkSucceededFails(w, j)
                \/ MarkFailedFails(w, j)
       PROVE  Stays
  BY <1>14, <1>16, <1>17, <1>20 DEF Run, Execute
<1>21. Stays \/ (\E j \in Job : BeginClaim(v, j)) \/ LockGate(v) \/ Count(v)
  BY <1>15, <1>18, <1>19, <1>20 DEF Next
<1> QED
  BY <1>1, <1>21 DEF Stays

LEMMA RowStep ==
    ASSUME TypeOK, RowInv, ClaimInv, [Next]_vars
    PROVE  RowInv'
<1> SUFFICES ASSUME NEW i \in Job
             PROVE  /\ status'[i] = "absent" <=> task'[i] = None
                    /\ status'[i] = "absent" => \A w \in Worker : run'[w][i] = "none"
  BY DEF RowInv
<1>1. CASE status[i] # "absent"
  BY <1>1, RowsAreKept DEF RowInv
<1>2. CASE status[i] = "absent"
  <2>1. \A w \in Worker : run[w][i] = "none" /\ ~(Claim(w) /\ claiming[w] = i)
    BY <1>2, ClaimedRow DEF RowInv, Claim, Claiming
  <2>2. \A w \in Worker : run'[w][i] = "none"
    BY <2>1, OnlyClaimsStart
  <2> DEFINE Same == task'[i] = task[i] /\ status'[i] = status[i]
  <2>3. ASSUME NEW j \in Job, NEW t \in Task, Append(j, t)
        PROVE  Same \/ (task'[i] \in Task /\ status'[i] = "pending")
    BY <2>3 DEF Append, TypeOK
  <2>4. ASSUME NEW j \in Job, status[j] # "absent", task' = task,
               (\E s : status' = [status EXCEPT ![j] = s]) \/ status' = status
        PROVE  Same
    BY <1>2, <2>4 DEF TypeOK
  <2>5. ASSUME NEW j \in Job, Cancel(j) PROVE Same
    BY <2>4, <2>5 DEF Cancel
  <2>6. ASSUME NEW w \in Worker, Recover(w) PROVE Same
    BY <1>2, <2>6 DEF Recover, IsStale
  <2>7. ASSUME NEW w \in Worker, Claim(w) PROVE Same
    <3>1. claiming[w] \in Job /\ status[claiming[w]] # "absent"
      BY <2>7, ClaimedRow DEF Claim, Claiming
    <3> QED
      BY <2>4, <2>7, <3>1 DEF Claim
  <2>8. ASSUME NEW w \in Worker, NEW j \in Job, MarkSucceeded(w, j) \/ MarkFailed(w, j)
        PROVE  Same
    <3>1. status[j] # "absent"
      BY <2>8 DEF MarkSucceeded, MarkFailed, RowInv
    <3> QED
      BY <2>4, <2>8, <3>1 DEF MarkSucceeded, MarkFailed
  <2>9. ASSUME UNCHANGED <<task, status>> PROVE Same
    BY <2>9
  <2>10. ASSUME NEW w \in Worker, NEW j \in Job,
                BeatFails(w, j) \/ MarkSucceededFails(w, j) \/ MarkFailedFails(w, j)
         PROVE  UNCHANGED <<task, status>>
    BY <2>10 DEF BeatFails, MarkSucceededFails, MarkFailedFails, Die, rows
  <2>11. ASSUME NEW w \in Worker, NEW j \in Job,
                PushBack(w, j) \/ PassOver(w, j) \/ BeginClaim(w, j) \/ Beat(w, j)
                  \/ Resolve(w, j) \/ Finish(w, j) \/ Throw(w, j)
         PROVE  UNCHANGED <<task, status>>
    BY <2>11 DEF PushBack, PassOver, BeginClaim, Beat, Resolve, Finish, Throw, rows
  <2>12. ASSUME NEW w \in Worker,
                Select(w) \/ LockGate(w) \/ Count(w) \/ WaitAll(w) \/ EndPoll(w) \/ Crash(w)
                  \/ ClaimFails(w)
         PROVE  UNCHANGED <<task, status>>
    BY <2>12 DEF Select, LockGate, Count, WaitAll, EndPoll, Crash, Die, ClaimFails, rows
  <2>13. ASSUME Tick \/ UNCHANGED vars PROVE UNCHANGED <<task, status>>
    BY <2>13 DEF Tick, vars, rows
  <2> HIDE DEF Same
  <2>14. Same \/ (task'[i] \in Task /\ status'[i] = "pending")
    BY <2>3, <2>5, <2>6, <2>7, <2>8, <2>9, <2>10, <2>11, <2>12, <2>13, InsertsForATask
       DEF Next, Poll, Run, Execute
  <2> QED
    BY <1>2, <2>2, <2>14, TaskQueueAssumption DEF Same, RowInv
<1> QED
  BY <1>1, <1>2

LEMMA ClaimStep ==
    ASSUME TypeOK, RowInv, ClaimInv, [Next]_vars
    PROVE  ClaimInv'
<1> SUFFICES ASSUME NEW v \in Worker, pc'[v] \in Claiming
             PROVE  /\ claiming'[v] \in Job
                    /\ task'[claiming'[v]] \in DOMAIN Limit
                    /\ run'[v][claiming'[v]] = "none"
  BY DEF ClaimInv
<1>1. ASSUME claiming'[v] = claiming[v], pc[v] \in Claiming, ~Claim(v)
      PROVE  /\ claiming'[v] \in Job
             /\ task'[claiming'[v]] \in DOMAIN Limit
             /\ run'[v][claiming'[v]] = "none"
  <2>1. PICK i \in Job : i = claiming[v] /\ status[i] # "absent" /\ run[v][i] = "none"
    BY <1>1, ClaimedRow
  <2>2. task'[i] = task[i] /\ run'[v][i] = "none"
    BY <1>1, <2>1, RowsAreKept, OnlyClaimsStart
  <2> QED
    BY <1>1, <2>1, <2>2 DEF ClaimInv
<1>2. ASSUME NEW j \in Job, BeginClaim(v, j)
      PROVE  /\ claiming'[v] \in Job
             /\ task'[claiming'[v]] \in DOMAIN Limit
             /\ run'[v][claiming'[v]] = "none"
  <2>1. claiming'[v] = j
    BY <1>2 DEF BeginClaim, TypeOK
  <2> QED
    BY <1>2, <2>1 DEF BeginClaim, rows, runs
<1>3. ASSUME LockGate(v) \/ Count(v)
      PROVE  claiming'[v] = claiming[v] /\ pc[v] \in Claiming /\ ~Claim(v)
  <2>1. pc[v] # "counted" /\ pc[v] \in Claiming
    BY <1>3 DEF LockGate, Count, Claiming
  <2>2. claiming' = claiming
    BY <1>3 DEF LockGate, Count, EndClaim, Claiming, TypeOK
  <2> QED
    BY <2>1, <2>2 DEF Claim
<1> QED
  BY <1>1, <1>2, <1>3, ClaimProceeds

-----------------------------------------------------------------------------
(* The gate and the limit                                                  *)

\* A task's rows become more only by a claim.
LEMMA ProcessingGrows ==
    ASSUME TypeOK, RowInv, [Next]_vars, NEW t \in Task, NEW i,
           i \in Processing(t)', i \notin Processing(t)
    PROVE  \E w \in Worker : Claim(w) /\ claiming[w] = i /\ task[i] = t
<1>1. i \in Job /\ task'[i] = t /\ status'[i] = "processing"
  BY DEF Processing
<1>2. task[i] = t \/ status[i] = "absent"
  BY <1>1, RowsAreKept
<1>3. status[i] # "processing"
  BY <1>1, <1>2 DEF Processing
<1>4. PICK w \in Worker : Claim(w) /\ claiming[w] = i
  BY <1>1, <1>3, OnlyClaimsProcess
<1>5. task' = task
  BY <1>4 DEF Claim
<1> QED
  BY <1>1, <1>4, <1>5

\* The worker that claims holds the gate of the task, and it is the only one.
LEMMA OneClaimPerTask ==
    ASSUME TypeOK, RowInv, ClaimInv, LimitInv, NEW w \in Worker, NEW v \in Worker, Claim(w),
           pc[v] \in {"locked", "counted"}, task[claiming[v]] = task[claiming[w]]
    PROVE  v = w
<1>1. pc[w] = "counted"
  BY DEF Claim
<1> QED
  BY <1>1 DEF LimitInv, GateHeld

LEMMA LimitStep ==
    ASSUME TypeOK, RowInv, ClaimInv, LimitInv, [Next]_vars
    PROVE  LimitInv'
<1>1. ProcessingWithinLimit'
  <2> SUFFICES ASSUME NEW t \in Registered
               PROVE  Cardinality(Processing(t)') <= Limit[t]
    BY DEF ProcessingWithinLimit
  <2>1. t \in Task /\ Limit[t] \in Nat
    BY TaskQueueAssumption DEF Registered
  <2>2. Processing(t) \subseteq Job /\ Processing(t)' \subseteq Job
    BY DEF Processing
  <2>3. Cardinality(Processing(t)) \in Nat /\ Cardinality(Processing(t)') \in Nat
    BY <2>2, JobsAreFinite
  <2>4. CASE Processing(t)' \subseteq Processing(t)
    <3>1. Cardinality(Processing(t)') <= Cardinality(Processing(t))
      BY <2>2, <2>4, FewerJobs
    <3> QED
      BY <2>1, <2>3, <3>1 DEF LimitInv, ProcessingWithinLimit
  <2>5. CASE ~(Processing(t)' \subseteq Processing(t))
    <3>1. PICK i : i \in Processing(t)' /\ i \notin Processing(t)
      BY <2>5
    <3>2. PICK w \in Worker : Claim(w) /\ claiming[w] = i /\ task[i] = t
      BY <2>1, <3>1, ProcessingGrows
    <3>3. pc[w] = "counted"
      BY <3>2 DEF Claim
    <3>4. Cardinality(Processing(t)) < Limit[t]
      BY <3>2, <3>3 DEF LimitInv, GateHeld
    <3>5. Processing(t)' \subseteq Processing(t) \cup {i}
      <4> SUFFICES ASSUME NEW j \in Processing(t)', j \notin Processing(t) PROVE j = i
        OBVIOUS
      <4>1. PICK v \in Worker : Claim(v) /\ claiming[v] = j /\ task[j] = t
        BY <2>1, ProcessingGrows
      <4>2. pc[v] = "counted"
        BY <4>1 DEF Claim
      <4>3. v = w
        BY <3>2, <4>1, <4>2, OneClaimPerTask
      <4> QED
        BY <3>2, <4>1, <4>3
    <3>6. Cardinality(Processing(t)') <= Cardinality(Processing(t)) + 1
      BY <2>2, <3>5, OneMoreJob
    <3> QED
      BY <2>1, <2>3, <3>4, <3>6
  <2> QED
    BY <2>4, <2>5
<1>2. ASSUME NEW v \in Worker PROVE GateHeld(v)'
  <2> SUFFICES ASSUME pc'[v] \in {"locked", "counted"}
               PROVE  /\ gate'[task'[claiming'[v]]] = v
                      /\ pc'[v] = "counted" =>
                           Cardinality(Processing(task[claiming[v]])')
                             < Limit[task'[claiming'[v]]]
    BY DEF GateHeld
  <2>1. pc'[v] \in Claiming
    BY DEF Claiming
  <2>2. ASSUME pc'[v] = pc[v], claiming'[v] = claiming[v],
               \A t \in Task : gate[t] = v => gate'[t] = v,
               ~Claim(v)
        PROVE  /\ gate'[task'[claiming'[v]]] = v
               /\ pc'[v] = "counted" =>
                    Cardinality(Processing(task[claiming[v]])')
                      < Limit[task'[claiming'[v]]]
    <3>1. PICK i \in Job : i = claiming[v] /\ status[i] # "absent"
                           /\ task[i] \in Task /\ task[i] \in Registered
      BY <2>1, <2>2, ClaimedRow
    <3>2. PICK t \in Registered : t = task[i] /\ t \in Task /\ task'[i] = t
      BY <3>1, RowsAreKept
    <3>3. gate'[t] = v
      BY <2>2, <3>1, <3>2 DEF LimitInv, GateHeld
    <3>4. ASSUME pc[v] = "counted" PROVE Cardinality(Processing(t)') < Limit[t]
      <4>1. Processing(t)' \subseteq Processing(t)
        <5> SUFFICES ASSUME NEW j \in Processing(t)', j \notin Processing(t) PROVE FALSE
          OBVIOUS
        <5>1. PICK w \in Worker : Claim(w) /\ claiming[w] = j /\ task[j] = t
          BY <3>2, ProcessingGrows
        <5>2. v = w
          BY <3>1, <3>2, <3>4, <5>1, OneClaimPerTask
        <5> QED
          BY <2>2, <5>1, <5>2
      <4>2. Cardinality(Processing(t)) < Limit[t]
        BY <3>1, <3>2, <3>4 DEF LimitInv, GateHeld
      <4>3. Processing(t) \subseteq Job
        BY DEF Processing
      <4>4. Cardinality(Processing(t)') <= Cardinality(Processing(t))
        BY <4>1, <4>3, FewerJobs
      <4>5. /\ Cardinality(Processing(t)) \in Nat /\ Cardinality(Processing(t)') \in Nat
            /\ Limit[t] \in Nat
        BY <4>1, <4>3, JobsAreFinite, TaskQueueAssumption DEF Registered
      <4> QED
        BY <4>2, <4>4, <4>5
    <3>5. task'[claiming'[v]] = t
      BY <2>2, <3>1, <3>2
    <3>6. Processing(task[claiming[v]])' = Processing(t)'
      BY <3>5 DEF Processing
    <3> QED
      BY <2>2, <3>3, <3>4, <3>5, <3>6
  <2>3. ASSUME NEW j \in Job, BeginClaim(v, j) PROVE FALSE
    BY <2>3 DEF BeginClaim, TypeOK
  <2>4. ASSUME LockGate(v)
        PROVE  /\ gate'[task'[claiming'[v]]] = v
               /\ pc'[v] = "locked"
    <3>1. task[claiming[v]] \in Task
      BY <2>4, ClaimedRow DEF LockGate, Claiming
    <3> QED
      BY <2>4, <3>1 DEF LockGate, rows, TypeOK
  <2>5. ASSUME Count(v)
        PROVE  /\ gate'[task'[claiming'[v]]] = v
               /\ pc'[v] = "counted" =>
                    Cardinality(Processing(task[claiming[v]])')
                      < Limit[task'[claiming'[v]]]
    <3>1. /\ pc[v] = "locked"
          /\ Cardinality(Processing(task[claiming[v]])) < Limit[task[claiming[v]]]
          /\ UNCHANGED <<gate, claiming, task, status>>
      BY <2>5 DEF Count, EndClaim, TypeOK, rows
    <3>2. Processing(task[claiming[v]])' = Processing(task[claiming[v]])
      BY <3>1 DEF Processing
    <3> QED
      BY <3>1, <3>2 DEF LimitInv, GateHeld
  <2> QED
    BY <2>1, <2>2, <2>3, <2>4, <2>5, ClaimProceeds
<1> QED
  BY <1>1, <1>2 DEF LimitInv

-----------------------------------------------------------------------------
(* The worker's count                                                      *)

\* A worker's runs of a task become more only by its own claim.
LEMMA RunningGrows ==
    ASSUME TypeOK, RowInv, [Next]_vars, NEW w \in Worker, NEW t \in Task, NEW i,
           i \in Running(w, t)', i \notin Running(w, t)
    PROVE  Claim(w) /\ claiming[w] = i /\ task[i] = t
<1>1. i \in Job /\ task'[i] = t /\ run'[w][i] # "none"
  BY DEF Running
<1>2. CASE run[w][i] # "none"
  <2>1. task'[i] = task[i]
    BY <1>1, <1>2, RowsAreKept DEF RowInv
  <2> QED
    BY <1>1, <1>2, <2>1 DEF Running
<1>3. CASE run[w][i] = "none"
  <2>1. Claim(w) /\ claiming[w] = i
    BY <1>1, <1>3, OnlyClaimsStart
  <2> QED
    BY <1>1, <2>1 DEF Claim
<1> QED
  BY <1>2, <1>3

\* Besides a claim, only the end of a run and the death of the worker change its
\* count.
LEMMA CountChanges ==
    ASSUME TypeOK, [Next]_vars, NEW v \in Worker, ~Claim(v)
    PROVE  inFlight'[v] = inFlight[v] \/ Die(v) \/ \E j \in Job : Resolve(v, j)
<1> RunTypes
  BY TypeParts
<1>1. ASSUME NEW w \in Worker, Claim(w) PROVE inFlight'[v] = inFlight[v]
  <2>1. w # v
    BY <1>1
  <2>2. (\E x : inFlight' = [inFlight EXCEPT ![w] = x]) \/ inFlight' = inFlight
    BY <1>1 DEF Claim, CountStart
  <2> QED
    BY <2>1, <2>2 DEF RunTypes
<1>2. ASSUME NEW w \in Worker, Die(w) PROVE inFlight'[v] = inFlight[v] \/ Die(v)
  BY <1>2 DEF Die, RunTypes
<1>3. ASSUME NEW w \in Worker, NEW j \in Job, Resolve(w, j)
      PROVE  inFlight'[v] = inFlight[v] \/ Resolve(v, j)
  BY <1>3 DEF Resolve, RunTypes
<1>4. ASSUME NEW j \in Job, Enqueue(j) \/ (\E k \in Job : Replay(k, j)) \/ Cancel(j)
      PROVE  UNCHANGED inFlight
  BY <1>4 DEF Enqueue, Replay, Append, Cancel
<1>5. ASSUME NEW w \in Worker, NEW j \in Job,
              PushBack(w, j) \/ PassOver(w, j) \/ BeginClaim(w, j) \/ Beat(w, j)
                \/ BeatFails(w, j) \/ Finish(w, j) \/ Throw(w, j)
       PROVE  UNCHANGED inFlight
  BY <1>5 DEF PushBack, PassOver, BeginClaim, Beat, BeatFails, Finish, Throw
<1>6. ASSUME NEW w \in Worker, NEW j \in Job,
             MarkSucceeded(w, j) \/ MarkFailed(w, j) \/ MarkSucceededFails(w, j)
      PROVE  UNCHANGED inFlight
  BY <1>6 DEF MarkSucceeded, MarkFailed, MarkSucceededFails
<1>7. ASSUME NEW w \in Worker,
             Recover(w) \/ Select(w) \/ LockGate(w) \/ Count(w) \/ WaitAll(w) \/ EndPoll(w)
               \/ ClaimFails(w)
      PROVE  UNCHANGED inFlight
  BY <1>7 DEF Recover, Select, LockGate, Count, WaitAll, EndPoll, ClaimFails
<1>8. ASSUME NEW w \in Worker, NEW j \in Job, MarkFailedFails(w, j)
      PROVE  UNCHANGED inFlight \/ Die(w)
  BY <1>8 DEF MarkFailedFails
<1>9. ASSUME Tick \/ UNCHANGED vars PROVE UNCHANGED inFlight
  BY <1>9 DEF Tick, vars
<1> QED
  BY <1>1, <1>2, <1>3, <1>4, <1>5, <1>6, <1>7, <1>8, <1>9
     DEF Next, Poll, Run, Execute, Crash

LEMMA CountStep ==
    ASSUME TypeOK, RowInv, ClaimInv, CountInv, [Next]_vars
    PROVE  CountInv'
<1>1. ASSUME NEW w \in Worker, NEW t \in Task
      PROVE  /\ Running(w, t) \subseteq Job /\ Running(w, t)' \subseteq Job
             /\ Cardinality(Running(w, t)) \in Nat /\ Cardinality(Running(w, t)') \in Nat
  <2>1. Running(w, t) \subseteq Job /\ Running(w, t)' \subseteq Job
    BY DEF Running
  <2> QED
    BY <2>1, JobsAreFinite
<1>2. ASSUME NEW w \in Worker, NEW t \in Task, ~(Claim(w) /\ task[claiming[w]] = t)
      PROVE  Cardinality(Running(w, t)') <= Cardinality(Running(w, t))
  <2>1. Running(w, t)' \subseteq Running(w, t)
    BY <1>2, RunningGrows
  <2> QED
    BY <1>1, <2>1, FewerJobs
<1>3. ASSUME NEW v \in Worker, NEW t \in Task, inFlight'[v][t] = inFlight[v][t],
             ~(Claim(v) /\ task[claiming[v]] = t)
      PROVE  Cardinality(Running(v, t)') <= inFlight'[v][t]
  <2>1. inFlight[v][t] \in Nat
    BY DEF TypeOK
  <2>2. Cardinality(Running(v, t)) <= inFlight[v][t]
    BY DEF CountInv
  <2> QED
    BY <1>1, <1>2, <1>3, <2>1, <2>2
<1>4. ASSUME NEW v \in Worker, NEW t \in Task, Claim(v)
      PROVE  Cardinality(Running(v, t)') <= inFlight'[v][t]
  <2>1. PICK i \in Job : i = claiming[v] /\ task[i] \in Task /\ run[v][i] = "none"
    BY <1>4, ClaimedRow DEF Claim, Claiming
  <2>2. Cardinality(Running(v, task[i])) <= read[v] /\ read[v] \in Nat
    BY <1>4, <2>1 DEF Claim, Claiming, CountInv, TypeOK
  <2>3. CASE inFlight' = [inFlight EXCEPT ![v][task[i]] = read[v] + 1]
    <3>1. CASE t = task[i]
      <4>1. Running(v, t)' \subseteq Running(v, t) \cup {i}
        BY <2>1, RunningGrows
      <4>2. Cardinality(Running(v, t)') <= Cardinality(Running(v, t)) + 1
        BY <1>1, <4>1, OneMoreJob
      <4>3. inFlight'[v][t] = read[v] + 1
        BY <2>1, <2>3, <3>1 DEF TypeOK
      <4> QED
        BY <1>1, <2>2, <3>1, <4>2, <4>3
    <3>2. CASE t # task[i]
      <4>1. inFlight'[v][t] = inFlight[v][t]
        BY <2>1, <2>3, <3>2 DEF TypeOK
      <4> QED
        BY <1>3, <2>1, <3>2, <4>1
    <3> QED
      BY <3>1, <3>2
  <2>4. CASE UNCHANGED <<task, run, inFlight>>
    <3>1. Running(v, t)' = Running(v, t)
      BY <2>4 DEF Running
    <3> QED
      BY <2>4, <3>1 DEF CountInv
  <2> QED
    BY <1>4, <2>1, <2>3, <2>4 DEF Claim, CountStart, runs
<1>5. ASSUME NEW v \in Worker, NEW t \in Task, Die(v)
      PROVE  Cardinality(Running(v, t)') <= inFlight'[v][t]
  <2>1. Running(v, t)' = {} /\ inFlight'[v][t] = 0
    BY <1>5 DEF Die, Running, TypeOK
  <2> QED
    BY <2>1, FS_EmptySet
<1>6. ASSUME NEW v \in Worker, NEW t \in Task, NEW j \in Job, Resolve(v, j)
      PROVE  Cardinality(Running(v, t)') <= inFlight'[v][t]
  <2>1. task[j] \in Task /\ inFlight[v][task[j]] \in Nat \ {0}
    BY <1>6, CountIsPositive DEF Resolve
  <2>2. ~Claim(v)
    BY <1>6 DEF Resolve, Claim, EndClaim, poll, TypeOK
  <2>3. CASE t = task[j]
    <3>1. inFlight'[v][t] = inFlight[v][t] - 1
      BY <1>6, <2>1, <2>3 DEF Resolve, TypeOK
    <3>2. j \in Running(v, t) /\ j \notin Running(v, t)'
      BY <1>6, <2>3 DEF Resolve, EndRun, Running, TypeOK
    <3>3. Running(v, t)' \subseteq Running(v, t) \ {j}
      BY <2>2, <3>2, RunningGrows
    <3>4. Cardinality(Running(v, t)') + 1 <= Cardinality(Running(v, t))
      BY <1>1, <3>2, <3>3, OneJobLess
    <3>5. Cardinality(Running(v, t)) <= inFlight[v][t]
      BY DEF CountInv
    <3> QED
      BY <1>1, <2>1, <2>3, <3>1, <3>4, <3>5
  <2>4. CASE t # task[j]
    <3>1. inFlight'[v][t] = inFlight[v][t]
      BY <1>6, <2>1, <2>4 DEF Resolve, TypeOK
    <3> QED
      BY <1>3, <2>2, <3>1
  <2> QED
    BY <2>3, <2>4
<1>7. ASSUME NEW v \in Worker, NEW t \in Task
      PROVE  Cardinality(Running(v, t)') <= inFlight'[v][t]
  BY <1>3, <1>4, <1>5, <1>6, CountChanges
<1>8. ASSUME NEW v \in Worker, pc'[v] \in Claiming
      PROVE  Cardinality(Running(v, task[claiming[v]])') <= read'[v]
  <2>1. ASSUME claiming'[v] = claiming[v], read'[v] = read[v], pc[v] \in Claiming, ~Claim(v)
        PROVE  Cardinality(Running(v, task[claiming[v]])') <= read'[v]
    <3>1. PICK i \in Job : i = claiming[v] /\ status[i] # "absent" /\ task[i] \in Task
      BY <2>1, ClaimedRow
    <3>2. PICK t \in Task : t = task[i] /\ task'[i] = t
      BY <3>1, RowsAreKept
    <3>3. Cardinality(Running(v, t)) <= read[v] /\ read[v] \in Nat
      BY <2>1, <3>1, <3>2 DEF CountInv, TypeOK
    <3>4. Cardinality(Running(v, t)') <= Cardinality(Running(v, t))
      BY <1>2, <2>1
    <3>5. Cardinality(Running(v, t)') <= read[v]
      BY <1>1, <3>3, <3>4
    <3>6. Running(v, task[claiming[v]])' = Running(v, t)'
      BY <2>1, <3>1, <3>2 DEF Running
    <3> QED
      BY <2>1, <3>5, <3>6
  <2>2. ASSUME NEW j \in Job, BeginClaim(v, j)
        PROVE  Cardinality(Running(v, task[claiming[v]])') <= read'[v]
    <3>1. /\ claiming'[v] = j /\ read'[v] = inFlight[v][task[j]] /\ task[j] \in Task
          /\ UNCHANGED <<task, run>>
      BY <2>2, TaskQueueAssumption DEF BeginClaim, rows, runs, TypeOK
    <3>2. Running(v, task[claiming[v]])' = Running(v, task[j])
      BY <3>1 DEF Running
    <3> QED
      BY <3>1, <3>2 DEF CountInv
  <2>3. ASSUME LockGate(v) \/ Count(v)
        PROVE  /\ claiming'[v] = claiming[v] /\ read'[v] = read[v] /\ pc[v] \in Claiming
               /\ ~Claim(v)
    <3>1. pc[v] # "counted" /\ pc[v] \in Claiming
      BY <2>3 DEF LockGate, Count, Claiming
    <3>2. claiming' = claiming /\ read' = read
      BY <1>8, <2>3 DEF LockGate, Count, EndClaim, Claiming, TypeOK
    <3> QED
      BY <3>1, <3>2 DEF Claim
  <2> QED
    BY <1>8, <2>1, <2>2, <2>3, ClaimProceeds
<1> QED
  BY <1>7, <1>8 DEF CountInv

-----------------------------------------------------------------------------
(* Versions                                                                *)

LEMMA OutdatedRows ==
    ASSUME NEW known, NEW S, NEW w \in Worker
    PROVE  Outdated(known, S)[w] = known[w] \ S
  BY DEF Outdated

\* A step that writes the rows S leaves what is known of the others true, if it takes
\* S from everybody and changes what a worker saw of no row it knows or runs.
LEMMA KnowledgeKept ==
    ASSUME KnowledgeInv, NEW S,
           \A v \in Worker : /\ current'[v] \subseteq current[v] \ S
                             /\ owned'[v] \subseteq owned[v] \ S,
           \A i \in Job \ S : status'[i] = status[i] /\ attempts'[i] = attempts[i],
           \A v \in Worker, i \in Job :
               /\ run'[v][i] # "none" => run[v][i] # "none"
               /\ i \in current'[v] \/ run[v][i] # "none" => seen'[v][i] = seen[v][i]
    PROVE  KnowledgeInv'
<1> SUFFICES ASSUME NEW w \in Worker, NEW j \in Job PROVE Knows(w, j)'
  BY DEF KnowledgeInv
<1>1. Knows(w, j)
  BY DEF KnowledgeInv
<1>2. ASSUME j \in current'[w]
      PROVE  /\ status'[j] \in Open
             /\ attempts'[j] = seen'[w][j] /\ attempts'[j] < MaxAttempts
  BY <1>1, <1>2 DEF Knows
<1>3. ASSUME j \in owned'[w]
      PROVE  /\ status'[j] = "processing"
             /\ \A v \in Worker \ {w} : j \notin owned'[v]
             /\ run'[w][j] # "none" => attempts'[j] = seen'[w][j] /\ attempts'[j] < MaxAttempts
  BY <1>1, <1>3 DEF Knows
<1> QED
  BY <1>2, <1>3 DEF Knows

\* The frame of most steps: nothing is selected or claimed.
LEMMA NothingLearned ==
    ASSUME TypeOK, KnowledgeInv, [Next]_vars, \A w \in Worker : ~Claim(w), NEW S,
           UNCHANGED seen,
           \A v \in Worker : /\ current'[v] \subseteq current[v] \ S
                             /\ owned'[v] \subseteq owned[v] \ S,
           \A i \in Job \ S : status'[i] = status[i] /\ attempts'[i] = attempts[i]
    PROVE  KnowledgeInv'
<1>1. \A v \in Worker, i \in Job : run'[v][i] # "none" => run[v][i] # "none"
  BY OnlyClaimsStart
<1>2. \A v \in Worker, i \in Job : seen'[v][i] = seen[v][i]
  OBVIOUS
<1> QED
  BY <1>1, <1>2, KnowledgeKept

LEMMA KnowledgeStep ==
    ASSUME TypeOK, RowInv, ClaimInv, KnowledgeInv, [Next]_vars
    PROVE  KnowledgeInv'
<1> PollTypes /\ RunTypes /\ RowTypes
  BY TypeParts
<1>1. ASSUME NEW w \in Worker, Select(w) PROVE KnowledgeInv'
  <2>1. PICK B \in SUBSET Eligible :
            /\ current' = [current EXCEPT ![w] = B]
            /\ seen' = [seen EXCEPT ![w] = [j \in Job |-> IF j \in B THEN attempts[j] ELSE @[j]]]
    BY <1>1 DEF Select
  <2>2. UNCHANGED <<status, attempts, owned, run>>
    BY <1>1 DEF Select, rows, runs
  <2>3. \A j \in B : j \in Job /\ status[j] \in Open /\ attempts[j] < MaxAttempts
    BY DEF Eligible
  <2>4. /\ current'[w] = B
        /\ \A j \in Job : seen'[w][j] = IF j \in B THEN attempts[j] ELSE seen[w][j]
        /\ \A v \in Worker \ {w} : current'[v] = current[v] /\ seen'[v] = seen[v]
    BY <2>1 DEF PollTypes
  <2>5. ASSUME NEW v \in Worker, NEW j \in Job, j \in current'[v]
        PROVE  /\ status'[j] \in Open
               /\ attempts'[j] = seen'[v][j] /\ attempts'[j] < MaxAttempts
    BY <2>2, <2>3, <2>4, <2>5 DEF KnowledgeInv, Knows
  <2>6. ASSUME NEW v \in Worker, NEW j \in Job, j \in owned[v]
        PROVE  seen'[v][j] = seen[v][j]
    <3>1. status[j] = "processing"
      BY <2>6 DEF KnowledgeInv, Knows
    <3>2. j \notin B
      BY <2>3, <3>1 DEF Open
    <3> QED
      BY <2>4, <3>2
  <2> QED
    BY <2>2, <2>5, <2>6 DEF KnowledgeInv, Knows
<1>2. ASSUME NEW w \in Worker, Claim(w) PROVE KnowledgeInv'
  <2>1. PICK i \in Job : i = claiming[w] /\ run[w][i] = "none"
    BY <1>2, ClaimedRow DEF Claim, Claiming
  <2>2. UNCHANGED <<attempts, seen>>
    BY <1>2 DEF Claim
  <2>3. CASE UNCHANGED <<status, current, owned, run>>
    BY <2>2, <2>3 DEF KnowledgeInv, Knows
  <2>4. CASE /\ CanClaim(w, i)
             /\ status' = [status EXCEPT ![i] = "processing"]
             /\ current' = Outdated(current, {i})
             /\ owned' = [Outdated(owned, {i}) EXCEPT ![w] = @ \cup {i}]
             /\ run' = [run EXCEPT ![w][i] = "running"]
    <3>1. attempts[i] = seen[w][i] /\ attempts[i] < MaxAttempts
      BY <2>4 DEF CanClaim, KnowledgeInv, Knows
    <3>2. /\ status'[i] = "processing"
          /\ \A j \in Job \ {i} : status'[j] = status[j]
      BY <2>4 DEF RowTypes
    <3>3. \A v \in Worker : current'[v] = current[v] \ {i}
      BY <2>4, OutdatedRows
    <3>4. /\ owned'[w] = (owned[w] \ {i}) \cup {i}
          /\ \A v \in Worker \ {w} : owned'[v] = owned[v] \ {i}
      BY <2>4 DEF Outdated
    <3>5. \A v \in Worker, j \in Job \ {i} : run'[v][j] = run[v][j]
      BY <2>4 DEF RunTypes
    <3>6. ASSUME NEW v \in Worker, NEW j \in Job, j # i PROVE Knows(v, j)'
      <4>1. Knows(v, j)
        BY DEF KnowledgeInv
      <4>2. /\ j \in current'[v] <=> j \in current[v]
            /\ \A u \in Worker : j \in owned'[u] <=> j \in owned[u]
        BY <3>3, <3>4, <3>6
      <4>3. status'[j] = status[j] /\ run'[v][j] = run[v][j]
        BY <3>2, <3>5, <3>6
      <4> QED
        BY <2>2, <4>1, <4>2, <4>3 DEF Knows
    <3>7. ASSUME NEW v \in Worker PROVE Knows(v, i)'
      BY <2>2, <3>1, <3>2, <3>3, <3>4 DEF Knows
    <3> QED
      BY <3>6, <3>7 DEF KnowledgeInv
  <2> QED
    BY <1>2, <2>1, <2>3, <2>4 DEF Claim, runs
<1> SUFFICES ASSUME \A w \in Worker : ~Claim(w) PROVE KnowledgeInv'
  BY <1>2
<1>3. ASSUME UNCHANGED <<status, attempts, seen, owned>>,
             \A v \in Worker : current'[v] \subseteq current[v]
      PROVE  KnowledgeInv'
  <2>1. /\ \A v \in Worker : /\ current'[v] \subseteq current[v] \ {}
                             /\ owned'[v] \subseteq owned[v] \ {}
        /\ \A i \in Job \ {} : status'[i] = status[i] /\ attempts'[i] = attempts[i]
    BY <1>3
  <2> QED
    BY <1>3, <2>1, NothingLearned
<1>4. ASSUME NEW S, current' = Outdated(current, S), owned' = Outdated(owned, S),
             UNCHANGED seen,
             \A i \in Job \ S : status'[i] = status[i] /\ attempts'[i] = attempts[i]
      PROVE  KnowledgeInv'
  <2>1. \A v \in Worker : /\ current'[v] \subseteq current[v] \ S
                          /\ owned'[v] \subseteq owned[v] \ S
    BY <1>4, OutdatedRows
  <2> QED
    BY <1>4, <2>1, NothingLearned
<1>5. ASSUME NEW j \in Job, NEW t, Append(j, t) PROVE KnowledgeInv'
  <2>1. UNCHANGED <<attempts, seen, current, owned>> /\ status[j] = "absent"
    BY <1>5 DEF Append, poll
  <2>2. \A v \in Worker : j \notin current[v] /\ j \notin owned[v]
    BY <2>1 DEF KnowledgeInv, Knows, Open
  <2>3. \A v \in Worker : /\ current'[v] \subseteq current[v] \ {j}
                          /\ owned'[v] \subseteq owned[v] \ {j}
    BY <2>1, <2>2
  <2>4. \A i \in Job \ {j} : status'[i] = status[i]
    BY <1>5 DEF Append, RowTypes
  <2> QED
    BY <2>1, <2>3, <2>4, NothingLearned
<1>6. ASSUME NEW j \in Job, Cancel(j) PROVE KnowledgeInv'
  <2>1. \A i \in Job \ {j} : status'[i] = status[i] /\ attempts'[i] = attempts[i]
    BY <1>6 DEF Cancel, RowTypes
  <2> QED
    BY <1>4, <1>6, <2>1 DEF Cancel
<1>7. ASSUME NEW w \in Worker, Recover(w) PROVE KnowledgeInv'
  <2> DEFINE stuck == {j \in Job : IsStale(j)}
  <2>1. /\ current' = Outdated(current, stuck) /\ owned' = Outdated(owned, stuck)
        /\ UNCHANGED <<seen, attempts>>
        /\ \A i \in Job \ stuck : status'[i] = status[i]
    BY <1>7 DEF Recover
  <2> HIDE DEF stuck
  <2> QED
    BY <1>4, <2>1
<1>8. ASSUME NEW w \in Worker, NEW j \in Job, PushBack(w, j) PROVE KnowledgeInv'
  <2>1. UNCHANGED <<status, attempts, seen>>
    BY <1>8 DEF PushBack
  <2>2. \/ UNCHANGED <<current, owned>>
        \/ current' = Outdated(current, {j}) /\ owned' = Outdated(owned, {j})
    BY <1>8 DEF PushBack
  <2> QED
    BY <1>3, <1>4, <2>1, <2>2
<1>9. ASSUME NEW w \in Worker, NEW j \in Job, PassOver(w, j) PROVE KnowledgeInv'
  <2>1. /\ UNCHANGED <<status, attempts, seen, owned>>
        /\ current' = [current EXCEPT ![w] = @ \ {j}]
    BY <1>9 DEF PassOver, rows
  <2>2. \A v \in Worker : current'[v] \subseteq current[v]
    BY <2>1 DEF PollTypes
  <2> QED
    BY <1>3, <2>1, <2>2
<1>10. ASSUME NEW w \in Worker, Count(w) PROVE KnowledgeInv'
  <2>1. /\ UNCHANGED <<status, attempts, seen, owned>>
        /\ current' = current \/ current' = [current EXCEPT ![w] = @ \ {claiming[w]}]
    BY <1>10 DEF Count, rows
  <2>2. \A v \in Worker : current'[v] \subseteq current[v]
    BY <2>1 DEF PollTypes
  <2> QED
    BY <1>3, <2>1, <2>2
<1>11. ASSUME NEW w \in Worker, NEW j \in Job, MarkSucceeded(w, j) PROVE KnowledgeInv'
  <2>1. UNCHANGED <<attempts, seen>>
    BY <1>11 DEF MarkSucceeded
  <2>2. CASE UNCHANGED <<status, current, owned>>
    BY <1>3, <2>1, <2>2
  <2>3. CASE /\ status' = [status EXCEPT ![j] = "succeeded"]
             /\ current' = Outdated(current, {j}) /\ owned' = Outdated(owned, {j})
    <3>1. \A i \in Job \ {j} : status'[i] = status[i]
      BY <2>3 DEF RowTypes
    <3> QED
      BY <1>4, <2>1, <2>3, <3>1
  <2> QED
    BY <1>11, <2>2, <2>3 DEF MarkSucceeded
<1>12. ASSUME NEW w \in Worker, NEW j \in Job, MarkFailed(w, j) PROVE KnowledgeInv'
  <2>1. UNCHANGED seen
    BY <1>12 DEF MarkFailed
  <2>2. CASE UNCHANGED <<status, attempts, current, owned>>
    BY <1>3, <2>1, <2>2
  <2>3. CASE /\ status' = [status EXCEPT ![j] = "failed"]
             /\ attempts' = [attempts EXCEPT ![j] = seen[w][j] + 1]
             /\ current' = Outdated(current, {j}) /\ owned' = Outdated(owned, {j})
    <3>1. \A i \in Job \ {j} : status'[i] = status[i] /\ attempts'[i] = attempts[i]
      BY <2>3 DEF RowTypes
    <3> QED
      BY <1>4, <2>1, <2>3, <3>1
  <2> QED
    BY <1>12, <2>2, <2>3 DEF MarkFailed
<1>13. ASSUME NEW w \in Worker, ForgetPoll(w) \/ Die(w), UNCHANGED <<status, attempts>>,
              owned' = owned \/ owned' = [owned EXCEPT ![w] = {}]
       PROVE  KnowledgeInv'
  <2>1. /\ current'[w] = {}
        /\ \A v \in Worker \ {w} : current'[v] = current[v] /\ seen'[v] = seen[v]
    BY <1>13 DEF ForgetPoll, Die, PollTypes
  <2>2. \A v \in Worker : owned'[v] \subseteq owned[v]
    BY <1>13 DEF PollTypes
  <2>3. \A v \in Worker, i \in Job : run'[v][i] # "none" => run[v][i] # "none"
    BY OnlyClaimsStart
  <2>4. CASE ForgetPoll(w)
    <3>1. \A v \in Worker, i \in Job :
              i \in current'[v] \/ run[v][i] # "none" => seen'[v][i] = seen[v][i]
      BY <2>1, <2>4 DEF ForgetPoll, PollTypes
    <3>2. /\ \A v \in Worker : /\ current'[v] \subseteq current[v] \ {}
                               /\ owned'[v] \subseteq owned[v] \ {}
          /\ \A i \in Job \ {} : status'[i] = status[i] /\ attempts'[i] = attempts[i]
      BY <1>13, <2>1, <2>2
    <3> QED
      BY <2>3, <3>1, <3>2, KnowledgeKept
  <2>5. CASE Die(w)
    <3>1. owned'[w] = {}
      BY <2>5 DEF Die, PollTypes
    <3>2. \A v \in Worker \ {w} : run'[v] = run[v] /\ owned'[v] = owned[v]
      BY <2>5 DEF Die, RunTypes, PollTypes
    <3>3. ASSUME NEW j \in Job PROVE Knows(w, j)'
      BY <2>1, <3>1 DEF Knows
    <3>4. ASSUME NEW v \in Worker \ {w}, NEW j \in Job PROVE Knows(v, j)'
      <4>1. Knows(v, j)
        BY DEF KnowledgeInv
      <4>2. \A u \in Worker : j \in owned'[u] => j \in owned[u]
        BY <2>2
      <4> QED
        BY <1>13, <2>1, <3>2, <4>1, <4>2 DEF Knows
    <3> QED
      BY <3>3, <3>4 DEF KnowledgeInv
  <2> QED
    BY <1>13, <2>4, <2>5
<1>14. ASSUME NEW w \in Worker, EndPoll(w) \/ Crash(w) \/ ClaimFails(w) PROVE KnowledgeInv'
  BY <1>13, <1>14 DEF EndPoll, Crash, Die, ClaimFails, rows
<1>15. CASE UNCHANGED <<status, attempts, seen, current, owned>>
  BY <1>3, <1>15
<1>16. ASSUME NEW w \in Worker, NEW j \in Job, MarkFailedFails(w, j) PROVE KnowledgeInv'
  <2>1. /\ UNCHANGED <<status, attempts>>
        /\ \/ UNCHANGED <<seen, current, owned>>
           \/ ForgetPoll(w) /\ UNCHANGED owned
           \/ Die(w) /\ owned' = [owned EXCEPT ![w] = {}]
    BY <1>16 DEF MarkFailedFails, Die, rows, poll
  <2> QED
    BY <1>13, <1>15, <2>1
<1>17. ASSUME NEW w \in Worker, NEW j \in Job,
              BeginClaim(w, j) \/ Beat(w, j) \/ BeatFails(w, j) \/ Finish(w, j)
                \/ Throw(w, j) \/ Resolve(w, j) \/ MarkSucceededFails(w, j)
       PROVE  UNCHANGED <<status, attempts, seen, current, owned>>
  BY <1>17 DEF BeginClaim, Beat, BeatFails, Finish, Throw, Resolve, MarkSucceededFails, rows, poll
<1>18. ASSUME NEW w \in Worker, LockGate(w) \/ WaitAll(w)
       PROVE  UNCHANGED <<status, attempts, seen, current, owned>>
  BY <1>18 DEF LockGate, WaitAll, rows
<1>19. ASSUME Tick \/ UNCHANGED vars
       PROVE  UNCHANGED <<status, attempts, seen, current, owned>>
  BY <1>19 DEF Tick, vars, rows, poll
<1> QED
  BY <1>1, <1>5, <1>6, <1>7, <1>8, <1>9, <1>10, <1>11, <1>12, <1>14, <1>15, <1>16, <1>17,
     <1>18, <1>19
     DEF Next, Poll, Run, Execute, Enqueue, Replay

LEMMA HandledStep ==
    ASSUME TypeOK, HandledInv, [Next]_vars
    PROVE  HandledInv'
<1> SUFFICES ASSUME NEW v \in Worker, NEW i \in Job, run'[v][i] = "succeeded"
             PROVE  i \in handled'
  BY DEF HandledInv
<1>1. run \in [Worker -> [Job -> {"none", "running", "succeeded", "threw", "marked"}]]
  BY DEF TypeOK
<1> DEFINE Was == run[v][i] = "succeeded" /\ handled' = handled
<1>2. ASSUME NEW w \in Worker, NEW j \in Job, NEW x, x # "succeeded",
             run' = [run EXCEPT ![w][j] = x], handled' = handled
      PROVE  Was
  BY <1>1, <1>2, RunIsSet
<1>3. ASSUME NEW w \in Worker, NEW j \in Job, Finish(w, j) PROVE i \in handled'
  <2>1. run' = [run EXCEPT ![w][j] = "succeeded"] /\ handled' = handled \cup {j}
    BY <1>3 DEF Finish
  <2> QED
    BY <1>1, <2>1, RunIsSet DEF HandledInv
<1>4. ASSUME NEW w \in Worker, Claim(w) PROVE Was
  <2>1. handled' = handled
    BY <1>4 DEF Claim
  <2>2. CASE CanClaim(w, claiming[w]) /\ run' = [run EXCEPT ![w][claiming[w]] = "running"]
    <3>1. claiming[w] \in Job
      BY <2>2 DEF CanClaim, TypeOK
    <3> QED
      BY <1>2, <2>1, <2>2, <3>1
  <2> QED
    BY <1>4, <2>1, <2>2 DEF Claim, runs
<1>5. ASSUME NEW w \in Worker, NEW j \in Job,
             Throw(w, j) \/ MarkSucceeded(w, j) \/ MarkFailed(w, j) \/ MarkSucceededFails(w, j)
      PROVE  Was
  <2>1. \E x : x # "succeeded" /\ run' = [run EXCEPT ![w][j] = x] /\ handled' = handled
    BY <1>5 DEF Throw, MarkSucceeded, MarkFailed, MarkSucceededFails
  <2> QED
    BY <1>2, <2>1
<1>6. ASSUME NEW w \in Worker, Die(w) PROVE Was
  BY <1>1, <1>6 DEF Die
<1>7. ASSUME NEW w \in Worker, NEW j \in Job, Resolve(w, j) \/ MarkFailedFails(w, j) PROVE Was
  <2>1. (run' = [run EXCEPT ![w][j] = "none"] /\ handled' = handled) \/ Die(w)
    BY <1>7 DEF Resolve, MarkFailedFails, EndRun
  <2> HIDE DEF Was
  <2> QED
    BY <1>2, <1>6, <2>1
<1>8. ASSUME UNCHANGED <<run, handled>> PROVE Was
  BY <1>8
<1>9. ASSUME NEW j \in Job, Enqueue(j) \/ (\E k \in Job : Replay(k, j)) \/ Cancel(j)
      PROVE  UNCHANGED <<run, handled>>
  BY <1>9 DEF Enqueue, Replay, Append, Cancel, runs
<1>10. ASSUME NEW w \in Worker, NEW j \in Job,
              PushBack(w, j) \/ PassOver(w, j) \/ BeginClaim(w, j) \/ Beat(w, j)
                \/ BeatFails(w, j)
       PROVE  UNCHANGED <<run, handled>>
  BY <1>10 DEF PushBack, PassOver, BeginClaim, Beat, BeatFails, runs
<1>11. ASSUME NEW w \in Worker,
              Recover(w) \/ Select(w) \/ LockGate(w) \/ Count(w) \/ WaitAll(w) \/ EndPoll(w)
                \/ ClaimFails(w)
       PROVE  UNCHANGED <<run, handled>>
  BY <1>11 DEF Recover, Select, LockGate, Count, WaitAll, EndPoll, ClaimFails, runs
<1>12. ASSUME Tick \/ UNCHANGED vars PROVE UNCHANGED <<run, handled>>
  BY <1>12 DEF Tick, vars, runs
<1> HIDE DEF Was
<1>13. Was \/ i \in handled'
  BY <1>3, <1>4, <1>5, <1>6, <1>7, <1>8, <1>9, <1>10, <1>11, <1>12
     DEF Next, Poll, Run, Execute, Crash
<1> QED
  BY <1>13 DEF Was, HandledInv

-----------------------------------------------------------------------------
(* Time                                                                    *)

LEMMA TimesAreNumbers ==
    ASSUME TypeOK, NEW w \in Worker, NEW j \in Job
    PROVE  age[j] \in Nat /\ beat[w][j] \in Nat
<1>1. age[j] \in 0 .. Stale /\ beat[w][j] \in 0 .. Interval
  BY DEF TypeOK
<1> QED
  BY <1>1, TaskQueueAssumption, IntervalBeforeStale

\* A run that goes on, with its claim, stays in time if its row got no older.
LEMMA StaysInTime ==
    ASSUME TypeOK, NEW v \in Worker, NEW i \in Job, InTime(v, i),
           run'[v][i] = "running" => run[v][i] = "running",
           attempts'[i] # Cancelled => attempts[i] # Cancelled,
           run'[v][i] = "running" /\ attempts'[i] # Cancelled /\ i \in owned[v] =>
               /\ i \in owned'[v] /\ lost'[v][i] = lost[v][i] /\ beat'[v][i] = beat[v][i]
               /\ age'[i] \in {age[i], 0}
    PROVE  InTime(v, i)'
<1> SUFFICES ASSUME run'[v][i] = "running", attempts'[i] # Cancelled
             PROVE  /\ i \in owned'[v] /\ lost'[v][i] = FALSE
                    /\ age'[i] + beat'[v][i] <= Interval
  BY DEF InTime
<1>1. i \in owned[v] /\ lost[v][i] = FALSE /\ age[i] + beat[v][i] <= Interval
  BY DEF InTime
<1>2. age[i] \in Nat /\ beat[v][i] \in Nat
  BY TimesAreNumbers
<1>3. i \in owned'[v] /\ lost'[v][i] = FALSE /\ beat'[v][i] = beat[v][i] /\ age'[i] \in {age[i], 0}
  BY <1>1
<1> QED
  BY <1>1, <1>2, <1>3, IntervalBeforeStale

\* The claim of another run of the same row is not a standing one.
LEMMA ClaimsStandAlone ==
    ASSUME KnowledgeInv, NEW w \in Worker, NEW v \in Worker, NEW j \in Job,
           j \in owned[v], j \in owned[w]
    PROVE  v = w
  BY DEF KnowledgeInv, Knows

LEMMA OwnedIsProcessing ==
    ASSUME KnowledgeInv, NEW v \in Worker, NEW j \in Job, j \in owned[v]
    PROVE  status[j] = "processing" /\ \A w \in Worker : j \notin current[w]
  BY DEF KnowledgeInv, Knows, Open

LEMMA TimeStep ==
    ASSUME TypeOK, RowInv, ClaimInv, KnowledgeInv, TimeInv, [Next]_vars
    PROVE  TimeInv'
<1> SUFFICES ASSUME ~late', NEW v \in Worker, NEW i \in Job PROVE InTime(v, i)'
  BY DEF TimeInv
<1> PollTypes /\ RunTypes /\ RowTypes
  BY TypeParts
<1>1. ASSUME NEW w \in Worker, NEW j \in Job,
             BeatFails(w, j) \/ MarkSucceededFails(w, j) \/ MarkFailedFails(w, j)
      PROVE  late' \/ late' = late
  BY <1>1 DEF BeatFails, MarkSucceededFails, MarkFailedFails, Die
<1>2. ASSUME NEW w \in Worker, NEW j \in Job, Run(w, j) \/ Execute(w, j) PROVE late' = late
  BY <1>2 DEF Run, Execute, Beat, MarkSucceeded, MarkFailed, Resolve, Finish, Throw
<1>3. ASSUME NEW w \in Worker, Poll(w) \/ Crash(w) \/ ClaimFails(w) PROVE late' = late
  BY <1>3 DEF Poll, Recover, Select, LockGate, Count, Claim, WaitAll, EndPoll, PushBack,
              PassOver, BeginClaim, Crash, Die, ClaimFails
<1>4. ASSUME NEW j \in Job, Enqueue(j) \/ (\E k \in Job : Replay(k, j)) \/ Cancel(j)
      PROVE  late' = late
  BY <1>4 DEF Enqueue, Replay, Append, Cancel
<1>5. ASSUME Tick \/ UNCHANGED vars PROVE late' \/ late' = late
  BY <1>5 DEF Tick, vars
<1>6. \A w \in Worker, j \in Job : InTime(w, j)
  BY <1>1, <1>2, <1>3, <1>4, <1>5 DEF Next, TimeInv
<1>7. ASSUME UNCHANGED <<attempts, owned, lost, beat, age>>,
             run'[v][i] = "running" => run[v][i] = "running"
      PROVE  InTime(v, i)'
  BY <1>6, <1>7, StaysInTime
<1>8. ASSUME NEW S, owned' = Outdated(owned, S), i \in owned[v] => i \notin S,
             UNCHANGED <<lost, beat>>,
             i \in owned[v] => age'[i] = age[i],
             attempts'[i] # Cancelled => attempts[i] # Cancelled,
             run'[v][i] = "running" => run[v][i] = "running"
      PROVE  InTime(v, i)'
  <2>1. owned'[v] = owned[v] \ S
    BY <1>8, OutdatedRows
  <2> QED
    BY <1>6, <1>8, <2>1, StaysInTime
<1>9. ASSUME NEW j \in Job, Cancel(j) PROVE InTime(v, i)'
  <2>1. CASE i = j
    BY <1>9, <2>1 DEF Cancel, InTime, RowTypes
  <2>2. CASE i # j
    BY <1>8, <1>9, <2>2 DEF Cancel, runs, RowTypes
  <2> QED
    BY <2>1, <2>2
<1>10. CASE Tick
  <2>1. /\ \A w \in Worker, j \in Job : ~Owing(w, j)
        /\ age'[i] = IF status[i] = "processing" /\ age[i] < Stale THEN age[i] + 1 ELSE age[i]
        /\ beat'[v][i] = IF beat[v][i] > 0 THEN beat[v][i] - 1 ELSE 0
        /\ UNCHANGED <<attempts, owned, run, lost>>
    BY <1>10 DEF Tick
  <2> SUFFICES ASSUME run[v][i] = "running", attempts[i] # Cancelled
               PROVE  /\ i \in owned[v] /\ lost[v][i] = FALSE
                      /\ age'[i] + beat'[v][i] <= Interval
    BY <2>1 DEF InTime
  <2>2. i \in owned[v] /\ lost[v][i] = FALSE /\ age[i] + beat[v][i] <= Interval
    BY <1>6 DEF InTime
  <2>3. beat[v][i] # 0
    BY <2>1, <2>2 DEF Owing
  <2>4. age[i] \in Nat /\ beat[v][i] \in Nat
    BY TimesAreNumbers
  <2>5. beat'[v][i] = beat[v][i] - 1 /\ age'[i] \in {age[i], age[i] + 1}
    BY <2>1, <2>3, <2>4
  <2> QED
    BY <2>2, <2>3, <2>4, <2>5, IntervalBeforeStale
<1>11. ASSUME NEW w \in Worker, Recover(w) PROVE InTime(v, i)'
  <2> DEFINE stuck == {j \in Job : IsStale(j)}
  <2>1. /\ owned' = Outdated(owned, stuck)
        /\ age' = [j \in Job |-> IF j \in stuck THEN 0 ELSE age[j]]
        /\ UNCHANGED <<attempts, run, lost, beat>>
    BY <1>11 DEF Recover, runs
  <2>2. run[v][i] = "running" /\ attempts[i] # Cancelled => i \notin stuck
    <3> SUFFICES ASSUME run[v][i] = "running", attempts[i] # Cancelled PROVE ~IsStale(i)
      OBVIOUS
    <3>1. age[i] + beat[v][i] <= Interval
      BY <1>6 DEF InTime
    <3>2. age[i] \in Nat /\ beat[v][i] \in Nat
      BY TimesAreNumbers
    <3>3. ~(age[i] >= Stale)
      BY <3>1, <3>2, TaskQueueAssumption, IntervalBeforeStale
    <3> QED
      BY <3>3 DEF IsStale
  <2> HIDE DEF stuck
  <2>3. CASE run[v][i] = "running" /\ attempts[i] # Cancelled
    BY <1>8, <2>1, <2>2, <2>3
  <2>4. CASE ~(run[v][i] = "running" /\ attempts[i] # Cancelled)
    BY <2>1, <2>4 DEF InTime
  <2> QED
    BY <2>3, <2>4
<1>12. ASSUME NEW w \in Worker, NEW j \in Job, PushBack(w, j) PROVE InTime(v, i)'
  <2>1. UNCHANGED <<attempts, age, run, lost, beat>>
    BY <1>12 DEF PushBack, runs
  <2>2. CASE UNCHANGED owned
    BY <1>7, <2>1, <2>2
  <2>3. CASE j \in current[w] /\ owned' = Outdated(owned, {j})
    <3>1. i \in owned[v] => i \notin {j}
      BY <2>3, OwnedIsProcessing
    <3> QED
      BY <1>8, <2>1, <2>3, <3>1
  <2> QED
    BY <1>12, <2>2, <2>3 DEF PushBack
<1>13. ASSUME NEW w \in Worker, Claim(w) PROVE InTime(v, i)'
  <2>1. PICK j \in Job : j = claiming[w] /\ run[w][j] = "none"
    BY <1>13, ClaimedRow DEF Claim, Claiming
  <2>2. UNCHANGED attempts
    BY <1>13 DEF Claim
  <2>3. CASE UNCHANGED <<age, owned, runs>>
    BY <1>7, <2>2, <2>3 DEF runs
  <2>4. CASE /\ CanClaim(w, j)
             /\ age' = [age EXCEPT ![j] = 0]
             /\ owned' = [Outdated(owned, {j}) EXCEPT ![w] = @ \cup {j}]
             /\ run' = [run EXCEPT ![w][j] = "running"]
             /\ beat' = [beat EXCEPT ![w][j] = Interval]
             /\ lost' = [lost EXCEPT ![w][j] = FALSE]
    <3>1. CASE v = w /\ i = j
      <4>1. age'[j] = 0 /\ beat'[w][j] = Interval /\ lost'[w][j] = FALSE /\ j \in owned'[w]
        BY <2>4 DEF Outdated, RowTypes, RunTypes
      <4> QED
        BY <3>1, <4>1, IntervalBeforeStale DEF InTime
    <3>2. CASE ~(v = w /\ i = j)
      <4>1. run'[v][i] = run[v][i] /\ beat'[v][i] = beat[v][i]
        BY <2>4, <3>2, RunIsSet DEF RunTypes
      <4>2. lost'[v][i] = lost[v][i]
        BY <2>4, <3>2, LostIsSet DEF RunTypes
      <4>3. ASSUME i \in owned[v] PROVE i \in owned'[v] /\ age'[i] = age[i]
        <5>1. i # j
          BY <2>4, <4>3, OwnedIsProcessing DEF CanClaim
        <5> QED
          BY <2>4, <4>3, <5>1 DEF Outdated, RowTypes
      <4> QED
        BY <1>6, <2>2, <4>1, <4>2, <4>3, StaysInTime
    <3> QED
      BY <3>1, <3>2
  <2> QED
    BY <1>13, <2>1, <2>3, <2>4 DEF Claim
<1>14. ASSUME NEW w \in Worker, NEW j \in Job, Beat(w, j) PROVE InTime(v, i)'
  <2>1. UNCHANGED <<attempts, owned, run>>
    BY <1>14 DEF Beat
  <2>2. CASE /\ j \in owned[w] /\ age' = [age EXCEPT ![j] = 0]
             /\ beat' = [beat EXCEPT ![w][j] = Interval] /\ lost' = lost
    <3>1. CASE v = w /\ i = j
      <4>1. age'[j] = 0 /\ beat'[w][j] = Interval /\ lost'[w][j] = FALSE
        BY <1>14, <2>2 DEF Beat, RowTypes, RunTypes
      <4> QED
        BY <2>1, <2>2, <3>1, <4>1, IntervalBeforeStale DEF InTime
    <3>2. CASE ~(v = w /\ i = j)
      <4>1. beat'[v][i] = beat[v][i] /\ age'[i] \in {age[i], 0}
        BY <2>2, <3>2, RunIsSet DEF RunTypes, RowTypes
      <4> QED
        BY <1>6, <2>1, <2>2, <4>1, StaysInTime
    <3> QED
      BY <3>1, <3>2
  <2>3. CASE /\ j \notin owned[w] /\ lost' = [lost EXCEPT ![w][j] = TRUE]
             /\ UNCHANGED <<age, beat>>
    <3>1. i \in owned[v] => lost'[v][i] = lost[v][i]
      BY <2>3, LostIsSet DEF RunTypes
    <3> QED
      BY <1>6, <2>1, <2>3, <3>1, StaysInTime
  <2> QED
    BY <1>14, <2>2, <2>3 DEF Beat
<1>15. ASSUME NEW w \in Worker, NEW j \in Job, Finish(w, j) \/ Throw(w, j)
       PROVE  InTime(v, i)'
  <2>1. /\ UNCHANGED <<attempts, age, owned, lost>>
        /\ run' = [run EXCEPT ![w][j] = "succeeded"] \/ run' = [run EXCEPT ![w][j] = "threw"]
        /\ beat' = [beat EXCEPT ![w][j] = 0]
    BY <1>15 DEF Finish, Throw, rows
  <2>2. CASE v = w /\ i = j
    BY <2>1, <2>2, RunIsSet DEF RunTypes, InTime
  <2>3. CASE ~(v = w /\ i = j)
    <3>1. run'[v][i] = run[v][i] /\ beat'[v][i] = beat[v][i]
      BY <2>1, <2>3, RunIsSet DEF RunTypes
    <3> QED
      BY <1>6, <2>1, <3>1, StaysInTime
  <2> QED
    BY <2>2, <2>3
<1>16. ASSUME NEW w \in Worker, NEW j \in Job, MarkSucceeded(w, j) \/ MarkFailed(w, j)
       PROVE  InTime(v, i)'
  <2>1. /\ UNCHANGED <<lost, beat>>
        /\ run[w][j] # "none" /\ run' = [run EXCEPT ![w][j] = "marked"]
    BY <1>16 DEF MarkSucceeded, MarkFailed
  <2>2. CASE v = w /\ i = j
    BY <2>1, <2>2, RunIsSet DEF RunTypes, InTime
  <2>3. CASE ~(v = w /\ i = j)
    <3>1. run'[v][i] = run[v][i]
      BY <2>1, <2>3, RunIsSet DEF RunTypes
    <3>2. CASE UNCHANGED <<attempts, age, owned>>
      BY <1>7, <2>1, <3>1, <3>2
    <3>3. CASE /\ OwnsClaim(w, j) /\ owned' = Outdated(owned, {j})
               /\ age' = [age EXCEPT ![j] = 0]
               /\ attempts' = attempts \/ attempts' = [attempts EXCEPT ![j] = seen[w][j] + 1]
      <4>1. i \in owned[v] => i \notin {j}
        BY <2>3, <3>3, ClaimsStandAlone DEF OwnsClaim
      <4>2. attempts[i] # Cancelled \/ attempts'[i] = Cancelled
        BY <2>1, <3>3, StandingClaim, CancelledIsMore DEF RowTypes
      <4>3. i \in owned[v] => age'[i] = age[i]
        BY <3>3, <4>1
      <4> QED
        BY <1>8, <2>1, <3>1, <3>3, <4>1, <4>2, <4>3
    <3> QED
      BY <1>16, <3>2, <3>3 DEF MarkSucceeded, MarkFailed
  <2> QED
    BY <2>2, <2>3
<1>17. ASSUME NEW w \in Worker, NEW j \in Job, EndRun(w, j), UNCHANGED <<attempts, age, owned>>
       PROVE  InTime(v, i)'
  <2>1. CASE v = w /\ i = j
    <3>1. run'[v][i] = "none"
      BY <1>17, <2>1, RunIsSet DEF EndRun, RunTypes
    <3> QED
      BY <3>1 DEF InTime
  <2>2. CASE ~(v = w /\ i = j)
    <3>1. run'[v][i] = run[v][i] /\ beat'[v][i] = beat[v][i]
      BY <1>17, <2>2, RunIsSet DEF EndRun, RunTypes
    <3>2. lost'[v][i] = lost[v][i]
      BY <1>17, <2>2, LostIsSet DEF EndRun, RunTypes
    <3> QED
      BY <1>6, <1>17, <3>1, <3>2, StaysInTime
  <2> QED
    BY <2>1, <2>2
<1>18. ASSUME NEW w \in Worker, Die(w) PROVE InTime(v, i)'
  <2>1. CASE v = w
    <3>1. run'[v][i] = "none"
      BY <1>18, <2>1 DEF Die, RunTypes
    <3> QED
      BY <3>1 DEF InTime
  <2>2. CASE v # w
    <3>1. /\ run'[v] = run[v] /\ beat'[v] = beat[v] /\ lost'[v] = lost[v]
          /\ owned'[v] = owned[v] /\ UNCHANGED <<attempts, age>>
      BY <1>18, <2>2 DEF Die, RunTypes, PollTypes, rows
    <3> QED
      BY <1>6, <3>1, StaysInTime
  <2> QED
    BY <2>1, <2>2
<1>19. ASSUME NEW w \in Worker, NEW j \in Job,
              BeatFails(w, j) \/ MarkSucceededFails(w, j) \/ MarkFailedFails(w, j)
                \/ Resolve(w, j)
       PROVE  InTime(v, i)'
  <2>1. CASE BeatFails(w, j)
    BY <2>1 DEF BeatFails
  <2>2. CASE MarkSucceededFails(w, j)
    <3>1. run' = [run EXCEPT ![w][j] = "threw"] /\ UNCHANGED <<attempts, owned, lost, beat, age>>
      BY <2>2 DEF MarkSucceededFails, rows
    <3>2. run'[v][i] = "running" => run[v][i] = "running"
      BY <3>1, RunIsSet DEF RunTypes
    <3> QED
      BY <1>7, <3>1, <3>2
  <2>3. CASE Resolve(w, j)
    BY <1>17, <2>3 DEF Resolve, rows
  <2>4. CASE MarkFailedFails(w, j)
    BY <1>17, <1>18, <2>4 DEF MarkFailedFails, rows
  <2> QED
    BY <1>19, <2>1, <2>2, <2>3, <2>4
<1>20. CASE UNCHANGED <<attempts, owned, lost, beat, age, run>>
  BY <1>7, <1>20
<1>21. ASSUME NEW j \in Job, Enqueue(j) \/ \E k \in Job : Replay(k, j)
       PROVE  UNCHANGED <<attempts, owned, lost, beat, age, run>>
  BY <1>21 DEF Enqueue, Replay, Append, runs
<1>22. ASSUME NEW w \in Worker, NEW j \in Job, PassOver(w, j) \/ BeginClaim(w, j)
       PROVE  UNCHANGED <<attempts, owned, lost, beat, age, run>>
  BY <1>22 DEF PassOver, BeginClaim, rows, runs
<1>23. ASSUME NEW w \in Worker,
              Select(w) \/ LockGate(w) \/ Count(w) \/ WaitAll(w) \/ EndPoll(w) \/ ClaimFails(w)
       PROVE  UNCHANGED <<attempts, owned, lost, beat, age, run>>
  BY <1>23 DEF Select, LockGate, Count, WaitAll, EndPoll, ClaimFails, rows, runs
<1>24. ASSUME UNCHANGED vars PROVE UNCHANGED <<attempts, owned, lost, beat, age, run>>
  BY <1>24 DEF vars, rows, runs
<1> QED
  BY <1>9, <1>10, <1>11, <1>12, <1>13, <1>14, <1>15, <1>16, <1>18, <1>19, <1>20, <1>21,
     <1>22, <1>23, <1>24
     DEF Next, Poll, Run, Execute, Crash

-----------------------------------------------------------------------------
LEMMA TaskQueueInvariant == Spec => []TaskQueueInv
<1>1. TaskQueueInv /\ [Next]_vars => TaskQueueInv'
  <2> SUFFICES ASSUME TaskQueueInv, [Next]_vars PROVE TaskQueueInv'
    OBVIOUS
  <2>1. /\ TypeOK /\ RowInv /\ ClaimInv /\ KnowledgeInv
        /\ LimitInv /\ CountInv /\ HandledInv /\ TimeInv
    BY DEF TaskQueueInv
  <2>2. TypeOK'
    BY <2>1, RowTypesStep, PollTypesStep, RunTypesStep, TypePartsNext
  <2>3. RowInv' /\ ClaimInv' /\ KnowledgeInv'
    BY <2>1, RowStep, ClaimStep, KnowledgeStep
  <2>4. LimitInv' /\ CountInv' /\ HandledInv' /\ TimeInv'
    BY <2>1, LimitStep, CountStep, HandledStep, TimeStep
  <2> QED
    BY <2>2, <2>3, <2>4 DEF TaskQueueInv
<1> QED
  BY <1>1, InitTaskQueue, PTL DEF Spec

\* Rows, polls and runs keep their types, whatever crashes and is repeated.  Not
\* trivial: a count that is never taken below zero, and a failure that is never
\* counted beyond MaxAttempts.
THEOREM QueueTypeCorrect == Spec => []TypeOK
<1>1. TaskQueueInv => TypeOK
  BY DEF TaskQueueInv
<1> QED
  BY <1>1, TaskQueueInvariant, PTL

\* Any number of workers that claim, recover, crash and finish at the same time never
\* have more rows of a task processing than its concurrencyLimit.
THEOREM LimitsHold == Spec => []ProcessingWithinLimit
<1>1. TaskQueueInv => ProcessingWithinLimit
  BY DEF TaskQueueInv, LimitInv
<1> QED
  BY <1>1, TaskQueueInvariant, PTL

\* As long as heartbeats and updates are on time, no more jobs of a task execute than
\* its concurrencyLimit, but for those that were cancelled and run on: each is the
\* only run of a row that is processing.
THEOREM ExecutionWithinLimits == Spec => []ExecutingWithinLimit
<1>1. TaskQueueInv => ExecutingWithinLimit
  <2> SUFFICES ASSUME TaskQueueInv, ~late, NEW t \in Registered
               PROVE  Cardinality(Executing(t)) <= Limit[t]
    BY DEF ExecutingWithinLimit
  <2>1. ASSUME NEW x \in Executing(t)
        PROVE  x \in Worker \X Job /\ x[2] \in owned[x[1]] /\ x[2] \in Processing(t)
    <3>1. /\ x[1] \in Worker /\ x[2] \in Job /\ x = <<x[1], x[2]>>
          /\ run[x[1]][x[2]] = "running" /\ task[x[2]] = t /\ attempts[x[2]] # Cancelled
      BY DEF Executing
    <3>2. x[2] \in owned[x[1]]
      BY <3>1 DEF TaskQueueInv, TimeInv, InTime
    <3>3. status[x[2]] = "processing"
      BY <3>1, <3>2, OwnedIsProcessing DEF TaskQueueInv
    <3> QED
      BY <3>1, <3>2, <3>3 DEF Processing
  <2> DEFINE row == [x \in Executing(t) |-> x[2]]
  <2>2. row \in Injection(Executing(t), Processing(t))
    <3>1. row \in [Executing(t) -> Processing(t)]
      BY <2>1
    <3>2. ASSUME NEW x \in Executing(t), NEW y \in Executing(t), row[x] = row[y] PROVE x = y
      <4>1. x[2] = y[2] /\ x[1] \in Worker /\ y[1] \in Worker /\ x[2] \in Job
            /\ x = <<x[1], x[2]>> /\ y = <<y[1], y[2]>>
        BY <2>1, <3>2
      <4>2. x[1] = y[1]
        BY <2>1, <4>1, ClaimsStandAlone DEF TaskQueueInv
      <4> QED
        BY <4>1, <4>2
    <3> QED
      BY <3>1, <3>2 DEF Injection, IsInjective
  <2>3. Processing(t) \subseteq Job
    BY DEF Processing
  <2>4. /\ IsFiniteSet(Executing(t))
        /\ Cardinality(Executing(t)) <= Cardinality(Processing(t))
    BY <2>2, <2>3, JobsAreFinite, FS_Injection
  <2>5. Cardinality(Processing(t)) <= Limit[t]
    BY DEF TaskQueueInv, LimitInv, ProcessingWithinLimit
  <2>6. /\ Cardinality(Executing(t)) \in Nat /\ Cardinality(Processing(t)) \in Nat
        /\ Limit[t] \in Nat
    BY <2>3, <2>4, JobsAreFinite, FS_CardinalityType, TaskQueueAssumption DEF Registered
  <2> QED
    BY <2>4, <2>5, <2>6
<1> QED
  BY <1>1, TaskQueueInvariant, PTL

-----------------------------------------------------------------------------
(* The refinement of AtLeastOnce                                           *)

\* A row with status s and attempts n as Delivery sees it.
Phase(s, n) == CASE s = "absent" -> "absent"
                 [] s = "failed" /\ n = Cancelled -> "withdrawn"
                 [] s = "succeeded" -> "settled"
                 [] OTHER -> "queued"

\* A step that moves no row between the phases, counts no failure and completes no
\* task is none to Delivery.
LEMMA Invisible ==
    ASSUME UNCHANGED <<attempts, handled>>,
           \A i \in Job : Phase(status'[i], attempts[i]) = Phase(status[i], attempts[i])
    PROVE  UNCHANGED Delivery!vars
  BY DEF Delivery!vars, Phase

\* Each step of a worker, a caller or an operator is a step of Delivery or none to it:
\* a succeeded job has been completed for, a failure is counted once, and a cancelled
\* job is not taken up again.
LEMMA DeliveryStep ==
    ASSUME TaskQueueInv, [Next]_vars
    PROVE  [Delivery!Next]_(Delivery!vars)
<1> /\ TypeOK /\ RowInv /\ ClaimInv /\ KnowledgeInv /\ HandledInv
    /\ RowTypes /\ RunTypes
  BY TypeParts DEF TaskQueueInv
<1>1. ASSUME NEW j \in Job, NEW t, Append(j, t) PROVE Delivery!Enqueue(j)
  <2>1. /\ status[j] = "absent" /\ UNCHANGED <<attempts, handled>>
        /\ status' = [status EXCEPT ![j] = "pending"]
    BY <1>1 DEF Append
  <2> QED
    BY <2>1 DEF Delivery!Enqueue, RowTypes
<1>2. ASSUME NEW j \in Job, Cancel(j) PROVE Delivery!Withdraw(j)
  <2>1. /\ status[j] # "absent" /\ UNCHANGED handled
        /\ status' = [status EXCEPT ![j] = "failed"]
        /\ attempts' = [attempts EXCEPT ![j] = Cancelled]
    BY <1>2 DEF Cancel
  <2>2. /\ status'[j] = "failed" /\ attempts'[j] = Cancelled
        /\ \A i \in Job \ {j} : status'[i] = status[i] /\ attempts'[i] = attempts[i]
    BY <2>1 DEF RowTypes
  <2> QED
    BY <2>1, <2>2 DEF Delivery!Withdraw
<1>3. ASSUME NEW w \in Worker, NEW j \in Job, Finish(w, j) PROVE Delivery!Handle(j)
  <2>1. status[j] # "absent"
    BY <1>3 DEF Finish, RowInv
  <2> QED
    BY <1>3, <2>1 DEF Finish, Delivery!Handle, rows
<1>4. ASSUME NEW w \in Worker, NEW j \in Job, MarkSucceeded(w, j)
      PROVE  Delivery!Settle(j) \/ UNCHANGED Delivery!vars
  <2>1. UNCHANGED <<attempts, handled>> /\ run[w][j] = "succeeded"
    BY <1>4 DEF MarkSucceeded
  <2>2. CASE OwnsClaim(w, j) /\ status' = [status EXCEPT ![j] = "succeeded"]
    <3>1. status[j] = "processing" /\ attempts[j] < MaxAttempts
      BY <2>1, <2>2, StandingClaim
    <3>2. attempts[j] # Cancelled
      BY <3>1, CancelledIsMore
    <3>3. j \in handled
      BY <2>1 DEF HandledInv
    <3>4. status'[j] = "succeeded" /\ \A i \in Job \ {j} : status'[i] = status[i]
      BY <2>2 DEF RowTypes
    <3> QED
      BY <2>1, <3>1, <3>2, <3>3, <3>4 DEF Delivery!Settle
  <2>3. CASE UNCHANGED status
    BY <2>1, <2>3, Invisible
  <2> QED
    BY <1>4, <2>2, <2>3 DEF MarkSucceeded
<1>5. ASSUME NEW w \in Worker, NEW j \in Job, MarkFailed(w, j)
      PROVE  Delivery!Fail(j) \/ UNCHANGED Delivery!vars
  <2>1. UNCHANGED handled /\ run[w][j] = "threw"
    BY <1>5 DEF MarkFailed
  <2>2. CASE /\ OwnsClaim(w, j) /\ status' = [status EXCEPT ![j] = "failed"]
             /\ attempts' = [attempts EXCEPT ![j] = seen[w][j] + 1]
    <3>1. /\ status[j] = "processing" /\ attempts[j] = seen[w][j] /\ attempts[j] < MaxAttempts
          /\ seen[w][j] + 1 \in 1 .. MaxAttempts
      BY <2>1, <2>2, StandingClaim
    <3>2. attempts[j] # Cancelled /\ attempts[j] + 1 # Cancelled
      BY <3>1, CancelledIsMore
    <3>3. /\ status'[j] = "failed" /\ attempts'[j] = attempts[j] + 1
          /\ \A i \in Job \ {j} : status'[i] = status[i] /\ attempts'[i] = attempts[i]
      BY <2>2, <3>1 DEF RowTypes
    <3> QED
      BY <2>1, <3>1, <3>2, <3>3 DEF Delivery!Fail
  <2>3. CASE UNCHANGED <<status, attempts>>
    BY <2>1, <2>3, Invisible
  <2> QED
    BY <1>5, <2>2, <2>3 DEF MarkFailed
<1>6. ASSUME NEW w \in Worker, Recover(w) PROVE UNCHANGED Delivery!vars
  <2>1. UNCHANGED <<attempts, handled>>
    BY <1>6 DEF Recover
  <2>2. \A i \in Job : status'[i] = status[i]
                       \/ (status[i] = "processing" /\ status'[i] = "pending")
    BY <1>6 DEF Recover, IsStale
  <2>3. \A i \in Job : Phase(status'[i], attempts[i]) = Phase(status[i], attempts[i])
    BY <2>2 DEF Phase
  <2> QED
    BY <2>1, <2>3, Invisible
<1>7. ASSUME NEW w \in Worker, Claim(w) PROVE UNCHANGED Delivery!vars
  <2>1. UNCHANGED <<attempts, handled>>
    BY <1>7 DEF Claim
  <2>2. CASE CanClaim(w, claiming[w]) /\ status' = [status EXCEPT ![claiming[w]] = "processing"]
    <3>1. PICK j \in Job : j = claiming[w]
      BY <1>7, ClaimedRow DEF Claim, Claiming
    <3>2. status[j] \in Open /\ attempts[j] < MaxAttempts
      BY <2>2, <3>1 DEF CanClaim, KnowledgeInv, Knows
    <3>3. attempts[j] # Cancelled
      <4>1. attempts[j] \in 0 .. Cancelled
        BY DEF RowTypes
      <4> QED
        BY <3>2, <4>1, CancelledIsMore
    <3>4. status'[j] = "processing" /\ \A i \in Job \ {j} : status'[i] = status[i]
      BY <2>2, <3>1 DEF RowTypes
    <3>5. \A i \in Job : Phase(status'[i], attempts[i]) = Phase(status[i], attempts[i])
      BY <3>2, <3>3, <3>4 DEF Phase, Open
    <3> QED
      BY <2>1, <3>5, Invisible
  <2>3. CASE UNCHANGED status
    BY <2>1, <2>3, Invisible
  <2> QED
    BY <1>7, <2>2, <2>3 DEF Claim
<1>8. ASSUME UNCHANGED <<status, attempts, handled>> PROVE UNCHANGED Delivery!vars
  BY <1>8, Invisible
<1>9. ASSUME NEW w \in Worker, NEW j \in Job,
             BeatFails(w, j) \/ MarkSucceededFails(w, j) \/ MarkFailedFails(w, j)
      PROVE  UNCHANGED <<status, attempts, handled>>
  BY <1>9 DEF BeatFails, MarkSucceededFails, MarkFailedFails, Die, rows
<1>10. ASSUME NEW w \in Worker, NEW j \in Job,
              PushBack(w, j) \/ PassOver(w, j) \/ BeginClaim(w, j) \/ Beat(w, j)
                \/ Resolve(w, j) \/ Throw(w, j)
       PROVE  UNCHANGED <<status, attempts, handled>>
  BY <1>10 DEF PushBack, PassOver, BeginClaim, Beat, Resolve, Throw, rows
<1>11. ASSUME NEW w \in Worker,
              Select(w) \/ LockGate(w) \/ Count(w) \/ WaitAll(w) \/ EndPoll(w) \/ Crash(w)
                \/ ClaimFails(w)
       PROVE  UNCHANGED <<status, attempts, handled>>
  BY <1>11 DEF Select, LockGate, Count, WaitAll, EndPoll, Crash, Die, ClaimFails, rows
<1>12. ASSUME Tick \/ UNCHANGED vars PROVE UNCHANGED <<status, attempts, handled>>
  BY <1>12 DEF Tick, vars, rows
<1>13. ASSUME NEW j \in Job,
              \/ Delivery!Enqueue(j) \/ Delivery!Handle(j) \/ Delivery!Settle(j)
              \/ Delivery!Fail(j) \/ Delivery!Withdraw(j)
       PROVE  Delivery!Next
  BY <1>13 DEF Delivery!Next
<1>14. ASSUME NEW j \in Job, Enqueue(j) \/ Cancel(j) \/ \E i \in Job : Replay(i, j)
       PROVE  Delivery!Next
  BY <1>1, <1>2, <1>13, <1>14 DEF Enqueue, Replay
<1>15. ASSUME NEW w \in Worker, Poll(w) \/ Crash(w) \/ ClaimFails(w)
       PROVE  UNCHANGED Delivery!vars
  BY <1>6, <1>7, <1>8, <1>10, <1>11, <1>15 DEF Poll
<1>16. ASSUME NEW w \in Worker, NEW j \in Job, Run(w, j) \/ Execute(w, j)
       PROVE  Delivery!Next \/ UNCHANGED Delivery!vars
  BY <1>3, <1>4, <1>5, <1>8, <1>10, <1>13, <1>16 DEF Run, Execute
<1> QED
  BY <1>8, <1>9, <1>12, <1>14, <1>15, <1>16 DEF Next

\* The task queue is an at-least-once delivery: a job is settled once, only after its
\* task completed, not more than MaxAttempts failures are counted, and a cancelled job
\* never comes back, whatever workers crash, run late or reset each other's claims.
THEOREM JobsAreDeliveredAtLeastOnce == Spec => DeliverySpec
<1>1. Init => Delivery!Init
  <2>1. 0 # Cancelled
    BY CancelledIsMore
  <2> QED
    BY <2>1 DEF Init, Delivery!Init
<1>2. TaskQueueInv /\ [Next]_vars => [Delivery!Next]_(Delivery!vars)
  BY DeliveryStep
<1> QED
  BY <1>1, <1>2, TaskQueueInvariant, PTL DEF Spec, DeliverySpec, Delivery!Spec
=============================================================================
