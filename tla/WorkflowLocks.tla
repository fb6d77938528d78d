--------------------------- MODULE WorkflowLocks ---------------------------
(***************************************************************************)
(* The workflow_locks row of one project's execution lane, the             *)
(* WorkflowLockManager calls that change it, and the core writes that      *)
(* check its fence inside their own transaction                            *)
(* (packages/workflow/src/locks/manager.ts, core commands/helpers.ts).     *)
(*                                                                         *)
(* A worker is one invocation of a workflow task.  Holder ids are constant *)
(* strings per task ('start-next-feature-task', 'run-coder-task'), so two  *)
(* workers may present the same holder id and re-enter each other's lock.  *)
(***************************************************************************)
EXTENDS Naturals

CONSTANTS
    Worker,       \* invocations that call the lock manager
    Holder,       \* holder ids
    HolderOf,     \* the holder id each worker presents
    Ttl,          \* lease length
    Serialized,   \* TRUE: SQLite, a transaction excludes every other writer;
                  \* FALSE: PostgreSQL at READ COMMITTED, the fence check of a
                  \* transaction takes no lock on the row it reads
    MaxClock,     \* bound on time
    MaxFence      \* bound on the fence

ASSUME LockAssumption ==
    /\ HolderOf \in [Worker -> Holder]
    /\ Ttl \in Nat
    /\ Serialized \in BOOLEAN
    /\ MaxClock \in Nat
    /\ MaxFence \in Nat

VARIABLES
    clock,     \* wall-clock time shared by the workers
    row,       \* the lock row; fence = 0 stands for "no row yet"
    pc,        \* where each worker is
    now,       \* isoNow() as read by the worker's running acquire call
    fence,     \* the fence of the worker's AcquiredLock
    written    \* fence of the last committed lock-guarded write

vars == <<clock, row, pc, now, fence, written>>

Row == [fence : Nat, holder : Holder, expires : Nat]

TypeOK ==
    /\ clock \in Nat
    /\ row \in Row
    /\ pc \in [Worker -> {"idle", "acquiring", "holding", "checked"}]
    /\ now \in [Worker -> Nat]
    /\ fence \in [Worker -> Nat]
    /\ written \in Nat

Init ==
    /\ clock = 0
    /\ row \in [fence : {0}, holder : Holder, expires : {0}]
    /\ pc = [w \in Worker |-> "idle"]
    /\ now = [w \in Worker |-> 0]
    /\ fence = [w \in Worker |-> 0]
    /\ written = 0

-----------------------------------------------------------------------------
\* Under SQLite no statement of another connection runs while a transaction
\* that has read the fence is open.
DbFree(w) == Serialized => \A o \in Worker \ {w} : pc[o] # "checked"

\* Mutant of Claimable: the UPDATE forgets the lease's expiry.
ClaimableAlways(w) == row.fence > 0

\* The condition of the claiming UPDATE: expires_at <= now OR holder_id = me.
Claimable(w) ==
    /\ row.fence > 0
    /\ row.expires <= now[w] \/ row.holder = HolderOf[w]

\* The WHERE clause of release and heartbeat: id, holder_id and fence match.
Owns(w) == row.fence = fence[w] /\ row.holder = HolderOf[w]

\* Mutant of FenceOk: only the lease is checked, not the fence.
LeaseOk(w) == row.expires >= clock

\* assertFence / assertLockFence pass.
FenceOk(w) == row.expires >= clock /\ Owns(w)

-----------------------------------------------------------------------------
\* acquire() reads the time before its transaction begins.
CallAcquire(w) ==
    /\ pc[w] = "idle"
    /\ pc' = [pc EXCEPT ![w] = "acquiring"]
    /\ now' = [now EXCEPT ![w] = clock]
    /\ UNCHANGED <<clock, row, fence, written>>

\* The worker is done; its locals go out of scope.
Leave(w) ==
    /\ pc' = [pc EXCEPT ![w] = "idle"]
    /\ now' = [now EXCEPT ![w] = 0]
    /\ fence' = [fence EXCEPT ![w] = 0]

\* The worker leaves acquire() with fence f.
Acquired(w, f) ==
    /\ row' = [fence |-> f, holder |-> HolderOf[w], expires |-> now[w] + Ttl]
    /\ pc' = [pc EXCEPT ![w] = "holding"]
    /\ fence' = [fence EXCEPT ![w] = f]
    /\ now' = [now EXCEPT ![w] = 0]
    /\ UNCHANGED <<clock, written>>

\* Mutant of NextFence: re-entering one's own lock keeps its fence.
ReentrantFence(w) ==
    IF row.holder = HolderOf[w] THEN row.fence ELSE row.fence + 1

\* fence = fence + 1
NextFence(w) == row.fence + 1

AcquireUpdate(w) ==
    /\ pc[w] = "acquiring" /\ DbFree(w)
    /\ Claimable(w)
    /\ row.fence < MaxFence
    /\ Acquired(w, NextFence(w))

AcquireInsert(w) ==
    /\ pc[w] = "acquiring" /\ DbFree(w)
    /\ row.fence = 0
    /\ Acquired(w, 1)

\* LockConflictError
AcquireConflict(w) ==
    /\ pc[w] = "acquiring" /\ DbFree(w)
    /\ row.fence > 0 /\ ~Claimable(w)
    /\ Leave(w)
    /\ UNCHANGED <<clock, row, written>>

\* The row after its holder's release: kept, expired, its fence retired.
ReleasedRow(w) ==
    [fence |-> row.fence + 1, holder |-> row.holder, expires |-> clock]

\* release(): expire the row and retire the fence, if the row is still ours.
Release(w) ==
    /\ pc[w] = "holding" /\ DbFree(w)
    /\ row.fence < MaxFence
    /\ row' = IF Owns(w)
              THEN ReleasedRow(w)
              ELSE row
    /\ Leave(w)
    /\ UNCHANGED <<clock, written>>

Heartbeat(w) ==
    /\ pc[w] = "holding" /\ DbFree(w)
    /\ Owns(w)
    /\ row' = [row EXCEPT !.expires = clock + Ttl]
    /\ UNCHANGED <<clock, pc, now, fence, written>>

\* A guarded command's transaction reads the fence and finds it valid.  A
\* StaleFenceError rolls back and leaves every variable as it was.
CheckFence(w) ==
    /\ pc[w] = "holding" /\ DbFree(w)
    /\ FenceOk(w)
    /\ pc' = [pc EXCEPT ![w] = "checked"]
    /\ UNCHANGED <<clock, row, now, fence, written>>

\* The same transaction writes and commits.
CommitWrite(w) ==
    /\ pc[w] = "checked"
    /\ written' = fence[w]
    /\ pc' = [pc EXCEPT ![w] = "holding"]
    /\ UNCHANGED <<clock, row, now, fence>>

\* The process dies at any point; an open transaction rolls back and the row
\* stays as it is until its lease runs out.
Crash(w) ==
    /\ pc[w] # "idle"
    /\ Leave(w)
    /\ UNCHANGED <<clock, row, written>>

Tick ==
    /\ clock < MaxClock
    /\ clock' = clock + 1
    /\ UNCHANGED <<row, pc, now, fence, written>>

Next ==
    \/ \E w \in Worker :
         \/ CallAcquire(w) \/ AcquireUpdate(w) \/ AcquireInsert(w)
         \/ AcquireConflict(w) \/ Release(w) \/ Heartbeat(w)
         \/ CheckFence(w) \/ CommitWrite(w) \/ Crash(w)
    \/ Tick

Spec == Init /\ [][Next]_vars

-----------------------------------------------------------------------------
Holding(w) == pc[w] \in {"holding", "checked"}

\* However many invocations believe they hold the lane (expired leases,
\* re-entrant holder ids, crashes), the fence of at most one of them is the
\* row's: at most one AcquiredLock can pass the fence check.
OneValidFence ==
    \A v, w \in Worker :
        Holding(v) /\ Holding(w) /\ fence[v] = row.fence /\ fence[w] = row.fence
            => v = w

\* docs/01 section 6: a paused, expired-lease worker must not write after a
\* new holder has acquired the lock.  Every committed guarded write carries
\* the latest fence ever issued.
NoZombieWrite ==
    [][\A w \in Worker : CommitWrite(w) => fence[w] = row.fence]_vars

\* Writes reach the database in the order their fences were issued, also
\* across release and re-acquire: a later holder's write is never followed by
\* an earlier holder's.
WritesInFenceOrder == [][written' >= written]_vars

\* A lease is taken from another holder id only once it has run out.
NoStolenLease ==
    [][row'.holder # row.holder /\ row.fence > 0 => row.expires <= clock]_vars

Tokens == INSTANCE FencingTokens WITH issued <- row.fence, accepted <- written

\* With serialized transactions the lock row is a fencing-token service.
TokensSpec == Tokens!Spec
=============================================================================
