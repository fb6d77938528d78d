------------------------- MODULE Installation_proofs -------------------------
(***************************************************************************)
(* Proofs about the parts of an installation that share no variable.       *)
(*                                                                         *)
(* The workflow lock: typing, the safety of the fence for any number of    *)
(* workers, any lease length and any sharing of holder ids, and the        *)
(* refinement of FencingTokens when transactions are serialized.           *)
(*                                                                         *)
(* The schema: that it is what _migrations records and can be brought to   *)
(* the present, for any migrations that create each table once.            *)
(*                                                                         *)
(* The repository a project is connected to: that SQLite leaves one, and   *)
(* that what --create recorded fits the forge.                             *)
(*                                                                         *)
(* The mirror of the pull request: that it catches up with the forge.      *)
(***************************************************************************)
EXTENDS WorkflowLocks, Migrations, RepositoryLink, Webhooks, SequenceTheorems, TLAPS

-----------------------------------------------------------------------------
(* The workflow lock                                                       *)

\* The variables keep their types through every step of every worker.
THEOREM TypeCorrect == Spec => []TypeOK
<1>1. Init => TypeOK
  BY LockAssumption DEF Init, TypeOK, Row
<1>2. TypeOK /\ [Next]_vars => TypeOK'
  <2> SUFFICES ASSUME TypeOK, [Next]_vars PROVE TypeOK'
    OBVIOUS
  <2> USE LockAssumption DEF TypeOK, Row
  <2>1. ASSUME NEW w \in Worker, CallAcquire(w) PROVE TypeOK'
    BY <2>1 DEF CallAcquire
  <2>2. ASSUME NEW w \in Worker, AcquireUpdate(w) PROVE TypeOK'
    BY <2>2 DEF AcquireUpdate, Acquired, NextFence
  <2>3. ASSUME NEW w \in Worker, AcquireInsert(w) PROVE TypeOK'
    BY <2>3 DEF AcquireInsert, Acquired
  <2>4. ASSUME NEW w \in Worker, AcquireConflict(w) PROVE TypeOK'
    BY <2>4 DEF AcquireConflict, Leave
  <2>5. ASSUME NEW w \in Worker, Release(w) PROVE TypeOK'
    BY <2>5 DEF Release, ReleasedRow, Leave
  <2>6. ASSUME NEW w \in Worker, Heartbeat(w) PROVE TypeOK'
    BY <2>6 DEF Heartbeat
  <2>7. ASSUME NEW w \in Worker, CheckFence(w) PROVE TypeOK'
    BY <2>7 DEF CheckFence
  <2>8. ASSUME NEW w \in Worker, CommitWrite(w) PROVE TypeOK'
    BY <2>8 DEF CommitWrite
  <2>9. ASSUME NEW w \in Worker, Crash(w) PROVE TypeOK'
    BY <2>9 DEF Crash, Leave
  <2>10. CASE Tick
    BY <2>10 DEF Tick
  <2>11. CASE UNCHANGED vars
    BY <2>11 DEF vars
  <2> QED
    BY <2>1, <2>2, <2>3, <2>4, <2>5, <2>6, <2>7, <2>8, <2>9, <2>10, <2>11 DEF Next
<1> QED
  BY <1>1, <1>2, PTL DEF Spec

-----------------------------------------------------------------------------
\* The fences in the workers' hands were all issued, no two of them are the
\* same, and no acquire call runs ahead of the clock.
FencesInv ==
    /\ \A w \in Worker : Holding(w) => fence[w] > 0 /\ fence[w] <= row.fence
    /\ \A v, w \in Worker :
          Holding(v) /\ Holding(w) /\ fence[v] = fence[w] => v = w
    /\ \A w \in Worker : now[w] <= clock

LEMMA FencesStep == TypeOK /\ FencesInv /\ [Next]_vars => FencesInv'
<1> SUFFICES ASSUME TypeOK, FencesInv, [Next]_vars PROVE FencesInv'
  OBVIOUS
<1> USE LockAssumption DEF TypeOK, Row, FencesInv, Holding
<1>1. ASSUME NEW w \in Worker, CallAcquire(w) PROVE FencesInv'
  BY <1>1 DEF CallAcquire
<1>2. ASSUME NEW w \in Worker, AcquireUpdate(w) PROVE FencesInv'
  BY <1>2 DEF AcquireUpdate, Acquired, NextFence
<1>3. ASSUME NEW w \in Worker, AcquireInsert(w) PROVE FencesInv'
  BY <1>3 DEF AcquireInsert, Acquired
<1>4. ASSUME NEW w \in Worker, AcquireConflict(w) PROVE FencesInv'
  BY <1>4 DEF AcquireConflict, Leave
<1>5. ASSUME NEW w \in Worker, Release(w) PROVE FencesInv'
  BY <1>5 DEF Release, ReleasedRow, Leave
<1>6. ASSUME NEW w \in Worker, Heartbeat(w) PROVE FencesInv'
  BY <1>6 DEF Heartbeat
<1>7. ASSUME NEW w \in Worker, CheckFence(w) PROVE FencesInv'
  BY <1>7 DEF CheckFence
<1>8. ASSUME NEW w \in Worker, CommitWrite(w) PROVE FencesInv'
  BY <1>8 DEF CommitWrite
<1>9. ASSUME NEW w \in Worker, Crash(w) PROVE FencesInv'
  BY <1>9 DEF Crash, Leave
<1>10. CASE Tick
  BY <1>10 DEF Tick
<1>11. CASE UNCHANGED vars
  BY <1>11 DEF vars
<1> QED
  BY <1>1, <1>2, <1>3, <1>4, <1>5, <1>6, <1>7, <1>8, <1>9, <1>10, <1>11 DEF Next

LEMMA FencesInvariant == Spec => [](TypeOK /\ FencesInv)
<1>1. Init => FencesInv
  BY LockAssumption DEF Init, FencesInv, Holding
<1> QED
  BY <1>1, FencesStep, TypeCorrect, PTL DEF Spec

\* Of all the invocations that believe they hold the lane, at most one holds
\* the fence that assertLockFence accepts.
THEOREM AtMostOneValidFence == Spec => []OneValidFence
<1>1. FencesInv => OneValidFence
  BY DEF FencesInv, OneValidFence
<1> QED
  BY <1>1, FencesInvariant, PTL

\* acquire() moves the row to another holder id only after its lease ran out,
\* although it compares the expiry with a time read before its transaction.
THEOREM LeaseIsRespected == Spec => NoStolenLease
<1>1. TypeOK /\ FencesInv /\ [Next]_vars
        => [row'.holder # row.holder /\ row.fence > 0 => row.expires <= clock]_vars
  <2> SUFFICES ASSUME TypeOK, FencesInv, [Next]_vars,
                      row'.holder # row.holder, row.fence > 0
               PROVE  row.expires <= clock
    OBVIOUS
  <2>1. PICK w \in Worker : AcquireUpdate(w) \/ AcquireInsert(w)
    BY DEF Next, vars, CallAcquire, AcquireConflict, Release, ReleasedRow,
           Heartbeat, CheckFence, CommitWrite, Crash, Tick, TypeOK, Row
  <2>2. AcquireUpdate(w)
    BY <2>1 DEF AcquireInsert
  <2>3. row.expires <= now[w]
    BY <2>2 DEF AcquireUpdate, Acquired, Claimable, TypeOK, Row
  <2> QED
    BY <2>3 DEF FencesInv, TypeOK, Row
<1> QED
  BY <1>1, FencesInvariant, PTL DEF Spec, NoStolenLease

-----------------------------------------------------------------------------
\* While transactions are serialized, a transaction that has passed the fence
\* check keeps its fence the latest one until it commits; and no write has
\* carried a fence that was never issued.
CheckedInv ==
    /\ \A w \in Worker : pc[w] = "checked" => fence[w] = row.fence
    /\ written <= row.fence

LEMMA CheckedStep ==
  ASSUME Serialized
  PROVE  TypeOK /\ FencesInv /\ CheckedInv /\ [Next]_vars => CheckedInv'
<1> SUFFICES ASSUME TypeOK, FencesInv, CheckedInv, [Next]_vars
             PROVE  CheckedInv'
  OBVIOUS
<1> USE Serialized, LockAssumption DEF TypeOK, Row, CheckedInv, DbFree
<1>1. ASSUME NEW w \in Worker, CallAcquire(w) PROVE CheckedInv'
  BY <1>1 DEF CallAcquire
<1>2. ASSUME NEW w \in Worker, AcquireUpdate(w) PROVE CheckedInv'
  BY <1>2 DEF AcquireUpdate, Acquired, NextFence
<1>3. ASSUME NEW w \in Worker, AcquireInsert(w) PROVE CheckedInv'
  BY <1>3 DEF AcquireInsert, Acquired
<1>4. ASSUME NEW w \in Worker, AcquireConflict(w) PROVE CheckedInv'
  BY <1>4 DEF AcquireConflict, Leave
<1>5. ASSUME NEW w \in Worker, Release(w) PROVE CheckedInv'
  BY <1>5 DEF Release, ReleasedRow, Leave
<1>6. ASSUME NEW w \in Worker, Heartbeat(w) PROVE CheckedInv'
  BY <1>6 DEF Heartbeat
<1>7. ASSUME NEW w \in Worker, CheckFence(w) PROVE CheckedInv'
  BY <1>7 DEF CheckFence, FenceOk, Owns
<1>8. ASSUME NEW w \in Worker, CommitWrite(w) PROVE CheckedInv'
  BY <1>8 DEF CommitWrite, FencesInv, Holding
<1>9. ASSUME NEW w \in Worker, Crash(w) PROVE CheckedInv'
  BY <1>9 DEF Crash, Leave
<1>10. CASE Tick
  BY <1>10 DEF Tick
<1>11. CASE UNCHANGED vars
  BY <1>11 DEF vars
<1> QED
  BY <1>1, <1>2, <1>3, <1>4, <1>5, <1>6, <1>7, <1>8, <1>9, <1>10, <1>11 DEF Next

LEMMA CheckedInvariant ==
  ASSUME Serialized
  PROVE  Spec => [](TypeOK /\ FencesInv /\ CheckedInv)
<1>1. Init => CheckedInv
  BY LockAssumption DEF Init, CheckedInv
<1> QED
  BY <1>1, CheckedStep, FencesInvariant, PTL DEF Spec

\* The zombie double-act of docs/01 section 6 cannot happen where transactions
\* are serialized: a committed guarded write carries the latest fence.
THEOREM ZombieWritesRejected ==
  ASSUME Serialized
  PROVE  Spec => NoZombieWrite
<1>1. CheckedInv
        => [\A w \in Worker : CommitWrite(w) => fence[w] = row.fence]_vars
  BY DEF CheckedInv, CommitWrite
<1> QED
  BY <1>1, CheckedInvariant, PTL DEF NoZombieWrite

\* Guarded writes commit in the order in which their fences were issued.
THEOREM FencedWritesOrdered ==
  ASSUME Serialized
  PROVE  Spec => WritesInFenceOrder
<1>1. TypeOK /\ CheckedInv /\ [Next]_vars => [written' >= written]_vars
  <2> SUFFICES ASSUME TypeOK, CheckedInv, Next PROVE written' >= written
    BY DEF vars
  <2>1. ASSUME NEW w \in Worker, CommitWrite(w) PROVE written' >= written
    BY <2>1 DEF CommitWrite, CheckedInv, TypeOK, Row
  <2>2. CASE UNCHANGED written
    BY <2>2 DEF TypeOK
  <2> QED
    BY <2>1, <2>2 DEF Next, CallAcquire, AcquireUpdate, AcquireInsert, Acquired,
       AcquireConflict, Release, Heartbeat, CheckFence, Crash, Leave, Tick
<1> QED
  BY <1>1, CheckedInvariant, PTL DEF Spec, WritesInFenceOrder

\* The lock row with serialized transactions implements the fencing-token
\* service: acquire and an effective release issue a token, a committed write
\* is accepted with the latest one, every other step is invisible.
THEOREM ImplementsFencingTokens ==
  ASSUME Serialized
  PROVE  Spec => TokensSpec
<1>1. Init => Tokens!Init
  BY DEF Init, Tokens!Init
<1>2. TypeOK /\ FencesInv /\ CheckedInv /\ [Next]_vars
        => [Tokens!Next]_<<row.fence, written>>
  <2> SUFFICES ASSUME TypeOK, FencesInv, CheckedInv, [Next]_vars
               PROVE  [Tokens!Next]_<<row.fence, written>>
    OBVIOUS
  <2> USE DEF Tokens!Next, Tokens!Issue, Tokens!Accept, TypeOK, Row
  <2>1. ASSUME NEW w \in Worker, AcquireUpdate(w) PROVE Tokens!Issue
    BY <2>1 DEF AcquireUpdate, Acquired, NextFence
  <2>2. ASSUME NEW w \in Worker, AcquireInsert(w) PROVE Tokens!Issue
    BY <2>2 DEF AcquireInsert, Acquired
  <2>3. ASSUME NEW w \in Worker, Release(w)
        PROVE  Tokens!Issue \/ UNCHANGED <<row.fence, written>>
    BY <2>3 DEF Release, ReleasedRow
  <2>4. ASSUME NEW w \in Worker, CommitWrite(w) PROVE Tokens!Accept
    BY <2>4 DEF CommitWrite, CheckedInv, FencesInv, Holding
  <2>5. ASSUME NEW w \in Worker,
               CallAcquire(w) \/ AcquireConflict(w) \/ Heartbeat(w)
                 \/ CheckFence(w) \/ Crash(w)
        PROVE  UNCHANGED <<row.fence, written>>
    BY <2>5 DEF CallAcquire, AcquireConflict, Heartbeat, CheckFence, Crash
  <2>6. CASE Tick \/ UNCHANGED vars
    BY <2>6 DEF Tick, vars
  <2> QED
    BY <2>1, <2>2, <2>3, <2>4, <2>5, <2>6 DEF Next
<1> QED
  BY <1>1, <1>2, CheckedInvariant, PTL DEF Spec, TokensSpec, Tokens!Spec

-----------------------------------------------------------------------------
(* The schema and its record (Migrations)                                  *)

LEMMA InMade ==
    ASSUME NEW R, NEW table
    PROVE  table \in Made(R) <=> /\ \E m \in R : table \in Creates[m]
                               /\ \A m \in R : table \notin Removes[m]
  BY DEF Made

\* What a step of the files does to the tables they account for.
LEMMA MadeNext ==
    ASSUME NEW n \in 0 .. Last, n < Last
    PROVE  /\ n + 1 \in Migration
           /\ Made(1 .. n + 1) = (Made(1 .. n) \ Removes[n + 1]) \cup Creates[n + 1]
           /\ Creates[n + 1] \cap Made(1 .. n) = {}
           /\ Removes[n + 1] \subseteq Made(1 .. n)
<1>1. n + 1 \in Migration /\ n + 1 - 1 = n /\ 1 .. n \subseteq Migration
  BY MigrationsAssumption DEF Migration
<1>2. 1 .. n + 1 = (1 .. n) \cup {n + 1} /\ n + 1 \notin 1 .. n
  OBVIOUS
<1>3. Removes[n + 1] \subseteq Made(1 .. n)
  <2>1. Removes[n + 1] \subseteq Made(1 .. n + 1 - 1)
    BY <1>1, MigrationFilesAssumption
  <2> QED
    BY <1>1, <2>1
<1>4. \A m \in 1 .. n : Creates[n + 1] \cap Creates[m] = {}
  BY <1>1, <1>2, MigrationFilesAssumption
<1>5. Creates[n + 1] \cap Made(1 .. n) = {}
  BY <1>4 DEF Made
<1>6. \A m \in 1 .. n + 1 : Creates[n + 1] \cap Removes[m] = {}
  <2>1. SUFFICES ASSUME NEW m \in 1 .. n + 1 PROVE Creates[n + 1] \cap Removes[m] = {}
    OBVIOUS
  <2>2. m \in Migration /\ 1 .. m - 1 \subseteq 1 .. n
    BY <1>1, MigrationsAssumption DEF Migration
  <2>3. Removes[m] \subseteq Made(1 .. m - 1)
    BY <2>2, MigrationFilesAssumption
  <2> QED
    BY <1>4, <2>2, <2>3 DEF Made
<1>7. ASSUME NEW table
      PROVE  table \in Made(1 .. n + 1)
                 <=> table \in (Made(1 .. n) \ Removes[n + 1]) \cup Creates[n + 1]
  <2>1. (\E m \in 1 .. n + 1 : table \in Creates[m])
            <=> (\E m \in 1 .. n : table \in Creates[m]) \/ table \in Creates[n + 1]
    BY <1>2
  <2>2. (\A m \in 1 .. n + 1 : table \notin Removes[m])
            <=> (\A m \in 1 .. n : table \notin Removes[m]) /\ table \notin Removes[n + 1]
    BY <1>2
  <2>3. table \in Creates[n + 1] => \A m \in 1 .. n + 1 : table \notin Removes[m]
    BY <1>6
  <2> QED
    BY <2>1, <2>2, <2>3, InMade
<1>8. Made(1 .. n + 1) = (Made(1 .. n) \ Removes[n + 1]) \cup Creates[n + 1]
  BY <1>7
<1> QED
  BY <1>1, <1>3, <1>5, <1>8

LEMMA MadeLater ==
    ASSUME NEW n \in 0 .. Last, NEW k \in Migration, n < k
    PROVE  Creates[k] \cap Made(1 .. n) = {}
<1>1. \A m \in 1 .. n : m \in Migration /\ m # k
  BY MigrationsAssumption DEF Migration
<1> QED
  BY <1>1, MigrationFilesAssumption DEF Made

LEMMA LeastMissing ==
    ASSUME NEW n \in 0 .. Last, 1 .. n # Migration
    PROVE  n < Last /\ Least(Migration \ (1 .. n)) = n + 1
<1>1. n < Last
  BY MigrationsAssumption DEF Migration
<1> DEFINE S == Migration \ (1 .. n)
<1>2. n + 1 \in S /\ \A m \in S : n + 1 <= m /\ m \in Int
  BY <1>1, MigrationsAssumption DEF Migration
<1> HIDE DEF S
<1>3. \A x \in S : (\A m \in S : x <= m) => x = n + 1
  BY <1>2
<1>4. Least(S) = n + 1
  BY <1>2, <1>3 DEF Least
<1> QED
  BY <1>1, <1>4 DEF S

LEMMA NewestOfPrefix ==
    ASSUME NEW n \in 1 .. Last
    PROVE  Newest(1 .. n) = n
<1> DEFINE S == 1 .. n
<1>1. n \in S /\ \A m \in S : m <= n /\ m \in Int
  BY MigrationsAssumption
<1> HIDE DEF S
<1>2. \A x \in S : (\A m \in S : m <= x) => x = n
  BY <1>1, MigrationsAssumption
<1>3. Newest(S) = n
  BY <1>1, <1>2 DEF Newest
<1> QED
  BY <1>3 DEF S

-----------------------------------------------------------------------------
\* The tables of t are those of its first n migrations: of the tables that
\* EXPECTED_TABLES knows none is too many, none is missing unless a reset was torn, and
\* in PostgreSQL there are no others.
TablesFit(t, n) ==
    /\ tables[t] \cap Expected \subseteq Made(1 .. n)
    /\ t \notin torn => Made(1 .. n) \cap Expected \subseteq tables[t]
    /\ t \in Postgres => tables[t] = Made(1 .. n)

TargetFits(t) == \E n \in 0 .. Last : recorded[t] = 1 .. n /\ TablesFit(t, n)

\* What a reset in SQLite has dropped so far, in a database that only it changes.
Dropped(t, n) ==
    /\ n \in 0 .. Len(DropOrder) /\ (n > 0 => t \in torn)
    /\ \A i \in 1 .. n : DropOrder[i] \notin tables[t]

\* What a command knows of its database: one that migrates has read no migration that is
\* not recorded, and one that rolls back all that are.
CommandFits(c) ==
    /\ c.at \in {"consume", "drop"} => c.cmd = "reset"
    /\ c.at = "consume" => c.dropped = 0
    /\ c.at = "drop" /\ c.on \notin Postgres => Dropped(c.on, c.dropped)
    /\ c.at = "apply" =>
          /\ c.cmd # "rollback"
          /\ \E k \in 0 .. Last : c.known = 1 .. k /\ 1 .. k \subseteq recorded[c.on]
    /\ c.at = "undo" =>
          /\ c.cmd = "rollback"
          /\ \E k \in 1 .. Last : c.known = 1 .. k /\ recorded[c.on] \subseteq 1 .. k

Compatible(c, d) == c.on = d.on => c.cmd = d.cmd /\ c.cmd # "reset"

SchemaInv ==
    /\ SchemaTypeOK
    /\ \A t \in Target : TargetFits(t)
    /\ \A p \in Process : proc[p] # NoCommand => CommandFits(proc[p])
    /\ \A p, q \in Process :
          p # q /\ proc[p] # NoCommand /\ proc[q] # NoCommand => Compatible(proc[p], proc[q])

LEMMA InitSchema == SchemaInit => SchemaInv
<1> SUFFICES ASSUME SchemaInit PROVE SchemaInv
  OBVIOUS
<1>1. SchemaTypeOK
  <2>1. NoFile \in [token : 0 .. MaxPreviews, fresh : BOOLEAN]
    BY MigrationsAssumption DEF NoFile, Nothing
  <2>2. <<>> \in Seq(Target)
    OBVIOUS
  <2> QED
    BY <2>1, <2>2 DEF SchemaInit, SchemaTypeOK
<1>2. ASSUME NEW t \in Target PROVE TargetFits(t)
  <2>1. 0 \in 0 .. Last /\ 1 .. 0 = {}
    BY MigrationsAssumption
  <2>2. Made({}) = {}
    BY DEF Made
  <2> QED
    BY <2>1, <2>2 DEF SchemaInit, TargetFits, TablesFit
<1> QED
  BY <1>1, <1>2 DEF SchemaInv, SchemaInit

-----------------------------------------------------------------------------
SameSchema(t) ==
    tables'[t] = tables[t] /\ recorded'[t] = recorded[t] /\ (t \in torn' <=> t \in torn)

SchemaTypes ==
    /\ tables \in [Target -> SUBSET Table]
    /\ journal \subseteq Target /\ torn \subseteq Target
    /\ recorded \in [Target -> SUBSET Migration]

LEMMA SameFits ==
    ASSUME NEW t, SameSchema(t)
    PROVE  /\ TargetFits(t) => TargetFits(t)'
           /\ \A c : c.on = t /\ CommandFits(c) => CommandFits(c)'
  BY DEF SameSchema, TargetFits, TablesFit, CommandFits, Dropped

LEMMA CommandTyped ==
    ASSUME SchemaTypeOK, NEW p \in Process, proc[p] # NoCommand
    PROVE  proc[p] \in Command /\ proc[p].on \in Target
  BY DEF SchemaTypeOK, Command

LEMMA ProceedIs ==
    ASSUME SchemaTypeOK, NEW p \in Process, NEW c \in Command \cup {NoCommand}, Proceed(p, c)
    PROVE  /\ proc' \in [Process -> Command \cup {NoCommand}]
           /\ proc'[p] = c /\ \A q \in Process \ {p} : proc'[q] = proc[q]
  BY DEF SchemaTypeOK, Proceed

\* The step of a process that is alone with its kind of command: what it does to the
\* record is what the others of this kind expect.
LEMMA OthersFit ==
    ASSUME SchemaInv, NEW p \in Process, NEW q \in Process, p # q,
           proc[p] # NoCommand, proc[q] # NoCommand, proc[q].on = proc[p].on,
           proc[p].cmd = "migrate" => recorded[proc[p].on] \subseteq recorded'[proc[p].on],
           proc[p].cmd = "rollback" => recorded'[proc[p].on] \subseteq recorded[proc[p].on]
    PROVE  \A c : c = proc[q] => CommandFits(c)'
<1> SUFFICES ASSUME NEW c, c = proc[q] PROVE CommandFits(c)'
  OBVIOUS
<1>1. CommandFits(c) /\ c.cmd = proc[p].cmd /\ c.cmd # "reset" /\ c \in Command
  BY CommandTyped DEF SchemaInv, Compatible
<1>2. CASE c.cmd = "migrate"
  BY <1>1, <1>2 DEF CommandFits
<1>3. CASE c.cmd = "rollback"
  BY <1>1, <1>3 DEF CommandFits
<1> QED
  BY <1>1, <1>2, <1>3 DEF Command

\* A step of process p in database t, after which p runs c.
LEMMA StepFits ==
    ASSUME SchemaInv, NEW p \in Process, NEW t \in Target,
           NEW c \in Command \cup {NoCommand}, Proceed(p, c),
           SchemaTypes', \A u \in Target \ {t} : SameSchema(u), TargetFits(t)',
           pending' \in [token : 0 .. MaxPreviews, fresh : BOOLEAN], previews' \in Seq(Target),
           c # NoCommand => c.on = t /\ CommandFits(c)',
           \A q \in Process \ {p} : proc[q] # NoCommand /\ c # NoCommand => Compatible(c, proc[q]),
           \A q \in Process \ {p} : proc[q] # NoCommand /\ proc[q].on = t =>
               \A d : d = proc[q] => CommandFits(d)'
    PROVE  SchemaInv'
<1>1. SchemaTypeOK
  BY DEF SchemaInv
<1>2. /\ proc' \in [Process -> Command \cup {NoCommand}]
      /\ proc'[p] = c /\ \A q \in Process \ {p} : proc'[q] = proc[q]
  BY <1>1, ProceedIs
<1>3. SchemaTypeOK'
  BY <1>2 DEF SchemaTypes, SchemaTypeOK
<1>4. ASSUME NEW u \in Target PROVE TargetFits(u)'
  BY SameFits DEF SchemaInv
<1>5. ASSUME NEW q \in Process, proc'[q] # NoCommand PROVE CommandFits(proc[q])'
  <2>1. PICK d : d = proc'[q]
    OBVIOUS
  <2>2. CommandFits(d)'
    <3>1. CASE q = p
      BY <1>2, <1>5, <2>1, <3>1
    <3>2. CASE q # p
      <4>1. d = proc[q] /\ d # NoCommand /\ CommandFits(d) /\ d.on \in Target
        BY <1>1, <1>2, <1>5, <2>1, <3>2, CommandTyped DEF SchemaInv
      <4>2. CASE d.on = t
        BY <3>2, <4>1, <4>2
      <4>3. CASE d.on # t
        <5>1. PICK u \in Target : u = d.on /\ SameSchema(u)
          BY <4>1, <4>3
        <5> QED
          BY <4>1, <5>1, SameFits
      <4> QED
        BY <4>2, <4>3
    <3> QED
      BY <3>1, <3>2
  <2> QED
    BY <2>1, <2>2
<1>6. ASSUME NEW q \in Process, NEW r \in Process, q # r,
             proc'[q] # NoCommand, proc'[r] # NoCommand
      PROVE  Compatible(proc'[q], proc'[r])
  <2>1. CASE q # p /\ r # p
    BY <1>2, <1>6, <2>1 DEF SchemaInv
  <2>2. CASE q = p
    BY <1>2, <1>6, <2>2
  <2>3. CASE r = p
    BY <1>2, <1>6, <2>3 DEF Compatible
  <2> QED
    BY <2>1, <2>2, <2>3
<1> QED
  BY <1>3, <1>4, <1>5, <1>6 DEF SchemaInv

-----------------------------------------------------------------------------
\* What SchemaInv says of a process that runs, and of the tables and the token.
LEMMA Facts ==
    ASSUME SchemaInv
    PROVE  /\ SchemaTypeOK /\ SchemaTypes
           /\ pending \in [token : 0 .. MaxPreviews, fresh : BOOLEAN] /\ previews \in Seq(Target)
           /\ \A t \in Target : TargetFits(t)
  BY DEF SchemaInv, SchemaTypeOK, SchemaTypes

\* A process that runs goes on with a command of the same kind, in the same database.
SameCommand(c, d) == d \in Command /\ d.on = c.on /\ d.cmd = c.cmd

\* A step of a process that runs: it changes its own database, where the others of its
\* kind find what they expect.
LEMMA RunsOn ==
    ASSUME SchemaInv, NEW p \in Process, NEW c \in Command, c = proc[p],
           NEW d \in Command \cup {NoCommand}, Proceed(p, d),
           d # NoCommand => SameCommand(c, d) /\ CommandFits(d)',
           SchemaTypes', \A u \in Target \ {c.on} : SameSchema(u), TargetFits(c.on)',
           pending' \in [token : 0 .. MaxPreviews, fresh : BOOLEAN], previews' \in Seq(Target),
           c.cmd = "migrate" => recorded[c.on] \subseteq recorded'[c.on],
           c.cmd = "rollback" => recorded'[c.on] \subseteq recorded[c.on]
    PROVE  SchemaInv'
<1>1. c # NoCommand /\ c.on \in Target
  BY DEF Command, NoCommand
<1>2. PICK t \in Target : t = c.on
  BY <1>1
<1>3. d # NoCommand => d.on = t /\ CommandFits(d)'
  BY <1>2 DEF SameCommand
<1>4. ASSUME NEW q \in Process \ {p}, proc[q] # NoCommand, d # NoCommand
      PROVE  Compatible(d, proc[q])
  BY <1>1, <1>4 DEF SchemaInv, Compatible, SameCommand
<1>5. ASSUME NEW q \in Process \ {p}, proc[q] # NoCommand, proc[q].on = t
      PROVE  \A e : e = proc[q] => CommandFits(e)'
  BY <1>1, <1>2, <1>5, OthersFit
<1>6. \A u \in Target \ {t} : SameSchema(u)
  BY <1>2
<1>7. TargetFits(t)'
  <2>1. \A u : u = c.on /\ TargetFits(c.on)' => TargetFits(u)'
    BY DEF TargetFits, TablesFit
  <2> QED
    BY <1>2, <2>1
<1> QED
  BY <1>2, <1>3, <1>4, <1>5, <1>6, <1>7, StepFits

\* A step that changes no schema.
LEMMA SchemaStays ==
    ASSUME SchemaInv, UNCHANGED schema
    PROVE  /\ SchemaTypes' /\ \A u : SameSchema(u)
           /\ \A t \in Target : TargetFits(t)'
           /\ \A c : CommandFits(c) => CommandFits(c)'
<1>1. /\ tables' = tables /\ journal' = journal /\ recorded' = recorded /\ torn' = torn
  BY DEF schema
<1>2. SchemaTypes' /\ \A u : SameSchema(u)
  BY <1>1, Facts DEF SchemaTypes, SameSchema
<1>3. \A t \in Target : TargetFits(t)'
  BY <1>2, SameFits, Facts
<1>4. \A c : CommandFits(c) => CommandFits(c)'
  BY <1>2, SameFits
<1> QED
  BY <1>2, <1>3, <1>4

LEMMA RunsQuietly ==
    ASSUME SchemaInv, UNCHANGED schema, NEW p \in Process, NEW c \in Command, c = proc[p],
           NEW d \in Command \cup {NoCommand}, Proceed(p, d),
           d # NoCommand => SameCommand(c, d) /\ CommandFits(d),
           pending' \in [token : 0 .. MaxPreviews, fresh : BOOLEAN], previews' \in Seq(Target)
    PROVE  SchemaInv'
<1>1. /\ SchemaTypes' /\ \A u : SameSchema(u)
      /\ \A t \in Target : TargetFits(t)'
      /\ CommandFits(d) => CommandFits(d)'
  BY SchemaStays
<1>2. c.on \in Target
  BY DEF Command
<1>3. TargetFits(c.on)'
  <2>1. PICK t \in Target : t = c.on
    BY <1>2
  <2>2. \A u : u = t /\ TargetFits(t)' => TargetFits(u)'
    BY DEF TargetFits, TablesFit
  <2>3. SameSchema(c.on) /\ TargetFits(c.on)
    BY <1>1, <1>2, Facts
  <2> QED
    BY <2>3 DEF SameSchema, TargetFits, TablesFit
<1>4. recorded' = recorded
  BY DEF schema
<1> QED
  BY <1>1, <1>3, <1>4, RunsOn

\* A new command has done nothing yet, and finds no other kind beside it.
LEMMA BeginStep ==
    ASSUME SchemaInv, NEW p \in Process, NEW t \in Target,
           NEW cmd \in {"migrate", "rollback", "reset"}, NEW step \in {"ensure", "consume"},
           step = "consume" <=> cmd = "reset", NEW k \in Nat,
           BeginCommand(p, t, cmd, step, k), UNCHANGED <<schema, tokens>>,
           Only(IF cmd = "reset" THEN {} ELSE {cmd}, t)
    PROVE  SchemaInv'
<1> DEFINE c == [at |-> step, cmd |-> cmd, on |-> t, known |-> {}, token |-> k, dropped |-> 0]
<1>1. c \in Command /\ c.at = step /\ c.cmd = cmd /\ c.on = t /\ c.dropped = 0
  BY DEF Command
<1>2. Proceed(p, c) /\ proc[p] = NoCommand
  BY DEF BeginCommand
<1> HIDE DEF c
<1>3. CommandFits(c)
  BY <1>1 DEF CommandFits
<1>4. ASSUME NEW q \in Process \ {p}, proc[q] # NoCommand PROVE Compatible(c, proc[q])
  BY <1>1, <1>4 DEF Compatible, Only, On
<1>5. /\ SchemaTypes' /\ \A u : SameSchema(u) /\ TargetFits(t)'
      /\ \A e : CommandFits(e) => CommandFits(e)'
  BY SchemaStays
<1>6. ASSUME NEW q \in Process \ {p}, proc[q] # NoCommand
      PROVE  \A e : e = proc[q] => CommandFits(e)'
  BY <1>5, <1>6 DEF SchemaInv
<1>7. pending' = pending /\ previews' = previews
  BY DEF tokens
<1>8. c # NoCommand => c.on = t /\ CommandFits(c)'
  BY <1>1, <1>3, <1>5
<1> QED
  BY <1>1, <1>2, <1>4, <1>5, <1>6, <1>7, <1>8, Facts, StepFits

\* The step of a process that runs on with another field or two.
LEMMA NextCommand ==
    ASSUME NEW c \in Command, NEW step \in {"ensure", "list", "apply", "undo", "consume", "drop"},
           NEW K \in SUBSET Migration, NEW n \in Nat
    PROVE  /\ [c EXCEPT !.at = step] \in Command
           /\ [c EXCEPT !.at = step, !.known = K] \in Command
           /\ [c EXCEPT !.known = K] \in Command
           /\ [c EXCEPT !.dropped = n] \in Command
  BY DEF Command

LEMMA CommandRuns ==
    ASSUME SchemaInv, NEW p \in Process, proc[p] # NoCommand
    PROVE  \E c \in Command : c = proc[p] /\ c.on \in Target /\ CommandFits(c)
  BY CommandTyped DEF SchemaInv

LEMMA EnsureStep ==
    ASSUME SchemaInv, NEW p \in Process, EnsureMigrationsTable(p)
    PROVE  SchemaInv'
<1>1. PICK c \in Command : c = proc[p] /\ c.on \in Target /\ CommandFits(c)
  BY CommandRuns DEF EnsureMigrationsTable, InStep
<1> DEFINE d == [c EXCEPT !.at = "list"]
<1>2. d \in Command /\ SameCommand(c, d) /\ d.at = "list" /\ Proceed(p, d)
  BY <1>1 DEF Command, SameCommand, EnsureMigrationsTable, GoTo
<1> HIDE DEF d
<1>3. /\ tables' = tables /\ recorded' = recorded /\ torn' = torn
      /\ journal' = journal \cup {c.on} /\ pending' = pending /\ previews' = previews
  BY <1>1 DEF EnsureMigrationsTable, tokens
<1>4. SchemaTypes' /\ \A u : SameSchema(u)
  BY <1>1, <1>3, Facts DEF SchemaTypes, SameSchema
<1>5. TargetFits(c.on)'
  BY <1>1, <1>3, Facts DEF TargetFits, TablesFit
<1>6. CommandFits(d)'
  BY <1>2 DEF CommandFits
<1> QED
  BY <1>1, <1>2, <1>3, <1>4, <1>5, <1>6, Facts, RunsOn

LEMMA GetAppliedStep ==
    ASSUME SchemaInv, NEW p \in Process, GetApplied(p)
    PROVE  SchemaInv'
<1>1. PICK c \in Command : c = proc[p] /\ c.on \in Target /\ CommandFits(c)
  BY CommandRuns DEF GetApplied, InStep
<1>2. PICK n \in 0 .. Last : recorded[c.on] = 1 .. n
  BY <1>1, Facts DEF TargetFits
<1>3. 1 .. n \in SUBSET Migration
  BY <1>2, MigrationsAssumption DEF Migration
<1>4. UNCHANGED schema /\ pending' = pending /\ previews' = previews
  BY DEF GetApplied, tokens
<1>5. CASE c.cmd # "rollback" /\ Proceed(p, [c EXCEPT !.at = "apply", !.known = 1 .. n])
  <2> DEFINE d == [c EXCEPT !.at = "apply", !.known = 1 .. n]
  <2>1. /\ d \in Command /\ SameCommand(c, d) /\ d.at = "apply" /\ d.known = 1 .. n
        /\ Proceed(p, d)
    BY <1>3, <1>5 DEF Command, SameCommand
  <2> HIDE DEF d
  <2>2. CommandFits(d)
    BY <1>2, <1>5, <2>1 DEF CommandFits, SameCommand
  <2> QED
    BY <1>1, <1>4, <2>1, <2>2, Facts, RunsQuietly
<1>6. CASE /\ c.cmd = "rollback" /\ 1 .. n # {}
           /\ Proceed(p, [c EXCEPT !.at = "undo", !.known = 1 .. n])
  <2> DEFINE d == [c EXCEPT !.at = "undo", !.known = 1 .. n]
  <2>1. /\ d \in Command /\ SameCommand(c, d) /\ d.at = "undo" /\ d.known = 1 .. n
        /\ Proceed(p, d)
    BY <1>3, <1>6 DEF Command, SameCommand
  <2> HIDE DEF d
  <2>2. n \in 1 .. Last
    BY <1>6, MigrationsAssumption
  <2>3. CommandFits(d)
    BY <1>2, <1>6, <2>1, <2>2 DEF CommandFits, SameCommand
  <2> QED
    BY <1>1, <1>4, <2>1, <2>3, Facts, RunsQuietly
<1>7. CASE Proceed(p, NoCommand)
  BY <1>1, <1>4, <1>7, Facts, RunsQuietly
<1> QED
  BY <1>1, <1>2, <1>5, <1>6, <1>7 DEF GetApplied

\* Of the tables that EXPECTED_TABLES knows a migration adds what it should.
LEMMA ApplyStep ==
    ASSUME SchemaInv, NEW p \in Process, Apply(p)
    PROVE  SchemaInv'
<1>1. PICK c \in Command : c = proc[p] /\ c.on \in Target /\ CommandFits(c)
  BY CommandRuns DEF Apply, InStep
<1>2. PICK k \in 0 .. Last : c.known = 1 .. k /\ 1 .. k \subseteq recorded[c.on] /\ c.cmd # "rollback"
  BY <1>1 DEF Apply, InStep, CommandFits
<1>3. pending' = pending /\ previews' = previews
  BY DEF Apply, tokens
<1>4. CASE Proceed(p, NoCommand) /\ UNCHANGED schema
  BY <1>1, <1>3, <1>4, Facts, RunsQuietly
<1>5. ASSUME 1 .. k # Migration,
             k + 1 \notin recorded[c.on], CanApply(k + 1, c.on),
             tables' = [tables EXCEPT ![c.on] = (@ \ Removes[k + 1]) \cup Creates[k + 1]],
             recorded' = [recorded EXCEPT ![c.on] = @ \cup {k + 1}],
             Proceed(p, [c EXCEPT !.known = @ \cup {k + 1}]),
             UNCHANGED <<journal, torn>>
      PROVE  SchemaInv'
  <2>1. PICK t \in Target : t = c.on
    BY <1>1
  <2>2. PICK n \in 0 .. Last : recorded[t] = 1 .. n /\ TablesFit(t, n)
    BY Facts DEF TargetFits
  <2>3. k < Last /\ n = k
    <3>1. k < Last
      BY <1>5, LeastMissing
    <3>2. 1 .. k \subseteq 1 .. n /\ k + 1 \notin 1 .. n
      BY <1>2, <1>5, <2>1, <2>2
    <3>3. k \in Nat /\ n \in Nat /\ (k # 0 => k \in 1 .. k)
      BY MigrationsAssumption
    <3> QED
      BY <3>1, <3>2, <3>3
  <2>4. /\ n + 1 \in Migration /\ n + 1 \in 0 .. Last /\ 1 .. n + 1 = (1 .. n) \cup {n + 1}
        /\ Made(1 .. n + 1) = (Made(1 .. n) \ Removes[n + 1]) \cup Creates[n + 1]
    <3>1. n < Last /\ n + 1 \in 0 .. Last /\ 1 .. n + 1 = (1 .. n) \cup {n + 1}
      BY <2>3, MigrationsAssumption
    <3> QED
      BY <3>1, MadeNext
  <2>5. /\ tables'[t] = (tables[t] \ Removes[n + 1]) \cup Creates[n + 1]
        /\ recorded'[t] = 1 .. n + 1 /\ torn' = torn
        /\ \A u \in Target \ {t} : tables'[u] = tables[u] /\ recorded'[u] = recorded[u]
    BY <1>5, <2>1, <2>2, <2>3, <2>4, Facts DEF SchemaTypes
  <2>6. SchemaTypes'
    <3>1. Creates[n + 1] \subseteq Table
      BY <2>4, MigrationsAssumption
    <3> QED
      BY <1>5, <2>1, <2>3, <2>4, <3>1, Facts DEF SchemaTypes
  <2>7. \A u \in Target \ {t} : SameSchema(u)
    BY <2>5 DEF SameSchema
  <2>8. TablesFit(t, n + 1)'
    BY <2>2, <2>4, <2>5 DEF TablesFit
  <2>9. TargetFits(t)'
    BY <2>4, <2>5, <2>8 DEF TargetFits
  <2> DEFINE d == [c EXCEPT !.known = @ \cup {k + 1}]
  <2>10. /\ d \in Command /\ SameCommand(c, d) /\ d.at = "apply" /\ d.known = 1 .. n + 1
         /\ Proceed(p, d)
    BY <1>1, <1>2, <1>5, <2>3, <2>4, Zenon DEF Command, SameCommand, Apply, InStep
  <2> HIDE DEF d
  <2>11. CommandFits(d)'
    BY <1>2, <2>1, <2>4, <2>5, <2>10 DEF CommandFits, SameCommand
  <2>12. recorded[c.on] \subseteq recorded'[c.on] /\ \A u \in Target \ {c.on} : SameSchema(u)
    BY <2>1, <2>2, <2>4, <2>5, <2>7
  <2>13. TargetFits(c.on)'
    BY <2>1, <2>9 DEF TargetFits, TablesFit
  <2> QED
    BY <1>1, <1>2, <1>3, <2>6, <2>10, <2>11, <2>12, <2>13, Facts, RunsOn
<1>6. CASE 1 .. k = Migration
  BY <1>1, <1>2, <1>4, <1>6 DEF Apply
<1>7. CASE 1 .. k # Migration
  <2>1. k + 1 = Least(Migration \ (1 .. k)) /\ Migration \ (1 .. k) # {}
    <3>1. k < Last /\ Least(Migration \ (1 .. k)) = k + 1
      BY <1>7, LeastMissing
    <3>2. k + 1 \in Migration \ (1 .. k)
      BY <3>1, MigrationsAssumption DEF Migration
    <3> QED
      BY <3>1, <3>2
  <2> QED
    BY <1>1, <1>2, <1>5, <1>7, <2>1 DEF Apply
<1> QED
  BY <1>6, <1>7

\* A migration that is taken back while it is the newest takes away what it added; one
\* that another process has taken back in the meantime finds nothing, or fails.
LEMMA UndoStep ==
    ASSUME SchemaInv, NEW p \in Process, Undo(p)
    PROVE  SchemaInv'
<1>1. PICK c \in Command : c = proc[p] /\ c.on \in Target /\ CommandFits(c)
  BY CommandRuns DEF Undo, InStep
<1>2. PICK k \in 1 .. Last :
          c.known = 1 .. k /\ recorded[c.on] \subseteq 1 .. k /\ c.cmd = "rollback"
  BY <1>1 DEF Undo, InStep, CommandFits
<1>3. PICK t \in Target : t = c.on
  BY <1>1
<1>4. Newest(c.known) = k
  BY <1>2, NewestOfPrefix
<1>5. /\ CanUndo(k, t)
      /\ tables' = [tables EXCEPT ![t] = (@ \ Creates[k]) \cup Removes[k]]
      /\ recorded' = [recorded EXCEPT ![t] = @ \ {k}]
      /\ Proceed(p, NoCommand) /\ UNCHANGED <<journal, torn, pending, previews>>
  BY <1>1, <1>3, <1>4 DEF Undo, tokens
<1>6. PICK n \in 0 .. Last : recorded[t] = 1 .. n /\ TablesFit(t, n)
  BY Facts DEF TargetFits
<1>7. k \in Migration /\ k \in Nat /\ n \in Nat /\ n <= k
  <2>1. 1 .. n \subseteq 1 .. k /\ (n # 0 => n \in 1 .. n)
    BY <1>2, <1>3, <1>6, MigrationsAssumption
  <2> QED
    BY <2>1, MigrationsAssumption DEF Migration
<1>8. /\ tables'[t] = (tables[t] \ Creates[k]) \cup Removes[k]
      /\ recorded'[t] = (1 .. n) \ {k} /\ torn' = torn
      /\ \A u \in Target \ {t} : tables'[u] = tables[u] /\ recorded'[u] = recorded[u]
  BY <1>5, <1>6, Facts DEF SchemaTypes
<1>9. SchemaTypes'
  <2>1. Removes[k] \subseteq Table
    BY <1>7, MigrationsAssumption
  <2> QED
    BY <1>5, <2>1, Facts DEF SchemaTypes
<1>10. TargetFits(t)'
  <2>1. CASE n = k
    <3>1. PICK m \in 0 .. Last : m + 1 = k /\ m < Last
      BY MigrationsAssumption
    <3>2. /\ Made(1 .. k) = (Made(1 .. m) \ Removes[k]) \cup Creates[k]
          /\ Creates[k] \cap Made(1 .. m) = {}
          /\ Removes[k] \subseteq Made(1 .. m)
      BY <3>1, MadeNext
    <3>3. (1 .. n) \ {k} = 1 .. m
      BY <2>1, <3>1
    <3>4. TablesFit(t, m)'
      BY <1>6, <1>8, <2>1, <3>2 DEF TablesFit
    <3> QED
      BY <1>8, <3>3, <3>4 DEF TargetFits
  <2>2. CASE n # k
    <3>1. n < k /\ k \notin 1 .. n
      BY <1>7, <2>2
    <3>2. Creates[k] \cap Made(1 .. n) = {}
      BY <1>7, <3>1, MadeLater
    <3>3. Removes[k] = {}
      <4>1. SUFFICES ASSUME Removes[k] # {} PROVE FALSE
        OBVIOUS
      <4>2. Creates[k] \cap Expected # {} /\ Creates[k] \subseteq tables[t]
        BY <1>5, <1>7, <4>1, MigrationFilesAssumption DEF CanUndo
      <4> QED
        BY <1>6, <3>2, <4>2 DEF TablesFit
    <3>4. tables'[t] = tables[t] \ Creates[k]
      BY <1>8, <3>3
    <3>5. TablesFit(t, n)'
      BY <1>6, <1>8, <3>2, <3>4 DEF TablesFit
    <3>6. recorded'[t] = 1 .. n
      BY <1>8, <3>1
    <3> QED
      BY <3>5, <3>6 DEF TargetFits
  <2> QED
    BY <2>1, <2>2
<1>11. /\ recorded'[c.on] \subseteq recorded[c.on] /\ \A u \in Target \ {c.on} : SameSchema(u)
       /\ TargetFits(c.on)'
  BY <1>3, <1>6, <1>8, <1>10 DEF SameSchema, TargetFits, TablesFit
<1>12. pending' = pending /\ previews' = previews
  BY <1>5
<1> QED
  BY <1>1, <1>2, <1>5, <1>9, <1>11, <1>12, Facts, RunsOn

LEMMA ConsumeStep ==
    ASSUME SchemaInv, NEW p \in Process, ConsumeToken(p)
    PROVE  SchemaInv'
<1>1. PICK c \in Command : c = proc[p] /\ c.on \in Target /\ CommandFits(c)
  BY CommandRuns DEF ConsumeToken, InStep
<1> DEFINE d == [c EXCEPT !.at = "drop"]
<1>2. /\ d \in Command /\ SameCommand(c, d) /\ d.at = "drop" /\ d.cmd = "reset"
      /\ d.dropped = 0 /\ Proceed(p, d)
  BY <1>1 DEF Command, SameCommand, ConsumeToken, GoTo, InStep, CommandFits
<1> HIDE DEF d
<1>3. CommandFits(d)
  <2>1. Len(DropOrder) \in Nat
    BY MigrationsAssumption, LenProperties
  <2> QED
    BY <1>2, <2>1 DEF CommandFits, Dropped
<1>4. pending' \in [token : 0 .. MaxPreviews, fresh : BOOLEAN] /\ previews' = previews
  BY MigrationsAssumption DEF ConsumeToken, NoFile, Nothing
<1>5. UNCHANGED schema
  BY DEF ConsumeToken
<1> QED
  BY <1>1, <1>2, <1>3, <1>4, <1>5, Facts, RunsQuietly

LEMMA PgResetStep ==
    ASSUME SchemaInv, NEW p \in Process, PgReset(p)
    PROVE  SchemaInv'
<1>1. PICK c \in Command : c = proc[p] /\ c.on \in Target /\ CommandFits(c)
  BY CommandRuns DEF PgReset, InStep
<1>2. PICK t \in Target : t = c.on
  BY <1>1
<1>3. /\ tables[t] \subseteq Expected /\ c.cmd = "reset" /\ c.at = "drop"
      /\ tables' = [tables EXCEPT ![t] = @ \ Expected]
      /\ recorded' = [recorded EXCEPT ![t] = {}]
      /\ journal' = journal \ {t} /\ UNCHANGED <<torn, pending, previews>>
  BY <1>1, <1>2 DEF PgReset, InStep, Referred, CommandFits, tokens
<1>4. /\ tables'[t] = {} /\ recorded'[t] = {} /\ torn' = torn
      /\ \A u \in Target \ {t} : tables'[u] = tables[u] /\ recorded'[u] = recorded[u]
  BY <1>3, Facts DEF SchemaTypes
<1>5. SchemaTypes'
  BY <1>3, Facts DEF SchemaTypes
<1>6. TargetFits(t)'
  <2>1. 0 \in 0 .. Last /\ 1 .. 0 = {} /\ Made({}) = {}
    BY MigrationsAssumption DEF Made
  <2> QED
    BY <1>4, <2>1 DEF TargetFits, TablesFit
<1> DEFINE d == [c EXCEPT !.at = "ensure"]
<1>7. d \in Command /\ SameCommand(c, d) /\ d.at = "ensure" /\ Proceed(p, d)
  BY <1>1 DEF Command, SameCommand, PgReset, GoTo
<1> HIDE DEF d
<1>8. CommandFits(d)'
  BY <1>7 DEF CommandFits
<1>9. /\ \A u \in Target \ {c.on} : SameSchema(u)
      /\ TargetFits(c.on)' /\ pending' = pending /\ previews' = previews
  BY <1>2, <1>3, <1>4, <1>6 DEF SameSchema, TargetFits, TablesFit
<1> QED
  BY <1>1, <1>3, <1>5, <1>7, <1>8, <1>9, Facts, RunsOn

\* A reset in SQLite forgets the record only when all tables are gone.
LEMMA SqliteResetStep ==
    ASSUME SchemaInv, NEW p \in Process, SqliteReset(p)
    PROVE  SchemaInv'
<1>1. PICK c \in Command : c = proc[p] /\ c.on \in Target /\ CommandFits(c)
  BY CommandRuns DEF SqliteReset, InStep
<1>2. PICK t \in Target : t = c.on
  BY <1>1
<1>3. PICK n \in 0 .. Len(DropOrder) :
          /\ n = c.dropped /\ t \notin Postgres /\ (n > 0 => t \in torn)
          /\ \A i \in 1 .. n : DropOrder[i] \notin tables[t]
  BY <1>1, <1>2 DEF SqliteReset, InStep, CommandFits, Dropped
<1>4. c.cmd = "reset" /\ c.at = "drop" /\ pending' = pending /\ previews' = previews
  BY <1>1 DEF SqliteReset, InStep, CommandFits, tokens
<1>5. Len(DropOrder) \in Nat /\ n \in Nat
  BY MigrationsAssumption, LenProperties
<1>6. CASE n < Len(DropOrder)
  <2>1. NextDrop(n) = n + 1 /\ n + 1 # Nothing /\ n # Len(DropOrder)
    BY <1>5, <1>6 DEF NextDrop, Nothing
  <2>2. /\ tables' = [tables EXCEPT ![t] = @ \ {DropOrder[n + 1]}]
        /\ UNCHANGED <<recorded, journal>> /\ torn' = torn \cup {t}
        /\ Proceed(p, [c EXCEPT !.dropped = n + 1])
    BY <1>1, <1>2, <1>3, <2>1 DEF SqliteReset
  <2>3. /\ tables'[t] = tables[t] \ {DropOrder[n + 1]} /\ recorded' = recorded
        /\ t \in torn' /\ \A u \in Target \ {t} : SameSchema(u)
    BY <2>2, Facts DEF SchemaTypes, SameSchema
  <2>4. SchemaTypes'
    BY <2>2, Facts DEF SchemaTypes
  <2>5. TargetFits(t)'
    BY <1>3, <2>3, Facts DEF TargetFits, TablesFit
  <2> DEFINE d == [c EXCEPT !.dropped = n + 1]
  <2>6. /\ d \in Command /\ SameCommand(c, d) /\ d.at = "drop" /\ d.dropped = n + 1
        /\ Proceed(p, d)
    BY <1>4, <1>5, <2>2 DEF Command, SameCommand
  <2> HIDE DEF d
  <2>7. Dropped(t, n + 1)'
    BY <1>3, <1>5, <1>6, <2>3 DEF Dropped
  <2>8. CommandFits(d)'
    BY <1>2, <1>3, <1>4, <2>6, <2>7 DEF CommandFits, SameCommand, Dropped
  <2>9. TargetFits(c.on)' /\ \A u \in Target \ {c.on} : SameSchema(u)
    BY <1>2, <2>3, <2>5 DEF TargetFits, TablesFit
  <2> QED
    BY <1>1, <1>4, <2>3, <2>4, <2>6, <2>8, <2>9, Facts, RunsOn
<1>7. CASE n = Len(DropOrder)
  <2>1. NextDrop(n) = Nothing
    BY <1>5, <1>7 DEF NextDrop
  <2>2. /\ recorded' = [recorded EXCEPT ![t] = {}] /\ journal' = journal \ {t}
        /\ tables' = tables /\ torn' = torn \ {t} /\ GoTo(p, "ensure")
    BY <1>1, <1>2, <1>3, <1>7, <2>1 DEF SqliteReset
  <2>3. recorded'[t] = {} /\ \A u \in Target \ {t} : SameSchema(u)
    BY <2>2, Facts DEF SchemaTypes, SameSchema
  <2>4. SchemaTypes'
    BY <2>2, Facts DEF SchemaTypes
  <2>5. tables[t] \cap Expected = {}
    BY <1>3, <1>7 DEF Expected
  <2>6. TargetFits(t)'
    <3>1. 0 \in 0 .. Last /\ 1 .. 0 = {} /\ Made({}) = {}
      BY MigrationsAssumption DEF Made
    <3> QED
      BY <1>3, <2>2, <2>3, <2>5, <3>1 DEF TargetFits, TablesFit
  <2> DEFINE d == [c EXCEPT !.at = "ensure"]
  <2>7. d \in Command /\ SameCommand(c, d) /\ d.at = "ensure" /\ Proceed(p, d)
    BY <1>1, <2>2 DEF Command, SameCommand, GoTo
  <2> HIDE DEF d
  <2>8. CommandFits(d)'
    BY <2>7 DEF CommandFits
  <2>9. TargetFits(c.on)' /\ \A u \in Target \ {c.on} : SameSchema(u)
    BY <1>2, <2>3, <2>6 DEF TargetFits, TablesFit
  <2> QED
    BY <1>1, <1>4, <2>4, <2>7, <2>8, <2>9, Facts, RunsOn
<1> QED
  BY <1>3, <1>5, <1>6, <1>7

LEMMA EndStep ==
    ASSUME SchemaInv, NEW p \in Process, EndCommand(p)
    PROVE  SchemaInv'
<1>1. PICK c \in Command : c = proc[p]
  BY CommandRuns DEF EndCommand
<1>2. pending' = pending /\ previews' = previews /\ UNCHANGED schema /\ Proceed(p, NoCommand)
  BY DEF EndCommand, tokens
<1> QED
  BY <1>1, <1>2, Facts, RunsQuietly

\* What only concerns the token of a reset.
LEMMA TokenStep ==
    ASSUME SchemaInv, UNCHANGED <<schema, proc>>,
           pending' \in [token : 0 .. MaxPreviews, fresh : BOOLEAN], previews' \in Seq(Target)
    PROVE  SchemaInv'
<1>1. /\ SchemaTypes' /\ \A t \in Target : TargetFits(t)'
      /\ \A c : CommandFits(c) => CommandFits(c)'
  BY SchemaStays
<1>2. proc' = proc
  OBVIOUS
<1>3. SchemaTypeOK'
  BY <1>1, <1>2 DEF SchemaInv, SchemaTypeOK, SchemaTypes
<1>4. ASSUME NEW p \in Process, proc'[p] # NoCommand PROVE CommandFits(proc[p])'
  <2>1. PICK c : c = proc[p] /\ c = proc'[p]
    BY <1>2
  <2>2. CommandFits(c)'
    BY <1>1, <1>4, <2>1 DEF SchemaInv
  <2> QED
    BY <2>1, <2>2
<1> QED
  BY <1>1, <1>2, <1>3, <1>4 DEF SchemaInv

LEMMA DryRunStep ==
    ASSUME SchemaInv, NEW t \in Target, DryRun(t)
    PROVE  SchemaInv'
<1>1. Len(previews) \in Nat /\ Append(previews, t) \in Seq(Target)
  BY Facts, LenProperties, AppendProperties
<1>2. Len(previews) + 1 \in 0 .. MaxPreviews
  BY <1>1, MigrationsAssumption DEF DryRun
<1> QED
  BY <1>1, <1>2, TokenStep DEF DryRun

LEMMA ExpireStep ==
    ASSUME SchemaInv, Expire
    PROVE  SchemaInv'
  BY Facts, TokenStep DEF Expire

LEMMA BeginsStep ==
    ASSUME SchemaInv, NEW p \in Process, NEW t \in Target,
           \/ Migrate(p, t) \/ Rollback(p, t)
           \/ \E k \in 1 .. Len(previews) : ApplyReset(p, t, k)
    PROVE  SchemaInv'
<1>1. CASE Migrate(p, t)
  BY <1>1, BeginStep DEF Migrate
<1>2. CASE Rollback(p, t)
  BY <1>2, BeginStep DEF Rollback
<1>3. ASSUME NEW k \in 1 .. Len(previews), ApplyReset(p, t, k) PROVE SchemaInv'
  BY <1>3, BeginStep DEF ApplyReset
<1> QED
  BY <1>1, <1>2, <1>3

LEMMA SchemaStep == SchemaInv /\ [SchemaNext]_schemaVars => SchemaInv'
<1> SUFFICES ASSUME SchemaInv, [SchemaNext]_schemaVars PROVE SchemaInv'
  OBVIOUS
<1>1. ASSUME NEW p \in Process, CommandStep(p) PROVE SchemaInv'
  BY <1>1, EnsureStep, GetAppliedStep, ApplyStep, UndoStep, ConsumeStep, PgResetStep,
     SqliteResetStep, EndStep DEF CommandStep
<1>2. CASE UNCHANGED schemaVars
  BY <1>2, Facts, TokenStep DEF schemaVars, tokens
<1> QED
  BY <1>1, <1>2, BeginsStep, DryRunStep, ExpireStep DEF SchemaNext

\* Whichever commands run and wherever they die, the schema is what _migrations says,
\* torn resets of SQLite apart, and a PostgreSQL database can be brought to the present.
THEOREM SchemaAlwaysHolds == SchemaSpec => []SchemaHolds
<1>1. ASSUME SchemaInv PROVE SchemaHolds
  <2>1. ASSUME NEW t \in Target
        PROVE  LET owned == tables[t] \cap Expected
                   made == Made(recorded[t]) \cap Expected
               IN  owned \subseteq made /\ (t \notin torn => owned = made)
    BY <1>1 DEF SchemaInv, TargetFits, TablesFit
  <2>2. ASSUME NEW t \in Postgres, recorded[t] # Migration
        PROVE  CanApply(Least(Migration \ recorded[t]), t)
    <3>1. PICK n \in 0 .. Last : recorded[t] = 1 .. n /\ tables[t] = Made(1 .. n)
      BY <1>1, MigrationsAssumption DEF SchemaInv, TargetFits, TablesFit
    <3>2. n < Last /\ Least(Migration \ recorded[t]) = n + 1
      BY <2>2, <3>1, LeastMissing
    <3> QED
      BY <3>1, <3>2, MadeNext DEF CanApply
  <2> QED
    BY <2>1, <2>2 DEF SchemaHolds, SchemaIsRecorded, NextCanApply
<1> QED
  BY <1>1, InitSchema, SchemaStep, PTL DEF SchemaSpec

-----------------------------------------------------------------------------
(* The link of a project to its repository                                 *)

\* What a process that connects the project is doing.
Attempt == [asked : ConnectOptions, read : Seq(LinkRow),
            at : {"look", "make", "seed", "verify", "begin", "write", "ended"}]

LEMMA AttemptsTyped == LinkTypeOK => attempt \in [Connector -> Attempt]
  BY DEF LinkTypeOK, Attempt

LEMMA AttemptFields ==
    ASSUME LinkTypeOK, NEW p \in Connector
    PROVE  /\ attempt[p] \in Attempt /\ Asked(p) \in ConnectOptions
           /\ Asked(p).name \in Repository /\ Asked(p).branch \in Branch
           /\ Asked(p).create \in BOOLEAN /\ attempt[p].read \in Seq(LinkRow)
  BY AttemptsTyped DEF Attempt, Asked, ConnectOptions

\* A step of p that says where it goes on: what it was asked for but for the branch, what
\* it has read, and all of the others stay.
GoesOn(p, branch, read, step) ==
    /\ attempt' \in [Connector -> Attempt]
    /\ \A q \in Connector \ {p} : attempt'[q] = attempt[q]
    /\ attempt'[p].at = step /\ attempt'[p].read = read
    /\ attempt'[p].asked.name = Asked(p).name /\ attempt'[p].asked.branch = branch
    /\ attempt'[p].asked.create = Asked(p).create

LEMMA ReplaceAttempt ==
    ASSUME LinkTypeOK, NEW p \in Connector, NEW a \in Attempt,
           attempt' = [attempt EXCEPT ![p] = a]
    PROVE  /\ attempt' \in [Connector -> Attempt] /\ attempt'[p] = a
           /\ \A q \in Connector \ {p} : attempt'[q] = attempt[q]
  BY AttemptsTyped

LEMMA GotoGoesOn ==
    ASSUME LinkTypeOK, NEW p \in Connector,
           NEW step \in {"look", "make", "seed", "verify", "begin", "write", "ended"},
           Goto(p, step)
    PROVE  GoesOn(p, Asked(p).branch, attempt[p].read, step)
<1> DEFINE a == [attempt[p] EXCEPT !.at = step]
<1>1. attempt[p] \in Attempt
  BY AttemptFields
<1>2. a \in Attempt
  BY <1>1 DEF Attempt
<1>3. a.at = step /\ a.read = attempt[p].read /\ a.asked = Asked(p)
  BY <1>1 DEF Attempt, Asked
<1>4. attempt' = [attempt EXCEPT ![p] = a]
  BY DEF Goto
<1> HIDE DEF a
<1> QED
  BY <1>2, <1>3, <1>4, ReplaceAttempt DEF GoesOn

LEMMA EnsuredGoesOn ==
    ASSUME LinkTypeOK, NEW p \in Connector, NEW b \in Branch, Ensured(p, b)
    PROVE  GoesOn(p, b, attempt[p].read, "verify")
<1> DEFINE asked == [Asked(p) EXCEPT !.branch = b]
           a == [attempt[p] EXCEPT !.at = "verify", !.asked = asked]
<1>1. attempt[p] \in Attempt /\ Asked(p) \in ConnectOptions
  BY AttemptFields
<1>2. /\ asked \in ConnectOptions
      /\ asked.name = Asked(p).name /\ asked.branch = b /\ asked.create = Asked(p).create
  BY <1>1 DEF ConnectOptions
<1>3. attempt' = [attempt EXCEPT ![p] = a]
  BY <1>1 DEF Ensured, Asked, Attempt
<1> HIDE DEF asked
<1>4. a \in Attempt
  BY <1>1, <1>2 DEF Attempt
<1>5. a.at = "verify" /\ a.read = attempt[p].read /\ a.asked = asked
  BY <1>1 DEF Attempt
<1> HIDE DEF a
<1> QED
  BY <1>2, <1>3, <1>4, <1>5, ReplaceAttempt DEF GoesOn

\* ReadLink, and the steps that end a process.
LEMMA ReadGoesOn ==
    ASSUME LinkTypeOK, NEW p \in Connector, NEW r \in Seq(LinkRow),
           NEW step \in {"write", "ended"},
           \/ attempt' = [attempt EXCEPT ![p].read = r, ![p].at = step]
           \/ attempt' = [attempt EXCEPT ![p].at = step, ![p].read = r]
    PROVE  GoesOn(p, Asked(p).branch, r, step)
<1> DEFINE a == [attempt[p] EXCEPT !.read = r, !.at = step]
<1>1. attempt[p] \in Attempt
  BY AttemptFields
<1>2. a \in Attempt
  BY <1>1 DEF Attempt
<1>3. a.at = step /\ a.read = r /\ a.asked = Asked(p)
  BY <1>1 DEF Attempt, Asked
<1>4. attempt' = [attempt EXCEPT ![p] = a]
  BY <1>1 DEF Attempt
<1> HIDE DEF a
<1> QED
  BY <1>2, <1>3, <1>4, ReplaceAttempt DEF GoesOn

-----------------------------------------------------------------------------
\* A branch fits a repository: the forge would open pull requests against it, and at
\* Gitea they can be listed.
Fits(name, branch) ==
    /\ Exists(name) /\ repository[name].branch = branch
    /\ kind = "gitea" => repository[name].commits

\* What --create recorded fits from when the forge has answered until the row is written.
Prepared(p) ==
    /\ Asked(p).create /\ attempt[p].at \in {"verify", "begin", "write"}
          => Fits(Asked(p).name, Asked(p).branch)
    /\ Stage(p, "seed") => kind = "gitea" /\ Exists(Asked(p).name)

RowFits(i) == link[i].created => Fits(link[i].name, link[i].branch)

LinkInv ==
    /\ LinkTypeOK
    /\ \A p \in Connector : Prepared(p)
    /\ \A i \in DOMAIN link : RowFits(i)
    /\ database = "sqlite" => Len(link) <= 1

\* The forge and people add repositories and commits; a repository keeps the branch that
\* something was found to fit.
RepositoryKeeps ==
    \A name \in Repository, branch \in Branch :
        /\ Exists(name) => Exists(name)'
        /\ Fits(name, branch) => Fits(name, branch)'

LEMMA InitLink == LinkInit => LinkInv
<1> SUFFICES ASSUME LinkInit PROVE LinkInv
  OBVIOUS
<1>1. link = <<>> /\ link \in Seq(LinkRow) /\ Len(link) = 0 /\ DOMAIN link = {}
  BY DEF LinkInit
<1>2. ASSUME NEW p \in Connector
      PROVE  attempt[p] \in Attempt /\ Prepared(p)
  <2>1. PICK o \in ConnectOptions :
            attempt[p] = [asked |-> o, read |-> <<>>,
                          at |-> IF o.create THEN "look" ELSE "verify"]
    BY DEF LinkInit
  <2>2. <<>> \in Seq(LinkRow)
    OBVIOUS
  <2>3. attempt[p] \in Attempt
    BY <2>1, <2>2 DEF Attempt
  <2>4. Prepared(p)
    BY <2>1 DEF Prepared, Asked, Stage
  <2> QED
    BY <2>3, <2>4
<1>3. attempt \in [Connector -> Attempt]
  <2>1. DOMAIN attempt = Connector /\ attempt = [p \in Connector |-> attempt[p]]
    BY DEF LinkInit
  <2> QED
    BY <1>2, <2>1
<1>4. repository \in [Repository -> Repos \cup {Absent}] /\ connection \in Connection
  BY DEF LinkInit
<1> QED
  BY <1>1, <1>2, <1>3, <1>4 DEF LinkInv, LinkTypeOK, Attempt

LEMMA AbsentIsNone == Absent \notin Repos /\ \A b \in Branch, c \in BOOLEAN : Repo(b, c) \in Repos
  BY DEF Absent, Repos, Repo

LEMMA RowFields ==
    ASSUME LinkTypeOK, NEW i \in DOMAIN link
    PROVE  link[i] \in LinkRow /\ link[i].name \in Repository /\ link[i].branch \in Branch
<1>1. link[i] \in LinkRow
  BY LenProperties, ElementOfSeq DEF LinkTypeOK
<1> QED
  BY <1>1 DEF LinkRow

\* A repository that was not there, or a commit on the branch there is.
LEMMA PutKeeps ==
    ASSUME LinkTypeOK, connection' = connection, NEW r \in Repository,
           NEW b \in Branch, NEW c \in BOOLEAN,
           repository' = [repository EXCEPT ![r] = Repo(b, c)],
           \/ ~Exists(r)
           \/ kind = "gitea" /\ ~repository[r].commits /\ c
           \/ repository[r].branch = b /\ c
    PROVE  RepositoryKeeps /\ repository' \in [Repository -> Repos \cup {Absent}]
<1>1. Repo(b, c) \in Repos /\ Repo(b, c) # Absent /\ Repo(b, c).branch = b /\ Repo(b, c).commits = c
  BY AbsentIsNone DEF Repo
<1>2. repository' \in [Repository -> Repos \cup {Absent}]
  BY <1>1 DEF LinkTypeOK
<1>3. repository'[r] = Repo(b, c) /\ \A q \in Repository \ {r} : repository'[q] = repository[q]
  BY <1>1 DEF LinkTypeOK
<1>4. ASSUME NEW name \in Repository, Exists(name) PROVE Exists(name)'
  BY <1>1, <1>3, <1>4 DEF Exists
<1>5. ASSUME NEW name \in Repository, NEW branch \in Branch, Fits(name, branch)
      PROVE  Fits(name, branch)'
  <2>1. CASE name # r
    BY <1>3, <1>5, <2>1 DEF Fits, Exists, kind
  <2>2. CASE name = r
    BY <1>1, <1>3, <1>5, <2>2 DEF Fits, Exists, kind
  <2> QED
    BY <2>1, <2>2
<1> QED
  BY <1>2, <1>4, <1>5 DEF RepositoryKeeps

LEMMA SameKeeps ==
    ASSUME LinkTypeOK, UNCHANGED <<connection, repository>>
    PROVE  RepositoryKeeps /\ repository' \in [Repository -> Repos \cup {Absent}]
  BY DEF RepositoryKeeps, Fits, Exists, kind, LinkTypeOK

\* A step that leaves the rows alone keeps them fitting, and the invariant, if what the
\* process goes on with is prepared.
LEMMA RowsKeep ==
    ASSUME LinkInv, connection' = connection, RepositoryKeeps, link' = link
    PROVE  /\ connection' \in Connection /\ link' \in Seq(LinkRow)
           /\ \A i \in DOMAIN link' : RowFits(i)'
           /\ database' = "sqlite" => Len(link') <= 1
<1>1. ASSUME NEW i \in DOMAIN link PROVE RowFits(i)'
  BY RowFields DEF LinkInv, RowFits, RepositoryKeeps
<1> QED
  BY <1>1 DEF LinkInv, LinkTypeOK, database

LEMMA AttemptsKeep ==
    ASSUME LinkInv, connection' = connection, RepositoryKeeps,
           NEW p \in Connector, NEW branch \in Branch, NEW read, NEW step,
           GoesOn(p, branch, read, step), NEW name \in Repository, name = Asked(p).name,
           Asked(p).create /\ step \in {"verify", "begin", "write"} => Fits(name, branch)',
           step = "seed" => kind = "gitea" /\ Exists(name)
    PROVE  attempt' \in [Connector -> Attempt] /\ \A q \in Connector : Prepared(q)'
<1>1. kind' = kind
  BY DEF kind
<1>2. ASSUME NEW q \in Connector, q # p PROVE Prepared(q)'
  <2>1. attempt'[q] = attempt[q] /\ Prepared(q)
    BY <1>2 DEF GoesOn, LinkInv
  <2>2. Asked(q).name \in Repository /\ Asked(q).branch \in Branch
    BY AttemptFields DEF LinkInv
  <2> QED
    BY <1>1, <2>1, <2>2 DEF Prepared, RepositoryKeeps, Asked, Stage
<1>3. Prepared(p)'
  <2>1. /\ attempt'[p].asked.name = name /\ attempt'[p].asked.branch = branch
        /\ attempt'[p].asked.create = Asked(p).create /\ attempt'[p].at = step
    BY DEF GoesOn
  <2>3. step = "seed" => kind = "gitea" /\ Exists(name)'
    BY DEF RepositoryKeeps
  <2>4. Asked(p)' = attempt'[p].asked /\ Stage(p, "seed")' = (step = "seed")
    BY <2>1 DEF Asked, Stage
  <2> QED
    BY <1>1, <2>1, <2>3, <2>4 DEF Prepared, Fits, Exists
<1> QED
  BY <1>2, <1>3 DEF GoesOn

\* A step of one process that writes no row.
LEMMA AttemptStep ==
    ASSUME LinkInv, UNCHANGED <<connection, link>>, RepositoryKeeps,
           repository' \in [Repository -> Repos \cup {Absent}],
           attempt' \in [Connector -> Attempt], \A q \in Connector : Prepared(q)'
    PROVE  LinkInv'
<1>1. /\ connection' \in Connection /\ link' \in Seq(LinkRow)
      /\ \A i \in DOMAIN link' : RowFits(i)'
      /\ database' = "sqlite" => Len(link') <= 1
  BY RowsKeep
<1> QED
  BY <1>1 DEF LinkInv, LinkTypeOK, Attempt

LEMMA LookUpStep ==
    ASSUME LinkInv, NEW p \in Connector, LookUp(p)
    PROVE  LinkInv'
<1>1. LinkTypeOK /\ UNCHANGED <<connection, repository, link>>
  BY DEF LinkInv, LookUp
<1>2. RepositoryKeeps /\ repository' \in [Repository -> Repos \cup {Absent}]
  BY <1>1, SameKeeps
<1>3. PICK name \in Repository : name = Asked(p).name
  BY <1>1, AttemptFields
<1>4. CASE Goto(p, "make")
  <2>1. GoesOn(p, Asked(p).branch, attempt[p].read, "make") /\ Asked(p).branch \in Branch
    BY <1>1, <1>4, GotoGoesOn, AttemptFields
  <2> QED
    BY <1>1, <1>2, <1>3, <2>1, AttemptsKeep, AttemptStep
<1>5. CASE repository[name] # Absent /\ kind = "gitea" /\ Goto(p, "seed")
  <2>1. GoesOn(p, Asked(p).branch, attempt[p].read, "seed") /\ Asked(p).branch \in Branch
    BY <1>1, <1>5, GotoGoesOn, AttemptFields
  <2> QED
    BY <1>1, <1>2, <1>3, <1>5, <2>1, AttemptsKeep, AttemptStep DEF Exists
<1>6. CASE /\ repository[name] # Absent /\ (kind # "gitea" \/ repository[name].commits)
           /\ Ensured(p, repository[name].branch)
  <2>1. PICK b \in Branch : b = repository[name].branch
    BY <1>1, <1>6 DEF LinkTypeOK, Repos
  <2>2. GoesOn(p, b, attempt[p].read, "verify")
    BY <1>1, <1>6, <2>1, EnsuredGoesOn
  <2>3. Fits(name, b)'
    BY <1>1, <1>6, <2>1 DEF Fits, Exists, kind
  <2> QED
    BY <1>1, <1>2, <1>3, <2>2, <2>3, AttemptsKeep, AttemptStep
<1> QED
  BY <1>3, <1>4, <1>5, <1>6 DEF LookUp

LEMMA MakeStep ==
    ASSUME LinkInv, NEW p \in Connector, NEW b \in Branch, Make(p, b)
    PROVE  LinkInv'
<1>1. LinkTypeOK /\ UNCHANGED <<connection, link>>
  BY DEF LinkInv, Make
<1>2. PICK name \in Repository : name = Asked(p).name
  BY <1>1, AttemptFields
<1>3. CASE /\ ~Exists(name) /\ Ensured(p, b)
           /\ repository' = [repository EXCEPT ![name] = Repo(b, TRUE)]
  <2>1. RepositoryKeeps /\ repository' \in [Repository -> Repos \cup {Absent}]
    BY <1>1, <1>3, PutKeeps
  <2>2. GoesOn(p, b, attempt[p].read, "verify")
    BY <1>1, <1>3, EnsuredGoesOn
  <2>3. Fits(name, b)'
    <3>1. repository'[name] = Repo(b, TRUE) /\ Repo(b, TRUE) # Absent
      BY <1>1, <1>3, AbsentIsNone DEF LinkTypeOK
    <3> QED
      BY <3>1 DEF Fits, Exists, Repo
  <2> QED
    BY <1>1, <1>2, <2>1, <2>2, <2>3, AttemptsKeep, AttemptStep
<1>4. CASE Goto(p, "ended") /\ UNCHANGED repository
  <2>1. GoesOn(p, Asked(p).branch, attempt[p].read, "ended") /\ Asked(p).branch \in Branch
    BY <1>1, <1>4, GotoGoesOn, AttemptFields
  <2> QED
    BY <1>1, <1>2, <1>4, <2>1, SameKeeps, AttemptsKeep, AttemptStep
<1> QED
  BY <1>2, <1>3, <1>4 DEF Make

LEMMA SeedStep ==
    ASSUME LinkInv, NEW p \in Connector, Seed(p)
    PROVE  LinkInv'
<1>1. LinkTypeOK /\ UNCHANGED <<connection, link>>
  BY DEF LinkInv, Seed
<1>2. PICK name \in Repository, b \in Branch : name = Asked(p).name /\ b = Asked(p).branch
  BY <1>1, AttemptFields
<1>3. kind = "gitea" /\ Exists(name)
  BY <1>2 DEF Seed, LinkInv, Prepared
<1>4. CASE /\ ~repository[name].commits \/ repository[name].branch = b
           /\ repository' = [repository EXCEPT ![name] = Repo(b, TRUE)]
           /\ Ensured(p, b)
  <2>1. RepositoryKeeps /\ repository' \in [Repository -> Repos \cup {Absent}]
    BY <1>1, <1>3, <1>4, PutKeeps
  <2>2. GoesOn(p, b, attempt[p].read, "verify")
    BY <1>1, <1>4, EnsuredGoesOn
  <2>3. Fits(name, b)'
    <3>1. repository'[name] = Repo(b, TRUE) /\ Repo(b, TRUE) # Absent
      BY <1>1, <1>4, AbsentIsNone DEF LinkTypeOK
    <3> QED
      BY <3>1 DEF Fits, Exists, Repo
  <2> QED
    BY <1>1, <1>2, <2>1, <2>2, <2>3, AttemptsKeep, AttemptStep
<1>5. CASE Goto(p, "ended") /\ UNCHANGED repository
  <2>1. GoesOn(p, Asked(p).branch, attempt[p].read, "ended") /\ Asked(p).branch \in Branch
    BY <1>1, <1>5, GotoGoesOn, AttemptFields
  <2> QED
    BY <1>1, <1>2, <1>5, <2>1, SameKeeps, AttemptsKeep, AttemptStep
<1> QED
  BY <1>2, <1>4, <1>5 DEF Seed

\* A step of a process that leaves the forge and the rows alone, and goes on only with
\* what was prepared.
LEMMA QuietStep ==
    ASSUME LinkInv, UNCHANGED <<connection, repository, link>>, NEW p \in Connector,
           NEW read, NEW step \in {"begin", "write", "ended"},
           GoesOn(p, Asked(p).branch, read, step),
           step # "ended" => attempt[p].at \in {"verify", "begin"}
    PROVE  LinkInv'
<1>1. LinkTypeOK
  BY DEF LinkInv
<1>2. RepositoryKeeps /\ repository' \in [Repository -> Repos \cup {Absent}]
  BY <1>1, SameKeeps
<1>3. PICK name \in Repository, b \in Branch : name = Asked(p).name /\ b = Asked(p).branch
  BY <1>1, AttemptFields
<1>4. Asked(p).create /\ step \in {"verify", "begin", "write"} => Fits(name, b)'
  BY <1>2, <1>3 DEF LinkInv, Prepared, RepositoryKeeps
<1>5. attempt' \in [Connector -> Attempt] /\ \A q \in Connector : Prepared(q)'
  BY <1>1, <1>2, <1>3, <1>4, AttemptsKeep
<1> QED
  BY <1>2, <1>5, AttemptStep

LEMMA VerifyStep ==
    ASSUME LinkInv, NEW p \in Connector, Verify(p)
    PROVE  LinkInv'
<1>1. LinkTypeOK /\ Stage(p, "verify") /\ UNCHANGED <<connection, repository, link>>
  BY DEF LinkInv, Verify
<1>2. CASE Goto(p, "ended")
  <2>1. GoesOn(p, Asked(p).branch, attempt[p].read, "ended")
    BY <1>1, <1>2, GotoGoesOn
  <2> QED
    BY <1>1, <2>1, QuietStep
<1>3. CASE Goto(p, "begin")
  <2>1. GoesOn(p, Asked(p).branch, attempt[p].read, "begin")
    BY <1>1, <1>3, GotoGoesOn
  <2> QED
    BY <1>1, <2>1, QuietStep DEF Stage
<1> QED
  BY <1>2, <1>3 DEF Verify

LEMMA ReadLinkStep ==
    ASSUME LinkInv, NEW p \in Connector, ReadLink(p)
    PROVE  LinkInv'
<1>1. /\ LinkTypeOK /\ Stage(p, "begin") /\ UNCHANGED <<connection, repository, link>>
      /\ link \in Seq(LinkRow)
  BY DEF LinkInv, LinkTypeOK, ReadLink
<1>2. PICK step \in {"write", "ended"} :
          attempt' = [attempt EXCEPT ![p].read = link, ![p].at = step]
  BY DEF ReadLink
<1>3. GoesOn(p, Asked(p).branch, link, step)
  BY <1>1, <1>2, ReadGoesOn
<1> QED
  BY <1>1, <1>3, QuietStep DEF Stage

LEMMA GiveUpStep ==
    ASSUME LinkInv, NEW p \in Connector, GiveUp(p)
    PROVE  LinkInv'
<1>1. LinkTypeOK /\ UNCHANGED <<connection, repository, link>> /\ <<>> \in Seq(LinkRow)
  BY DEF LinkInv, GiveUp
<1>2. GoesOn(p, Asked(p).branch, <<>>, "ended")
  BY <1>1, ReadGoesOn DEF GiveUp
<1> QED
  BY <1>1, <1>2, QuietStep

\* What is written fits, if the process was prepared.
LEMMA WrittenFits ==
    ASSUME LinkInv, NEW p \in Connector, Stage(p, "write"), NEW v \in Nat \ {0}
    PROVE  /\ Written(p, v) \in LinkRow
           /\ Written(p, v).created => Fits(Written(p, v).name, Written(p, v).branch)
<1>1. Written(p, v) \in LinkRow
  BY AttemptFields DEF LinkInv, Written, LinkRow
<1>2. Asked(p).create => Fits(Asked(p).name, Asked(p).branch)
  BY DEF LinkInv, Prepared, Stage
<1> QED
  BY <1>1, <1>2 DEF Written

\* The rows after a write: one more if there were none, or one of them replaced.
LEMMA RowsWritten ==
    ASSUME LinkInv, NEW p \in Connector, Stage(p, "write"),
           UNCHANGED <<connection, repository>>,
           MayWrite(p), Connect(p) \/ Reconnect(p)
    PROVE  /\ link' \in Seq(LinkRow)
           /\ \A i \in DOMAIN link' : RowFits(i)'
           /\ database' = "sqlite" => Len(link') <= 1
<1>0. /\ link \in Seq(LinkRow) /\ Len(link) \in Nat /\ DOMAIN link = 1..Len(link)
      /\ LinkTypeOK /\ kind' = kind /\ database' = database
  BY LenProperties DEF LinkInv, LinkTypeOK, kind, database
<1>1. \A i \in DOMAIN link : link[i] \in LinkRow /\ RowFits(i)
  BY <1>0, RowFields DEF LinkInv
<1>2. \A name \in Repository, branch \in Branch : Fits(name, branch)' = Fits(name, branch)
  BY <1>0 DEF Fits, Exists
<1>3. CASE Connect(p)
  <2>1. PICK entry : entry = Written(p, 1)
    OBVIOUS
  <2>2. entry \in LinkRow /\ (entry.created => Fits(entry.name, entry.branch))
    BY <2>1, WrittenFits
  <2>3. /\ link' \in Seq(LinkRow) /\ Len(link') = Len(link) + 1
        /\ \A i \in 1..Len(link) : link'[i] = link[i]
        /\ link'[Len(link) + 1] = entry
    BY <1>0, <1>3, <2>1, <2>2, AppendProperties DEF Connect
  <2>4. DOMAIN link' = 1..(Len(link) + 1)
    BY <2>3, LenProperties
  <2>5. ASSUME NEW i \in DOMAIN link' PROVE RowFits(i)'
    <3>1. CASE i = Len(link) + 1
      BY <1>2, <2>2, <2>3, <3>1 DEF RowFits, LinkRow
    <3>2. CASE i \in DOMAIN link
      <4>1. link'[i] = link[i] /\ link[i] \in LinkRow /\ RowFits(i)
        BY <1>0, <1>1, <2>3, <3>2
      <4> QED
        BY <1>2, <4>1 DEF RowFits, LinkRow
    <3> QED
      BY <1>0, <2>4, <3>1, <3>2
  <2>6. database = "sqlite" => Len(link) = 0
    BY <1>0, <1>3, EmptySeq DEF Connect, MayWrite
  <2> QED
    BY <1>0, <2>3, <2>5, <2>6
<1>4. CASE Reconnect(p)
  <2>1. PICK i \in DOMAIN attempt[p].read :
            link' = [link EXCEPT ![i] = Written(p, link[i].version + 1)]
    BY <1>4 DEF Reconnect
  <2>2. CASE i \in DOMAIN link
    <3>1. PICK entry : entry = Written(p, link[i].version + 1)
      OBVIOUS
    <3>2. link[i].version + 1 \in Nat \ {0}
      BY <1>1, <2>2 DEF LinkRow
    <3>3. entry \in LinkRow /\ (entry.created => Fits(entry.name, entry.branch))
      BY <3>1, <3>2, WrittenFits
    <3>4. /\ link' \in Seq(LinkRow) /\ Len(link') = Len(link) /\ link'[i] = entry
          /\ \A j \in 1..Len(link) : j # i => link'[j] = link[j]
      BY <1>0, <2>1, <2>2, <3>1, <3>3, ExceptSeq
    <3>5. DOMAIN link' = DOMAIN link
      BY <1>0, <3>4, LenProperties
    <3>6. ASSUME NEW j \in DOMAIN link' PROVE RowFits(j)'
      <4>1. CASE j = i
        BY <1>2, <3>3, <3>4, <4>1 DEF RowFits, LinkRow
      <4>2. CASE j # i
        <5>1. link'[j] = link[j] /\ link[j] \in LinkRow /\ RowFits(j)
          BY <1>0, <1>1, <3>4, <3>5, <4>2
        <5> QED
          BY <1>2, <5>1 DEF RowFits, LinkRow
      <4> QED
        BY <4>1, <4>2
    <3> QED
      BY <1>0, <3>4, <3>6 DEF LinkInv
  <2>3. CASE i \notin DOMAIN link
    <3>1. link' = link
      BY <1>0, <2>1, <2>3
    <3> QED
      BY <1>0, <3>1, SameKeeps, RowsKeep
  <2> QED
    BY <2>2, <2>3
<1> QED
  BY <1>3, <1>4

LEMMA WriteLinkStep ==
    ASSUME LinkInv, NEW p \in Connector, WriteLink(p)
    PROVE  LinkInv'
<1>1. LinkTypeOK /\ Stage(p, "write") /\ UNCHANGED <<connection, repository>>
  BY DEF LinkInv, WriteLink
<1>2. RepositoryKeeps /\ repository' \in [Repository -> Repos \cup {Absent}]
  BY <1>1, SameKeeps
<1>3. /\ link' \in Seq(LinkRow)
      /\ \A i \in DOMAIN link' : RowFits(i)'
      /\ database' = "sqlite" => Len(link') <= 1
  BY <1>1, <1>2, RowsWritten, RowsKeep DEF WriteLink
<1>4. GoesOn(p, Asked(p).branch, <<>>, "ended")
  <2>1. <<>> \in Seq(LinkRow)
    OBVIOUS
  <2> QED
    BY <1>1, <2>1, ReadGoesOn DEF WriteLink
<1>5. PICK name \in Repository, b \in Branch : name = Asked(p).name /\ b = Asked(p).branch
  BY <1>1, AttemptFields
<1>6. attempt' \in [Connector -> Attempt] /\ \A q \in Connector : Prepared(q)'
  BY <1>1, <1>2, <1>4, <1>5, AttemptsKeep
<1> QED
  BY <1>1, <1>2, <1>3, <1>6 DEF LinkInv, LinkTypeOK, Attempt

\* People make repositories, and push to them.
LEMMA PeopleStep ==
    ASSUME LinkInv, UNCHANGED <<connection, attempt, link>>, NEW r \in Repository,
           NEW b \in Branch, NEW c \in BOOLEAN,
           repository' = [repository EXCEPT ![r] = Repo(b, c)],
           \/ ~Exists(r)
           \/ repository[r].branch = b /\ c
    PROVE  LinkInv'
<1>1. LinkTypeOK
  BY DEF LinkInv
<1>2. RepositoryKeeps /\ repository' \in [Repository -> Repos \cup {Absent}]
  BY <1>1, PutKeeps
<1>3. ASSUME NEW q \in Connector PROVE Prepared(q)'
  <2>1. Asked(q).name \in Repository /\ Asked(q).branch \in Branch /\ Prepared(q)
    BY <1>1, AttemptFields DEF LinkInv
  <2> QED
    BY <1>2, <2>1 DEF Prepared, RepositoryKeeps, Asked, Stage, kind
<1>4. attempt' \in [Connector -> Attempt]
  BY <1>1, AttemptsTyped
<1> QED
  BY <1>2, <1>3, <1>4, AttemptStep

LEMMA PeoplePushIs ==
    ASSUME LinkTypeOK, NEW r \in Repository, PeoplePush(r)
    PROVE  /\ repository[r].branch \in Branch
           /\ repository' = [repository EXCEPT ![r] = Repo(repository[r].branch, TRUE)]
<1>1. repository[r] \in Repos
  BY DEF LinkTypeOK, PeoplePush, Exists
<1> DEFINE new == [repository[r] EXCEPT !.commits = TRUE]
<1>2. new = Repo(repository[r].branch, TRUE)
  <2>1. new \in Repos /\ new.branch = repository[r].branch /\ new.commits = TRUE
    BY <1>1 DEF Repos
  <2>2. /\ Repo(repository[r].branch, TRUE) \in Repos
        /\ Repo(repository[r].branch, TRUE).branch = repository[r].branch
        /\ Repo(repository[r].branch, TRUE).commits = TRUE
    BY <1>1 DEF Repos, Repo
  <2> HIDE DEF new
  <2>3. \A x, y \in Repos : x.branch = y.branch /\ x.commits = y.commits => x = y
    BY DEF Repos
  <2> QED
    BY <2>1, <2>2, <2>3
<1>3. repository' = [repository EXCEPT ![r] = new]
  BY DEF PeoplePush, LinkTypeOK
<1> QED
  BY <1>1, <1>2, <1>3 DEF Repos

LEMMA LinkStep == LinkInv /\ [LinkNext]_linkVars => LinkInv'
<1> SUFFICES ASSUME LinkInv, [LinkNext]_linkVars PROVE LinkInv'
  OBVIOUS
<1>1. ASSUME NEW p \in Connector,
             LookUp(p) \/ MakeOnGithub(p) \/ MakeOnGitea(p) \/ MakeOnGitlab(p) \/ Seed(p)
             \/ Verify(p) \/ ReadLink(p) \/ WriteLink(p) \/ GiveUp(p)
      PROVE  LinkInv'
  <2>1. ForgeBranch \in Branch /\ Asked(p).branch \in Branch
    BY RepositoryLinkAssumption, AttemptFields DEF LinkInv
  <2>2. CASE MakeOnGithub(p) \/ MakeOnGitea(p) \/ MakeOnGitlab(p)
    BY <2>1, <2>2, MakeStep DEF MakeOnGithub, MakeOnGitea, MakeOnGitlab
  <2> QED
    BY <1>1, <2>2, LookUpStep, SeedStep, VerifyStep, ReadLinkStep, WriteLinkStep, GiveUpStep
<1>2. ASSUME NEW r \in Repository, NEW b \in Branch, NEW c \in BOOLEAN, PeopleMake(r, b, c)
      PROVE  LinkInv'
  BY <1>2, PeopleStep DEF PeopleMake
<1>3. ASSUME NEW r \in Repository, PeoplePush(r) PROVE LinkInv'
  <2>1. PICK b \in Branch : b = repository[r].branch
    BY <1>3, PeoplePushIs DEF LinkInv
  <2>2. repository' = [repository EXCEPT ![r] = Repo(b, TRUE)]
    BY <1>3, <2>1, PeoplePushIs DEF LinkInv
  <2> QED
    BY <1>3, <2>1, <2>2, PeopleStep DEF PeoplePush
<1>4. CASE UNCHANGED linkVars
  <2>1. LinkTypeOK /\ UNCHANGED <<connection, repository, attempt, link>>
    BY <1>4 DEF LinkInv, linkVars
  <2>2. RepositoryKeeps /\ repository' \in [Repository -> Repos \cup {Absent}]
    BY <2>1, SameKeeps
  <2>3. attempt' \in [Connector -> Attempt]
    BY <2>1, AttemptsTyped
  <2>4. \A q \in Connector : Prepared(q)'
    BY <2>1 DEF LinkInv, Prepared, Asked, Stage, Fits, Exists, kind
  <2> QED
    BY <2>1, <2>2, <2>3, <2>4, AttemptStep
<1> QED
  BY <1>1, <1>2, <1>3, <1>4 DEF LinkNext

\* However many processes connect a project beside each other and whatever people do at
\* the forge, on SQLite a project has one repository, and a row --create was given for
\* fits the repository there is.
THEOREM ConnectionsHold == LinkSpec => []ConnectionHolds
<1>1. LinkInv => ConnectionHolds
  BY DEF LinkInv, ConnectionHolds, RowFits, Fits, Exists
<1> QED
  BY <1>1, InitLink, LinkStep, PTL DEF LinkSpec

-----------------------------------------------------------------------------
(* The mirror of the pull request (Webhooks)                               *)

\* A row or an observation shows what the forge has: all that every provider tells of
\* with an event that names the pull request ("pull"), or the verdict of CI as well.
Level == {"pull", "ci"}

Shows(found, l) ==
    /\ found.head = seen.head /\ found.status = seen.status
    /\ found.review = seen.review
    /\ l = "ci" /\ seen.ci # "pending" => found.ci = seen.ci

\* An event that makes a pass fetch what is new: by its number always, by its commit
\* once the mirror shows that commit.
Announces(e, l) ==
    \/ e.by = "number"
    \/ l = "ci" /\ e.by = "commit" /\ e.commit = seen.head

\* Its fetch is still to come.
Awaited(i) ==
    \/ events[i].row \in {"sent", "pending"}
    \/ \E w \in Runner : pass[w] # NoPass /\ pass[w].at = "fetch" /\ pass[w].row = i

Announced(l) == \E i \in DOMAIN events : Announces(events[i], l) /\ Awaited(i)

\* A pass has fetched what the forge has and will write it; if it fails, its event is
\* taken again.
Stands(w, l) ==
    /\ w \in Late /\ pass[w].row # 0 /\ Announces(events[pass[w].row], l)
    /\ Shows(pass[w].found, l)

\* What a pass is about to write is right, is known to be old, or will be overwritten.
Harmless(w, l) ==
    pass[w].stale \/ Shows(pass[w].found, l) \/ \E u \in pass[w].newer : Stands(u, l)

MirrorFollows(l) ==
    tracked /\ ~behind /\ ~Announced(l) => Shows(mirror, l) \/ \E u \in Runner : Stands(u, l)

PassesFollow(l) ==
    ~Announced(l) => \A w \in Late : ~behind \/ pass[w].sure => Harmless(w, l)

\* A pass at work has a row that nobody else has, and has found nothing until it fetches.
PassFits(w) ==
    pass[w] # NoPass =>
        /\ pass[w].at \in {"discover", "fetch"} <=> pass[w].found = NoPull
        /\ pass[w].at \in {"discover", "fetch"} => pass[w].newer = {}
        /\ pass[w].at # "fetch" => seen # NoPull
        /\ pass[w].row # 0 =>
              /\ pass[w].at # "discover"
              /\ pass[w].row \in DOMAIN events /\ events[pass[w].row].row = "taken"
              /\ \A v \in Runner \ {w} : pass[v] # NoPass => pass[v].row # pass[w].row

HooksFit ==
    /\ \A w \in Runner : PassFits(w)
    /\ polling # {} => linked
    /\ tracked => seen # NoPull

\* Of two passes that have fetched, one knows that the other did so later, and what the
\* later one may have missed, the earlier one may have missed.
InOrderOfFetch ==
    \A v, w \in Late : v # w =>
        /\ v \in pass[w].newer \/ w \in pass[v].newer
        /\ v \in pass[w].newer /\ pass[w].sure => pass[v].sure

HookInv ==
    /\ HookTypeOK /\ HooksFit /\ InOrderOfFetch
    /\ \A l \in Level : MirrorFollows(l) /\ PassesFollow(l)

\* Types
LEMMA PullIsSome == \A found \in Pull : found # NoPull /\ found.head \in 1 .. MaxCommits
  BY WebhooksAssumption DEF Pull, NoPull

LEMMA PassIsSome == \A p \in Pass : p # NoPass
<1>1. SUFFICES ASSUME NEW p \in Pass PROVE p # NoPass
  OBVIOUS
<1>2. p.at # "idle"
  BY DEF Pass
<1> QED
  BY <1>2 DEF NoPass

LEMMA PassTyped ==
    ASSUME HookTypeOK, NEW w \in Runner, pass[w] # NoPass
    PROVE  /\ pass[w] \in Pass
           /\ pass[w].at \in {"discover", "fetch", "checks", "write", "rewrite"}
           /\ pass[w].row \in Nat /\ pass[w].found \in Pull \cup {NoPull}
           /\ pass[w].newer \in SUBSET Runner
           /\ pass[w].stale \in BOOLEAN /\ pass[w].sure \in BOOLEAN
<1>1. pass[w] \in Pass
  BY DEF HookTypeOK
<1> QED
  BY <1>1 DEF Pass

LEMMA EventTyped ==
    ASSUME HookTypeOK, NEW i \in DOMAIN events
    PROVE  /\ events[i] \in Event /\ i \in Nat /\ i # 0
           /\ events[i].by \in {"number", "commit", "run", "nothing"}
           /\ events[i].row \in {"sent", "pending", "taken", "done"}
<1>1. events[i] \in Event /\ i \in Nat /\ i # 0
  BY DEF HookTypeOK
<1> QED
  BY <1>1 DEF Event

\* What the steps do to the events: one changes its row, or some are added.
LEMMA Marked ==
    ASSUME HookTypeOK, NEW i \in DOMAIN events,
           NEW status \in {"sent", "pending", "taken", "done"}, Mark(i, status)
    PROVE  /\ events' \in Seq(Event) /\ DOMAIN events' = DOMAIN events
           /\ \A j \in DOMAIN events \ {i} : events'[j] = events[j]
           /\ events'[i].row = status
           /\ events'[i].by = events[i].by /\ events'[i].commit = events[i].commit
<1> DEFINE e == [events[i] EXCEPT !.row = status]
<1>1. events[i] \in Event
  BY EventTyped
<1>2. /\ e \in Event /\ e.row = status
      /\ e.by = events[i].by /\ e.commit = events[i].commit
  BY <1>1 DEF Event
<1>3. events' = [events EXCEPT ![i] = e]
  BY DEF Mark
<1> HIDE DEF e
<1>4. events' \in Seq(Event) /\ DOMAIN events' = DOMAIN events
  BY <1>2, <1>3, ExceptSeq DEF HookTypeOK
<1>5. events'[i] = e /\ \A j \in DOMAIN events \ {i} : events'[j] = events[j]
  BY <1>3, ExceptSeq DEF HookTypeOK
<1> QED
  BY <1>2, <1>4, <1>5

LEMMA Closed ==
    ASSUME HookTypeOK, NEW i \in DOMAIN events, Close(i)
    PROVE  /\ events' \in Seq(Event) /\ DOMAIN events' = DOMAIN events
           /\ \A j \in DOMAIN events \ {i} : events'[j] = events[j]
<1> DEFINE e == [by |-> "number", commit |-> 0, row |-> "done"]
<1>1. e \in Event
  BY WebhooksAssumption DEF Event
<1>2. events' = [events EXCEPT ![i] = e]
  BY DEF Close
<1> HIDE DEF e
<1> QED
  BY <1>1, <1>2, ExceptSeq DEF HookTypeOK


LEMMA Appended ==
    ASSUME HookTypeOK, NEW news \in Seq(Event), events' = events \o news
    PROVE  /\ events' \in Seq(Event)
           /\ \A i \in DOMAIN events : i \in DOMAIN events' /\ events'[i] = events[i]
           /\ \A k \in DOMAIN news : \E i \in DOMAIN events' : events'[i] = news[k]
           /\ \A i \in DOMAIN events' \ DOMAIN events : \E k \in DOMAIN news : events'[i] = news[k]
<1>1. events \in Seq(Event)
  BY DEF HookTypeOK
<1>2. /\ events' \in Seq(Event) /\ Len(events') = Len(events) + Len(news)
      /\ \A i \in 1 .. Len(events') :
            events'[i] = IF i <= Len(events) THEN events[i] ELSE news[i - Len(events)]
  BY <1>1, ConcatProperties
<1>3. /\ Len(events) \in Nat /\ DOMAIN events = 1 .. Len(events)
      /\ Len(news) \in Nat /\ DOMAIN news = 1 .. Len(news)
      /\ DOMAIN events' = 1 .. Len(events')
  BY <1>1, <1>2, LenProperties
<1>4. ASSUME NEW k \in DOMAIN news PROVE \E i \in DOMAIN events' : events'[i] = news[k]
  <2>1. /\ Len(events) + k \in DOMAIN events' /\ ~ (Len(events) + k <= Len(events))
        /\ Len(events) + k - Len(events) = k
    BY <1>2, <1>3
  <2> QED
    BY <1>2, <1>3, <2>1
<1>5. ASSUME NEW i \in DOMAIN events' \ DOMAIN events
      PROVE  \E k \in DOMAIN news : events'[i] = news[k]
  <2>1. i - Len(events) \in DOMAIN news /\ events'[i] = news[i - Len(events)]
    BY <1>2, <1>3
  <2> QED
    BY <2>1
<1> QED
  BY <1>2, <1>3, <1>4, <1>5

\* What the steps do to the passes.
Alike(v) ==
    /\ pass'[v] = NoPass <=> pass[v] = NoPass
    /\ pass[v] # NoPass =>
          /\ pass'[v].at = pass[v].at /\ pass'[v].row = pass[v].row
          /\ pass'[v].found = pass[v].found

PassesTyped == pass \in [Runner -> Pass \cup {NoPass}]

LEMMA FreshPass ==
    ASSUME NEW i \in Nat, NEW step \in {"discover", "fetch"}
    PROVE  /\ PassAt(step, i) \in Pass
           /\ PassAt(step, i).at = step /\ PassAt(step, i).row = i
           /\ PassAt(step, i).found = NoPull /\ PassAt(step, i).newer = {}
           /\ PassAt(step, i).stale = FALSE /\ PassAt(step, i).sure = FALSE
  BY DEF PassAt, Pass

LEMMA SetPass ==
    ASSUME HookTypeOK, NEW w \in Runner, NEW p \in Pass \cup {NoPass},
           pass' = [pass EXCEPT ![w] = p]
    PROVE  PassesTyped' /\ pass'[w] = p /\ \A v \in Runner \ {w} : pass'[v] = pass[v]
  BY DEF HookTypeOK, PassesTyped

\* A change goes by unnoticed.
LEMMA Missed ==
    ASSUME HookTypeOK, Misses
    PROVE  /\ PassesTyped' /\ behind' = TRUE
           /\ \A v \in Runner : Alike(v)
           /\ \A v \in Runner : pass[v] # NoPass =>
                 /\ pass'[v].newer = pass[v].newer /\ pass'[v].stale = pass[v].stale
                 /\ pass'[v].sure = FALSE
<1>1. ASSUME NEW v \in Runner, pass[v] # NoPass
      PROVE  /\ pass'[v] \in Pass /\ pass'[v] # NoPass
             /\ pass'[v].at = pass[v].at /\ pass'[v].row = pass[v].row
             /\ pass'[v].found = pass[v].found /\ pass'[v].newer = pass[v].newer
             /\ pass'[v].stale = pass[v].stale /\ pass'[v].sure = FALSE
  <2>1. pass[v] \in Pass
    BY <1>1, PassTyped
  <2> DEFINE p == [pass[v] EXCEPT !.sure = FALSE]
  <2>2. /\ p \in Pass /\ p.at = pass[v].at /\ p.row = pass[v].row
        /\ p.found = pass[v].found /\ p.newer = pass[v].newer
        /\ p.stale = pass[v].stale /\ p.sure = FALSE
    BY <2>1 DEF Pass
  <2>3. pass'[v] = p
    BY <1>1 DEF Misses
  <2> HIDE DEF p
  <2> QED
    BY <2>2, <2>3, PassIsSome
<1>2. ASSUME NEW v \in Runner, pass[v] = NoPass PROVE pass'[v] = NoPass
  BY <1>2 DEF Misses
<1>3. PassesTyped'
  <2>1. DOMAIN pass' = Runner /\ pass' = [v \in Runner |-> pass'[v]]
    BY DEF Misses
  <2> QED
    BY <1>1, <1>2, <2>1 DEF PassesTyped
<1> QED
  BY <1>1, <1>2, <1>3 DEF Misses, Alike

\* A pass fetches; those that have fetched know of it.
LEMMA Fetched ==
    ASSUME HookTypeOK, HooksFit, NEW w \in Runner, Fetch(w)
    PROVE  /\ PassesTyped' /\ seen \in Pull
           /\ pass'[w] # NoPass /\ pass'[w].at = "checks" /\ pass'[w].row = pass[w].row
           /\ pass'[w].found = seen /\ pass'[w].newer = {} /\ pass'[w].sure = TRUE
           /\ \A v \in Runner \ {w} : Alike(v)
           /\ \A v \in Runner \ {w} : pass[v] # NoPass =>
                 /\ pass'[v].stale = pass[v].stale /\ pass'[v].sure = pass[v].sure
                 /\ pass'[v].newer =
                        IF pass[v].found # NoPull THEN pass[v].newer \cup {w} ELSE pass[v].newer
<1>1. pass[w] # NoPass /\ pass[w].at = "fetch" /\ seen \in Pull
  BY DEF Fetch, HookTypeOK
<1>2. pass[w] \in Pass /\ pass[w].newer = {}
  BY <1>1, PassTyped DEF HooksFit, PassFits
<1>3. /\ pass'[w] \in Pass
      /\ pass'[w] # NoPass /\ pass'[w].at = "checks" /\ pass'[w].row = pass[w].row
      /\ pass'[w].found = seen /\ pass'[w].newer = {} /\ pass'[w].sure = TRUE
  <2> DEFINE p == [pass[w] EXCEPT !.at = "checks", !.found = seen, !.sure = TRUE]
  <2>1. /\ p \in Pass /\ p.at = "checks" /\ p.row = pass[w].row
        /\ p.found = seen /\ p.newer = {} /\ p.sure = TRUE
    BY <1>1, <1>2 DEF Pass
  <2>2. pass'[w] = p
    BY <1>1 DEF Fetch
  <2> HIDE DEF p
  <2> QED
    BY <2>1, <2>2, PassIsSome
<1>4. ASSUME NEW v \in Runner \ {w}, pass[v] # NoPass
      PROVE  /\ pass'[v] \in Pass /\ pass'[v] # NoPass
             /\ pass'[v].at = pass[v].at /\ pass'[v].row = pass[v].row
             /\ pass'[v].found = pass[v].found
             /\ pass'[v].stale = pass[v].stale /\ pass'[v].sure = pass[v].sure
             /\ pass'[v].newer =
                    IF pass[v].found # NoPull THEN pass[v].newer \cup {w} ELSE pass[v].newer
  <2>1. pass[v] \in Pass
    BY <1>4, PassTyped
  <2>2. CASE pass[v].found = NoPull
    <3>1. pass'[v] = pass[v]
      BY <1>4, <2>2 DEF Fetch
    <3> QED
      BY <1>4, <2>1, <2>2, <3>1
  <2>3. CASE pass[v].found # NoPull
    <3> DEFINE n == pass[v].newer \cup {w}
               p == [pass[v] EXCEPT !.newer = n]
    <3>1. n \in SUBSET Runner
      BY <2>1 DEF Pass
    <3>2. pass'[v] = p
      BY <1>4, <2>1, <2>3 DEF Fetch, Pass
    <3>3. n = pass[v].newer \cup {w}
      OBVIOUS
    <3> HIDE DEF n
    <3>4. /\ p \in Pass /\ p.at = pass[v].at /\ p.row = pass[v].row
          /\ p.found = pass[v].found /\ p.newer = n
          /\ p.stale = pass[v].stale /\ p.sure = pass[v].sure
      BY <2>1, <3>1 DEF Pass
    <3> HIDE DEF p
    <3> QED
      BY <2>3, <3>2, <3>3, <3>4, PassIsSome
  <2> QED
    BY <2>2, <2>3
<1>5. ASSUME NEW v \in Runner \ {w}, pass[v] = NoPass PROVE pass'[v] = NoPass
  BY <1>5 DEF Fetch
<1>6. PassesTyped'
  <2>1. DOMAIN pass' = Runner /\ pass' = [v \in Runner |-> pass'[v]]
    BY DEF Fetch
  <2> QED
    BY <1>3, <1>4, <1>5, <2>1 DEF PassesTyped
<1> QED
  BY <1>1, <1>3, <1>4, <1>5, <1>6 DEF Alike

\* It then fetches the reviews, and the CI of the head it has found.
LEMMA FetchedChecks ==
    ASSUME HookTypeOK, HooksFit, NEW w \in Runner, FetchChecks(w)
    PROVE  /\ PassesTyped' /\ \A v \in Runner \ {w} : pass'[v] = pass[v]
           /\ pass[w].found # NoPull /\ pass'[w] # NoPass /\ pass'[w].at = "write"
           /\ pass'[w].row = pass[w].row /\ pass'[w].newer = pass[w].newer
           /\ pass'[w].stale = pass[w].stale /\ pass'[w].sure = pass[w].sure
           /\ pass'[w].found # NoPull
           /\ \A l \in Level : Shows(pass[w].found, l) => Shows(pass'[w].found, l)
<1>1. pass[w] # NoPass /\ pass[w].at = "checks"
  BY DEF FetchChecks
<1>2. pass[w] \in Pass /\ pass[w].found \in Pull /\ seen \in Pull
  BY <1>1, PassTyped DEF HooksFit, PassFits, HookTypeOK
<1> DEFINE old == pass[w].found
           ci == IF seen.head = old.head THEN seen.ci ELSE old.ci
           f == [old EXCEPT !.review = seen.review, !.ci = ci]
           p == [pass[w] EXCEPT !.at = "write", !.found = f]
<1>3. ci \in Verdict
  BY <1>2 DEF Pull
<1>4. seen.head = old.head => ci = seen.ci
  OBVIOUS
<1>5. pass' = [pass EXCEPT ![w] = p]
  BY <1>2 DEF FetchChecks, Pull, Pass
<1> HIDE DEF ci
<1>6. /\ f \in Pull /\ f.head = old.head /\ f.status = old.status
      /\ f.review = seen.review /\ f.ci = ci
  BY <1>2, <1>3 DEF Pull
<1> HIDE DEF f
<1>7. /\ p \in Pass /\ p.at = "write" /\ p.row = pass[w].row /\ p.found = f
      /\ p.newer = pass[w].newer /\ p.stale = pass[w].stale /\ p.sure = pass[w].sure
  BY <1>2, <1>6 DEF Pass
<1> HIDE DEF p
<1>8. pass'[w] = p /\ PassesTyped' /\ \A v \in Runner \ {w} : pass'[v] = pass[v]
  BY <1>5, <1>7, SetPass
<1>9. \A l \in Level : Shows(old, l) => Shows(f, l)
  BY <1>4, <1>6 DEF Shows
<1>10. old # NoPull /\ f # NoPull /\ p # NoPass
  BY <1>2, <1>6, <1>7, PullIsSome, PassIsSome
<1> QED
  BY <1>7, <1>8, <1>9, <1>10

\* A pass writes; those that fetched before it are old now.
LEMMA PassWrites ==
    ASSUME HookTypeOK, NEW w \in Runner, NEW p \in Pass \cup {NoPass}, Wrote(w, p)
    PROVE  /\ PassesTyped' /\ pass'[w] = p
           /\ \A v \in Runner \ {w} : Alike(v)
           /\ \A v \in Runner \ {w} : pass[v] # NoPass =>
                 /\ pass'[v].newer = pass[v].newer /\ pass'[v].sure = pass[v].sure
                 /\ pass'[v].stale = (pass[v].stale \/ w \in pass[v].newer)
<1>1. ASSUME NEW v \in Runner \ {w}, pass[v] # NoPass
      PROVE  /\ pass'[v] \in Pass /\ pass'[v] # NoPass
             /\ pass'[v].at = pass[v].at /\ pass'[v].row = pass[v].row
             /\ pass'[v].found = pass[v].found
             /\ pass'[v].newer = pass[v].newer /\ pass'[v].sure = pass[v].sure
             /\ pass'[v].stale = (pass[v].stale \/ w \in pass[v].newer)
  <2>1. pass[v] \in Pass /\ pass[v].stale \in BOOLEAN
    BY <1>1, PassTyped
  <2>2. CASE w \notin pass[v].newer
    <3>1. pass'[v] = pass[v]
      BY <1>1, <2>2 DEF Wrote
    <3> QED
      BY <1>1, <2>1, <2>2, <3>1
  <2>3. CASE w \in pass[v].newer
    <3> DEFINE q == [pass[v] EXCEPT !.stale = TRUE]
    <3>1. /\ q \in Pass /\ q.at = pass[v].at /\ q.row = pass[v].row
          /\ q.found = pass[v].found /\ q.newer = pass[v].newer
          /\ q.stale = TRUE /\ q.sure = pass[v].sure
      BY <2>1 DEF Pass
    <3>2. pass'[v] = q
      BY <1>1, <2>3 DEF Wrote
    <3> HIDE DEF q
    <3> QED
      BY <2>3, <3>1, <3>2, PassIsSome
  <2> QED
    BY <2>2, <2>3
<1>2. ASSUME NEW v \in Runner \ {w}, pass[v] = NoPass PROVE pass'[v] = NoPass
  <2>1. pass'[v] = pass[v]
    BY <1>2 DEF Wrote
  <2> QED
    BY <1>2, <2>1
<1>3. pass'[w] = p
  BY DEF Wrote
<1>4. PassesTyped'
  <2>1. DOMAIN pass' = Runner /\ pass' = [v \in Runner |-> pass'[v]]
    BY DEF Wrote
  <2> QED
    BY <1>1, <1>2, <1>3, <2>1 DEF PassesTyped
<1> QED
  BY <1>1, <1>2, <1>3, <1>4 DEF Alike

\* An event is given up.
GivesUp(w) ==
    /\ pass[w].row # 0 /\ Close(pass[w].row)
    /\ behind' = TRUE
    /\ pass' = [v \in Runner |-> IF v = w \/ pass[v] = NoPass THEN NoPass
                                 ELSE [pass[v] EXCEPT !.sure = FALSE]]

LEMMA GaveUp ==
    ASSUME HookTypeOK, NEW w \in Runner, GivesUp(w)
    PROVE  /\ PassesTyped' /\ behind' = TRUE /\ pass'[w] = NoPass
           /\ \A v \in Runner \ {w} : Alike(v)
           /\ \A v \in Runner \ {w} : pass[v] # NoPass =>
                 /\ pass'[v].newer = pass[v].newer /\ pass'[v].stale = pass[v].stale
                 /\ pass'[v].sure = FALSE
<1>1. ASSUME NEW v \in Runner \ {w}, pass[v] # NoPass
      PROVE  /\ pass'[v] \in Pass /\ pass'[v] # NoPass
             /\ pass'[v].at = pass[v].at /\ pass'[v].row = pass[v].row
             /\ pass'[v].found = pass[v].found /\ pass'[v].newer = pass[v].newer
             /\ pass'[v].stale = pass[v].stale /\ pass'[v].sure = FALSE
  <2>1. pass[v] \in Pass
    BY <1>1, PassTyped
  <2> DEFINE p == [pass[v] EXCEPT !.sure = FALSE]
  <2>2. /\ p \in Pass /\ p.at = pass[v].at /\ p.row = pass[v].row
        /\ p.found = pass[v].found /\ p.newer = pass[v].newer
        /\ p.stale = pass[v].stale /\ p.sure = FALSE
    BY <2>1 DEF Pass
  <2>3. pass'[v] = p
    BY <1>1 DEF GivesUp
  <2> HIDE DEF p
  <2> QED
    BY <2>2, <2>3, PassIsSome
<1>2. ASSUME NEW v \in Runner \ {w}, pass[v] = NoPass PROVE pass'[v] = NoPass
  BY <1>2 DEF GivesUp
<1>3. pass'[w] = NoPass /\ behind' = TRUE
  BY DEF GivesUp
<1>4. PassesTyped'
  <2>1. DOMAIN pass' = Runner /\ pass' = [v \in Runner |-> pass'[v]]
    BY DEF GivesUp
  <2> QED
    BY <1>1, <1>2, <1>3, <2>1 DEF PassesTyped
<1> QED
  BY <1>1, <1>2, <1>3, <1>4 DEF Alike

-----------------------------------------------------------------------------
\* What keeps the two invariants: what was announced stays so, and a pass that stands
\* goes on or has its event taken again.
Steady(l) ==
    /\ Announced(l) => Announced(l)'
    /\ \A u \in Runner : Stands(u, l) => Stands(u, l)' \/ Announced(l)'
    /\ behind => behind'

LEMMA MirrorGoesOn ==
    ASSUME NEW l \in Level, MirrorFollows(l), Steady(l),
           tracked' => tracked, Shows(mirror, l) => Shows(mirror, l)'
    PROVE  MirrorFollows(l)'
<1> HIDE DEF Announced, Stands, Shows
<1> QED
  BY DEF MirrorFollows, Steady

LateStays(v, l) ==
    /\ v \in Late /\ (Shows(pass[v].found, l) => Shows(pass[v].found, l)')
    /\ pass[v].stale => pass'[v].stale
    /\ pass[v].newer \subseteq pass'[v].newer
    /\ pass'[v].sure => pass[v].sure

LEMMA PassesGoOn ==
    ASSUME HookTypeOK, NEW l \in Level, PassesFollow(l), Steady(l),
           \A v \in Runner : v \in Late' => LateStays(v, l)
    PROVE  PassesFollow(l)'
<1>1. SUFFICES ASSUME ~Announced(l)', NEW v \in Runner, v \in Late',
                      ~behind' \/ pass'[v].sure
               PROVE  Harmless(v, l)'
  BY DEF PassesFollow, Late
<1>2. LateStays(v, l) /\ v \in Late /\ Harmless(v, l)
  BY <1>1 DEF Steady, PassesFollow, LateStays
<1>3. pass[v].newer \subseteq Runner
  BY <1>2, PassTyped DEF Late
<1>4. CASE pass[v].stale \/ Shows(pass[v].found, l)
  BY <1>2, <1>4 DEF LateStays, Harmless
<1>5. ASSUME NEW u \in pass[v].newer, Stands(u, l) PROVE Harmless(v, l)'
  <2>1. u \in Runner /\ u \in pass'[v].newer /\ Stands(u, l)'
    BY <1>1, <1>2, <1>3, <1>5 DEF LateStays, Steady
  <2> QED
    BY <2>1 DEF Harmless
<1> QED
  BY <1>2, <1>4, <1>5 DEF Harmless

\* A pass that goes on with what it found stands as before, if the forge has not changed.
LEMMA StandsOn ==
    ASSUME UNCHANGED <<setting, seen>>, NEW l \in Level, NEW u \in Runner,
           Stands(u, l), pass'[u] # NoPass, pass'[u].row = pass[u].row,
           pass'[u].found # NoPull, Shows(pass[u].found, l) => Shows(pass'[u].found, l),
           /\ events'[pass[u].row].by = events[pass[u].row].by
           /\ events'[pass[u].row].commit = events[pass[u].row].commit
    PROVE  Stands(u, l)'
  BY DEF Stands, Late, Announces, Shows, provider

LEMMA StandsStays ==
    ASSUME UNCHANGED <<setting, seen>>, NEW l \in Level, NEW u \in Runner,
           Stands(u, l), Alike(u),
           /\ events'[pass[u].row].by = events[pass[u].row].by
           /\ events'[pass[u].row].commit = events[pass[u].row].commit
    PROVE  Stands(u, l)'
<1>1. /\ pass'[u] # NoPass /\ pass'[u].row = pass[u].row
      /\ pass'[u].found = pass[u].found /\ pass'[u].found # NoPull
  BY DEF Stands, Late, Alike
<1>2. Shows(pass[u].found, l) => Shows(pass'[u].found, l)
  BY <1>1 DEF Shows
<1> QED
  BY <1>1, <1>2, StandsOn

-----------------------------------------------------------------------------
(* The forge                                                               *)
LEMMA Sent ==
    ASSUME NEW change, NEW n \in 1 .. MaxCommits, NEW news \in Sends(change, n)
    PROVE  /\ news \in Seq(Event) /\ \A k \in DOMAIN news : news[k].row = "sent"
           /\ change \notin {"verdict", "rerun"}
                => \E k \in DOMAIN news : news[k] = Number
           /\ change = "verdict"
                => \E k \in DOMAIN news : news[k] \in {Number, Commit(n)}
<1>1. Number \in Event /\ Commit(n) \in Event /\ Number.row = "sent" /\ Commit(n).row = "sent"
  BY WebhooksAssumption DEF Number, Commit, Event
<1> DEFINE two == <<Number, Commit(n)>>
           one == <<Number>>
           other == <<Commit(n)>>
           none == <<>>
<1>2. /\ two \in Seq(Event) /\ DOMAIN two = {1, 2} /\ two[1] = Number /\ two[2] = Commit(n)
      /\ one \in Seq(Event) /\ DOMAIN one = {1} /\ one[1] = Number
      /\ other \in Seq(Event) /\ DOMAIN other = {1} /\ other[1] = Commit(n)
      /\ none \in Seq(Event) /\ DOMAIN none = {}
  BY <1>1
<1>3. news \in {two, one, other, none}
  BY DEF Sends, GithubSends, OthersSend
<1>4. change \notin {"verdict", "rerun"} => news \in {two, one}
  BY DEF Sends, GithubSends, OthersSend
<1>5. change = "verdict" => news \in {one, other}
  BY DEF Sends, GithubSends, OthersSend
<1> HIDE DEF two, one, other, none, Number, Commit
<1> QED
  BY <1>1, <1>2, <1>3, <1>4, <1>5

\* A change that is announced, or shows in no field that a pass has to bring.
LEMMA ChangeKeeps ==
    ASSUME HookInv, NEW change, NEW to \in Pull, Changes(change, to),
           \A l \in Level :
               \/ \E i \in DOMAIN events' : /\ events'[i].row = "sent"
                                            /\ Announces(events[i], l)'
               \/ /\ seen # NoPull /\ to.head = seen.head
                  /\ \A found : Shows(found, l) => Shows(found, l)'
    PROVE  HookInv'
<1> USE DEF HookInv
<1>1. PICK news \in Sends(change, to.head) : events' = events \o news
  BY DEF Changes
<1>2. seen' = to /\ UNCHANGED <<setting, linked, tracked, mirror, polling, pass, behind>>
  BY DEF Changes
<1>3. to.head \in 1 .. MaxCommits /\ to # NoPull
  BY PullIsSome
<1>4. news \in Seq(Event)
  BY <1>1, <1>3, Sent
<1>5. /\ events' \in Seq(Event)
      /\ \A i \in DOMAIN events : i \in DOMAIN events' /\ events'[i] = events[i]
  BY <1>1, <1>4, Appended
<1>6. HookTypeOK'
  BY <1>2, <1>5 DEF HookTypeOK
<1>7. HooksFit'
  <2>1. ASSUME NEW w \in Runner PROVE PassFits(w)'
    BY <1>2, <1>3, <1>5 DEF HooksFit, PassFits
  <2> QED
    BY <1>2, <1>3, <2>1 DEF HooksFit
<1>8. InOrderOfFetch'
  BY <1>2 DEF InOrderOfFetch, Late
<1>9. ASSUME NEW l \in Level PROVE MirrorFollows(l)' /\ PassesFollow(l)'
  <2>1. CASE Announced(l)'
    BY <2>1 DEF MirrorFollows, PassesFollow
  <2>2. CASE ~Announced(l)'
    <3>1. /\ seen # NoPull /\ to.head = seen.head
          /\ \A found : Shows(found, l) => Shows(found, l)'
      <4>1. ASSUME NEW i \in DOMAIN events', events'[i].row = "sent", Announces(events[i], l)'
            PROVE  FALSE
        BY <2>2, <4>1 DEF Announced, Awaited
      <4> QED
        BY <4>1
    <3>2. ASSUME NEW i \in DOMAIN events, Announces(events[i], l)
          PROVE  Announces(events[i], l)'
      BY <1>2, <1>5, <3>1, <3>2 DEF Announces
    <3>3. ASSUME NEW i \in DOMAIN events, Awaited(i) PROVE Awaited(i)'
      BY <1>2, <1>5, <3>3 DEF Awaited
    <3>4. Announced(l) => Announced(l)'
      BY <1>5, <3>2, <3>3 DEF Announced
    <3>5. ASSUME NEW u \in Runner, Stands(u, l) PROVE Stands(u, l)'
      <4>1. pass[u].row \in DOMAIN events /\ u \in Late
        BY <3>5 DEF Stands, Late, HooksFit, PassFits
      <4>2. PICK i \in DOMAIN events : i = pass[u].row
        BY <4>1
      <4>3. PICK found : found = pass[u].found
        OBVIOUS
      <4>4. Announces(events[i], l)' /\ Shows(found, l)'
        BY <3>1, <3>2, <3>5, <4>2, <4>3 DEF Stands
      <4>5. Announces(events[pass[u].row], l)' /\ Shows(pass[u].found, l)'
        BY <1>2, <4>2, <4>3, <4>4 DEF Announces, Shows
      <4> QED
        BY <1>2, <3>5, <4>5 DEF Stands, Late
    <3>6. Steady(l)
      BY <1>2, <3>4, <3>5 DEF Steady
    <3>7. Shows(mirror, l) => Shows(mirror, l)'
      BY <1>2, <3>1 DEF Shows
    <3>8. ASSUME NEW v \in Runner, v \in Late' PROVE LateStays(v, l)
      BY <1>2, <3>1, <3>8 DEF LateStays, Late, Shows
    <3> QED
      BY <1>2, <3>6, <3>7, <3>8, MirrorGoesOn, PassesGoOn
  <2> QED
    BY <2>1, <2>2
<1> QED
  BY <1>6, <1>7, <1>8, <1>9

\* A change that no event tells of.
LEMMA UntoldStep ==
    ASSUME HookInv, seen' \in Pull, Misses,
           UNCHANGED <<setting, linked, events, tracked, mirror, polling>>
    PROVE  HookInv'
<1> USE DEF HookInv
<1>1. /\ PassesTyped' /\ behind' = TRUE /\ seen' # NoPull
      /\ \A v \in Runner : Alike(v)
      /\ \A v \in Runner : pass[v] # NoPass =>
            /\ pass'[v].newer = pass[v].newer /\ pass'[v].stale = pass[v].stale
            /\ pass'[v].sure = FALSE
  BY Missed, PullIsSome
<1>2. HookTypeOK'
  BY <1>1 DEF HookTypeOK, PassesTyped
<1>3. HooksFit'
  BY <1>1 DEF HooksFit, PassFits, Alike
<1>4. Late' = Late
  BY <1>1 DEF Late, Alike
<1>5. InOrderOfFetch'
  <2>1. SUFFICES ASSUME NEW v \in Late, NEW w \in Late, v # w
                 PROVE  /\ v \in pass'[w].newer \/ w \in pass'[v].newer
                        /\ v \in pass'[w].newer /\ pass'[w].sure => pass'[v].sure
    BY <1>4 DEF InOrderOfFetch
  <2> QED
    BY <1>1, <2>1 DEF InOrderOfFetch, Late
<1>6. \A l \in Level : MirrorFollows(l)' /\ PassesFollow(l)'
  BY <1>1, <1>4 DEF MirrorFollows, PassesFollow, Late
<1> QED
  BY <1>2, <1>3, <1>5, <1>6

\* The pull request itself: its fields, and what the change may do to them.
LEMMA ForgeStep ==
    ASSUME HookInv, PullChanges \/ Push \/ Ci \/ Review
    PROVE  HookInv'
<1>1. seen \in Pull \cup {NoPull} /\ (seen # NoPull => seen.head \in 1 .. MaxCommits)
  BY PullIsSome DEF HookInv, HookTypeOK
<1>2. ASSUME NEW change, NEW to \in Pull, Changes(change, to), change \notin {"verdict", "rerun"}
      PROVE  HookInv'
  <2>1. PICK news \in Sends(change, to.head) : events' = events \o news
    BY <1>2 DEF Changes
  <2>2. to.head \in 1 .. MaxCommits
    BY PullIsSome
  <2>3. news \in Seq(Event) /\ \E k \in DOMAIN news : news[k] = Number
    BY <1>2, <2>1, <2>2, Sent
  <2>4. \E i \in DOMAIN events' : events'[i] = Number
    <3>1. PICK k \in DOMAIN news : news[k] = Number
      BY <2>3
    <3>2. \E i \in DOMAIN events' : events'[i] = news[k]
      BY <2>1, <2>3, Appended DEF HookInv
    <3> QED
      BY <3>1, <3>2
  <2>5. \A l \in Level : \E i \in DOMAIN events' :
            events'[i].row = "sent" /\ Announces(events[i], l)'
    BY <2>4 DEF Number, Announces
  <2> QED
    BY <1>2, <2>5, ChangeKeeps
<1>3. ASSUME NEW to \in Pull, Changes("verdict", to), seen # NoPull, to.head = seen.head,
             to.status = seen.status, to.review = seen.review
      PROVE  HookInv'
  <2>1. PICK news \in Sends("verdict", to.head) : events' = events \o news
    BY <1>3 DEF Changes
  <2>2. to.head \in 1 .. MaxCommits /\ seen' = to /\ setting' = setting
    BY <1>3, PullIsSome DEF Changes
  <2>3. news \in Seq(Event) /\ \E k \in DOMAIN news : news[k] \in {Number, Commit(to.head)}
    BY <2>1, <2>2, Sent
  <2>4. \E i \in DOMAIN events' : events'[i] \in {Number, Commit(to.head)}
    <3>1. PICK k \in DOMAIN news : news[k] \in {Number, Commit(to.head)}
      BY <2>3
    <3>2. \E i \in DOMAIN events' : events'[i] = news[k]
      BY <2>1, <2>3, Appended DEF HookInv
    <3> QED
      BY <3>1, <3>2
  <2>5. \E i \in DOMAIN events' : events'[i].row = "sent" /\ Announces(events[i], "ci")'
    BY <2>2, <2>4 DEF Number, Commit, Announces
  <2>6. \A found : Shows(found, "pull") => Shows(found, "pull")'
    BY <1>3, <2>2 DEF Shows, provider
  <2>7. \A l \in Level :
            \/ \E i \in DOMAIN events' : events'[i].row = "sent" /\ Announces(events[i], l)'
            \/ \A found : Shows(found, l) => Shows(found, l)'
    BY <2>5, <2>6 DEF Level
  <2> QED
    BY <1>3, <2>7, ChangeKeeps
<1>4. ASSUME NEW change, NEW to \in Pull, Changes(change, to), seen # NoPull,
             to.head = seen.head, to.status = seen.status, to.review = seen.review,
             to.ci = "pending" \/ to.ci = seen.ci
      PROVE  HookInv'
  <2>1. seen' = to /\ setting' = setting
    BY <1>4 DEF Changes
  <2>2. \A l \in Level : \A found : Shows(found, l) => Shows(found, l)'
    BY <1>4, <2>1 DEF Shows, provider
  <2> QED
    BY <1>4, <2>2, ChangeKeeps
<1>5. CASE PullChanges
  <2>1. CASE /\ seen = NoPull
             /\ Changes("pull", [head |-> 1, status |-> "open", review |-> "none",
                                 ci |-> "pending"])
    <3> DEFINE to == [head |-> 1, status |-> "open", review |-> "none", ci |-> "pending"]
    <3>1. to \in Pull
      BY WebhooksAssumption DEF Pull, Verdict
    <3>2. PICK x \in Pull : x = to
      BY <3>1
    <3>3. Changes("pull", x)
      BY <2>1, <3>2 DEF Changes
    <3> QED
      BY <1>2, <3>3
  <2>2. ASSUME seen # NoPull, NEW s \in {"open", "closed", "merged"},
               Changes("pull", [seen EXCEPT !.status = s])
        PROVE  HookInv'
    <3>1. [seen EXCEPT !.status = s] \in Pull
      BY <1>1, <2>2 DEF Pull
    <3>2. PICK x \in Pull : x = [seen EXCEPT !.status = s]
      BY <3>1
    <3>3. Changes("pull", x)
      BY <2>2, <3>2 DEF Changes
    <3> QED
      BY <1>2, <3>3
  <2> QED
    BY <1>5, <2>1, <2>2 DEF PullChanges, Open
<1>6. CASE Push
  <2>1. seen # NoPull /\ seen \in Pull /\ seen.head < MaxCommits
    BY <1>1, <1>6 DEF Push, Open
  <2> DEFINE n == seen.head + 1
             to == [seen EXCEPT !.head = n, !.ci = "pending"]
  <2>2. n \in 1 .. MaxCommits
    BY <1>1, <2>1, WebhooksAssumption
  <2>3. Changes("push", to)
    BY <1>6 DEF Push
  <2> HIDE DEF n
  <2>4. to \in Pull
    BY <2>1, <2>2 DEF Pull, Verdict
  <2>5. PICK x \in Pull : x = to
    BY <2>4
  <2>6. Changes("push", x)
    BY <2>3, <2>5 DEF Changes
  <2> QED
    BY <1>2, <2>6
<1>7. CASE Ci
  <2>1. seen # NoPull /\ seen \in Pull
    BY <1>1, <1>7 DEF Ci, Open
  <2>2. ASSUME NEW r \in {"passed", "failed"}, Changes("verdict", [seen EXCEPT !.ci = r])
        PROVE  HookInv'
    <3>1. [seen EXCEPT !.ci = r] \in Pull
      BY <2>1 DEF Pull, Verdict
    <3>2. PICK x \in Pull : x = [seen EXCEPT !.ci = r]
      BY <3>1
    <3>3. /\ x.head = seen.head /\ x.status = seen.status /\ x.review = seen.review
          /\ Changes("verdict", x)
      BY <2>1, <2>2, <3>2 DEF Changes, Pull
    <3> QED
      BY <1>3, <2>1, <3>3
  <2>3. ASSUME Changes("rerun", [seen EXCEPT !.ci = "pending"]) PROVE HookInv'
    <3>1. [seen EXCEPT !.ci = "pending"] \in Pull
      BY <2>1 DEF Pull, Verdict
    <3>2. PICK x \in Pull : x = [seen EXCEPT !.ci = "pending"]
      BY <3>1
    <3>3. /\ x.head = seen.head /\ x.status = seen.status /\ x.review = seen.review
          /\ x.ci = "pending" /\ Changes("rerun", x)
      BY <2>1, <2>3, <3>2 DEF Changes, Pull
    <3> QED
      BY <1>4, <2>1, <3>3
  <2> QED
    BY <1>7, <2>2, <2>3 DEF Ci
<1>8. CASE Review
  <2>1. seen # NoPull /\ seen \in Pull
    BY <1>1, <1>8 DEF Review, Open
  <2>2. ASSUME NEW r \in {"none", "approved", "changes"} PROVE ReviewIs(r) \in Pull
    BY <2>1 DEF ReviewIs, Pull
  <2>3. ASSUME NEW change \in {"review", "dismiss"}, NEW r \in {"none", "approved", "changes"},
               Changes(change, ReviewIs(r))
        PROVE  HookInv'
    BY <1>2, <2>2, <2>3
  <2>4. CASE ReviewUntold
    <3>1. PICK r \in {"none", "approved", "changes"} : seen' = ReviewIs(r)
      BY <2>4 DEF ReviewUntold
    <3>2. seen' \in Pull
      BY <2>2, <3>1
    <3>3. Misses /\ UNCHANGED <<setting, linked, events, tracked, mirror, polling>>
      BY <2>4 DEF ReviewUntold
    <3> QED
      BY <3>2, <3>3, UntoldStep
  <2> QED
    BY <1>8, <2>3, <2>4 DEF Review, Submit, Dismiss
<1> QED
  BY <1>5, <1>6, <1>7, <1>8

-----------------------------------------------------------------------------
(* The inbox                                                               *)

\* A pass whose fields stay fits as before, unless its event changes.
LEMMA FitsStill ==
    ASSUME HookTypeOK, HooksFit, seen' = seen, NEW w \in Runner,
           \A v \in Runner : Alike(v),
           pass[w] # NoPass => pass'[w].newer = pass[w].newer,
           \A i \in DOMAIN events : events[i].row = "taken" =>
               i \in DOMAIN events' /\ events'[i].row = "taken"
    PROVE  PassFits(w)'
  BY DEF HooksFit, PassFits, Alike

\* An event that no pass has taken goes on, or is missed.
LEMMA EventMoves ==
    ASSUME HookInv, UNCHANGED <<setting, linked, seen, tracked, mirror, polling>>,
           NEW i \in DOMAIN events, events[i].row # "taken",
           events' \in Seq(Event), DOMAIN events' = DOMAIN events,
           \A j \in DOMAIN events \ {i} : events'[j] = events[j],
           \/ /\ events'[i].row \in {"sent", "pending"}
              /\ events'[i].by = events[i].by /\ events'[i].commit = events[i].commit
              /\ UNCHANGED <<pass, behind>>
           \/ Misses
    PROVE  HookInv'
<1> USE DEF HookInv
<1>1. /\ PassesTyped' /\ \A v \in Runner : Alike(v)
      /\ \A v \in Runner : pass[v] # NoPass =>
            pass'[v].newer = pass[v].newer /\ pass'[v].stale = pass[v].stale
  <2>1. CASE UNCHANGED <<pass, behind>>
    BY <2>1 DEF PassesTyped, HookTypeOK, Alike
  <2>2. CASE Misses
    BY <2>2, Missed
  <2> QED
    BY <2>1, <2>2
<1>2. \/ UNCHANGED <<pass, behind>>
      \/ behind' = TRUE /\ \A v \in Runner : pass[v] # NoPass => pass'[v].sure = FALSE
  BY Missed
<1>3. HookTypeOK'
  BY <1>1, <1>2 DEF HookTypeOK, PassesTyped
<1>4. HooksFit'
  <2>1. \A j \in DOMAIN events : events[j].row = "taken" => events'[j].row = "taken"
    OBVIOUS
  <2>2. \A w \in Runner : PassFits(w)'
    BY <1>1, <2>1, FitsStill
  <2> QED
    BY <2>2 DEF HooksFit
<1>5. Late' = Late
  BY <1>1 DEF Late, Alike
<1>6. InOrderOfFetch'
  <2>1. SUFFICES ASSUME NEW v \in Late, NEW w \in Late, v # w
                 PROVE  /\ v \in pass'[w].newer \/ w \in pass'[v].newer
                        /\ v \in pass'[w].newer /\ pass'[w].sure => pass'[v].sure
    BY <1>5 DEF InOrderOfFetch
  <2> QED
    BY <1>1, <1>2, <2>1 DEF InOrderOfFetch, Late
<1>7. ASSUME NEW l \in Level, UNCHANGED <<pass, behind>>,
             events'[i].row \in {"sent", "pending"},
             events'[i].by = events[i].by, events'[i].commit = events[i].commit
      PROVE  MirrorFollows(l)' /\ PassesFollow(l)'
  <2>1. ASSUME NEW j \in DOMAIN events, Announces(events[j], l), Awaited(j)
        PROVE  Announces(events[j], l)' /\ Awaited(j)'
    BY <1>7, <2>1 DEF Announces, Awaited
  <2>2. Announced(l) => Announced(l)'
    BY <2>1 DEF Announced
  <2>3. ASSUME NEW u \in Runner, Stands(u, l) PROVE Stands(u, l)'
    <3>1. pass[u].row \in DOMAIN events \ {i}
      BY <2>3 DEF Stands, Late, HooksFit, PassFits
    <3> QED
      BY <1>1, <2>3, <3>1, StandsStays
  <2>4. Steady(l)
    BY <1>7, <2>2, <2>3 DEF Steady
  <2>5. \A v \in Runner : v \in Late' => LateStays(v, l)
    BY <1>7, <1>5 DEF LateStays, Shows, provider
  <2>6. Shows(mirror, l) => Shows(mirror, l)'
    BY DEF Shows, provider
  <2> QED
    BY <2>4, <2>5, <2>6, MirrorGoesOn, PassesGoOn
<1>8. ASSUME NEW l \in Level, Misses PROVE MirrorFollows(l)' /\ PassesFollow(l)'
  BY <1>5, <1>8, Missed DEF MirrorFollows, PassesFollow, Late
<1> QED
  BY <1>3, <1>4, <1>6, <1>7, <1>8

\* A delivery is received once, or is lost on a project that is not linked.
LEMMA ReceiveStep ==
    ASSUME HookInv, NEW i \in DOMAIN events, Receive(i) \/ Lose(i)
    PROVE  HookInv'
<1>1. /\ events[i].row = "sent" /\ HookTypeOK
      /\ UNCHANGED <<setting, linked, seen, tracked, mirror, polling>>
  BY DEF Receive, Lose, Received, HookInv
<1>2. ASSUME Close(i), Misses PROVE HookInv'
  BY <1>1, <1>2, Closed, EventMoves
<1>3. ASSUME linked, Receive(i) PROVE HookInv'
  <2>1. Mark(i, "pending") /\ UNCHANGED <<pass, behind>>
    BY <1>1, <1>3 DEF Receive, Received, DedupKey
  <2> QED
    BY <1>1, <2>1, Marked, EventMoves
<1> QED
  BY <1>2, <1>3 DEF Receive, Lose

\* Events that are added and nothing else.
LEMMA SimulateStep ==
    ASSUME HookInv, NEW simulated, Simulate(simulated)
    PROVE  HookInv'
<1> USE DEF HookInv
<1>1. PICK by \in {"number", "run", "nothing"} :
          events' = Append(events, [by |-> by, commit |-> 0, row |-> "pending"])
  BY DEF Simulate, Names
<1>2. UNCHANGED <<setting, linked, seen, tracked, mirror, polling, pass, behind>>
  BY DEF Simulate
<1> DEFINE e == [by |-> by, commit |-> 0, row |-> "pending"]
<1>3. e \in Event
  BY WebhooksAssumption DEF Event
<1> HIDE DEF e
<1>4. events \in Seq(Event) /\ events' = Append(events, e)
  BY <1>1 DEF HookTypeOK, e
<1>5. /\ events' \in Seq(Event)
      /\ \A i \in DOMAIN events : i \in DOMAIN events' /\ events'[i] = events[i]
  BY <1>3, <1>4, AppendProperties, LenProperties
<1>6. HookTypeOK'
  BY <1>2, <1>5 DEF HookTypeOK
<1>7. HooksFit' /\ InOrderOfFetch'
  BY <1>2, <1>5 DEF HooksFit, PassFits, InOrderOfFetch, Late
<1>8. ASSUME NEW l \in Level PROVE MirrorFollows(l)' /\ PassesFollow(l)'
  <2>1. ASSUME NEW j \in DOMAIN events, Announces(events[j], l), Awaited(j)
        PROVE  Announces(events[j], l)' /\ Awaited(j)'
    BY <1>2, <1>5, <2>1 DEF Announces, Awaited
  <2>2. Announced(l) => Announced(l)'
    BY <1>5, <2>1 DEF Announced
  <2>3. ASSUME NEW u \in Runner, Stands(u, l) PROVE Stands(u, l)'
    <3>1. pass[u].row \in DOMAIN events
      BY <2>3 DEF Stands, Late, HooksFit, PassFits
    <3>2. Alike(u)
      BY <1>2 DEF Alike
    <3> QED
      BY <1>2, <1>5, <2>3, <3>1, <3>2, StandsStays
  <2>4. Steady(l)
    BY <1>2, <2>2, <2>3 DEF Steady
  <2>5. \A v \in Runner : v \in Late' => LateStays(v, l)
    BY <1>2 DEF LateStays, Late, Shows, provider
  <2>6. Shows(mirror, l) => Shows(mirror, l)'
    BY <1>2 DEF Shows, provider
  <2> QED
    BY <1>2, <2>4, <2>5, <2>6, MirrorGoesOn, PassesGoOn
<1> QED
  BY <1>6, <1>7, <1>8

LEMMA WorkersStep ==
    ASSUME HookInv,
           UNCHANGED <<setting, seen, events, tracked, mirror, pass, behind>>,
           \/ LinkRepository
           \/ \E w \in Poller : StartWorker(w) \/ StopWorker(w)
           \/ UNCHANGED <<linked, polling>>
    PROVE  HookInv'
<1>1. /\ linked' \in BOOLEAN /\ polling' \subseteq Poller
      /\ polling' # {} => linked'
  BY DEF LinkRepository, StartWorker, StopWorker, HookInv, HookTypeOK, HooksFit
<1>2. HookTypeOK'
  BY <1>1 DEF HookInv, HookTypeOK
<1>3. HooksFit'
  BY <1>1 DEF HookInv, HooksFit, PassFits
<1>4. InOrderOfFetch'
  BY DEF HookInv, InOrderOfFetch, Late
<1>5. ASSUME NEW l \in Level PROVE MirrorFollows(l)' /\ PassesFollow(l)'
  <2>1. (Announced(l) <=> Announced(l)') /\ Late' = Late
    BY DEF Announced, Awaited, Announces, Late
  <2>2. \A u : Stands(u, l) <=> Stands(u, l)'
    BY DEF Stands, Late, Announces, Shows, provider
  <2>3. Steady(l)
    BY <2>1, <2>2 DEF Steady
  <2>4. \A v \in Runner : v \in Late' => LateStays(v, l)
    BY <2>1 DEF LateStays, Shows, provider
  <2>5. Shows(mirror, l) => Shows(mirror, l)'
    BY DEF Shows, provider
  <2> QED
    BY <2>3, <2>4, <2>5, MirrorGoesOn, PassesGoOn DEF HookInv
<1> QED
  BY <1>2, <1>3, <1>4, <1>5 DEF HookInv

-----------------------------------------------------------------------------
(* The passes                                                              *)

\* A pass that has not fetched begins, or goes on to its fetch.
LEMMA NotLateStep ==
    ASSUME HookInv, UNCHANGED <<setting, seen>>, NEW w \in Runner, w \notin Late, w \notin Late',
           \A v \in Runner \ {w} : pass'[v] = pass[v],
           \A i \in DOMAIN events :
               /\ i \in DOMAIN events'
               /\ events'[i].by = events[i].by /\ events'[i].commit = events[i].commit
               /\ Awaited(i) => Awaited(i)',
           behind => behind'
    PROVE  /\ InOrderOfFetch'
           /\ \A l \in Level : Steady(l) /\ PassesFollow(l)'
<1> USE DEF HookInv
<1>1. Late' = Late
  BY DEF Late
<1>2. InOrderOfFetch'
  BY <1>1 DEF InOrderOfFetch, Late
<1>3. ASSUME NEW l \in Level PROVE Steady(l) /\ PassesFollow(l)'
  <2>1. ASSUME NEW j \in DOMAIN events, Announces(events[j], l), Awaited(j)
        PROVE  Announces(events[j], l)' /\ Awaited(j)'
    BY <2>1 DEF Announces
  <2>2. Announced(l) => Announced(l)'
    BY <2>1 DEF Announced
  <2>3. ASSUME NEW u \in Runner, Stands(u, l) PROVE Stands(u, l)'
    <3>1. pass[u].row \in DOMAIN events /\ u # w
      BY <2>3 DEF Stands, Late, HooksFit, PassFits
    <3>2. Alike(u)
      BY <3>1 DEF Alike
    <3> QED
      BY <2>3, <3>1, <3>2, StandsStays
  <2>4. Steady(l)
    BY <2>2, <2>3 DEF Steady
  <2>5. ASSUME NEW v \in Runner, v \in Late' PROVE LateStays(v, l)
    <3>1. v \in Late /\ pass'[v] = pass[v]
      BY <1>1, <2>5
    <3> QED
      BY <3>1 DEF LateStays, Shows, provider
  <2> QED
    BY <2>4, <2>5, PassesGoOn
<1> QED
  BY <1>2, <1>3

\* A worker takes an event that names its run.
LEMMA TakeStep ==
    ASSUME HookInv, NEW w \in Poller, NEW i \in DOMAIN events, Take(w, i),
           Resolves(events[i]) /\ linked
    PROVE  HookInv'
<1> USE DEF HookInv
<1>1. /\ pass[w] = NoPass /\ events[i].row = "pending" /\ w \in Runner
      /\ Mark(i, "taken") /\ pass' = [pass EXCEPT ![w] = PassAt("fetch", i)]
      /\ UNCHANGED <<setting, linked, seen, tracked, mirror, polling, behind>>
  BY DEF Take, Runner
<1>2. i \in Nat /\ i # 0
  BY EventTyped
<1>3. /\ PassesTyped' /\ pass'[w] = PassAt("fetch", i)
      /\ \A v \in Runner \ {w} : pass'[v] = pass[v]
  BY <1>1, <1>2, FreshPass, SetPass
<1>4. /\ pass'[w] # NoPass /\ pass'[w].at = "fetch" /\ pass'[w].row = i
      /\ pass'[w].found = NoPull /\ pass'[w].newer = {}
  <2> DEFINE p == PassAt("fetch", i)
  <2>1. /\ p \in Pass /\ p.at = "fetch" /\ p.row = i /\ p.found = NoPull /\ p.newer = {}
    BY <1>2, FreshPass
  <2>2. pass'[w] = p
    BY <1>3
  <2> HIDE DEF p
  <2> QED
    BY <2>1, <2>2, PassIsSome
<1>5. /\ events' \in Seq(Event) /\ DOMAIN events' = DOMAIN events
      /\ \A j \in DOMAIN events \ {i} : events'[j] = events[j]
      /\ events'[i].row = "taken"
      /\ events'[i].by = events[i].by /\ events'[i].commit = events[i].commit
  BY <1>1, Marked
<1>6. HookTypeOK'
  BY <1>1, <1>3, <1>5 DEF HookTypeOK, PassesTyped
<1>7. HooksFit'
  <2>1. PassFits(w)'
    BY <1>1, <1>3, <1>4, <1>5 DEF HooksFit, PassFits
  <2>2. ASSUME NEW v \in Runner \ {w} PROVE PassFits(v)'
    <3>1. pass[v] # NoPass /\ pass[v].row # 0
            => pass[v].row \in DOMAIN events \ {i} /\ pass[v].row # pass'[w].row
      BY <1>1, <1>4 DEF HooksFit, PassFits
    <3> QED
      BY <1>1, <1>3, <1>5, <3>1 DEF HooksFit, PassFits
  <2> QED
    BY <1>1, <2>1, <2>2 DEF HooksFit
<1>8. ASSUME NEW j \in DOMAIN events, Awaited(j) PROVE Awaited(j)'
  <2>1. CASE j = i
    BY <1>1, <1>4, <2>1 DEF Awaited
  <2>2. CASE j # i
    BY <1>1, <1>3, <1>5, <1>8, <2>2 DEF Awaited
  <2> QED
    BY <2>1, <2>2
<1>9. w \notin Late /\ w \notin Late'
  BY <1>1, <1>4 DEF Late
<1>10. InOrderOfFetch' /\ \A l \in Level : Steady(l) /\ PassesFollow(l)'
  BY <1>1, <1>3, <1>5, <1>8, <1>9, NotLateStep
<1>11. ASSUME NEW l \in Level PROVE MirrorFollows(l)'
  <2>1. Shows(mirror, l) => Shows(mirror, l)'
    BY <1>1 DEF Shows, provider
  <2> QED
    BY <1>1, <1>10, <2>1, MirrorGoesOn
<1> QED
  BY <1>6, <1>7, <1>10, <1>11

\* A worker throws an event away that it cannot resolve, and no pass is about to write.
\* If it is the verdict of the head, the mirror does not show the head, and the event
\* that will make it do so is still to come.
LEMMA ThrowAwayStep ==
    ASSUME HookInv, NEW w \in Poller, NEW i \in DOMAIN events, Take(w, i),
           ~Resolves(events[i]), Close(i), Late = {}, UNCHANGED <<pass, behind>>
    PROVE  HookInv'
<1> USE DEF HookInv
<1>1. /\ events[i].row = "pending" /\ linked
      /\ UNCHANGED <<setting, linked, seen, tracked, mirror, polling>>
  BY DEF Take, HooksFit
<1>2. /\ events' \in Seq(Event) /\ DOMAIN events' = DOMAIN events
      /\ \A j \in DOMAIN events \ {i} : events'[j] = events[j]
  BY Closed
<1>3. HookTypeOK'
  BY <1>1, <1>2 DEF HookTypeOK
<1>4. HooksFit'
  BY <1>1, <1>2 DEF HooksFit, PassFits
<1>5. Late' = {}
  BY DEF Late
<1>6. InOrderOfFetch' /\ \A l \in Level : PassesFollow(l)'
  BY <1>5 DEF InOrderOfFetch, PassesFollow
<1>7. ASSUME NEW l \in Level, NEW j \in DOMAIN events \ {i}, Announces(events[j], l), Awaited(j)
      PROVE  Announced(l)'
  BY <1>1, <1>2, <1>7 DEF Announced, Announces, Awaited
<1>8. ASSUME NEW l \in Level, tracked, ~behind, ~Announced(l)'
      PROVE  Shows(mirror, l)
  <2>1. ~Announced("pull")
    <3>1. SUFFICES ASSUME NEW j \in DOMAIN events, Announces(events[j], "pull"), Awaited(j)
                   PROVE  FALSE
      BY DEF Announced
    <3>2. events[j].by = "number" /\ Announces(events[j], l)
      BY <3>1 DEF Announces
    <3>3. j # i
      BY <1>8, <3>2 DEF Resolves
    <3> QED
      BY <1>7, <1>8, <3>1, <3>2, <3>3
  <2>2. Shows(mirror, "pull")
    BY <1>8, <2>1 DEF MirrorFollows, Level, Stands
  <2>3. ~Announced(l)
    <3>1. SUFFICES ASSUME NEW j \in DOMAIN events, Announces(events[j], l), Awaited(j)
                   PROVE  FALSE
      BY DEF Announced
    <3>2. j # i
      BY <1>8, <2>2, <3>1 DEF Resolves, Announces, Shows
    <3> QED
      BY <1>7, <1>8, <3>1, <3>2
  <2> QED
    BY <1>8, <2>3 DEF MirrorFollows, Stands
<1>9. ASSUME NEW l \in Level PROVE MirrorFollows(l)'
  BY <1>1, <1>8 DEF MirrorFollows, Shows, provider
<1> QED
  BY <1>3, <1>4, <1>6, <1>9

LEMMA TakesStep ==
    ASSUME HookInv, NEW w \in Poller, NEW i \in DOMAIN events, Take(w, i)
    PROVE  HookInv'
<1>1. CASE Resolves(events[i]) /\ linked
  BY <1>1, TakeStep
<1>2. CASE ~(Resolves(events[i]) /\ linked)
  <2>1. /\ Close(i) /\ linked
        /\ IF Late = {} THEN UNCHANGED <<pass, behind>> ELSE Misses
        /\ events[i].row = "pending" /\ HookTypeOK
        /\ UNCHANGED <<setting, linked, seen, tracked, mirror, polling>>
    BY <1>2 DEF Take, HookInv, HooksFit
  <2>2. CASE Late = {}
    BY <1>2, <2>1, <2>2, ThrowAwayStep
  <2>3. CASE Late # {}
    BY <2>1, <2>3, Closed, EventMoves
  <2> QED
    BY <2>2, <2>3
<1> QED
  BY <1>1, <1>2

\* The scheduled task begins, or makes the row of a run that had none.
LEMMA StartTaskStep ==
    ASSUME HookInv, NEW w \in Runner, StartTask(w)
    PROVE  HookInv'
<1> USE DEF HookInv
<1>1. /\ pass[w] = NoPass /\ seen # NoPull
      /\ UNCHANGED <<setting, linked, seen, events, tracked, mirror, polling, behind>>
  BY DEF StartTask, HooksFit, Open
<1>2. PICK step \in {"discover", "fetch"} : pass' = [pass EXCEPT ![w] = PassAt(step, 0)]
  BY DEF StartTask
<1> DEFINE p == PassAt(step, 0)
<1>3. /\ p \in Pass /\ p.at = step /\ p.row = 0 /\ p.found = NoPull /\ p.newer = {}
  <2>1. 0 \in Nat
    OBVIOUS
  <2> QED
    BY <2>1, FreshPass
<1> HIDE DEF p
<1>4. /\ PassesTyped' /\ pass'[w] = p /\ \A v \in Runner \ {w} : pass'[v] = pass[v]
      /\ pass'[w] # NoPass /\ pass'[w].at = step /\ pass'[w].row = 0
      /\ pass'[w].found = NoPull /\ pass'[w].newer = {}
  <2>1. pass' = [pass EXCEPT ![w] = p]
    BY <1>2 DEF p
  <2> QED
    BY <1>3, <2>1, SetPass, PassIsSome
<1>5. HookTypeOK'
  BY <1>1, <1>4 DEF HookTypeOK, PassesTyped
<1>6. HooksFit'
  <2>1. PassFits(w)'
    BY <1>1, <1>4 DEF PassFits
  <2>2. ASSUME NEW v \in Runner \ {w} PROVE PassFits(v)'
    BY <1>1, <1>4 DEF HooksFit, PassFits
  <2> QED
    BY <1>1, <2>1, <2>2 DEF HooksFit
<1>7. ASSUME NEW j \in DOMAIN events, Awaited(j) PROVE Awaited(j)'
  BY <1>1, <1>4, <1>7 DEF Awaited
<1>8. w \notin Late /\ w \notin Late'
  BY <1>1, <1>4 DEF Late
<1>9. InOrderOfFetch' /\ \A l \in Level : Steady(l) /\ PassesFollow(l)'
  BY <1>1, <1>4, <1>7, <1>8, NotLateStep
<1>10. ASSUME NEW l \in Level PROVE MirrorFollows(l)'
  <2>1. Shows(mirror, l) => Shows(mirror, l)'
    BY <1>1 DEF Shows, provider
  <2> QED
    BY <1>1, <1>9, <2>1, MirrorGoesOn
<1> QED
  BY <1>5, <1>6, <1>9, <1>10

LEMMA DiscoverStep ==
    ASSUME HookInv, NEW w \in Runner, Discover(w)
    PROVE  HookInv'
<1> USE DEF HookInv
<1>1. /\ pass[w] # NoPass /\ pass[w].at = "discover" /\ tracked' = TRUE
      /\ behind' = (behind \/ ~tracked) /\ mirror' = IF tracked THEN mirror ELSE NewRow
      /\ UNCHANGED <<setting, linked, seen, events, polling>>
  BY DEF Discover
<1>2. /\ pass[w] \in Pass /\ seen \in Pull /\ pass[w].row = 0
      /\ pass[w].found = NoPull /\ pass[w].newer = {}
  BY <1>1, PassTyped DEF HooksFit, PassFits, HookTypeOK
<1> DEFINE p == [pass[w] EXCEPT !.at = "fetch"]
<1>3. /\ p \in Pass /\ p.at = "fetch" /\ p.row = 0
      /\ p.found = NoPull /\ p.newer = {}
  BY <1>2 DEF Pass
<1>4. pass' = [pass EXCEPT ![w] = p]
  BY DEF Discover
<1> HIDE DEF p
<1>5. /\ PassesTyped' /\ pass'[w] = p /\ p # NoPass
      /\ \A v \in Runner \ {w} : pass'[v] = pass[v]
  BY <1>3, <1>4, SetPass, PassIsSome
<1>6. HookTypeOK'
  <2>1. NewRow \in Pull
    BY <1>2 DEF NewRow, Pull, Verdict
  <2> QED
    BY <1>1, <1>5, <2>1 DEF HookTypeOK, PassesTyped
<1>7. HooksFit'
  <2>1. PassFits(w)'
    BY <1>3, <1>5 DEF PassFits
  <2>2. ASSUME NEW v \in Runner \ {w} PROVE PassFits(v)'
    BY <1>1, <1>3, <1>5 DEF HooksFit, PassFits
  <2> QED
    BY <1>1, <1>2, <2>1, <2>2, PullIsSome DEF HooksFit
<1>8. ASSUME NEW j \in DOMAIN events, Awaited(j) PROVE Awaited(j)'
  BY <1>1, <1>5, <1>8 DEF Awaited
<1>9. w \notin Late /\ w \notin Late'
  BY <1>2, <1>3, <1>5 DEF Late
<1>10. InOrderOfFetch' /\ \A l \in Level : Steady(l) /\ PassesFollow(l)'
  BY <1>1, <1>5, <1>8, <1>9, NotLateStep
<1>11. ASSUME NEW l \in Level PROVE MirrorFollows(l)'
  <2>1. CASE tracked
    <3>1. Shows(mirror, l) => Shows(mirror, l)'
      BY <1>1, <2>1 DEF Shows, provider
    <3> QED
      BY <1>1, <1>10, <2>1, <3>1, MirrorGoesOn
  <2>2. CASE ~tracked
    BY <1>1, <2>2 DEF MirrorFollows
  <2> QED
    BY <2>1, <2>2
<1> QED
  BY <1>6, <1>7, <1>10, <1>11

\* What a pass fetches is what the forge has.  If its event was the last that announced
\* anything, the pass now stands, and is newer than all others.
LEMMA FetchStep ==
    ASSUME HookInv, NEW w \in Runner, Fetch(w)
    PROVE  HookInv'
<1> USE DEF HookInv
<1>1. /\ pass[w] # NoPass /\ pass[w].at = "fetch"
      /\ UNCHANGED <<setting, linked, seen, events, tracked, mirror, polling, behind>>
  BY DEF Fetch
<1>2. /\ PassesTyped' /\ seen \in Pull
      /\ pass'[w] # NoPass /\ pass'[w].at = "checks" /\ pass'[w].row = pass[w].row
      /\ pass'[w].found = seen /\ pass'[w].newer = {} /\ pass'[w].sure = TRUE
      /\ \A v \in Runner \ {w} : Alike(v)
      /\ \A v \in Runner \ {w} : pass[v] # NoPass =>
            /\ pass'[v].stale = pass[v].stale /\ pass'[v].sure = pass[v].sure
            /\ pass'[v].newer =
                   IF pass[v].found # NoPull THEN pass[v].newer \cup {w} ELSE pass[v].newer
  BY Fetched
<1>3. seen # NoPull /\ w \notin Late
  BY <1>1, <1>2, PullIsSome DEF HooksFit, PassFits, Late
<1>4. HookTypeOK'
  BY <1>1, <1>2 DEF HookTypeOK, PassesTyped
<1>5. HooksFit'
  <2>1. PassFits(w)'
    BY <1>1, <1>2, <1>3 DEF HooksFit, PassFits, Alike
  <2>2. ASSUME NEW v \in Runner \ {w} PROVE PassFits(v)'
    <3>1. SUFFICES ASSUME pass[v] # NoPass PROVE PassFits(v)'
      BY <1>2 DEF PassFits, Alike
    <3>2. /\ pass'[v].at = pass[v].at /\ pass'[v].row = pass[v].row
          /\ pass'[v].found = pass[v].found
      BY <1>2, <3>1 DEF Alike
    <3>3. pass[v].at \in {"discover", "fetch"} => pass'[v].newer = {}
      BY <1>2, <3>1 DEF HooksFit, PassFits
    <3>4. \A u \in Runner : pass'[u] # NoPass => pass[u] # NoPass /\ pass'[u].row = pass[u].row
      BY <1>1, <1>2 DEF Alike
    <3> QED
      BY <1>1, <3>1, <3>2, <3>3, <3>4 DEF HooksFit, PassFits
  <2> QED
    BY <1>1, <2>1, <2>2 DEF HooksFit
<1>6. Late' = Late \cup {w}
  BY <1>2, <1>3 DEF Late, Alike
<1>7. ASSUME NEW v \in Late
      PROVE  /\ v \in Runner \ {w} /\ pass[v] # NoPass /\ pass'[v].found = pass[v].found
             /\ pass'[v].newer = pass[v].newer \cup {w}
             /\ pass'[v].stale = pass[v].stale /\ pass'[v].sure = pass[v].sure
  BY <1>2, <1>3 DEF Late, Alike
<1>8. InOrderOfFetch'
  <2>1. SUFFICES ASSUME NEW v \in Late', NEW u \in Late', v # u
                 PROVE  /\ v \in pass'[u].newer \/ u \in pass'[v].newer
                        /\ v \in pass'[u].newer /\ pass'[u].sure => pass'[v].sure
    BY DEF InOrderOfFetch
  <2>2. CASE v = w
    BY <1>2, <1>6, <1>7, <2>1, <2>2
  <2>3. CASE u = w
    BY <1>2, <1>6, <1>7, <2>1, <2>3
  <2>4. CASE v # w /\ u # w
    BY <1>6, <1>7, <2>1, <2>4 DEF InOrderOfFetch
  <2> QED
    BY <2>2, <2>3, <2>4
<1>9. ASSUME NEW l \in Level PROVE MirrorFollows(l)' /\ PassesFollow(l)'
  <2>1. Shows(pass[w].found, l)' /\ w \in Late'
    BY <1>1, <1>2, <1>6 DEF Shows
  <2>2. ASSUME NEW u \in Runner, Stands(u, l) PROVE Stands(u, l)'
    <3>1. u \in Runner \ {w}
      BY <1>3, <2>2 DEF Stands
    <3> QED
      BY <1>1, <1>2, <2>2, <3>1, StandsStays
  <2>3. CASE Announced(l)'
    BY <2>3 DEF MirrorFollows, PassesFollow
  <2>4. CASE Announced(l) /\ ~Announced(l)'
    <3>1. PICK j \in DOMAIN events : Announces(events[j], l) /\ Awaited(j)
      BY <2>4 DEF Announced
    <3>2. Announces(events[j], l)'
      BY <1>1, <3>1 DEF Announces
    <3>3. ~Awaited(j)'
      BY <1>1, <2>4, <3>2 DEF Announced
    <3>4. pass[w].row = j
      BY <1>1, <1>2, <3>1, <3>3 DEF Awaited, Alike
    <3>5. j # 0
      BY EventTyped
    <3>6. Stands(w, l)'
      BY <1>1, <1>2, <2>1, <3>2, <3>4, <3>5 DEF Stands, Announces
    <3>7. \A v \in Late' : v = w \/ w \in pass'[v].newer
      BY <1>6, <1>7
    <3> QED
      BY <2>1, <3>6, <3>7 DEF MirrorFollows, PassesFollow, Harmless
  <2>5. CASE ~Announced(l) /\ ~Announced(l)'
    <3>1. MirrorFollows(l)'
      <4>1. Shows(mirror, l) => Shows(mirror, l)'
        BY <1>1 DEF Shows, provider
      <4> QED
        BY <1>1, <2>2, <2>5, <4>1 DEF MirrorFollows
    <3>2. ASSUME NEW v \in Late', ~behind' \/ pass'[v].sure PROVE Harmless(v, l)'
      <4>1. CASE v = w
        BY <2>1, <4>1 DEF Harmless
      <4>2. CASE v # w
        <5>1. v \in Late /\ Harmless(v, l)
          BY <1>1, <1>6, <1>7, <2>5, <3>2, <4>2 DEF PassesFollow
        <5>2. CASE pass[v].stale
          BY <1>7, <5>1, <5>2 DEF Harmless
        <5>3. CASE Shows(pass[v].found, l)
          BY <1>1, <1>7, <5>1, <5>3 DEF Harmless, Shows, provider
        <5>4. ASSUME NEW u \in pass[v].newer, Stands(u, l) PROVE Harmless(v, l)'
          <6>1. u \in Runner /\ u \in pass'[v].newer
            BY <1>7, <5>1, <5>4 DEF Stands, Late
          <6> QED
            BY <2>2, <5>4, <6>1 DEF Harmless
        <5> QED
          BY <5>1, <5>2, <5>3, <5>4 DEF Harmless
      <4> QED
        BY <4>1, <4>2
    <3> QED
      BY <3>1, <3>2 DEF PassesFollow
  <2> QED
    BY <2>3, <2>4, <2>5
<1> QED
  BY <1>4, <1>5, <1>8, <1>9

\* A step after which the passes know and have found what they did, or more.
LEMMA LateGoesOn ==
    ASSUME HookInv, UNCHANGED <<setting, seen, events>>, PassesTyped', NEW w \in Runner,
           w \in Late, pass[w].at # "fetch",
           pass'[w] # NoPass, pass'[w].at \notin {"discover", "fetch"},
           pass'[w].row = pass[w].row, pass'[w].found # NoPull,
           \A l \in Level : Shows(pass[w].found, l) => Shows(pass'[w].found, l),
           pass'[w].newer = pass[w].newer, pass'[w].sure = pass[w].sure,
           pass[w].stale => pass'[w].stale,
           \A v \in Runner \ {w} : Alike(v),
           \A v \in Runner \ {w} : pass[v] # NoPass =>
               /\ pass'[v].newer = pass[v].newer /\ pass'[v].sure = pass[v].sure
               /\ pass[v].stale => pass'[v].stale,
           behind => behind'
    PROVE  /\ \A v \in Runner : PassFits(v)'
           /\ InOrderOfFetch'
           /\ \A l \in Level : Steady(l) /\ PassesFollow(l)'
<1> USE DEF HookInv
<1>1. Late' = Late
  BY DEF Late, Alike
<1>2. ASSUME NEW v \in Runner, pass[v] # NoPass
      PROVE  /\ pass'[v] # NoPass /\ pass'[v].row = pass[v].row
             /\ pass'[v].newer = pass[v].newer /\ pass'[v].sure = pass[v].sure
             /\ pass[v].stale => pass'[v].stale
  BY <1>2 DEF Alike
<1>3. ASSUME NEW v \in Runner, pass'[v] # NoPass PROVE pass[v] # NoPass
  BY <1>3 DEF Alike, Late
<1>4. ASSUME NEW v \in Runner PROVE PassFits(v)'
  <2>1. SUFFICES ASSUME pass[v] # NoPass PROVE PassFits(v)'
    BY <1>3 DEF PassFits
  <2>2. /\ pass'[v].at \in {"discover", "fetch"} <=> pass[v].at \in {"discover", "fetch"}
        /\ pass'[v].found = NoPull <=> pass[v].found = NoPull
        /\ pass'[v].at = "fetch" <=> pass[v].at = "fetch"
        /\ pass'[v].at = "discover" <=> pass[v].at = "discover"
    BY <2>1 DEF Alike, HooksFit, PassFits, Late
  <2> QED
    BY <1>2, <1>3, <2>1, <2>2 DEF HooksFit, PassFits
<1>5. InOrderOfFetch'
  <2>1. SUFFICES ASSUME NEW v \in Late, NEW u \in Late, v # u
                 PROVE  /\ v \in pass'[u].newer \/ u \in pass'[v].newer
                        /\ v \in pass'[u].newer /\ pass'[u].sure => pass'[v].sure
    BY <1>1 DEF InOrderOfFetch
  <2> QED
    BY <1>2, <2>1 DEF InOrderOfFetch, Late
<1>6. ASSUME NEW l \in Level PROVE Steady(l) /\ PassesFollow(l)'
  <2>1. ASSUME NEW j \in DOMAIN events, Announces(events[j], l), Awaited(j)
        PROVE  Announces(events[j], l)' /\ Awaited(j)'
    <3>1. ASSUME NEW v \in Runner, pass[v] # NoPass, pass[v].at = "fetch", pass[v].row = j
          PROVE  Awaited(j)'
      BY <3>1 DEF Awaited, Alike
    <3> QED
      BY <2>1, <3>1 DEF Announces, Awaited
  <2>2. Announced(l) => Announced(l)'
    BY <2>1 DEF Announced
  <2>3. ASSUME NEW u \in Runner, Stands(u, l) PROVE Stands(u, l)'
    <3>1. CASE u = w
      BY <2>3, <3>1, StandsOn
    <3>2. CASE u # w
      BY <2>3, <3>2, StandsStays
    <3> QED
      BY <3>1, <3>2
  <2>4. Steady(l)
    BY <2>2, <2>3 DEF Steady
  <2>5. ASSUME NEW v \in Runner, v \in Late' PROVE LateStays(v, l)
    <3>1. v \in Late /\ pass[v] # NoPass
      BY <1>1, <2>5 DEF Late
    <3>2. Shows(pass[v].found, l) => Shows(pass[v].found, l)'
      <4>1. Shows(pass[v].found, l) => Shows(pass'[v].found, l)
        <5>1. CASE v = w
          BY <5>1
        <5>2. CASE v # w
          BY <3>1, <5>2 DEF Alike, Shows
        <5> QED
          BY <5>1, <5>2
      <4> QED
        BY <4>1 DEF Shows, provider
    <3> QED
      BY <1>2, <3>1, <3>2 DEF LateStays
  <2> QED
    BY <2>4, <2>5, PassesGoOn
<1> QED
  BY <1>4, <1>5, <1>6

LEMMA FetchChecksStep ==
    ASSUME HookInv, NEW w \in Runner, FetchChecks(w)
    PROVE  HookInv'
<1> USE DEF HookInv
<1>1. /\ pass[w] # NoPass /\ pass[w].at = "checks"
      /\ UNCHANGED <<setting, linked, seen, events, tracked, mirror, polling, behind>>
  BY DEF FetchChecks
<1>2. /\ PassesTyped' /\ \A v \in Runner \ {w} : pass'[v] = pass[v]
      /\ pass[w].found # NoPull /\ pass'[w] # NoPass /\ pass'[w].at = "write"
      /\ pass'[w].row = pass[w].row /\ pass'[w].newer = pass[w].newer
      /\ pass'[w].stale = pass[w].stale /\ pass'[w].sure = pass[w].sure
      /\ pass'[w].found # NoPull
      /\ \A l \in Level : Shows(pass[w].found, l) => Shows(pass'[w].found, l)
  BY FetchedChecks
<1>3. \A v \in Runner \ {w} : Alike(v)
  BY <1>2 DEF Alike
<1>4. w \in Late
  BY <1>1, <1>2 DEF Late
<1>5. /\ \A v \in Runner : PassFits(v)'
      /\ InOrderOfFetch'
      /\ \A l \in Level : Steady(l) /\ PassesFollow(l)'
  BY <1>1, <1>2, <1>3, <1>4, LateGoesOn
<1>6. ASSUME NEW l \in Level PROVE MirrorFollows(l)'
  <2>1. Shows(mirror, l) => Shows(mirror, l)'
    BY <1>1 DEF Shows, provider
  <2> QED
    BY <1>1, <1>5, <2>1, MirrorGoesOn
<1>7. HookTypeOK' /\ HooksFit'
  BY <1>1, <1>2, <1>5 DEF HookTypeOK, HooksFit, PassesTyped
<1> QED
  BY <1>5, <1>6, <1>7

\* A pass writes what it has found: it is right, or is known to be old, or one that
\* stands writes after it.
LEMMA WriteMirrorStep ==
    ASSUME HookInv, NEW w \in Runner, WriteMirror(w)
    PROVE  HookInv'
<1> USE DEF HookInv
<1>1. /\ pass[w] # NoPass /\ pass[w].at = "write"
      /\ UNCHANGED <<setting, linked, seen, events, tracked, polling>>
      /\ mirror' = (IF tracked THEN pass[w].found ELSE mirror)
      /\ behind' = (behind \/ pass[w].stale)
  BY DEF WriteMirror, Sync
<1>2. /\ pass[w] \in Pass /\ pass[w].found \in Pull /\ pass[w].found # NoPull
      /\ pass[w].stale \in BOOLEAN
  BY <1>1, PassTyped DEF HooksFit, PassFits
<1> DEFINE p == [pass[w] EXCEPT !.at = "rewrite"]
<1>3. /\ p \in Pass /\ p.at = "rewrite" /\ p.row = pass[w].row /\ p.found = pass[w].found
      /\ p.newer = pass[w].newer /\ p.stale = pass[w].stale /\ p.sure = pass[w].sure
  BY <1>2 DEF Pass
<1>4. Wrote(w, p)
  BY DEF WriteMirror
<1> HIDE DEF p
<1>5. PICK q \in Pass : q = p
  BY <1>3
<1>6. Wrote(w, q)
  BY <1>4, <1>5 DEF Wrote
<1>7. /\ PassesTyped' /\ pass'[w] = q
      /\ \A v \in Runner \ {w} : Alike(v)
      /\ \A v \in Runner \ {w} : pass[v] # NoPass =>
            /\ pass'[v].newer = pass[v].newer /\ pass'[v].sure = pass[v].sure
            /\ pass'[v].stale = (pass[v].stale \/ w \in pass[v].newer)
  BY <1>6, PassWrites
<1>8. w \in Late
  BY <1>1, <1>2 DEF Late
<1>9. /\ pass'[w] # NoPass /\ pass'[w].at = "rewrite"
      /\ pass'[w].row = pass[w].row /\ pass'[w].found = pass[w].found
      /\ pass'[w].newer = pass[w].newer /\ pass'[w].stale = pass[w].stale
      /\ pass'[w].sure = pass[w].sure
  BY <1>3, <1>5, <1>7, PassIsSome
<1>10. \A l \in Level : Shows(pass[w].found, l) => Shows(pass'[w].found, l)
  BY <1>9
<1>11. /\ \A v \in Runner : PassFits(v)'
       /\ InOrderOfFetch'
       /\ \A l \in Level : Steady(l) /\ PassesFollow(l)'
  <2>1. pass[w].at # "fetch" /\ pass'[w].at \notin {"discover", "fetch"}
        /\ pass'[w].found # NoPull /\ (behind => behind')
    BY <1>1, <1>2, <1>9
  <2> QED
    BY <1>1, <1>7, <1>8, <1>9, <1>10, <2>1, LateGoesOn
<1>12. HookTypeOK' /\ HooksFit'
  BY <1>1, <1>2, <1>7, <1>11 DEF HookTypeOK, HooksFit, PassesTyped
<1>13. ASSUME NEW l \in Level PROVE MirrorFollows(l)'
  <2>1. SUFFICES ASSUME tracked, ~behind', ~Announced(l)'
                 PROVE  (Shows(mirror, l) \/ \E u \in Runner : Stands(u, l))'
    BY <1>1 DEF MirrorFollows
  <2>2. ~behind /\ ~pass[w].stale /\ ~Announced(l) /\ mirror' = pass[w].found
    BY <1>1, <1>11, <2>1 DEF Steady
  <2>3. Harmless(w, l)
    BY <1>8, <2>2 DEF PassesFollow
  <2>4. CASE Shows(pass[w].found, l)
    BY <1>1, <2>2, <2>4 DEF Shows, provider
  <2>5. ASSUME NEW u \in pass[w].newer, Stands(u, l)
        PROVE  (\E v \in Runner : Stands(v, l))'
    <3>1. u \in Runner
      BY <2>5 DEF Stands, Late
    <3> QED
      BY <1>11, <2>1, <2>5, <3>1 DEF Steady
  <2> QED
    BY <2>2, <2>3, <2>4, <2>5 DEF Harmless
<1> QED
  BY <1>11, <1>12, <1>13

\* A pass ends: what the others know of it stays, and none of them has its event.
LEMMA PassEnds ==
    ASSUME HookInv, UNCHANGED <<setting, seen>>, NEW w \in Runner, pass[w] # NoPass,
           PassesTyped', pass'[w] = NoPass,
           \A v \in Runner \ {w} : Alike(v),
           \A v \in Runner \ {w} : pass[v] # NoPass => pass'[v].newer = pass[v].newer,
           \/ \A v \in Runner \ {w} : pass[v] # NoPass => pass'[v].sure = pass[v].sure
           \/ \A v \in Runner \ {w} : pass[v] # NoPass => pass'[v].sure = FALSE,
           DOMAIN events' = DOMAIN events,
           \A i \in DOMAIN events : i # pass[w].row => events'[i] = events[i]
    PROVE  /\ \A v \in Runner : PassFits(v)'
           /\ InOrderOfFetch' /\ Late' = Late \ {w}
           /\ \A l \in Level, u \in Runner \ {w} : Stands(u, l) => Stands(u, l)'
           /\ \A i \in DOMAIN events : i # pass[w].row /\ Awaited(i) => Awaited(i)'
<1> USE DEF HookInv
<1>1. Late' = Late \ {w}
  BY DEF Late, Alike
<1>2. ASSUME NEW v \in Runner \ {w}, pass[v] # NoPass
      PROVE  /\ pass'[v] # NoPass /\ pass'[v].at = pass[v].at /\ pass'[v].row = pass[v].row
             /\ pass'[v].found = pass[v].found
             /\ pass[v].row # 0 => /\ pass[v].row \in DOMAIN events
                                   /\ pass[v].row # pass[w].row
                                   /\ events'[pass[v].row] = events[pass[v].row]
  <2>1. pass[v].row # 0 => pass[v].row \in DOMAIN events /\ pass[v].row # pass[w].row
    BY <1>2 DEF HooksFit, PassFits
  <2> QED
    BY <1>2, <2>1 DEF Alike
<1>3. ASSUME NEW v \in Runner PROVE PassFits(v)'
  <2>1. CASE pass'[v] = NoPass
    BY <2>1 DEF PassFits
  <2>2. CASE pass'[v] # NoPass
    <3>1. v \in Runner \ {w} /\ pass[v] # NoPass
      BY <2>2 DEF Alike
    <3>2. ASSUME NEW u \in Runner \ {v}, pass'[u] # NoPass, pass[v].row # 0
          PROVE  pass'[u].row # pass[v].row
      <4>1. u \in Runner \ {w} /\ pass[u] # NoPass
        BY <3>2 DEF Alike
      <4>2. pass'[u].row = pass[u].row
        BY <1>2, <4>1
      <4> QED
        BY <3>1, <3>2, <4>1, <4>2 DEF HooksFit, PassFits
    <3> QED
      BY <1>2, <3>1, <3>2 DEF HooksFit, PassFits
  <2> QED
    BY <2>1, <2>2
<1>4. InOrderOfFetch'
  <2>1. SUFFICES ASSUME NEW v \in Late \ {w}, NEW u \in Late \ {w}, v # u
                 PROVE  /\ v \in pass'[u].newer \/ u \in pass'[v].newer
                        /\ v \in pass'[u].newer /\ pass'[u].sure => pass'[v].sure
    BY <1>1 DEF InOrderOfFetch
  <2> QED
    BY <2>1 DEF InOrderOfFetch, Late
<1>5. ASSUME NEW l \in Level, NEW u \in Runner \ {w}, Stands(u, l) PROVE Stands(u, l)'
  <2>1. events'[pass[u].row] = events[pass[u].row]
    BY <1>2, <1>5 DEF Stands, Late
  <2> QED
    BY <1>5, <2>1, StandsStays
<1>6. ASSUME NEW i \in DOMAIN events, i # pass[w].row, Awaited(i) PROVE Awaited(i)'
  <2>1. CASE events[i].row \in {"sent", "pending"}
    BY <1>6, <2>1 DEF Awaited
  <2>2. ASSUME NEW u \in Runner, pass[u] # NoPass, pass[u].at = "fetch", pass[u].row = i
        PROVE  Awaited(i)'
    BY <1>2, <1>6, <2>2 DEF Awaited
  <2> QED
    BY <1>6, <2>1, <2>2 DEF Awaited
<1> QED
  BY <1>1, <1>3, <1>4, <1>5, <1>6

\* A pass has written for the last time.  Those that fetched before it are old now; a
\* pass that clears what was missed has itself missed nothing, nor has one after it.
LEMMA RewriteMirrorStep ==
    ASSUME HookInv, NEW w \in Runner, RewriteMirror(w)
    PROVE  HookInv'
<1> USE DEF HookInv
<1>1. /\ pass[w] # NoPass /\ pass[w].at = "rewrite"
      /\ UNCHANGED <<setting, linked, seen, polling>>
      /\ tracked' \in {tracked, TRUE}
      /\ mirror' = (IF tracked' THEN pass[w].found ELSE mirror)
      /\ Wrote(w, NoPass)
  BY DEF RewriteMirror, Sync
<1>2. /\ pass[w].found \in Pull /\ pass[w].found # NoPull
      /\ pass[w].stale \in BOOLEAN /\ pass[w].sure \in BOOLEAN /\ seen # NoPull
  BY <1>1, PassTyped DEF HooksFit, PassFits
<1>3. w \in Late
  BY <1>1, <1>2 DEF Late
<1>4. /\ PassesTyped' /\ pass'[w] = NoPass
      /\ \A v \in Runner \ {w} : Alike(v)
      /\ \A v \in Runner \ {w} : pass[v] # NoPass =>
            /\ pass'[v].newer = pass[v].newer /\ pass'[v].sure = pass[v].sure
            /\ pass'[v].stale = (pass[v].stale \/ w \in pass[v].newer)
  BY <1>1, PassWrites
<1>5. /\ events' \in Seq(Event) /\ DOMAIN events' = DOMAIN events
      /\ \A i \in DOMAIN events : i # pass[w].row => events'[i] = events[i]
  <2>1. CASE pass[w].row = 0
    BY <2>1 DEF RewriteMirror, HookTypeOK
  <2>2. CASE pass[w].row # 0
    <3>1. pass[w].row \in DOMAIN events /\ Close(pass[w].row)
      BY <1>1, <2>2 DEF RewriteMirror, HooksFit, PassFits
    <3>2. PICK i \in DOMAIN events : i = pass[w].row
      BY <3>1
    <3>3. Close(i)
      BY <3>1, <3>2 DEF Close
    <3> QED
      BY <3>2, <3>3, Closed
  <2> QED
    BY <2>1, <2>2
<1>6. /\ \A v \in Runner : PassFits(v)'
      /\ InOrderOfFetch' /\ Late' = Late \ {w}
      /\ \A l \in Level, u \in Runner \ {w} : Stands(u, l) => Stands(u, l)'
      /\ \A i \in DOMAIN events : i # pass[w].row /\ Awaited(i) => Awaited(i)'
  BY <1>1, <1>4, <1>5, PassEnds
<1>7. HookTypeOK' /\ HooksFit'
  <2>1. behind' \in BOOLEAN
    BY <1>2 DEF RewriteMirror, HookTypeOK
  <2>2. tracked' \in BOOLEAN
    BY <1>1 DEF HookTypeOK
  <2> QED
    BY <1>1, <1>2, <1>4, <1>5, <1>6, <2>1, <2>2 DEF HookTypeOK, HooksFit, PassesTyped
<1>8. ASSUME ~behind'
      PROVE  ~pass[w].stale /\ (~behind \/ pass[w].sure)
  BY <1>2, <1>8 DEF RewriteMirror
<1>9. ASSUME NEW l \in Level, Announced(l) PROVE Announced(l)'
  <2>1. PICK j \in DOMAIN events : Announces(events[j], l) /\ Awaited(j)
    BY <1>9 DEF Announced
  <2>2. j # pass[w].row
    <3>1. SUFFICES ASSUME j = pass[w].row PROVE FALSE
      OBVIOUS
    <3>2. j # 0
      BY EventTyped
    <3>3. events[j].row = "taken"
      BY <1>1, <3>1, <3>2 DEF HooksFit, PassFits
    <3>4. PICK u \in Runner : pass[u] # NoPass /\ pass[u].at = "fetch" /\ pass[u].row = j
      BY <2>1, <3>3 DEF Awaited
    <3> QED
      BY <1>1, <3>1, <3>2, <3>4 DEF HooksFit, PassFits
  <2>3. Announces(events[j], l)'
    BY <1>1, <1>5, <2>1, <2>2 DEF Announces
  <2>4. Awaited(j)'
    BY <1>6, <2>1, <2>2
  <2> QED
    BY <1>5, <2>3, <2>4 DEF Announced
<1>10. ASSUME NEW l \in Level PROVE MirrorFollows(l)'
  <2>1. SUFFICES ASSUME tracked', ~behind', ~Announced(l)'
                 PROVE  (Shows(mirror, l) \/ \E u \in Runner : Stands(u, l))'
    BY DEF MirrorFollows
  <2>2. ~pass[w].stale /\ Harmless(w, l) /\ mirror' = pass[w].found
    BY <1>1, <1>3, <1>8, <1>9, <2>1 DEF PassesFollow
  <2>3. CASE Shows(pass[w].found, l)
    BY <1>1, <2>2, <2>3 DEF Shows, provider
  <2>4. ASSUME NEW u \in pass[w].newer, Stands(u, l), ~Shows(pass[w].found, l)
        PROVE  (\E v \in Runner : Stands(v, l))'
    <3>1. u \in Runner \ {w}
      BY <2>4 DEF Stands, Late
    <3> QED
      BY <1>6, <2>4, <3>1
  <2> QED
    BY <2>2, <2>3, <2>4 DEF Harmless
<1>11. ASSUME NEW l \in Level PROVE PassesFollow(l)'
  <2>1. SUFFICES ASSUME ~Announced(l)', NEW v \in Late', ~behind' \/ pass'[v].sure
                 PROVE  Harmless(v, l)'
    BY DEF PassesFollow
  <2>2. /\ v \in Late /\ v \in Runner \ {w} /\ pass[v] # NoPass
        /\ pass'[v].newer = pass[v].newer /\ pass'[v].sure = pass[v].sure
        /\ pass'[v].stale = (pass[v].stale \/ w \in pass[v].newer)
        /\ pass'[v].found = pass[v].found
    BY <1>4, <1>6 DEF Late, Alike
  <2>3. CASE w \in pass[v].newer
    BY <2>2, <2>3 DEF Harmless
  <2>4. CASE w \notin pass[v].newer
    <3>1. ~behind \/ pass[v].sure
      BY <1>3, <1>8, <2>1, <2>2, <2>4 DEF InOrderOfFetch
    <3>2. Harmless(v, l)
      BY <1>9, <2>1, <2>2, <3>1 DEF PassesFollow
    <3>3. CASE pass[v].stale
      BY <2>2, <3>3 DEF Harmless
    <3>4. CASE Shows(pass[v].found, l)
      BY <1>1, <2>2, <3>4 DEF Harmless, Shows, provider
    <3>5. ASSUME NEW u \in pass[v].newer, Stands(u, l) PROVE Harmless(v, l)'
      <4>1. u \in Runner \ {w}
        BY <2>4, <3>5 DEF Stands, Late
      <4> QED
        BY <1>6, <2>2, <3>5, <4>1 DEF Harmless
    <3> QED
      BY <3>2, <3>3, <3>4, <3>5 DEF Harmless
  <2> QED
    BY <2>3, <2>4
<1> QED
  BY <1>6, <1>7, <1>10, <1>11

\* A pass fails: its event is taken again, or is given up.
LEMMA AbortStep ==
    ASSUME HookInv, NEW w \in Runner, Abort(w)
    PROVE  HookInv'
<1> USE DEF HookInv
<1>1. /\ pass[w] # NoPass
      /\ UNCHANGED <<setting, linked, seen, tracked, mirror, polling>>
  BY DEF Abort
<1>2. pass[w].row # 0 => pass[w].row \in DOMAIN events
  BY <1>1 DEF HooksFit, PassFits
<1>3. CASE GivesUp(w)
  <2>1. /\ PassesTyped' /\ behind' = TRUE /\ pass'[w] = NoPass
        /\ \A v \in Runner \ {w} : Alike(v)
        /\ \A v \in Runner \ {w} : pass[v] # NoPass =>
              /\ pass'[v].newer = pass[v].newer /\ pass'[v].stale = pass[v].stale
              /\ pass'[v].sure = FALSE
    BY <1>3, GaveUp
  <2>2. PICK i \in DOMAIN events : i = pass[w].row
    BY <1>2, <1>3 DEF GivesUp
  <2>3. Close(i)
    BY <1>3, <2>2 DEF GivesUp, Close
  <2>4. /\ events' \in Seq(Event) /\ DOMAIN events' = DOMAIN events
        /\ \A j \in DOMAIN events : j # pass[w].row => events'[j] = events[j]
    BY <2>2, <2>3, Closed
  <2>5. (\A v \in Runner : PassFits(v)') /\ InOrderOfFetch' /\ Late' = Late \ {w}
    BY <1>1, <2>1, <2>4, PassEnds
  <2>6. HookTypeOK' /\ HooksFit'
    BY <1>1, <2>1, <2>4, <2>5 DEF HookTypeOK, HooksFit, PassesTyped
  <2>7. ASSUME NEW l \in Level PROVE MirrorFollows(l)' /\ PassesFollow(l)'
    BY <2>1, <2>5 DEF MirrorFollows, PassesFollow, Late
  <2> QED
    BY <2>5, <2>6, <2>7
<1>4. CASE /\ pass[w].row # 0 => Mark(pass[w].row, "pending")
           /\ pass[w].row = 0 => UNCHANGED events
           /\ pass' = [pass EXCEPT ![w] = NoPass]
           /\ UNCHANGED behind
  <2>1. PassesTyped' /\ pass'[w] = NoPass /\ \A v \in Runner \ {w} : pass'[v] = pass[v]
    BY <1>4, SetPass
  <2>2. /\ events' \in Seq(Event) /\ DOMAIN events' = DOMAIN events
        /\ \A j \in DOMAIN events : j # pass[w].row => events'[j] = events[j]
        /\ pass[w].row # 0 =>
              /\ events'[pass[w].row].row = "pending"
              /\ events'[pass[w].row].by = events[pass[w].row].by
              /\ events'[pass[w].row].commit = events[pass[w].row].commit
    <3>1. CASE pass[w].row = 0
      BY <1>4, <3>1 DEF HookTypeOK
    <3>2. CASE pass[w].row # 0
      <4>1. PICK i \in DOMAIN events : i = pass[w].row
        BY <1>2, <3>2
      <4>2. Mark(i, "pending")
        BY <1>4, <3>2, <4>1 DEF Mark
      <4> QED
        BY <4>1, <4>2, Marked
    <3> QED
      BY <3>1, <3>2
  <2>3. \A v \in Runner \ {w} : Alike(v)
    BY <2>1 DEF Alike
  <2>4. /\ \A v \in Runner : PassFits(v)'
        /\ InOrderOfFetch' /\ Late' = Late \ {w}
        /\ \A l \in Level, u \in Runner \ {w} : Stands(u, l) => Stands(u, l)'
        /\ \A i \in DOMAIN events : i # pass[w].row /\ Awaited(i) => Awaited(i)'
    BY <1>1, <2>1, <2>2, <2>3, PassEnds
  <2>5. HookTypeOK' /\ HooksFit'
    BY <1>1, <1>4, <2>1, <2>2, <2>4 DEF HookTypeOK, HooksFit, PassesTyped
  <2>6. ASSUME NEW l \in Level PROVE Steady(l)
    <3>1. ASSUME NEW j \in DOMAIN events, Announces(events[j], l), Awaited(j)
          PROVE  Announces(events[j], l)' /\ Awaited(j)'
      <4>1. CASE j = pass[w].row
        <5>1. j # 0
          BY EventTyped
        <5>2. events'[j].row = "pending" /\ Announces(events[j], l)'
          BY <1>1, <2>2, <3>1, <4>1, <5>1 DEF Announces
        <5> QED
          BY <5>2 DEF Awaited
      <4>2. CASE j # pass[w].row
        BY <1>1, <2>2, <2>4, <3>1, <4>2 DEF Announces
      <4> QED
        BY <4>1, <4>2
    <3>2. Announced(l) => Announced(l)'
      BY <2>2, <3>1 DEF Announced
    <3>3. ASSUME Stands(w, l) PROVE Announced(l)'
      <4>1. pass[w].row \in DOMAIN events /\ pass[w].row # 0
        BY <1>2, <3>3 DEF Stands
      <4>2. PICK i \in DOMAIN events : i = pass[w].row
        BY <4>1
      <4>3. Announces(events[i], l)' /\ Awaited(i)'
        BY <1>1, <2>2, <3>3, <4>1, <4>2 DEF Stands, Announces, Awaited
      <4> QED
        BY <2>2, <4>3 DEF Announced
    <3>4. ASSUME NEW u \in Runner, Stands(u, l) PROVE Stands(u, l)' \/ Announced(l)'
      BY <2>4, <3>3, <3>4
    <3> QED
      BY <1>4, <3>2, <3>4 DEF Steady
  <2>7. ASSUME NEW l \in Level PROVE MirrorFollows(l)' /\ PassesFollow(l)'
    <3>1. ASSUME NEW v \in Runner, v \in Late' PROVE LateStays(v, l)
      <4>1. v \in Late /\ pass'[v] = pass[v]
        BY <2>1, <2>4, <3>1
      <4> QED
        BY <1>1, <4>1 DEF LateStays, Shows, provider
    <3>2. Shows(mirror, l) => Shows(mirror, l)'
      BY <1>1 DEF Shows, provider
    <3> QED
      BY <1>1, <2>6, <3>1, <3>2, MirrorGoesOn, PassesGoOn
  <2> QED
    BY <2>4, <2>5, <2>7
<1> QED
  BY <1>3, <1>4 DEF Abort, GivesUp

LEMMA InitHooks == HookInit => HookInv
<1> SUFFICES ASSUME HookInit PROVE HookInv
  OBVIOUS
<1>1. HookTypeOK
  <2>1. <<>> \in Seq(Event)
    OBVIOUS
  <2> QED
    BY <2>1 DEF HookInit, HookTypeOK
<1>2. Late = {}
  BY DEF HookInit, Late
<1>3. HooksFit
  BY DEF HookInit, HooksFit, PassFits
<1> QED
  BY <1>1, <1>2, <1>3 DEF HookInv, HookInit, InOrderOfFetch, MirrorFollows, PassesFollow

LEMMA HookStep == HookInv /\ [HookNext]_hookVars => HookInv'
<1> SUFFICES ASSUME HookInv, [HookNext]_hookVars PROVE HookInv'
  OBVIOUS
<1>1. CASE PullChanges \/ Push \/ Ci \/ Review
  BY <1>1, ForgeStep
<1>2. CASE LinkRepository
  BY <1>2, WorkersStep DEF LinkRepository
<1>3. ASSUME NEW w \in Poller, StartWorker(w) \/ StopWorker(w) PROVE HookInv'
  BY <1>3, WorkersStep DEF StartWorker, StopWorker
<1>4. CASE SimulateOnGithub \/ SimulateOnGitea \/ SimulateOnGitlab
  BY <1>4, SimulateStep DEF SimulateOnGithub, SimulateOnGitea, SimulateOnGitlab
<1>5. ASSUME NEW i \in DOMAIN events,
             ReceiveGithub(i) \/ ReceiveGitea(i) \/ ReceiveGitlab(i) \/ Lose(i)
      PROVE  HookInv'
  BY <1>5, ReceiveStep DEF ReceiveGithub, ReceiveGitea, ReceiveGitlab
<1>6. ASSUME NEW i \in DOMAIN events, NEW w \in Poller, Take(w, i) PROVE HookInv'
  BY <1>6, TakesStep
<1>7. ASSUME NEW w \in Runner,
             \/ StartTask(w) \/ Discover(w) \/ Fetch(w) \/ FetchChecks(w)
             \/ WriteMirror(w) \/ RewriteMirror(w) \/ Abort(w)
      PROVE  HookInv'
  BY <1>7, StartTaskStep, DiscoverStep, FetchStep, FetchChecksStep, WriteMirrorStep,
     RewriteMirrorStep, AbortStep
<1>8. CASE UNCHANGED hookVars
  BY <1>8, WorkersStep DEF hookVars
<1> QED
  BY <1>1, <1>2, <1>3, <1>4, <1>5, <1>6, <1>7, <1>8 DEF HookNext

\* When all events are dealt with, a mirror that is not known to be behind (an event lost,
\* given up or thrown away beside a pass about to write; a review changed untold; an older
\* observation written over a newer) shows what the forge has, for any number of workers,
\* commits and events, in whatever order they come and however their passes overlap, fail
\* and begin again; and a mirror that was behind does so after a whole pass of the task.
THEOREM MirrorAlwaysCatchesUp == HookSpec => []MirrorCatchesUp
<1>1. ASSUME HookInv PROVE MirrorCatchesUp
  <2>1. SUFFICES ASSUME tracked, ~behind, Settled
                 PROVE  Shows(mirror, "ci")
    BY DEF MirrorCatchesUp, Shows
  <2>2. ~Announced("ci") /\ \A u \in Runner : ~Stands(u, "ci")
    BY <2>1 DEF Settled, Announced, Awaited, Stands, Late
  <2> QED
    BY <1>1, <2>1, <2>2 DEF HookInv, MirrorFollows, Level
<1> QED
  BY <1>1, InitHooks, HookStep, PTL DEF HookSpec
=============================================================================
