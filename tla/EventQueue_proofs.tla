-------------------------- MODULE EventQueue_proofs --------------------------
(***************************************************************************)
(* Proofs about the inbox and the outbox for any number of events and of   *)
(* polls, any batch size, number of attempts and stale timeout, and any    *)
(* number of crashes, failed calls and delays.                             *)
(*                                                                         *)
(* Everything rests on what a poll's copy of a version is good for: as     *)
(* long as current[p] holds a row that p selected or handles, the row is   *)
(* still as p left it and nobody else has it (KnowledgeInv).  That gives   *)
(* the final updates their meaning, and with it the refinement of          *)
(* AtLeastOnce; that heartbeats in time keep a claim (TimeInv) is needed   *)
(* for handlers only.                                                      *)
(***************************************************************************)
EXTENDS EventQueue, TLAPS

\* TypeOK but for wait, whose bound is that of an exponential: no guard but that
\* of Eligible reads it.
Typed ==
    /\ status \in [Event -> Open \cup {"absent", "processing", "processed"}]
    /\ attempts \in [Event -> 0 .. MaxAttempts]
    /\ age \in [Event -> 0 .. Stale]
    /\ pc \in [Processor -> Working \cup {"idle", "recovered", "busy"}]
    /\ batch \in [Processor -> SUBSET Event]
    /\ seen \in [Processor -> [Event -> 0 .. MaxAttempts]]
    /\ current \in [Processor -> SUBSET Event]
    /\ item \in [Processor -> Event \cup {None}]
    /\ beat \in [Processor -> 0 .. Interval]
    /\ lost \in [Processor -> BOOLEAN]
    /\ handled \subseteq Event

\* A poll between two rows handles none, and before it selects it knows none.
PollInv ==
    \A p \in Processor :
        /\ pc[p] \in {"idle", "recovered"} => batch[p] = {} /\ current[p] = {}
        /\ pc[p] \in Working => item[p] \in Event \ batch[p]
        /\ pc[p] \in Working => status[item[p]] # "absent"
        /\ pc[p] \notin Working => lost[p] = FALSE

Handles(p, e) == pc[p] \in Working /\ item[p] = e

\* A row whose version the poll knows is as the poll left it: free to claim while
\* it waits in the batch, and the poll's alone while it is handled.
AsLeft(p, e) ==
    e \in current[p] =>
        /\ e \in batch[p] => status[e] \in Open
        /\ Handles(p, e) => status[e] = "processing"
        /\ Handles(p, e) => \A q \in Processor \ {p} : e \notin current[q]
        /\ e \in batch[p] \/ Handles(p, e)
             => attempts[e] = seen[p][e] /\ attempts[e] < MaxAttempts

KnowledgeInv == \A p \in Processor, e \in Event : AsLeft(p, e)

\* Attempts are counted from zero, and a row that used them up is not claimed.
AttemptsInv ==
    \A e \in Event :
        /\ status[e] \in {"pending", "processing"} => attempts[e] < MaxAttempts
        /\ status[e] = "absent" => attempts[e] = 0

\* A poll about to mark its row has handled it.
HandledInv == \A p \in Processor : pc[p] = "succeeded" => item[p] \in handled

\* While heartbeats and updates are on time, a handler's claim stands and is
\* renewed before it can be stale.
TimeInv ==
    ~late => \A p \in Processor : pc[p] = "handling" =>
        /\ item[p] \in current[p] /\ lost[p] = FALSE
        /\ age[item[p]] + beat[p] <= Interval

QueueInv == Typed /\ PollInv /\ KnowledgeInv /\ AttemptsInv /\ HandledInv /\ TimeInv

\* A heartbeat is due before the claim is stale.
LEMMA IntervalBeforeStale == Interval \in Nat \ {0} /\ Interval < Stale
  BY QueueAssumption DEF Interval

LEMMA InitQueue == Init => QueueInv
  BY QueueAssumption, IntervalBeforeStale
     DEF Init, QueueInv, Typed, PollInv, KnowledgeInv, AsLeft, AttemptsInv, HandledInv,
         TimeInv, Working

-----------------------------------------------------------------------------
(* One lemma per invariant; each says which of the others it rests on.     *)

\* What a poll that works on a row may rely on.
LEMMA WorkingItem ==
    ASSUME Typed, PollInv, KnowledgeInv, NEW p \in Processor, pc[p] \in Working
    PROVE  /\ item[p] \in Event /\ item[p] \notin batch[p] /\ status[item[p]] # "absent"
           /\ OwnsClaim(p) =>
                 /\ status[item[p]] = "processing"
                 /\ attempts[item[p]] = seen[p][item[p]]
                 /\ attempts[item[p]] < MaxAttempts
                 /\ seen[p][item[p]] + 1 \in 0 .. MaxAttempts
<1>1. item[p] \in Event /\ item[p] \notin batch[p] /\ status[item[p]] # "absent"
  BY DEF PollInv
<1>2. ASSUME OwnsClaim(p)
      PROVE  /\ status[item[p]] = "processing"
             /\ attempts[item[p]] = seen[p][item[p]]
             /\ attempts[item[p]] < MaxAttempts
  BY <1>1, <1>2 DEF OwnsClaim, KnowledgeInv, AsLeft, Handles
<1>3. seen[p][item[p]] \in 0 .. MaxAttempts
  BY <1>1 DEF Typed
<1>4. OwnsClaim(p) => seen[p][item[p]] + 1 \in 0 .. MaxAttempts
  BY <1>2, <1>3, QueueAssumption
<1> QED
  BY <1>1, <1>2, <1>4

\* A write takes the rows from what the others know.
LEMMA WroteKeeps ==
    ASSUME Typed, NEW p \in Processor, NEW S, Wrote(p, S)
    PROVE  /\ current' \in [Processor -> SUBSET Event]
           /\ current'[p] = current[p]
           /\ \A q \in Processor \ {p} : current'[q] = current[q] \ S
           /\ \A q \in Processor : current'[q] \subseteq current[q]
  BY DEF Typed, Wrote

LEMMA TypedStep ==
    ASSUME Typed, PollInv, KnowledgeInv, [Next]_vars
    PROVE  Typed'
<1> USE DEF Typed, rows, local
<1>1. ASSUME NEW e \in Event, Insert(e) PROVE Typed'
  BY <1>1 DEF Insert, Open
<1>2. ASSUME NEW p \in Processor, Recover(p) PROVE Typed'
  BY <1>2, QueueAssumption DEF Recover, Wrote, Open
<1>3. ASSUME NEW p \in Processor, Select(p) PROVE Typed'
  BY <1>3 DEF Select, Eligible
<1>4. ASSUME NEW p \in Processor, NEW e \in Event, Claim(p, e) PROVE Typed'
  <2>1. batch' \in [Processor -> SUBSET Event]
    BY <1>4 DEF Claim
  <2>2. CASE Wrote(p, {e})
    <3>1. /\ status' = [status EXCEPT ![e] = "processing"] \/ status' = status
          /\ age' = [age EXCEPT ![e] = 0] \/ age' = age
          /\ item' = [item EXCEPT ![p] = e] \/ item' = item
          /\ beat' = [beat EXCEPT ![p] = Interval] \/ beat' = beat
          /\ \/ pc' = [pc EXCEPT ![p] = "handling"]
             \/ pc' = [pc EXCEPT ![p] = "unhandled"]
             \/ pc' = pc
          /\ UNCHANGED <<attempts, seen, lost, handled>>
      BY <1>4 DEF Claim
    <3>2. /\ status' \in [Event -> Open \cup {"absent", "processing", "processed"}]
          /\ item' \in [Processor -> Event \cup {None}]
      BY <3>1
    <3>3. age' \in [Event -> 0 .. Stale]
      BY <3>1, QueueAssumption
    <3>4. beat' \in [Processor -> 0 .. Interval]
      BY <3>1, IntervalBeforeStale
    <3>5. pc' \in [Processor -> Working \cup {"idle", "recovered", "busy"}]
      BY <3>1 DEF Working
    <3> QED
      BY <2>1, <2>2, <3>1, <3>2, <3>3, <3>4, <3>5, WroteKeeps
  <2>3. CASE UNCHANGED <<status, age, item, beat, pc, current>>
    BY <1>4, <2>1, <2>3 DEF Claim
  <2> QED
    BY <1>4, <2>2, <2>3 DEF Claim
<1>5. ASSUME NEW p \in Processor, NextRow(p)
      PROVE  /\ pc' \in [Processor -> Working \cup {"idle", "recovered", "busy"}]
             /\ item' \in [Processor -> Event \cup {None}]
             /\ beat' \in [Processor -> 0 .. Interval]
             /\ lost' \in [Processor -> BOOLEAN]
  BY <1>5, IntervalBeforeStale DEF NextRow
<1>6. ASSUME NEW p \in Processor, NEW s \in Open \cup {"processed"}, item[p] \in Event,
             (status' = [status EXCEPT ![item[p]] = s] /\ Wrote(p, {item[p]}))
               \/ UNCHANGED <<status, current>>
      PROVE  /\ status' \in [Event -> Open \cup {"absent", "processing", "processed"}]
             /\ current' \in [Processor -> SUBSET Event]
  <2>1. \/ status' = [status EXCEPT ![item[p]] = s]
        \/ status' = status
    BY <1>6
  <2>2. status' \in [Event -> Open \cup {"absent", "processing", "processed"}]
    BY <1>6, <2>1
  <2>3. current' \in [Processor -> SUBSET Event]
    BY <1>6, WroteKeeps
  <2> QED
    BY <2>2, <2>3
<1>7. ASSUME NEW p \in Processor, PushBack(p) PROVE Typed'
  <2>1. item[p] \in Event
    BY <1>7, WorkingItem DEF PushBack, Working
  <2>2. (status' = [status EXCEPT ![item[p]] = "pending"] /\ Wrote(p, {item[p]}))
          \/ UNCHANGED <<status, current>>
    BY <1>7 DEF PushBack
  <2>3. /\ status' \in [Event -> Open \cup {"absent", "processing", "processed"}]
        /\ current' \in [Processor -> SUBSET Event]
    BY <1>6, <2>1, <2>2 DEF Open
  <2>4. NextRow(p) /\ UNCHANGED <<attempts, age, batch, seen, handled>>
    BY <1>7 DEF PushBack
  <2> QED
    BY <1>5, <2>3, <2>4
<1>8. ASSUME NEW p \in Processor, Beat(p) PROVE Typed'
  <2>1. item[p] \in Event
    BY <1>8, WorkingItem DEF Beat, Working
  <2>2. /\ age' = [age EXCEPT ![item[p]] = 0] \/ age' = age
        /\ beat' = [beat EXCEPT ![p] = Interval] \/ beat' = beat
        /\ lost' = [lost EXCEPT ![p] = TRUE] \/ lost' = lost
        /\ UNCHANGED <<status, attempts, pc, batch, seen, current, item, handled>>
    BY <1>8 DEF Beat
  <2>3. age' \in [Event -> 0 .. Stale]
    BY <2>1, <2>2, QueueAssumption
  <2>4. beat' \in [Processor -> 0 .. Interval]
    BY <2>2, IntervalBeforeStale
  <2> QED
    BY <2>2, <2>3, <2>4
<1>9. ASSUME NEW p \in Processor, Finish(p) PROVE Typed'
  <2>1. item[p] \in Event
    BY <1>9, WorkingItem DEF Finish, Working
  <2> QED
    BY <1>9, <2>1 DEF Finish, Working
<1>10. ASSUME NEW p \in Processor, Throw(p) \/ BeatFails(p) \/ MarkProcessedFails(p)
       PROVE  Typed'
  BY <1>10 DEF Throw, BeatFails, MarkProcessedFails, Working
<1>11. ASSUME NEW p \in Processor, MarkProcessed(p) PROVE Typed'
  <2>1. item[p] \in Event
    BY <1>11, WorkingItem DEF MarkProcessed, Working
  <2>2. (status' = [status EXCEPT ![item[p]] = "processed"] /\ Wrote(p, {item[p]}))
          \/ UNCHANGED <<status, current>>
    BY <1>11 DEF MarkProcessed
  <2>3. /\ status' \in [Event -> Open \cup {"absent", "processing", "processed"}]
        /\ current' \in [Processor -> SUBSET Event]
    BY <1>6, <2>1, <2>2
  <2>4. NextRow(p) /\ UNCHANGED <<attempts, age, batch, seen, handled>>
    BY <1>11 DEF MarkProcessed
  <2> QED
    BY <1>5, <2>3, <2>4
<1>12. ASSUME NEW p \in Processor, MarkFailed(p) PROVE Typed'
  <2>1. item[p] \in Event /\ (OwnsClaim(p) => seen[p][item[p]] + 1 \in 0 .. MaxAttempts)
    BY <1>12, WorkingItem DEF MarkFailed, Working
  <2>2. (status' = [status EXCEPT ![item[p]] = "failed"] /\ Wrote(p, {item[p]}))
          \/ UNCHANGED <<status, current>>
    BY <1>12 DEF MarkFailed
  <2>3. (OwnsClaim(p) /\ attempts' = [attempts EXCEPT ![item[p]] = seen[p][item[p]] + 1])
          \/ attempts' = attempts
    BY <1>12 DEF MarkFailed
  <2>4. attempts' \in [Event -> 0 .. MaxAttempts]
    BY <2>1, <2>3
  <2>5. /\ status' \in [Event -> Open \cup {"absent", "processing", "processed"}]
        /\ current' \in [Processor -> SUBSET Event]
    BY <1>6, <2>1, <2>2 DEF Open
  <2>6. NextRow(p) /\ UNCHANGED <<age, batch, seen, handled>>
    BY <1>12 DEF MarkFailed
  <2> QED
    BY <1>5, <2>4, <2>5, <2>6
<1>13. ASSUME NEW p \in Processor, EndPoll(p) \/ Abort(p) PROVE Typed'
  <2>1. /\ Forget(p)
        /\ UNCHANGED <<status, attempts, age, handled>>
    BY <1>13 DEF EndPoll, Abort
  <2>2. seen' \in [Processor -> [Event -> 0 .. MaxAttempts]]
    BY <2>1, QueueAssumption DEF Forget
  <2>3. beat' \in [Processor -> 0 .. Interval]
    BY <2>1, IntervalBeforeStale DEF Forget
  <2> QED
    BY <2>1, <2>2, <2>3 DEF Forget
<1>14. CASE Tick
  <2>1. age' \in [Event -> 0 .. Stale]
    BY <1>14, QueueAssumption DEF Tick
  <2>2. beat' \in [Processor -> 0 .. Interval]
    BY <1>14, IntervalBeforeStale DEF Tick
  <2> QED
    BY <1>14, <2>1, <2>2 DEF Tick
<1>15. CASE UNCHANGED vars
  BY <1>15 DEF vars
<1> QED
  BY <1>1, <1>2, <1>3, <1>4, <1>7, <1>8, <1>9, <1>10, <1>11, <1>12, <1>13, <1>14, <1>15
     DEF Next, Poll

LEMMA PollStep ==
    ASSUME Typed, PollInv, KnowledgeInv, [Next]_vars
    PROVE  PollInv'
<1> USE DEF Typed, rows, local
<1>1. ASSUME NEW e \in Event, Insert(e) PROVE PollInv'
  BY <1>1 DEF Insert, PollInv
<1>2. ASSUME NEW p \in Processor, Recover(p) PROVE PollInv'
  BY <1>2 DEF Recover, Wrote, PollInv, Working
<1>3. ASSUME NEW p \in Processor, Select(p) PROVE PollInv'
  BY <1>3 DEF Select, PollInv, Working
<1>4. ASSUME NEW p \in Processor, NEW e \in Event, Claim(p, e) PROVE PollInv'
  <2>1. CASE CanClaim(p, e) /\ pc'[p] # "busy"
    <3>1. \A q \in Processor \ {p} :
              /\ pc'[q] = pc[q] /\ batch'[q] = batch[q] /\ item'[q] = item[q]
              /\ current'[q] \subseteq current[q]
      BY <1>4 DEF Claim, Wrote
    <3>2. pc'[p] \in Working /\ item'[p] = e /\ e \notin batch'[p] /\ status'[e] = "processing"
      BY <1>4, <2>1 DEF Claim, Working
    <3>3. lost' = lost /\ \A d \in Event : status[d] # "absent" => status'[d] # "absent"
      BY <1>4 DEF Claim
    <3>4. ASSUME NEW q \in Processor \ {p}
          PROVE  /\ pc'[q] \in {"idle", "recovered"} => batch'[q] = {} /\ current'[q] = {}
                 /\ pc'[q] \in Working => item'[q] \in Event \ batch'[q]
                 /\ pc'[q] \in Working => status'[item'[q]] # "absent"
                 /\ pc'[q] \notin Working => lost'[q] = FALSE
      BY <3>1, <3>3 DEF PollInv
    <3> QED
      BY <3>2, <3>4 DEF PollInv, Working
  <2>2. CASE UNCHANGED <<status, item, pc, current>>
    BY <1>4, <2>2 DEF Claim, PollInv, Working
  <2>3. pc[p] = "busy" /\ pc \in [Processor -> Working \cup {"idle", "recovered", "busy"}]
    BY <1>4 DEF Claim
  <2> QED
    BY <1>4, <2>1, <2>2, <2>3 DEF Claim
<1>5. ASSUME NEW p \in Processor, NextRow(p), batch' = batch,
             Wrote(p, {item[p]}) \/ current' = current,
             \A e \in Event : status[e] # "absent" => status'[e] # "absent"
      PROVE  PollInv'
  <2>1. \A q \in Processor : current'[q] \subseteq current[q]
    BY <1>5, WroteKeeps
  <2>2. pc'[p] = "busy" /\ lost'[p] = FALSE
    BY <1>5 DEF NextRow
  <2>3. \A q \in Processor \ {p} :
            pc'[q] = pc[q] /\ item'[q] = item[q] /\ lost'[q] = lost[q]
    BY <1>5 DEF NextRow
  <2>4. ASSUME NEW q \in Processor \ {p}
        PROVE  /\ pc'[q] \in {"idle", "recovered"} => batch'[q] = {} /\ current'[q] = {}
               /\ pc'[q] \in Working => item'[q] \in Event \ batch'[q]
               /\ pc'[q] \in Working => status'[item'[q]] # "absent"
               /\ pc'[q] \notin Working => lost'[q] = FALSE
    BY <1>5, <2>1, <2>3 DEF PollInv
  <2> QED
    BY <2>2, <2>4 DEF PollInv, Working
<1>6. ASSUME NEW p \in Processor, PushBack(p) PROVE PollInv'
  <2>1. /\ NextRow(p) /\ batch' = batch
        /\ Wrote(p, {item[p]}) \/ current' = current
        /\ status' = [status EXCEPT ![item[p]] = "pending"] \/ status' = status
    BY <1>6 DEF PushBack
  <2> QED
    BY <1>5, <2>1
<1>7. ASSUME NEW p \in Processor, Beat(p) \/ BeatFails(p) PROVE PollInv'
  BY <1>7 DEF Beat, BeatFails, PollInv, Working
<1>8. ASSUME NEW p \in Processor, Finish(p) \/ Throw(p) \/ MarkProcessedFails(p)
      PROVE  PollInv'
  BY <1>8 DEF Finish, Throw, MarkProcessedFails, PollInv, Working
<1>9. ASSUME NEW p \in Processor, MarkProcessed(p) PROVE PollInv'
  <2>1. /\ NextRow(p) /\ batch' = batch
        /\ Wrote(p, {item[p]}) \/ current' = current
        /\ status' = [status EXCEPT ![item[p]] = "processed"] \/ status' = status
    BY <1>9 DEF MarkProcessed
  <2> QED
    BY <1>5, <2>1
<1>10. ASSUME NEW p \in Processor, MarkFailed(p) PROVE PollInv'
  <2>1. /\ NextRow(p) /\ batch' = batch
        /\ Wrote(p, {item[p]}) \/ current' = current
        /\ status' = [status EXCEPT ![item[p]] = "failed"] \/ status' = status
    BY <1>10 DEF MarkFailed
  <2> QED
    BY <1>5, <2>1
<1>11. ASSUME NEW p \in Processor, EndPoll(p) \/ Abort(p) PROVE PollInv'
  <2>1. Forget(p) /\ status' = status
    BY <1>11 DEF EndPoll, Abort
  <2>2. pc'[p] = "idle" /\ batch'[p] = {} /\ current'[p] = {} /\ lost'[p] = FALSE
    BY <2>1 DEF Forget
  <2>3. \A q \in Processor \ {p} :
            /\ pc'[q] = pc[q] /\ batch'[q] = batch[q] /\ current'[q] = current[q]
            /\ item'[q] = item[q] /\ lost'[q] = lost[q]
    BY <2>1 DEF Forget
  <2>4. ASSUME NEW q \in Processor \ {p}
        PROVE  /\ pc'[q] \in {"idle", "recovered"} => batch'[q] = {} /\ current'[q] = {}
               /\ pc'[q] \in Working => item'[q] \in Event \ batch'[q]
               /\ pc'[q] \in Working => status'[item'[q]] # "absent"
               /\ pc'[q] \notin Working => lost'[q] = FALSE
    BY <2>1, <2>3 DEF PollInv
  <2> QED
    BY <2>2, <2>4 DEF PollInv, Working
<1>12. CASE Tick
  BY <1>12 DEF Tick, PollInv
<1>13. CASE UNCHANGED vars
  BY <1>13 DEF vars, PollInv
<1> QED
  BY <1>1, <1>2, <1>3, <1>4, <1>6, <1>7, <1>8, <1>9, <1>10, <1>11, <1>12, <1>13
     DEF Next, Poll

\* A step of p that writes the rows S, and takes them from what the others know,
\* leaves the others' knowledge true.
LEMMA OthersAsLeft ==
    ASSUME Typed, KnowledgeInv, NEW p \in Processor, NEW S,
           \A q \in Processor \ {p} :
               /\ pc'[q] = pc[q] /\ item'[q] = item[q]
               /\ batch'[q] = batch[q] /\ seen'[q] = seen[q]
               /\ current'[q] = current[q] \ S,
           \A e \in Event \ S : status'[e] = status[e] /\ attempts'[e] = attempts[e],
           \A e \in current'[p] : e \in current[p] \/ status[e] \in Open
    PROVE  \A q \in Processor \ {p}, e \in Event : AsLeft(q, e)'
<1> SUFFICES ASSUME NEW q \in Processor \ {p}, NEW e \in Event, e \in current'[q]
             PROVE  AsLeft(q, e)'
  BY DEF AsLeft
<1>1. e \in current[q] /\ e \notin S /\ AsLeft(q, e)
  BY DEF KnowledgeInv
<1>2. Handles(q, e)' = Handles(q, e)
  BY DEF Handles
<1>3. /\ batch'[q] = batch[q] /\ seen'[q] = seen[q]
      /\ status'[e] = status[e] /\ attempts'[e] = attempts[e]
  BY <1>1
<1>4. ASSUME Handles(q, e), NEW r \in Processor \ {q} PROVE e \notin current'[r]
  <2>1. status[e] = "processing" /\ e \notin current[r]
    BY <1>1, <1>4 DEF AsLeft
  <2> QED
    BY <2>1 DEF Open
<1> QED
  BY <1>1, <1>2, <1>3, <1>4 DEF AsLeft

\* A poll that goes on to the next row knows only rows that nobody wrote.
LEMMA NextRowAsLeft ==
    ASSUME Typed, PollInv, KnowledgeInv, NEW p \in Processor, pc[p] \in Working, NextRow(p),
           Wrote(p, {item[p]}) \/ UNCHANGED <<current, status, attempts>>,
           UNCHANGED <<batch, seen>>,
           \A e \in Event \ {item[p]} : status'[e] = status[e] /\ attempts'[e] = attempts[e]
    PROVE  KnowledgeInv'
<1>1. \A q \in Processor \ {p} : pc'[q] = pc[q] /\ item'[q] = item[q]
  BY DEF NextRow, Typed
<1>2. pc'[p] = "busy"
  BY DEF NextRow, Typed
<1>3. \A e \in Event : AsLeft(p, e)'
  <2> SUFFICES ASSUME NEW e \in Event, e \in current'[p], e \in batch[p]
               PROVE  status'[e] \in Open /\ attempts'[e] = seen[p][e] /\ attempts'[e] < MaxAttempts
    BY <1>2 DEF AsLeft, Handles, Working
  <2>1. e # item[p]
    BY WorkingItem
  <2>2. e \in current[p]
    BY WroteKeeps
  <2> QED
    BY <2>1, <2>2 DEF KnowledgeInv, AsLeft
<1>4. \A q \in Processor \ {p}, e \in Event : AsLeft(q, e)'
  <2>1. CASE Wrote(p, {item[p]})
    <3>1. /\ \A q \in Processor \ {p} : current'[q] = current[q] \ {item[p]}
          /\ \A e \in current'[p] : e \in current[p] \/ status[e] \in Open
      BY <2>1, WroteKeeps
    <3> QED
      BY <1>1, <3>1, OthersAsLeft
  <2>2. CASE UNCHANGED <<current, status, attempts>>
    <3>1. \A q \in Processor \ {p} : current'[q] = current[q] \ {}
      BY <2>2
    <3> QED
      BY <1>1, <2>2, <3>1, OthersAsLeft
  <2> QED
    BY <2>1, <2>2
<1> QED
  BY <1>3, <1>4 DEF KnowledgeInv

LEMMA KnowledgeStep ==
    ASSUME Typed, PollInv, KnowledgeInv, [Next]_vars
    PROVE  KnowledgeInv'
<1>1. ASSUME NEW e \in Event, Insert(e) PROVE KnowledgeInv'
  BY <1>1 DEF Insert, KnowledgeInv, AsLeft, Handles, Open, local, Typed
<1>2. ASSUME NEW p \in Processor, Recover(p) PROVE KnowledgeInv'
  <2> DEFINE stuck == {e \in Event : IsStale(e)}
  <2>1. /\ pc[p] = "idle" /\ Wrote(p, stuck)
        /\ pc' = [pc EXCEPT ![p] = "recovered"]
        /\ status' = [e \in Event |-> IF e \in stuck THEN "pending" ELSE status[e]]
        /\ UNCHANGED <<attempts, batch, seen, item>>
    BY <1>2 DEF Recover
  <2> HIDE DEF stuck
  <2>2. current'[p] = {}
    BY <2>1, WroteKeeps DEF PollInv
  <2>3. \A q \in Processor \ {p} : pc'[q] = pc[q]
    BY <2>1 DEF Typed
  <2>4. \A q \in Processor \ {p}, e \in Event : AsLeft(q, e)'
    BY <2>1, <2>2, <2>3, WroteKeeps, OthersAsLeft
  <2> QED
    BY <2>2, <2>4 DEF KnowledgeInv, AsLeft
<1>3. ASSUME NEW p \in Processor, Select(p) PROVE KnowledgeInv'
  <2>1. PICK B \in SUBSET Eligible :
            batch' = [batch EXCEPT ![p] = B] /\ current' = [current EXCEPT ![p] = B]
    BY <1>3 DEF Select
  <2>2. /\ seen' = [seen EXCEPT ![p] = attempts]
        /\ pc' = [pc EXCEPT ![p] = "busy"]
        /\ UNCHANGED <<status, attempts, item>>
    BY <1>3 DEF Select, rows
  <2>3. /\ current'[p] = B /\ seen'[p] = attempts /\ pc'[p] = "busy"
        /\ \A q \in Processor \ {p} :
               /\ pc'[q] = pc[q] /\ batch'[q] = batch[q] /\ seen'[q] = seen[q]
               /\ current'[q] = current[q]
    BY <2>1, <2>2 DEF Typed
  <2>4. \A e \in B : status[e] \in Open /\ attempts[e] < MaxAttempts
    BY DEF Eligible
  <2>5. \A q \in Processor \ {p}, e \in Event : AsLeft(q, e)'
    <3>1. \A q \in Processor \ {p} : current'[q] = current[q] \ {}
      BY <2>3
    <3> QED
      BY <2>2, <2>3, <2>4, <3>1, OthersAsLeft
  <2>6. \A e \in Event : AsLeft(p, e)'
    BY <2>2, <2>3, <2>4 DEF AsLeft, Handles, Working
  <2> QED
    BY <2>5, <2>6 DEF KnowledgeInv
<1>4. ASSUME NEW p \in Processor, NEW e \in Event, Claim(p, e) PROVE KnowledgeInv'
  <2>1. /\ pc[p] = "busy" /\ e \in batch[p]
        /\ batch' = [batch EXCEPT ![p] = @ \ {e}]
        /\ UNCHANGED <<attempts, seen>>
    BY <1>4 DEF Claim
  <2>2. /\ batch'[p] = batch[p] \ {e}
        /\ \A q \in Processor \ {p} : batch'[q] = batch[q]
    BY <2>1 DEF Typed
  <2>3. CASE CanClaim(p, e) /\ status' = [status EXCEPT ![e] = "processing"]
             /\ item' = [item EXCEPT ![p] = e] /\ Wrote(p, {e})
             /\ pc' = [pc EXCEPT ![p] = IF e \in Known THEN "handling" ELSE "unhandled"]
    <3>1. /\ status'[e] = "processing" /\ item'[p] = e
          /\ \A d \in Event \ {e} : status'[d] = status[d]
          /\ \A q \in Processor \ {p} : pc'[q] = pc[q] /\ item'[q] = item[q]
      BY <2>3 DEF Typed
    <3>2. \A q \in Processor \ {p}, d \in Event : AsLeft(q, d)'
      <4>1. /\ \A q \in Processor \ {p} : current'[q] = current[q] \ {e}
            /\ \A d \in current'[p] : d \in current[p] \/ status[d] \in Open
        BY <2>3, WroteKeeps
      <4>2. \A q \in Processor \ {p} :
                pc'[q] = pc[q] /\ item'[q] = item[q] /\ batch'[q] = batch[q] /\ seen'[q] = seen[q]
        BY <2>1, <2>2, <3>1
      <4>3. \A d \in Event \ {e} : status'[d] = status[d] /\ attempts'[d] = attempts[d]
        BY <2>1, <3>1
      <4> QED
        BY <4>1, <4>2, <4>3, OthersAsLeft
    <3>3. attempts[e] = seen[p][e] /\ attempts[e] < MaxAttempts
      BY <2>1, <2>3 DEF CanClaim, KnowledgeInv, AsLeft
    <3>4. AsLeft(p, e)'
      <4>1. \A q \in Processor \ {p} : e \notin current'[q]
        BY <2>3, WroteKeeps
      <4> QED
        BY <2>1, <2>2, <3>1, <3>3, <4>1 DEF AsLeft
    <3>5. ASSUME NEW d \in Event, d # e PROVE AsLeft(p, d)'
      <4>1. d \in current'[p] => d \in current[p]
        BY <2>3, WroteKeeps
      <4>2. ~Handles(p, d)'
        BY <3>1, <3>5 DEF Handles
      <4> QED
        BY <2>1, <2>2, <3>1, <3>5, <4>1, <4>2 DEF KnowledgeInv, AsLeft
    <3> QED
      BY <3>2, <3>4, <3>5 DEF KnowledgeInv
  <2>4. CASE UNCHANGED <<status, item, pc, current>>
    <3>1. \A q \in Processor, d \in Event : d \in batch'[q] => d \in batch[q]
      BY <2>2
    <3> QED
      BY <2>1, <2>4, <3>1 DEF KnowledgeInv, AsLeft, Handles
  <2> QED
    BY <1>4, <2>3, <2>4 DEF Claim
<1>5. ASSUME NEW p \in Processor, PushBack(p) PROVE KnowledgeInv'
  <2>1. item[p] \in Event /\ pc[p] \in Working
    BY <1>5, WorkingItem DEF PushBack, Working
  <2>2. /\ NextRow(p) /\ UNCHANGED <<attempts, batch, seen>>
        /\ \/ Wrote(p, {item[p]}) /\ status' = [status EXCEPT ![item[p]] = "pending"]
           \/ UNCHANGED <<current, status>>
    BY <1>5 DEF PushBack
  <2> QED
    BY <2>1, <2>2, NextRowAsLeft DEF Typed
<1>6. ASSUME NEW p \in Processor, MarkProcessed(p) PROVE KnowledgeInv'
  <2>1. item[p] \in Event /\ pc[p] \in Working
    BY <1>6, WorkingItem DEF MarkProcessed, Working
  <2>2. /\ NextRow(p) /\ UNCHANGED <<attempts, batch, seen>>
        /\ \/ Wrote(p, {item[p]}) /\ status' = [status EXCEPT ![item[p]] = "processed"]
           \/ UNCHANGED <<current, status>>
    BY <1>6 DEF MarkProcessed
  <2> QED
    BY <2>1, <2>2, NextRowAsLeft DEF Typed
<1>7. ASSUME NEW p \in Processor, MarkFailed(p) PROVE KnowledgeInv'
  <2>1. item[p] \in Event /\ pc[p] \in Working
    BY <1>7, WorkingItem DEF MarkFailed, Working
  <2>2. /\ NextRow(p) /\ UNCHANGED <<batch, seen>>
        /\ \/ /\ Wrote(p, {item[p]})
              /\ status' = [status EXCEPT ![item[p]] = "failed"]
              /\ attempts' = [attempts EXCEPT ![item[p]] = seen[p][item[p]] + 1]
           \/ UNCHANGED <<current, status, attempts>>
    BY <1>7 DEF MarkFailed
  <2> QED
    BY <2>1, <2>2, NextRowAsLeft DEF Typed
<1>8. ASSUME NEW p \in Processor,
             Beat(p) \/ BeatFails(p) \/ Finish(p) \/ Throw(p) \/ MarkProcessedFails(p)
      PROVE  KnowledgeInv'
  <2>1. /\ UNCHANGED <<status, attempts, batch, seen, current, item>>
        /\ pc[p] \in Working
        /\ \/ pc' = pc
           \/ pc' = [pc EXCEPT ![p] = "succeeded"]
           \/ pc' = [pc EXCEPT ![p] = "threw"]
    BY <1>8 DEF Beat, BeatFails, Finish, Throw, MarkProcessedFails, rows, Working
  <2>2. \A q \in Processor, e \in Event : Handles(q, e)' = Handles(q, e)
    BY <2>1 DEF Handles, Typed, Working
  <2> QED
    BY <2>1, <2>2 DEF KnowledgeInv, AsLeft
<1>9. ASSUME NEW p \in Processor, EndPoll(p) \/ Abort(p) PROVE KnowledgeInv'
  <2>1. Forget(p) /\ UNCHANGED <<status, attempts>>
    BY <1>9 DEF EndPoll, Abort, rows
  <2>2. /\ current'[p] = {}
        /\ \A q \in Processor \ {p} :
               /\ pc'[q] = pc[q] /\ batch'[q] = batch[q] /\ current'[q] = current[q] \ {}
               /\ item'[q] = item[q] /\ seen'[q] = seen[q]
    BY <2>1 DEF Forget, Typed
  <2>3. \A q \in Processor \ {p}, e \in Event : AsLeft(q, e)'
    BY <2>1, <2>2, OthersAsLeft
  <2> QED
    BY <2>2, <2>3 DEF KnowledgeInv, AsLeft
<1>10. CASE Tick \/ UNCHANGED vars
  <2>1. UNCHANGED <<status, attempts, pc, batch, seen, current, item>>
    BY <1>10 DEF Tick, vars, rows, local
  <2> QED
    BY <2>1 DEF KnowledgeInv, AsLeft, Handles
<1> QED
  BY <1>1, <1>2, <1>3, <1>4, <1>5, <1>6, <1>7, <1>8, <1>9, <1>10 DEF Next, Poll

LEMMA AttemptsStep ==
    ASSUME Typed, PollInv, KnowledgeInv, AttemptsInv, [Next]_vars
    PROVE  AttemptsInv'
<1> USE DEF AttemptsInv
<1>1. ASSUME NEW e \in Event, Insert(e) PROVE AttemptsInv'
  BY <1>1, QueueAssumption DEF Insert, Typed
<1>2. ASSUME NEW p \in Processor, Recover(p) PROVE AttemptsInv'
  BY <1>2 DEF Recover, IsStale
<1>3. ASSUME NEW p \in Processor, NEW e \in Event, Claim(p, e) PROVE AttemptsInv'
  <2>1. UNCHANGED attempts /\ e \in batch[p]
    BY <1>3 DEF Claim
  <2>2. CASE CanClaim(p, e) /\ status' = [status EXCEPT ![e] = "processing"]
    <3>1. attempts[e] < MaxAttempts
      BY <2>1, <2>2 DEF CanClaim, KnowledgeInv, AsLeft
    <3> QED
      BY <2>1, <2>2, <3>1 DEF Typed
  <2>3. CASE UNCHANGED status
    BY <2>1, <2>3
  <2> QED
    BY <1>3, <2>2, <2>3 DEF Claim
<1>4. ASSUME NEW p \in Processor, PushBack(p) PROVE AttemptsInv'
  <2>1. /\ item[p] \in Event
        /\ OwnsClaim(p) => attempts[item[p]] < MaxAttempts
    BY <1>4, WorkingItem DEF PushBack, Working
  <2>2. /\ UNCHANGED attempts
        /\ \/ OwnsClaim(p) /\ status' = [status EXCEPT ![item[p]] = "pending"]
           \/ UNCHANGED status
    BY <1>4 DEF PushBack
  <2> QED
    BY <2>1, <2>2 DEF Typed
<1>5. ASSUME NEW p \in Processor, MarkProcessed(p) PROVE AttemptsInv'
  <2>1. item[p] \in Event
    BY <1>5, WorkingItem DEF MarkProcessed, Working
  <2>2. /\ UNCHANGED attempts
        /\ status' = [status EXCEPT ![item[p]] = "processed"] \/ UNCHANGED status
    BY <1>5 DEF MarkProcessed
  <2> QED
    BY <2>1, <2>2 DEF Typed
<1>6. ASSUME NEW p \in Processor, MarkFailed(p) PROVE AttemptsInv'
  <2>1. item[p] \in Event
    BY <1>6, WorkingItem DEF MarkFailed, Working
  <2>2. \/ /\ status' = [status EXCEPT ![item[p]] = "failed"]
           /\ attempts' = [attempts EXCEPT ![item[p]] = seen[p][item[p]] + 1]
        \/ UNCHANGED <<status, attempts>>
    BY <1>6 DEF MarkFailed
  <2>3. \A e \in Event \ {item[p]} : status'[e] = status[e] /\ attempts'[e] = attempts[e]
    BY <2>2 DEF Typed
  <2>4. status'[item[p]] = "failed" \/ UNCHANGED <<status, attempts>>
    BY <2>1, <2>2 DEF Typed
  <2> QED
    BY <2>1, <2>3, <2>4
<1>7. CASE UNCHANGED <<status, attempts>>
  BY <1>7
<1> QED
  BY <1>1, <1>2, <1>3, <1>4, <1>5, <1>6, <1>7
     DEF Next, Poll, Select, Beat, BeatFails, Finish, Throw, MarkProcessedFails, EndPoll,
         Abort, Tick, rows, vars

LEMMA HandledStep ==
    ASSUME Typed, HandledInv, [Next]_vars
    PROVE  HandledInv'
<1> USE DEF HandledInv, Typed
<1>1. ASSUME NEW p \in Processor, Finish(p) PROVE HandledInv'
  BY <1>1 DEF Finish
<1>2. ASSUME NEW p \in Processor, NextRow(p), UNCHANGED handled PROVE HandledInv'
  BY <1>2 DEF NextRow
<1>3. ASSUME NEW p \in Processor, Forget(p), UNCHANGED handled PROVE HandledInv'
  BY <1>3 DEF Forget
<1>4. ASSUME NEW p \in Processor, NEW e \in Event, Claim(p, e) PROVE HandledInv'
  <2>1. /\ UNCHANGED handled /\ pc[p] = "busy"
        /\ \/ /\ item' = [item EXCEPT ![p] = e]
              /\ pc' = [pc EXCEPT ![p] = IF e \in Known THEN "handling" ELSE "unhandled"]
           \/ UNCHANGED <<item, pc>>
    BY <1>4 DEF Claim
  <2> QED
    BY <2>1
<1>5. ASSUME NEW p \in Processor,
             Recover(p) \/ Select(p) \/ Throw(p) \/ MarkProcessedFails(p)
      PROVE  HandledInv'
  <2>1. /\ UNCHANGED <<item, handled>>
        /\ \/ pc' = [pc EXCEPT ![p] = "recovered"]
           \/ pc' = [pc EXCEPT ![p] = "busy"]
           \/ pc' = [pc EXCEPT ![p] = "threw"]
    BY <1>5 DEF Recover, Select, Throw, MarkProcessedFails
  <2> QED
    BY <2>1
<1>6. CASE UNCHANGED <<pc, item, handled>>
  BY <1>6
<1> QED
  BY <1>1, <1>2, <1>3, <1>4, <1>5, <1>6
     DEF Next, Poll, Insert, PushBack, Beat, BeatFails, MarkProcessed, MarkFailed, EndPoll,
         Abort, Tick, local, vars

-----------------------------------------------------------------------------
(* Time                                                                    *)

LEMMA TimesAreNumbers ==
    ASSUME Typed
    PROVE  (\A e \in Event : age[e] \in Nat) /\ (\A p \in Processor : beat[p] \in Nat)
<1>1. (\A e \in Event : age[e] \in 0 .. Stale) /\ (\A p \in Processor : beat[p] \in 0 .. Interval)
  BY DEF Typed
<1>2. Stale \in Nat /\ Interval \in Nat
  BY QueueAssumption, IntervalBeforeStale
<1> QED
  BY <1>1, <1>2

\* What TimeInv says of one poll.
InTime(p) ==
    pc[p] = "handling" =>
        /\ item[p] \in current[p] /\ lost[p] = FALSE
        /\ age[item[p]] + beat[p] <= Interval

\* A poll that is where it was and still knows its row stays in time if the row got
\* no older.
LEMMA StaysInTime ==
    ASSUME Typed, PollInv, NEW q \in Processor, InTime(q),
           pc'[q] = pc[q], item'[q] = item[q], lost'[q] = lost[q], beat'[q] = beat[q],
           pc[q] = "handling" => item[q] \in current'[q] /\ age'[item[q]] \in {age[item[q]], 0}
    PROVE  InTime(q)'
<1> SUFFICES ASSUME pc[q] = "handling" PROVE age'[item[q]] + beat[q] <= Interval
  BY DEF InTime
<1>1. item[q] \in Event
  BY DEF PollInv, Working
<1>2. age[item[q]] \in Nat /\ beat[q] \in Nat /\ age[item[q]] + beat[q] <= Interval
  BY <1>1, TimesAreNumbers DEF InTime
<1> QED
  BY <1>2, IntervalBeforeStale

LEMMA NextRowInTime ==
    ASSUME Typed, PollInv, KnowledgeInv, NEW p \in Processor, pc[p] \in Working, NextRow(p),
           \A q \in Processor : InTime(q),
           (OwnsClaim(p) /\ Wrote(p, {item[p]})) \/ UNCHANGED current,
           UNCHANGED age
    PROVE  \A q \in Processor : InTime(q)'
<1>1. pc'[p] = "busy"
  BY DEF NextRow, Typed
<1>2. ASSUME NEW q \in Processor \ {p} PROVE InTime(q)'
  <2>1. pc'[q] = pc[q] /\ item'[q] = item[q] /\ lost'[q] = lost[q] /\ beat'[q] = beat[q]
    BY DEF NextRow, Typed
  <2>2. ASSUME pc[q] = "handling" PROVE item[q] \in current'[q]
    <3>1. item[q] \in current[q]
      BY <2>2 DEF InTime
    <3>2. CASE OwnsClaim(p) /\ Wrote(p, {item[p]})
      <4>1. item[p] \notin current[q]
        BY <3>2, WorkingItem DEF KnowledgeInv, AsLeft, Handles, OwnsClaim
      <4> QED
        BY <3>1, <3>2, <4>1, WroteKeeps
    <3> QED
      BY <3>1, <3>2
  <2> QED
    BY <2>1, <2>2, StaysInTime
<1> QED
  BY <1>1, <1>2 DEF InTime

LEMMA TimeStep ==
    ASSUME Typed, PollInv, KnowledgeInv, TimeInv, [Next]_vars
    PROVE  TimeInv'
<1> SUFFICES ASSUME ~late' PROVE \A q \in Processor : InTime(q)'
  BY DEF TimeInv, InTime
<1>1. ~late
  BY DEF Next, Poll, Insert, Recover, Select, Claim, PushBack, Beat, BeatFails, Finish,
         Throw, MarkProcessed, MarkProcessedFails, MarkFailed, EndPoll, Abort, Tick, vars
<1>2. \A q \in Processor : InTime(q)
  BY <1>1 DEF TimeInv, InTime
<1>3. ASSUME NEW p \in Processor, Recover(p) PROVE \A q \in Processor : InTime(q)'
  <2> DEFINE stuck == {e \in Event : IsStale(e)}
  <2>1. /\ pc[p] = "idle" /\ Wrote(p, stuck)
        /\ pc' = [pc EXCEPT ![p] = "recovered"]
        /\ age' = [e \in Event |-> IF e \in stuck THEN 0 ELSE age[e]]
        /\ UNCHANGED <<item, beat, lost>>
    BY <1>3 DEF Recover
  <2>2. ASSUME NEW q \in Processor, pc[q] = "handling" PROVE item[q] \in Event \ stuck
    <3>1. item[q] \in Event /\ age[item[q]] + beat[q] <= Interval
      BY <1>2, <2>2 DEF InTime, PollInv, Working
    <3>2. age[item[q]] \in Nat /\ beat[q] \in Nat
      BY <3>1, TimesAreNumbers
    <3>3. ~(age[item[q]] >= Stale)
      BY <3>1, <3>2, QueueAssumption, IntervalBeforeStale
    <3> QED
      BY <3>1, <3>3 DEF IsStale
  <2> HIDE DEF stuck
  <2>3. ASSUME NEW q \in Processor \ {p} PROVE InTime(q)'
    <3>1. pc'[q] = pc[q] /\ current'[q] = current[q] \ stuck
      BY <2>1, WroteKeeps DEF Typed
    <3>2. pc[q] = "handling" => item[q] \in current'[q] /\ age'[item[q]] = age[item[q]]
      BY <1>2, <2>1, <2>2, <3>1 DEF InTime
    <3> QED
      BY <1>2, <2>1, <3>1, <3>2, StaysInTime
  <2>4. pc'[p] = "recovered"
    BY <2>1 DEF Typed
  <2> QED
    BY <2>3, <2>4 DEF InTime
<1>4. ASSUME NEW p \in Processor, Select(p) PROVE \A q \in Processor : InTime(q)'
  <2>1. PICK B : current' = [current EXCEPT ![p] = B]
    BY <1>4 DEF Select
  <2>2. pc' = [pc EXCEPT ![p] = "busy"] /\ UNCHANGED <<age, item, beat, lost>>
    BY <1>4 DEF Select, rows
  <2>3. pc'[p] = "busy" /\ \A q \in Processor \ {p} : pc'[q] = pc[q] /\ current'[q] = current[q]
    BY <2>1, <2>2 DEF Typed
  <2> QED
    BY <1>2, <2>2, <2>3 DEF InTime
<1>5. ASSUME NEW p \in Processor, NEW e \in Event, Claim(p, e)
      PROVE  \A q \in Processor : InTime(q)'
  <2>1. pc[p] = "busy" /\ e \in batch[p] /\ UNCHANGED lost
    BY <1>5 DEF Claim
  <2>2. CASE /\ CanClaim(p, e) /\ Wrote(p, {e})
             /\ age' = [age EXCEPT ![e] = 0]
             /\ item' = [item EXCEPT ![p] = e]
             /\ beat' = [beat EXCEPT ![p] = Interval]
             /\ pc' = [pc EXCEPT ![p] = IF e \in Known THEN "handling" ELSE "unhandled"]
    <3>1. InTime(p)'
      <4>1. item'[p] = e /\ age'[e] = 0 /\ beat'[p] = Interval /\ lost'[p] = FALSE
        BY <2>1, <2>2 DEF Typed, PollInv, Working
      <4>2. e \in current'[p]
        BY <2>2, WroteKeeps DEF CanClaim
      <4> QED
        BY <4>1, <4>2, IntervalBeforeStale DEF InTime
    <3>2. ASSUME NEW q \in Processor \ {p} PROVE InTime(q)'
      <4>1. pc'[q] = pc[q] /\ item'[q] = item[q] /\ beat'[q] = beat[q] /\ lost'[q] = lost[q]
        BY <2>1, <2>2 DEF Typed
      <4>2. ASSUME pc[q] = "handling"
            PROVE  item[q] \in current'[q] /\ age'[item[q]] = age[item[q]]
        <5>1. item[q] \in current[q] /\ pc[q] \in Working
          BY <1>2, <4>2 DEF InTime, Working
        <5>2. item[q] \in Event /\ status[item[q]] = "processing"
          BY <5>1, WorkingItem DEF OwnsClaim
        <5>3. item[q] # e
          BY <2>2, <5>2 DEF CanClaim, Open
        <5> QED
          BY <2>2, <5>1, <5>2, <5>3, WroteKeeps DEF Typed
      <4> QED
        BY <1>2, <4>1, <4>2, StaysInTime
    <3> QED
      BY <3>1, <3>2
  <2>3. CASE UNCHANGED <<status, age, item, beat, pc, current>>
    BY <1>2, <2>1, <2>3 DEF InTime
  <2> QED
    BY <1>5, <2>2, <2>3 DEF Claim
<1>6. ASSUME NEW p \in Processor, PushBack(p) \/ MarkProcessed(p) \/ MarkFailed(p)
      PROVE  \A q \in Processor : InTime(q)'
  <2>1. /\ pc[p] \in Working /\ NextRow(p) /\ UNCHANGED age
        /\ (OwnsClaim(p) /\ Wrote(p, {item[p]})) \/ UNCHANGED current
    BY <1>6 DEF PushBack, MarkProcessed, MarkFailed, Working
  <2> QED
    BY <1>2, <2>1, NextRowInTime
<1>7. ASSUME NEW p \in Processor, Beat(p) PROVE \A q \in Processor : InTime(q)'
  <2>1. /\ pc[p] = "handling" /\ OwnsClaim(p) /\ lost[p] = FALSE
    BY <1>2, <1>7 DEF Beat, InTime, OwnsClaim
  <2>2. /\ age' = [age EXCEPT ![item[p]] = 0]
        /\ beat' = [beat EXCEPT ![p] = Interval]
        /\ UNCHANGED <<pc, item, current, lost>>
    BY <1>7, <2>1 DEF Beat
  <2>3. InTime(p)'
    <3>1. item[p] \in Event
      BY <2>1, WorkingItem DEF Working
    <3>2. age'[item[p]] = 0 /\ beat'[p] = Interval
      BY <2>2, <3>1 DEF Typed
    <3> QED
      BY <2>1, <2>2, <3>2, IntervalBeforeStale DEF InTime, OwnsClaim
  <2>4. ASSUME NEW q \in Processor \ {p} PROVE InTime(q)'
    <3>1. beat'[q] = beat[q] /\ \A e \in Event : age'[e] \in {age[e], 0}
      BY <2>2 DEF Typed
    <3>2. pc[q] = "handling" => item[q] \in Event /\ item[q] \in current[q]
      BY <1>2 DEF InTime, PollInv, Working
    <3> QED
      BY <1>2, <2>2, <3>1, <3>2, StaysInTime
  <2> QED
    BY <2>3, <2>4
<1>8. ASSUME NEW p \in Processor, Finish(p) \/ Throw(p) \/ MarkProcessedFails(p)
      PROVE  \A q \in Processor : InTime(q)'
  <2>1. /\ UNCHANGED <<age, current, item, beat, lost>>
        /\ pc' = [pc EXCEPT ![p] = "succeeded"] \/ pc' = [pc EXCEPT ![p] = "threw"]
    BY <1>8 DEF Finish, Throw, MarkProcessedFails, rows
  <2>2. pc'[p] # "handling" /\ \A q \in Processor \ {p} : pc'[q] = pc[q]
    BY <2>1 DEF Typed
  <2> QED
    BY <1>2, <2>1, <2>2 DEF InTime
<1>9. ASSUME NEW p \in Processor, EndPoll(p) \/ Abort(p) PROVE \A q \in Processor : InTime(q)'
  <2>1. Forget(p) /\ UNCHANGED age
    BY <1>9 DEF EndPoll, Abort, rows
  <2>2. /\ pc'[p] = "idle"
        /\ \A q \in Processor \ {p} :
               /\ pc'[q] = pc[q] /\ current'[q] = current[q] /\ item'[q] = item[q]
               /\ beat'[q] = beat[q] /\ lost'[q] = lost[q]
    BY <2>1 DEF Forget, Typed
  <2> QED
    BY <1>2, <2>1, <2>2 DEF InTime
<1>10. CASE Tick
  <2>1. /\ \A p \in Processor : ~Owing(p)
        /\ age' = [e \in Event |-> IF status[e] = "processing" /\ age[e] < Stale
                                   THEN age[e] + 1 ELSE age[e]]
        /\ beat' = [p \in Processor |-> IF beat[p] > 0 THEN beat[p] - 1 ELSE 0]
        /\ UNCHANGED <<pc, current, item, lost>>
    BY <1>10 DEF Tick
  <2>2. ASSUME NEW q \in Processor, pc[q] = "handling"
        PROVE  age'[item[q]] + beat'[q] <= Interval
    <3>1. beat[q] # 0
      BY <1>2, <2>1, <2>2 DEF InTime, Owing
    <3>2. item[q] \in Event /\ age[item[q]] + beat[q] <= Interval
      BY <1>2, <2>2 DEF InTime, PollInv, Working
    <3>3. age[item[q]] \in Nat /\ beat[q] \in Nat
      BY <3>2, TimesAreNumbers
    <3>4. beat'[q] = beat[q] - 1 /\ age'[item[q]] \in {age[item[q]], age[item[q]] + 1}
      BY <2>1, <3>1, <3>2, <3>3
    <3> QED
      BY <3>2, <3>3, <3>4, IntervalBeforeStale
  <2> QED
    BY <1>2, <2>1, <2>2 DEF InTime
<1>11. CASE (\E e \in Event : Insert(e)) \/ UNCHANGED vars
  <2>1. UNCHANGED <<age, pc, current, item, beat, lost>>
    BY <1>11 DEF Insert, vars, rows, local
  <2> QED
    BY <1>2, <2>1 DEF InTime
<1>12. ASSUME NEW p \in Processor, BeatFails(p) PROVE FALSE
  BY <1>12 DEF BeatFails
<1> QED
  BY <1>3, <1>4, <1>5, <1>6, <1>7, <1>8, <1>9, <1>10, <1>11, <1>12 DEF Next, Poll

-----------------------------------------------------------------------------
LEMMA QueueInvariant == Spec => []QueueInv
<1>1. QueueInv /\ [Next]_vars => QueueInv'
  BY TypedStep, PollStep, KnowledgeStep, AttemptsStep, HandledStep, TimeStep DEF QueueInv
<1> QED
  BY <1>1, InitQueue, PTL DEF Spec

\* However many polls overlap, crash and reset each other's claims: no row is left
\* pending or processing with its attempts used up, which is what the doctor and the
\* acceptance validation would call stuck.
THEOREM RowsAreNeverStuck == Spec => []NothingIsStuck
<1>1. QueueInv => NothingIsStuck
  <2> SUFFICES ASSUME QueueInv, NEW e \in Event, Stuck(e) PROVE FALSE
    BY DEF NothingIsStuck
  <2>1. attempts[e] \in Nat /\ attempts[e] < MaxAttempts
    BY QueueAssumption DEF QueueInv, Typed, AttemptsInv, Stuck
  <2> QED
    BY <2>1, QueueAssumption DEF Stuck
<1> QED
  BY <1>1, QueueInvariant, PTL

\* While heartbeats and final updates are on time, no two polls handle one event side
\* by side: the claim a heartbeat renews is never stale, and only a stale one is reset.
THEOREM HandlersRunAlone == Spec => []NoDoubleHandling
<1>1. QueueInv => NoDoubleHandling
  <2> SUFFICES ASSUME QueueInv, ~late, NEW p \in Processor, NEW q \in Processor, p # q,
                      pc[p] = "handling", pc[q] = "handling", item[p] = item[q]
               PROVE  FALSE
    BY DEF NoDoubleHandling
  <2>1. item[p] \in Event /\ item[p] \in current[p] /\ item[p] \in current[q]
    BY DEF QueueInv, TimeInv, PollInv, Working
  <2>2. item[p] \notin current[q]
    BY <2>1 DEF QueueInv, KnowledgeInv, AsLeft, Handles, Working
  <2> QED
    BY <2>1, <2>2
<1> QED
  BY <1>1, QueueInvariant, PTL

-----------------------------------------------------------------------------
(* The refinement of AtLeastOnce                                           *)

\* The phase of a row with status s, as Delivery sees it.
Phase(s) == CASE s = "absent" -> "absent" [] s = "processed" -> "settled" [] OTHER -> "queued"

\* A step that moves no row between the phases, counts no failure and completes no
\* handler is none to Delivery.
LEMMA Invisible ==
    ASSUME Typed, UNCHANGED <<attempts, handled>>,
           \A e \in Event : Phase(status'[e]) = Phase(status[e])
    PROVE  UNCHANGED Delivery!vars
  BY DEF Delivery!vars, Phase

\* Each step of a poll, and each insertion, is a step of Delivery or none to it: a
\* settled event has been handled, and a failure is counted once.
LEMMA DeliveryStep ==
    ASSUME QueueInv, [Next]_vars
    PROVE  [Delivery!Next]_(Delivery!vars)
<1>1. ASSUME NEW e \in Event, Insert(e) PROVE Delivery!Enqueue(e)
  BY <1>1 DEF Insert, Delivery!Enqueue, QueueInv, Typed
<1>2. ASSUME NEW p \in Processor, Finish(p) PROVE \E e \in Event : Delivery!Handle(e)
  <2>1. PICK e \in Event : e = item[p] /\ status[e] # "absent"
    BY <1>2, WorkingItem DEF Finish, Working, QueueInv
  <2>2. Delivery!Handle(e)
    BY <1>2, <2>1 DEF Finish, Delivery!Handle, rows
  <2> QED
    BY <2>2
<1>3. ASSUME NEW p \in Processor, MarkProcessed(p)
      PROVE  (\E e \in Event : Delivery!Settle(e)) \/ UNCHANGED Delivery!vars
  <2>1. UNCHANGED <<attempts, handled>>
    BY <1>3 DEF MarkProcessed
  <2>2. CASE OwnsClaim(p) /\ status' = [status EXCEPT ![item[p]] = "processed"]
    <3>1. PICK e \in Event :
              /\ e = item[p] /\ status[e] = "processing" /\ attempts[e] < MaxAttempts
      BY <1>3, <2>2, WorkingItem DEF MarkProcessed, Working, QueueInv
    <3>2. e \in handled
      BY <1>3, <3>1 DEF MarkProcessed, QueueInv, HandledInv
    <3>3. status'[e] = "processed" /\ \A d \in Event \ {e} : status'[d] = status[d]
      BY <2>2, <3>1 DEF QueueInv, Typed
    <3>4. Delivery!Settle(e)
      BY <2>1, <3>1, <3>2, <3>3 DEF Delivery!Settle
    <3> QED
      BY <3>4
  <2>3. CASE UNCHANGED status
    BY <2>1, <2>3, Invisible DEF QueueInv
  <2> QED
    BY <1>3, <2>2, <2>3 DEF MarkProcessed
<1>4. ASSUME NEW p \in Processor, MarkFailed(p)
      PROVE  (\E e \in Event : Delivery!Fail(e)) \/ UNCHANGED Delivery!vars
  <2>1. UNCHANGED handled
    BY <1>4 DEF MarkFailed
  <2>2. CASE /\ OwnsClaim(p) /\ status' = [status EXCEPT ![item[p]] = "failed"]
             /\ attempts' = [attempts EXCEPT ![item[p]] = seen[p][item[p]] + 1]
    <3>1. PICK e \in Event :
              /\ e = item[p] /\ status[e] = "processing"
              /\ attempts[e] = seen[p][e] /\ attempts[e] < MaxAttempts
      BY <1>4, <2>2, WorkingItem DEF MarkFailed, Working, QueueInv
    <3>2. status'[e] = "failed" /\ \A d \in Event \ {e} : status'[d] = status[d]
      BY <2>2, <3>1 DEF QueueInv, Typed
    <3>3. \A d \in Event : Phase(status'[d]) = Phase(status[d])
      BY <3>1, <3>2 DEF Phase
    <3>4. attempts' = [attempts EXCEPT ![e] = @ + 1]
      BY <2>2, <3>1
    <3>5. Delivery!Fail(e)
      BY <2>1, <3>1, <3>3, <3>4 DEF Delivery!Fail, Phase
    <3> QED
      BY <3>5
  <2>3. CASE UNCHANGED <<status, attempts>>
    BY <2>1, <2>3, Invisible DEF QueueInv
  <2> QED
    BY <1>4, <2>2, <2>3 DEF MarkFailed
<1>5. ASSUME NEW p \in Processor, Recover(p) PROVE UNCHANGED Delivery!vars
  <2>1. \A e \in Event : Phase(status'[e]) = Phase(status[e])
    BY <1>5 DEF Recover, IsStale, Phase
  <2> QED
    BY <1>5, <2>1, Invisible DEF Recover, QueueInv
<1>6. ASSUME NEW p \in Processor, NEW e \in Event, Claim(p, e) PROVE UNCHANGED Delivery!vars
  <2>1. /\ UNCHANGED <<attempts, handled>>
        /\ \/ CanClaim(p, e) /\ status' = [status EXCEPT ![e] = "processing"]
           \/ UNCHANGED status
    BY <1>6 DEF Claim
  <2>2. \A d \in Event : Phase(status'[d]) = Phase(status[d])
    BY <2>1 DEF CanClaim, Open, Phase, QueueInv, Typed
  <2> QED
    BY <2>1, <2>2, Invisible DEF QueueInv
<1>7. ASSUME NEW p \in Processor, PushBack(p) PROVE UNCHANGED Delivery!vars
  <2>1. /\ UNCHANGED <<attempts, handled>>
        /\ \/ OwnsClaim(p) /\ status' = [status EXCEPT ![item[p]] = "pending"]
           \/ UNCHANGED status
    BY <1>7 DEF PushBack
  <2>2. item[p] \in Event /\ (OwnsClaim(p) => status[item[p]] = "processing")
    BY <1>7, WorkingItem DEF PushBack, Working, QueueInv
  <2>3. \A e \in Event : Phase(status'[e]) = Phase(status[e])
    BY <2>1, <2>2 DEF Phase, QueueInv, Typed
  <2> QED
    BY <2>1, <2>3, Invisible DEF QueueInv
<1>8. ASSUME NEW p \in Processor,
             Select(p) \/ Beat(p) \/ BeatFails(p) \/ Throw(p) \/ MarkProcessedFails(p)
               \/ EndPoll(p) \/ Abort(p)
      PROVE  UNCHANGED <<status, attempts, handled>>
  BY <1>8 DEF Select, Beat, BeatFails, Throw, MarkProcessedFails, EndPoll, Abort, rows
<1>9. ASSUME Tick \/ UNCHANGED vars PROVE UNCHANGED <<status, attempts, handled>>
  BY <1>9 DEF Tick, vars, rows
<1>10. ASSUME UNCHANGED <<status, attempts, handled>> PROVE UNCHANGED Delivery!vars
  BY <1>10, Invisible DEF QueueInv
<1>11. ASSUME NEW e \in Event,
              Delivery!Enqueue(e) \/ Delivery!Handle(e) \/ Delivery!Settle(e) \/ Delivery!Fail(e)
       PROVE  Delivery!Next
  BY <1>11 DEF Delivery!Next
<1>12. ASSUME NEW p \in Processor, Poll(p) PROVE Delivery!Next \/ UNCHANGED Delivery!vars
  <2>1. ASSUME Finish(p) \/ MarkProcessed(p) \/ MarkFailed(p)
        PROVE  Delivery!Next \/ UNCHANGED Delivery!vars
    BY <1>2, <1>3, <1>4, <1>11, <2>1
  <2>2. ASSUME Recover(p) \/ (\E e \in Event : Claim(p, e)) \/ PushBack(p)
        PROVE  UNCHANGED Delivery!vars
    BY <1>5, <1>6, <1>7, <2>2
  <2>3. ASSUME Select(p) \/ Beat(p) \/ Throw(p) \/ EndPoll(p)
        PROVE  UNCHANGED Delivery!vars
    BY <1>8, <1>10, <2>3
  <2> QED
    BY <1>12, <2>1, <2>2, <2>3 DEF Poll
<1> QED
  BY <1>1, <1>8, <1>9, <1>10, <1>11, <1>12 DEF Next

\* The inbox and the outbox are an at-least-once delivery: an event is settled once,
\* only after a handler completed for it, and not more than MaxAttempts failures are
\* counted, whatever polls crash, run late or reset each other's claims.
THEOREM QueueDeliversAtLeastOnce == Spec => DeliverySpec
<1>1. Init => Delivery!Init
  BY DEF Init, Delivery!Init
<1>2. QueueInv /\ [Next]_vars => [Delivery!Next]_(Delivery!vars)
  BY DeliveryStep
<1> QED
  BY <1>1, <1>2, QueueInvariant, PTL DEF Spec, DeliverySpec, Delivery!Spec
=============================================================================
