------------------------- MODULE MergeRoute_proofs -------------------------
(***************************************************************************)
(* For every set of requests, keys, reconciliations and calls of the       *)
(* command line tool: the claim of a key has one owner, the run and the    *)
(* stored answers tell the truth about the forge, and a merge that was     *)
(* reported is never forgotten.  What a gate let through and a forge that  *)
(* compares heads merged was tested, unless the mirror was once set back.  *)
(***************************************************************************)
EXTENDS MergeCommand, TLAPS

(* Types: first what the operators make of a request, then the steps.      *)

Place == Inside \cup {"idle", "release", "done"}
RequestsTyped == req \in [Request -> Local]

LEMMA OneIsVersion == 1 \in Version
  BY DEF Version

LEMMA LocalFresh == Fresh \in Local
  BY MergeAssumption DEF Local, Fresh, Inside, Version, Head

LEMMA LocalGone == Gone \in Local /\ [Gone EXCEPT !.pc = "release"] \in Local
  BY LocalFresh DEF Local, Gone, Inside

LEMMA LocalRead ==
  ASSUME NEW local \in Local, NEW pc \in Place,
         NEW version \in Version, NEW head \in Head
  PROVE  /\ [local EXCEPT !.pc = pc] \in Local
         /\ [local EXCEPT !.pc = pc, !.version = version] \in Local
         /\ [local EXCEPT !.pc = pc, !.version = version, !.head = head]
              \in Local
         /\ [local EXCEPT !.pc = pc, !.gated = TRUE] \in Local
  BY DEF Local, Place

LEMMA LocalOnward ==
  ASSUME TypeOK, NEW r \in Request, NEW pc \in Place, NEW b \in BOOLEAN
  PROVE  /\ Onward(r, pc) \in Local
         /\ [Onward(r, pc) EXCEPT !.clearable = b] \in Local
  BY LocalFresh DEF Onward, Local, Place, TypeOK

LEMMA Goes ==
  ASSUME TypeOK, NEW r \in Request, NEW pc \in Place, Goto(r, pc)
  PROVE  RequestsTyped'
  BY LocalRead DEF Goto, RequestsTyped, TypeOK

LEMMA Catches ==
  ASSUME TypeOK, NEW r \in Request, Catch(r)
  PROVE  RequestsTyped'
  BY LocalGone DEF Catch, RequestsTyped, TypeOK

LEMMA Replies ==
  ASSUME TypeOK, NEW r \in Request, NEW reply \in {"merged", "refused"},
         Reply(r, reply)
  PROVE  RequestsTyped'
<1>1. [Fresh EXCEPT !.pc = "answer", !.reply = reply] \in Local
  BY LocalFresh DEF Local, Inside
<1> QED
  BY <1>1 DEF Reply, RequestsTyped, TypeOK

LEMMA Follows ==
  ASSUME TypeOK, NEW r \in Request, NEW name, NEW to, FollowUp(r, name, to)
  PROVE  RequestsTyped'
  BY Catches, Goes, Replies DEF FollowUp, Continue, Place, Inside

\* The rest of the types, once the requests are dealt with.
OthersTyped ==
    /\ forge \in [provider : Provider, head : Head, status : Status]
    /\ tests \in [Head -> Ci]
    /\ merger \in [by : Request \cup {Nobody}, gated : BOOLEAN,
                    told : BOOLEAN]
    /\ mirror \in Mirror
    /\ run \in [state : RunState, version : Version]
    /\ escalated \in BOOLEAN
    /\ claim \in [Key -> {"free", "pending", "merged", "refused"}]
    /\ spent \in [Key -> SUBSET {"ready", "failed", "reconcile", "escalate"}]
    /\ rec \in [Reconciler -> Pass]
    /\ receded \in BOOLEAN
    /\ faults \in 0 .. MaxFaults

LEMMA RequestTypes ==
  ASSUME TypeOK, NEW r \in Request, Serve(r)
  PROVE  RequestsTyped'
<1> USE DEF Place, Inside
<1>1. CASE Claim(r)
  BY <1>1, Goes DEF Claim
<1>2. CASE TurnAway(r)
  BY <1>2, Goes DEF TurnAway
<1>3. CASE Answer(r)
  BY <1>3, LocalGone DEF Answer, TypeOK, RequestsTyped
<1>4. CASE Release(r)
  BY <1>4, LocalGone DEF Release, TypeOK, RequestsTyped
<1>5. CASE ReadRun(r)
  BY <1>5, LocalRead DEF ReadRun, TypeOK, RequestsTyped, Mirror
<1>6. CASE Replay(r)
  BY <1>6, Goes DEF Replay
<1>7. CASE Gate(r)
  BY <1>7, LocalRead DEF Gate, TypeOK, RequestsTyped
<1>8. CASE Refuse(r)
  BY <1>8, Replies DEF Refuse
<1>9. CASE Ready(r)
  BY <1>9, Catches, Goes DEF Ready
<1>10. CASE Recheck(r)
  <2>1. [req[r] EXCEPT !.pc = "merge", !.version = run.version] \in Local
    BY LocalRead DEF TypeOK
  <2>2. CASE run.state = "merge_ready"
    BY <1>10, <2>1, <2>2 DEF Recheck, TypeOK, RequestsTyped
  <2>3. CASE run.state # "merge_ready"
    BY <1>10, <2>3, Catches DEF Recheck
  <2> QED
    BY <2>2, <2>3
<1>11. CASE Merge(r)
  BY <1>11, LocalOnward DEF Merge, TypeOK, RequestsTyped
<1>12. CASE Reject(r)
  BY <1>12, LocalOnward DEF Reject, TypeOK, RequestsTyped
<1>13. CASE LoseAnswer(r)
  BY <1>13, Catches DEF LoseAnswer
<1>14. CASE RecordMerged(r)
  BY <1>14, Catches, Replies DEF RecordMerged
<1>15. CASE RecordMergeFailed(r)
  BY <1>15, Follows DEF RecordMergeFailed
<1>16. CASE Refetch(r)
  BY <1>16, LocalRead DEF Refetch, TypeOK, RequestsTyped
<1>17. CASE Settle(r)
  BY <1>17, Follows DEF Settle
<1>18. CASE Throw(r)
  BY <1>18, Catches DEF Throw
<1>19. CASE Crash(r)
  BY <1>19, LocalGone DEF Crash, TypeOK, RequestsTyped
<1>20. CASE Rebase(r)
  BY <1>20 DEF Rebase, TypeOK, RequestsTyped
<1> QED
  BY <1>1, <1>2, <1>3, <1>4, <1>5, <1>6, <1>7, <1>8, <1>9, <1>10, <1>11,
     <1>12, <1>13, <1>14, <1>15, <1>16, <1>17, <1>18, <1>19, <1>20 DEF Serve

LEMMA OtherTypes ==
  ASSUME TypeOK, NEW r \in Request, Serve(r)
  PROVE  OthersTyped'
<1> USE MergeAssumption
        DEF TypeOK, OthersTyped, Status, RunState, Version, pull, rows, keys
<1>1. CASE Claim(r)
  BY <1>1 DEF Claim
<1>2. CASE TurnAway(r)
  BY <1>2 DEF TurnAway
<1>3. CASE Answer(r)
  BY <1>3 DEF Answer, At, Local
<1>4. CASE Release(r)
  BY <1>4 DEF Release
<1>5. CASE ReadRun(r)
  BY <1>5 DEF ReadRun
<1>6. CASE Replay(r)
  BY <1>6 DEF Replay
<1>7. CASE Gate(r)
  BY <1>7 DEF Gate
<1>8. CASE Refuse(r)
  BY <1>8 DEF Refuse
<1>9. CASE Ready(r)
  BY <1>9 DEF Ready, Accepts, Matrix, Move, Store
<1>10. CASE Recheck(r)
  BY <1>10 DEF Recheck
<1>11. CASE Merge(r)
  BY <1>11 DEF Merge, MergedBy, Local
<1>12. CASE Reject(r)
  BY <1>12 DEF Reject
<1>13. CASE LoseAnswer(r)
  BY <1>13 DEF LoseAnswer, MergedBy, Local
<1>14. CASE RecordMerged(r)
  BY <1>14 DEF RecordMerged, Accepts, Matrix, Move, Mirror
<1>15. CASE RecordMergeFailed(r)
  BY <1>15 DEF RecordMergeFailed, FollowUp, Accepts, Matrix, Move, Store
<1>16. CASE Refetch(r)
  BY <1>16 DEF Refetch
<1>17. CASE Settle(r)
  BY <1>17 DEF Settle, FollowUp, Accepts, Matrix, Move, Store
<1>18. CASE Throw(r)
  BY <1>18 DEF Throw
<1>19. CASE Crash(r)
  BY <1>19 DEF Crash
<1>20. CASE Rebase(r)
  <2>1. forge.head + 1 \in Head
    BY <1>20 DEF Rebase, Head
  <2>2. forge' \in [provider : Provider, head : Head, status : Status]
    BY <1>20, <2>1 DEF Rebase
  <2> QED
    BY <1>20, <2>2 DEF Rebase
<1> QED
  BY <1>1, <1>2, <1>3, <1>4, <1>5, <1>6, <1>7, <1>8, <1>9, <1>10, <1>11,
     <1>12, <1>13, <1>14, <1>15, <1>16, <1>17, <1>18, <1>19, <1>20 DEF Serve

LEMMA ObservedTyped == TypeOK => Observed \in Mirror
  BY DEF TypeOK, Observed, Mirror

LEMMA IdleTyped == Idle \in Pass
  BY MergeAssumption DEF Idle, Pass, Mirror, Head, Status, Ci, Version

LEMMA PassTyped ==
  ASSUME NEW pass \in Pass, NEW step \in {"sync", "act", "resync"},
         NEW version \in Version, NEW saw \in Mirror
  PROVE  /\ [pass EXCEPT !.step = step, !.version = version] \in Pass
         /\ [pass EXCEPT !.step = step, !.saw = saw] \in Pass
  BY DEF Pass

LEMMA RunVersion == TypeOK => run.version \in Version
  BY DEF TypeOK

LEMMA PassSteps ==
  ASSUME TypeOK, NEW c \in Reconciler, Reconcile(c)
  PROVE  rec' \in [Reconciler -> Pass]
<1>1. CASE Fetch(c)
  BY <1>1, PassTyped, ObservedTyped DEF Fetch, TypeOK
<1>2. CASE Sync(c)
  <2>1. \A step \in {"act", "resync"}, version \in Version :
          [rec[c] EXCEPT !.step = step, !.version = version] \in Pass
    BY PassTyped DEF TypeOK
  <2>2. PICK step \in {"act", "resync"}, version \in {run.version, 1} :
          rec' = [rec EXCEPT ![c].step = step, ![c].version = version]
    BY <1>2 DEF Sync
  <2> QED
    BY <2>1, <2>2, RunVersion, OneIsVersion DEF TypeOK
<1>3. CASE Escalate(c)
  BY <1>3, PassTyped, OneIsVersion DEF Escalate, TypeOK
<1>4. CASE EscalateFails(c) \/ Resync(c)
  BY <1>4, IdleTyped DEF EscalateFails, Resync, TypeOK
<1> QED
  BY <1>1, <1>2, <1>3, <1>4 DEF Reconcile

LEMMA TypeStep == TypeOK /\ [Next]_vars => TypeOK'
<1> SUFFICES ASSUME TypeOK, [Next]_vars
             PROVE  TypeOK'
  OBVIOUS
<1>1. ASSUME NEW r \in Request, Serve(r) PROVE TypeOK'
  BY <1>1, RequestTypes, OtherTypes DEF RequestsTyped, OthersTyped, TypeOK
<1>2. ASSUME NEW c \in Reconciler, Reconcile(c) PROVE TypeOK'
  <2>1. rec' \in [Reconciler -> Pass]
    BY <1>2, PassSteps
  <2>2. rec[c].saw \in Mirror
    BY DEF TypeOK, Pass
  <2>3. run' \in [state : RunState, version : Version]
    BY <1>2 DEF TypeOK, Reconcile, Fetch, Sync, Escalate, EscalateFails,
                Resync, Move, RunState, Version, rows
  <2>4. receded' \in BOOLEAN
    BY <1>2 DEF TypeOK, Reconcile, Fetch, Sync, Escalate, EscalateFails, Resync,
                Mirrors
  <2>5. mirror' \in Mirror
    BY <1>2, <2>2 DEF TypeOK, Reconcile, Fetch, Sync, Escalate, EscalateFails, Resync,
                      Mirrors, rows
  <2> QED
    BY <1>2, <2>1, <2>3, <2>4, <2>5
       DEF TypeOK, Reconcile, Fetch, Sync, Escalate, EscalateFails, Resync,
           pull, rows, keys
<1> USE MergeAssumption
        DEF TypeOK, Status, Ci, RunState, Version, pull, rows, keys
<1>3. CASE Push
  <2>1. forge.head + 1 \in Head
    BY <1>3 DEF Push, Head
  <2>2. forge' \in [provider : Provider, head : Head, status : Status]
    BY <1>3, <2>1 DEF Push
  <2> QED
    BY <1>3, <2>2 DEF Push
<1>4. CASE CiEnds
  <2> PICK h \in 1 .. forge.head, result \in {"passed", "failed"} :
             tests' = [tests EXCEPT ![h] = result]
    BY <1>4 DEF CiEnds
  <2> QED
    BY <1>4 DEF CiEnds
<1>5. CASE Close
  BY <1>5 DEF Close
<1>6. CASE Reopen
  BY <1>6 DEF Reopen
<1>7. CASE MergeByHand
  BY <1>7 DEF MergeByHand, MergedBy
<1>8. CASE Approve
  BY <1>8 DEF Approve, Move
<1>9. CASE Resume
  BY <1>9 DEF Resume, Move
<1>10. CASE Finalize
  BY <1>10 DEF Finalize, Move, Mirror
<1>11. CASE UNCHANGED vars
  BY <1>11 DEF vars
<1> QED
  BY <1>1, <1>2, <1>3, <1>4, <1>5, <1>6, <1>7, <1>8, <1>9, <1>10, <1>11
     DEF Next, People

\* A run moves to a state that is not merged, and not from merged.
LEMMA OtherMoves ==
  ASSUME NEW version, NEW to, to # "merged", Accepts(version, to), Move(to)
  PROVE  run.state # "merged" /\ run'.state # "merged"
  BY DEF Accepts, Matrix, Move

LEMMA CallTyped == NoCall \in Call /\ Over \in Call
<1>1. 1 \in Head /\ 1 \in Version
  BY MergeAssumption DEF Head, Version
<1>2. NoCall \in Call
  BY <1>1 DEF NoCall, Call
<1> QED
  BY <1>2 DEF Over, Call

\* A command of the tool keeps the types, and does not touch a merged run.
LEMMA Dispatched ==
  ASSUME TypeOK, ToolTypeOK, NEW t \in Tool,
         NEW name \in {"ready", "failed", "settled"},
         NEW to \in RunState \ {"merged"}, NEW next \in Call,
         Dispatch(t, name, to, next)
  PROVE  /\ ToolTypeOK'
         /\ tool' \in {[tool EXCEPT ![t] = next], [tool EXCEPT ![t] = Over]}
         /\ run' \in [state : RunState, version : Version]
         /\ run.state = "merged" <=> run'.state = "merged"
<1>1. \/ UNCHANGED <<run, kept>>
      \/ run' = [state |-> to, version |-> run.version + 1] /\ Keep(t, name)
  BY DEF Dispatch, Move
<1>2. \E call \in {next, Over} : tool' = [tool EXCEPT ![t] = call]
  BY DEF Dispatch, Become
<1>3. tool' \in [Tool -> Call]
  BY <1>2, CallTyped DEF ToolTypeOK
<1>4. tool[t].version \in Version
  BY DEF ToolTypeOK, Call
<1>5. kept' \subseteq ({"ready", "failed", "settled"} \X Version)
  BY <1>1, <1>4 DEF ToolTypeOK, Keep
<1>6. run' \in [state : RunState, version : Version]
  BY <1>1 DEF TypeOK, Version
<1>7. run.state = "merged" <=> run'.state = "merged"
  BY OtherMoves DEF Dispatch
<1> QED
  BY <1>2, <1>3, <1>5, <1>6, <1>7 DEF ToolTypeOK

\* A step of the tool leaves the rest of the state alone.
Apart == /\ UNCHANGED <<tests, escalated, claim, spent, req, rec, receded>>
         /\ faults' \in {faults, faults + 1} \cap (0 .. MaxFaults)

\* What a call of the tool does to what the requests and the rest share.
ToolSteps(t) ==
    \/ /\ UNCHANGED <<forge, merger, mirror>>
       /\ \E call : /\ tool' = [tool EXCEPT ![t] = call]
                    /\ call.pc # "record"
       /\ run' \in [state : RunState, version : Version]
       /\ run.state = "merged" <=> run'.state = "merged"
    \/ CallMerge(t)
    \/ RecordMerge(t)

LEMMA ToolStep ==
  ASSUME TypeOK, ToolTypeOK, NEW t \in Tool, Invoke(t)
  PROVE  ToolTypeOK' /\ ToolSteps(t) /\ Apart
<1> USE DEF pull, rows, keys, vars, Apart
<1>1. /\ tool[t] \in Call /\ run \in [state : RunState, version : Version]
      /\ mirror.head \in Head /\ faults \in 0 .. MaxFaults
  BY DEF ToolTypeOK, TypeOK, Mirror
<1>2. run.version \in Version
  BY <1>1
<1>3. ASSUME NEW call \in Call, Become(t, call), UNCHANGED kept
      PROVE  ToolTypeOK'
  BY <1>3 DEF Become, ToolTypeOK
<1>4. ASSUME NEW call \in Call, Become(t, call), UNCHANGED <<vars, kept>>,
             call.pc # "record"
      PROVE  ToolTypeOK' /\ ToolSteps(t) /\ Apart
  <2>1. ToolTypeOK'
    BY <1>3, <1>4
  <2>2. UNCHANGED <<forge, merger, mirror, run>>
    BY <1>4
  <2>3. Apart
    BY <1>1, <1>4
  <2>4. ToolSteps(t)
    BY <1>1, <1>4, <2>2 DEF ToolSteps, Become
  <2> QED
    BY <2>1, <2>3, <2>4
<1>5. Over.pc # "record"
  BY DEF Over, NoCall
<1>6. CASE Begin(t)
  <2> DEFINE call == [tool[t] EXCEPT !.pc = "gate", !.version = run.version,
                                     !.head = mirror.head]
  <2>1. call \in Call /\ call.pc = "gate"
    BY <1>1, <1>2 DEF Call
  <2> QED
    BY <1>4, <1>6, <2>1 DEF Begin
<1>7. CASE EvaluateGate(t)
  <2>1. /\ [tool[t] EXCEPT !.pc = "recheck"].pc = "recheck"
        /\ [tool[t] EXCEPT !.pc = "ready", !.gated = TRUE].pc = "ready"
    BY <1>1 DEF Call
  <2>2. /\ [tool[t] EXCEPT !.pc = "recheck"] \in Call
        /\ [tool[t] EXCEPT !.pc = "ready", !.gated = TRUE] \in Call
    BY <1>1 DEF Call
  <2>3. UNCHANGED <<vars, kept>>
    BY <1>7 DEF EvaluateGate
  <2>4. \/ Become(t, [tool[t] EXCEPT !.pc = "recheck"])
        \/ Become(t, [tool[t] EXCEPT !.pc = "ready", !.gated = TRUE])
        \/ Become(t, Over)
    BY <1>7 DEF EvaluateGate, Proceed
  <2> QED
    BY <1>4, <1>5, <2>1, <2>2, <2>3, <2>4, CallTyped
<1>8. CASE BecomeReady(t)
  <2>1. /\ [tool[t] EXCEPT !.pc = "recheck"] \in Call
        /\ [tool[t] EXCEPT !.pc = "recheck"].pc # "record"
    BY <1>1 DEF Call
  <2> QED
    BY <1>1, <1>5, <1>8, <2>1, Dispatched DEF BecomeReady, ToolSteps, RunState
<1>9. CASE RecheckReady(t)
  <2>1. /\ [tool[t] EXCEPT !.pc = "merge", !.version = run.version] \in Call
        /\ [tool[t] EXCEPT !.pc = "merge", !.version = run.version].pc # "record"
    BY <1>1, <1>2 DEF Call
  <2> QED
    BY <1>4, <1>5, <1>9, <2>1, CallTyped DEF RecheckReady
<1>10. CASE CallMerge(t)
  <2>1. [tool[t] EXCEPT !.pc = "record"] \in Call
    BY <1>1 DEF Call
  <2>2. ToolTypeOK'
    BY <1>3, <1>10, <2>1, CallTyped DEF CallMerge, Proceed
  <2>3. Apart
    BY <1>1, <1>10, MergeAssumption DEF CallMerge, MergedBy
  <2> QED
    BY <1>10, <2>2, <2>3 DEF ToolSteps
<1>11. CASE BeRejected(t)
  <2>1. \A b \in BOOLEAN :
          /\ [tool[t] EXCEPT !.pc = "fail", !.clearable = b] \in Call
          /\ [tool[t] EXCEPT !.pc = "fail", !.clearable = b].pc # "record"
    BY <1>1 DEF Call
  <2> QED
    BY <1>4, <1>11, <2>1 DEF BeRejected
<1>12. CASE RecordMerge(t)
  BY <1>1, <1>3, <1>12, CallTyped DEF RecordMerge, ToolSteps
<1>13. CASE RecordRejection(t)
  <2>1. /\ [tool[t] EXCEPT !.pc = "refetch"] \in Call
        /\ [tool[t] EXCEPT !.pc = "refetch"].pc # "record"
    BY <1>1 DEF Call
  <2> QED
    BY <1>1, <1>5, <1>13, <2>1, Dispatched
       DEF RecordRejection, ToolSteps, RunState
<1>14. CASE ReadAgain(t)
  <2>1. /\ [tool[t] EXCEPT !.pc = "settle", !.version = run.version] \in Call
        /\ [tool[t] EXCEPT !.pc = "settle", !.version = run.version].pc
              # "record"
    BY <1>1, <1>2 DEF Call
  <2> QED
    BY <1>4, <1>14, <2>1 DEF ReadAgain
<1>15. CASE SettleRejection(t)
  BY <1>1, <1>5, <1>15, Dispatched, CallTyped
     DEF SettleRejection, ToolSteps, RunState
<1>16. CASE Break(t)
  <2>1. ToolTypeOK'
    BY <1>3, <1>16, CallTyped DEF Break
  <2>2. Apart
    BY <1>1, <1>16, MergeAssumption DEF Break
  <2> QED
    BY <1>1, <1>5, <1>16, <2>1, <2>2 DEF Break, ToolSteps, Become
<1> QED
  BY <1>6, <1>7, <1>8, <1>9, <1>10, <1>11, <1>12, <1>13, <1>14, <1>15, <1>16
     DEF Invoke

LEMMA ToolKeepsTypes ==
  ASSUME TypeOK, ToolTypeOK, NEW t \in Tool, Invoke(t)
  PROVE  TypeOK'
<1>1. ToolSteps(t) /\ Apart
  BY ToolStep
<1>2. CASE CallMerge(t)
  <2>1. tool[t].gated \in BOOLEAN
    BY DEF ToolTypeOK, Call
  <2> QED
    BY <1>1, <1>2, <2>1
       DEF Apart, CallMerge, MergedBy, TypeOK, Status, rows, keys
<1>3. CASE RecordMerge(t)
  BY <1>1, <1>3
     DEF Apart, RecordMerge, Move, TypeOK, Mirror, RunState, Status, Version,
         pull, keys
<1>4. CASE /\ UNCHANGED <<forge, merger, mirror>>
           /\ run' \in [state : RunState, version : Version]
  BY <1>1, <1>4 DEF Apart, TypeOK
<1> QED
  BY <1>1, <1>2, <1>3, <1>4 DEF ToolSteps

LEMMA CommandTypeStep ==
  TypeOK /\ ToolTypeOK /\ [CommandNext]_<<vars, command>>
    => TypeOK' /\ ToolTypeOK'
<1> SUFFICES ASSUME TypeOK, ToolTypeOK, [CommandNext]_<<vars, command>>
             PROVE  TypeOK' /\ ToolTypeOK'
  OBVIOUS
<1>1. CASE Next /\ UNCHANGED command
  BY <1>1, TypeStep DEF command, ToolTypeOK
<1>2. ASSUME NEW t \in Tool, Invoke(t) PROVE TypeOK' /\ ToolTypeOK'
  BY <1>2, ToolStep, ToolKeepsTypes
<1>3. CASE UNCHANGED <<vars, command>>
  BY <1>3, TypeStep DEF command, ToolTypeOK
<1> QED
  BY <1>1, <1>2, <1>3 DEF CommandNext

\* The state stays in its types: keys, answers and commands are never confused.
THEOREM TypeCorrect == CommandSpec => [](TypeOK /\ ToolTypeOK)
<1>1. Init => /\ forge \in [provider : Provider, head : Head, status : Status]
              /\ tests \in [Head -> Ci]
  BY MergeAssumption DEF Init, Head, Status, Ci
<1>2. Init => mirror \in Mirror
  BY MergeAssumption DEF Init, Head, Status, Ci, Mirror, Observed
<1>3. Init => req \in [Request -> Local] /\ rec \in [Reconciler -> Pass]
  BY LocalFresh, IdleTyped DEF Init
<1>4. Init => run \in [state : RunState, version : Version]
  BY OneIsVersion DEF Init, RunState
<1>5. Init => faults \in 0 .. MaxFaults
  BY MergeAssumption DEF Init
<1>6. Init => TypeOK
  <2> SUFFICES ASSUME Init PROVE TypeOK
    OBVIOUS
  <2>1. claim \in [Key -> {"free", "pending", "merged", "refused"}]
    BY DEF Init
  <2>2. spent \in [Key -> SUBSET {"ready", "failed", "reconcile", "escalate"}]
    BY DEF Init
  <2>3. /\ merger \in [by : Request \cup {Nobody}, gated : BOOLEAN,
                       told : BOOLEAN]
        /\ escalated \in BOOLEAN /\ receded \in BOOLEAN
    BY DEF Init
  <2> QED
    BY <1>1, <1>2, <1>3, <1>4, <1>5, <2>1, <2>2, <2>3 DEF TypeOK
<1>7. CommandInit => TypeOK /\ ToolTypeOK
  BY <1>6, CallTyped DEF CommandInit, ToolTypeOK
<1> QED
  BY <1>7, CommandTypeStep, PTL DEF CommandSpec

-----------------------------------------------------------------------------
(* A key and the merge made under it.                                      *)

\* A request at work holds the claim of its key, and holds it alone.
ClaimInv ==
    /\ \A r \in Request : Working(r) => claim[KeyOf[r]] = "pending"
    /\ OneOwnerPerKey

\* After a merge its request was told of, nobody but that request is at work
\* under the key, and it knows that it has merged.
ToldInv ==
    merger.told =>
        /\ merger.by \in Request
        /\ forge.status = "merged"
        /\ claim[KeyOf[merger.by]] \in {"pending", "merged"}
        /\ \A q \in Request : Working(q) /\ KeyOf[q] = KeyOf[merger.by]
               => q = merger.by /\ HasMerged(q)

\* A request that knows it has merged is the one that did, and answers only
\* when the run says so.
MergedInv ==
    \A r \in Request : HasMerged(r) =>
        /\ merger.told /\ merger.by = r
        /\ At(r, "answer") => run.state = "merged"

AnswerInv ==
    \A k \in Key : claim[k] = "merged" =>
        run.state = "merged" /\ merger.told /\ KeyOf[merger.by] = k

ProtocolInv ==
    ClaimInv /\ ToldInv /\ MergedInv /\ AnswerInv /\ MergedAtTheForge

\* A request goes on as one that has not merged, or it ends.
GoesOn(r) ==
    \E local \in Local :
      /\ req' = [req EXCEPT ![r] = local]
      /\ local.pc # "idle"
      /\ \/ local.pc = "done"
         \/ /\ ~HasMerged(r) /\ local.pc # "record"
            /\ ~(local.pc = "answer" /\ local.reply = "merged")

\* A step of a request that neither claims, merges nor settles its key.
Quiet(r) ==
    /\ Working(r)
    /\ UNCHANGED <<forge, merger, claim>>
    /\ run.state = "merged" <=> run'.state = "merged"
    /\ GoesOn(r)

LEMMA QuietStep ==
  ASSUME TypeOK, ProtocolInv, NEW r \in Request, Quiet(r)
  PROVE  ProtocolInv'
<1>1. PICK local \in Local :
        /\ req' = [req EXCEPT ![r] = local]
        /\ local.pc # "idle"
        /\ \/ local.pc = "done"
           \/ /\ ~HasMerged(r) /\ local.pc # "record"
              /\ ~(local.pc = "answer" /\ local.reply = "merged")
  BY DEF Quiet, GoesOn
<1>2. req'[r] = local /\ \A q \in Request : q # r => req'[q] = req[q]
  BY <1>1 DEF TypeOK
<1> USE MergeAssumption, <1>1, <1>2 DEF Quiet, ProtocolInv
<1>3. \A q \in Request : Working(q)' => Working(q)
  BY DEF Working
<1>4. \A q \in Request :
        HasMerged(q)' <=> HasMerged(q) /\ ~(q = r /\ local.pc = "done")
  BY DEF HasMerged, At
<1>5. ClaimInv'
  BY <1>3 DEF ClaimInv, OneOwnerPerKey
<1>6. ToldInv'
  BY <1>3, <1>4 DEF ToldInv, Working, HasMerged, At
<1>7. MergedInv'
  BY <1>4 DEF MergedInv, HasMerged, At
<1>8. AnswerInv' /\ MergedAtTheForge'
  BY DEF AnswerInv, MergedAtTheForge
<1> QED
  BY <1>5, <1>6, <1>7, <1>8

QuietActions(r) ==
    \/ ReadRun(r) \/ Replay(r) \/ Gate(r) \/ Refuse(r) \/ Ready(r)
    \/ Recheck(r) \/ Reject(r) \/ RecordMergeFailed(r) \/ Refetch(r)
    \/ Settle(r) \/ Throw(r) \/ Crash(r)

LEMMA CatchGoesOn ==
  ASSUME TypeOK, NEW r \in Request, Catch(r)
  PROVE  GoesOn(r)
  BY LocalGone DEF Catch, GoesOn, Gone, Fresh

LEMMA GotoGoesOn ==
  ASSUME TypeOK, NEW r \in Request,
         NEW pc \in Place \ {"idle", "record", "answer"},
         ~HasMerged(r), Goto(r, pc)
  PROVE  GoesOn(r)
<1>1. [req[r] EXCEPT !.pc = pc] \in Local
  BY LocalRead DEF TypeOK
<1>2. [req[r] EXCEPT !.pc = pc].pc = pc
  BY DEF TypeOK, Local
<1> QED
  BY <1>1, <1>2 DEF Goto, GoesOn

LEMMA RefuseGoesOn ==
  ASSUME TypeOK, NEW r \in Request, ~HasMerged(r), Reply(r, "refused")
  PROVE  GoesOn(r)
<1>1. [Fresh EXCEPT !.pc = "answer", !.reply = "refused"] \in Local
  BY LocalFresh DEF Local, Inside
<1> QED
  BY <1>1 DEF Reply, GoesOn, Fresh

LEMMA FollowGoesOn ==
  ASSUME TypeOK, NEW r \in Request, NEW name, NEW to,
         to # "merged", ~HasMerged(r), FollowUp(r, name, to)
  PROVE  GoesOn(r) /\ (run.state = "merged" <=> run'.state = "merged")
<1>1. GoesOn(r)
  BY CatchGoesOn, GotoGoesOn, RefuseGoesOn
     DEF FollowUp, Continue, Place, Inside
<1> QED
  BY <1>1, OtherMoves DEF FollowUp

LEMMA QuietActionsAreQuiet ==
  ASSUME TypeOK, NEW r \in Request, QuietActions(r)
  PROVE  Quiet(r)
<1> USE DEF Working, HasMerged, At, pull, rows, keys, Place, Inside
<1>1. QuietActions(r) => Working(r) /\ UNCHANGED <<forge, merger, claim>>
  BY DEF QuietActions, ReadRun, Replay, Gate, Refuse, Ready, Recheck, Reject,
         RecordMergeFailed, Refetch, Settle, Throw, Crash
<1>2. CASE ReadRun(r)
  <2>1. [req[r] EXCEPT !.pc = "gate", !.version = run.version,
                       !.head = mirror.head] \in Local
    BY LocalRead DEF TypeOK, Mirror
  <2>2. GoesOn(r)
    <3> DEFINE local == [req[r] EXCEPT !.pc = "gate", !.version = run.version,
                                       !.head = mirror.head]
    <3>1. req' = [req EXCEPT ![r] = local] /\ local.pc = "gate" /\ ~HasMerged(r)
      BY <1>2 DEF ReadRun, TypeOK, Local
    <3> HIDE DEF local, HasMerged
    <3> QED
      BY <2>1, <3>1 DEF GoesOn, local
  <2> QED
    BY <1>1, <1>2, <2>2 DEF ReadRun, Quiet, QuietActions
<1>3. CASE Replay(r)
  BY <1>1, <1>3, GotoGoesOn DEF Replay, Quiet, QuietActions
<1>4. CASE Gate(r)
  <2>1. [req[r] EXCEPT !.pc = "ready", !.gated = TRUE] \in Local
    BY LocalRead DEF TypeOK
  <2>2. GoesOn(r)
    <3> DEFINE local == [req[r] EXCEPT !.pc = "ready", !.gated = TRUE]
    <3>1. req' = [req EXCEPT ![r] = local] /\ local.pc = "ready" /\ ~HasMerged(r)
      BY <1>4 DEF Gate, TypeOK, Local
    <3> HIDE DEF local, HasMerged
    <3> QED
      BY <2>1, <3>1 DEF GoesOn, local
  <2> QED
    BY <1>1, <1>4, <2>2 DEF Gate, Quiet, QuietActions
<1>5. CASE Refuse(r)
  BY <1>1, <1>5, RefuseGoesOn DEF Refuse, Quiet, QuietActions
<1>6. CASE Ready(r)
  <2>1. GoesOn(r)
    BY <1>6, GotoGoesOn, CatchGoesOn DEF Ready
  <2>2. run.state = "merged" <=> run'.state = "merged"
    BY <1>6, OtherMoves DEF Ready
  <2> QED
    BY <1>1, <1>6, <2>1, <2>2 DEF Quiet, QuietActions, GoesOn
<1>7. CASE Recheck(r)
  <2>1. [req[r] EXCEPT !.pc = "merge", !.version = run.version] \in Local
    BY LocalRead DEF TypeOK
  <2>2. GoesOn(r)
    BY <1>7, <2>1, CatchGoesOn DEF Recheck, GoesOn, TypeOK, Local
  <2> QED
    BY <1>1, <1>7, <2>2 DEF Quiet, QuietActions, Recheck
<1>8. CASE Reject(r)
  <2>1. \A b \in BOOLEAN : [Onward(r, "fail") EXCEPT !.clearable = b] \in Local
    BY LocalOnward
  <2>2. \A b \in BOOLEAN :
          [Onward(r, "fail") EXCEPT !.clearable = b].pc = "fail"
    BY DEF Onward, Fresh
  <2> QED
    BY <1>1, <1>8, <2>1, <2>2 DEF Reject, Quiet, QuietActions, GoesOn
<1>9. CASE RecordMergeFailed(r)
  BY <1>1, <1>9, FollowGoesOn DEF RecordMergeFailed, Quiet, QuietActions
<1>10. CASE Refetch(r)
  <2>1. [req[r] EXCEPT !.pc = "settle", !.version = run.version] \in Local
    BY LocalRead DEF TypeOK
  <2>2. GoesOn(r)
    <3> DEFINE local == [req[r] EXCEPT !.pc = "settle", !.version = run.version]
    <3>1. req' = [req EXCEPT ![r] = local] /\ local.pc = "settle" /\ ~HasMerged(r)
      BY <1>10 DEF Refetch, TypeOK, Local
    <3> HIDE DEF local, HasMerged
    <3> QED
      BY <2>1, <3>1 DEF GoesOn, local
  <2> QED
    BY <1>1, <1>10, <2>2 DEF Refetch, Quiet, QuietActions
<1>11. CASE Settle(r)
  BY <1>1, <1>11, FollowGoesOn DEF Settle, Quiet, QuietActions
<1>12. CASE Throw(r)
  BY <1>1, <1>12, CatchGoesOn DEF Throw, Quiet, QuietActions
<1>13. CASE Crash(r)
  BY <1>1, <1>13, LocalGone DEF Crash, Quiet, QuietActions, GoesOn, Gone, Fresh
<1> QED
  BY <1>2, <1>3, <1>4, <1>5, <1>6, <1>7, <1>8, <1>9, <1>10, <1>11, <1>12, <1>13
     DEF QuietActions

\* The other steps of a request, one by one.
LEMMA ServeStep ==
  ASSUME TypeOK, ProtocolInv, NEW r \in Request, Serve(r)
  PROVE  ProtocolInv'
<1> USE MergeAssumption DEF ProtocolInv, pull, rows, keys
<1>1. CASE QuietActions(r)
  BY <1>1, QuietActionsAreQuiet, QuietStep
<1>2. CASE Claim(r)
  <2> USE <1>2 DEF Claim, Claimable, Goto, At
  <2>1. /\ req'[r].pc = "read" /\ claim'[KeyOf[r]] = "pending"
        /\ \A q \in Request : q # r => req'[q] = req[q]
        /\ \A k \in Key : k # KeyOf[r] => claim'[k] = claim[k]
    BY DEF TypeOK, Local
  <2>2. \A q \in Request : q # r /\ KeyOf[q] = KeyOf[r] => ~Working(q)
    BY DEF ClaimInv
  <2>3. ClaimInv'
    BY <2>1, <2>2 DEF ClaimInv, OneOwnerPerKey, Working
  <2>4. merger.told => KeyOf[merger.by] # KeyOf[r]
    BY DEF ToldInv
  <2>5. ToldInv' /\ MergedInv' /\ AnswerInv' /\ MergedAtTheForge'
    BY <2>1, <2>4
       DEF ToldInv, MergedInv, AnswerInv, MergedAtTheForge, Working, HasMerged
  <2> QED
    BY <2>3, <2>5
<1>3. CASE TurnAway(r)
  <2> USE <1>3 DEF TurnAway, Goto, At
  <2>1. /\ req'[r].pc = "done" /\ \A q \in Request : q # r => req'[q] = req[q]
    BY DEF TypeOK, Local
  <2> QED
    BY <2>1 DEF ClaimInv, OneOwnerPerKey, ToldInv, MergedInv, AnswerInv,
                MergedAtTheForge, Working, HasMerged
<1>4. ASSUME Answer(r) \/ Release(r) PROVE ProtocolInv'
  <2>1. /\ req'[r].pc = "done" /\ \A q \in Request : q # r => req'[q] = req[q]
    BY <1>4 DEF TypeOK, Fresh, Gone, Answer, Release
  <2>2. /\ UNCHANGED <<forge, merger, run>> /\ Working(r)
        /\ \A k \in Key : k # KeyOf[r] => claim'[k] = claim[k]
    BY <1>4 DEF Answer, Release, Working, At, TypeOK
  <2>3. ClaimInv'
    BY <2>1, <2>2 DEF ClaimInv, OneOwnerPerKey, Working
  <2>4. claim'[KeyOf[r]] \in {"merged", "refused", "free"}
        /\ (claim'[KeyOf[r]] = "merged" <=> HasMerged(r))
    BY <1>4 DEF Answer, Release, HasMerged, At, TypeOK, Local
  <2>5. ToldInv' /\ MergedInv'
    BY <2>1, <2>2, <2>4 DEF ToldInv, MergedInv, Working, HasMerged, At
  <2>6. HasMerged(r) => run.state = "merged"
    BY <1>4 DEF Answer, Release, HasMerged, At, MergedInv
  <2>7. AnswerInv' /\ MergedAtTheForge'
    BY <2>2, <2>4, <2>6 DEF AnswerInv, MergedAtTheForge, MergedInv
  <2> QED
    BY <2>3, <2>5, <2>7
<1>5. CASE Merge(r)
  <2> USE <1>5 DEF Merge, CanMerge, MergedBy, At
  <2>1. /\ req'[r].pc = "record" /\ \A q \in Request : q # r => req'[q] = req[q]
    BY DEF TypeOK, Onward, Fresh
  <2>2. /\ forge.status = "open" /\ forge'.status = "merged"
        /\ merger'.told /\ merger'.by = r
        /\ UNCHANGED <<run, claim>>
    BY DEF TypeOK
  <2>3. ~merger.told /\ run.state # "merged"
    BY <2>2 DEF ToldInv, MergedAtTheForge
  <2>4. ClaimInv' /\ claim[KeyOf[r]] = "pending"
    BY <2>1 DEF ClaimInv, OneOwnerPerKey, Working
  <2>5. ToldInv'
    <3>1. HasMerged(r)'
      BY <2>1 DEF HasMerged
    <3>2. \A q \in Request : q # r /\ KeyOf[q] = KeyOf[r] => ~Working(q)'
      BY <2>1, <2>4 DEF ClaimInv, OneOwnerPerKey, Working
    <3> QED
      BY <2>2, <2>4, <3>1, <3>2 DEF ToldInv
  <2>6. MergedInv' /\ AnswerInv' /\ MergedAtTheForge'
    BY <2>1, <2>2, <2>3 DEF MergedInv, AnswerInv, MergedAtTheForge, HasMerged
  <2> QED
    BY <2>4, <2>5, <2>6
<1>6. CASE LoseAnswer(r)
  <2> USE <1>6 DEF LoseAnswer, CanMerge, MergedBy, At
  <2>1. /\ req'[r].pc = "release"
        /\ \A q \in Request : q # r => req'[q] = req[q]
    BY DEF TypeOK, Catch, HasMerged, Gone, Fresh
  <2>2. /\ forge.status = "open" /\ forge'.status = "merged" /\ ~merger'.told
        /\ UNCHANGED <<run, claim>>
    BY DEF TypeOK
  <2>3. ~merger.told /\ run.state # "merged"
    BY <2>2 DEF ToldInv, MergedAtTheForge
  <2> QED
    BY <2>1, <2>2, <2>3
       DEF ClaimInv, OneOwnerPerKey, ToldInv, MergedInv, AnswerInv,
           MergedAtTheForge, HasMerged, Working
<1>7. CASE RecordMerged(r)
  <2>1. HasMerged(r) /\ merger.told /\ merger.by = r /\ forge.status = "merged"
    BY <1>7 DEF RecordMerged, HasMerged, MergedInv, ToldInv
  <2>2. /\ UNCHANGED <<forge, merger, claim>>
        /\ run'.state = "merged" \/ run' = run
        /\ (run.state = "merged" => run'.state = "merged")
    BY <1>7 DEF RecordMerged, Move
  <2>3. /\ \/ req'[r].pc = "done"
           \/ /\ req'[r].pc = "answer" /\ req'[r].reply = "merged"
              /\ run'.state = "merged"
        /\ \A q \in Request : q # r => req'[q] = req[q]
    <3>1. CASE Reply(r, "merged") /\ run'.state = "merged"
      BY <3>1 DEF Reply, Fresh, TypeOK
    <3>2. CASE Catch(r)
      BY <2>1, <3>2 DEF Catch, Gone, Fresh, TypeOK
    <3> QED
      BY <1>7, <3>1, <3>2 DEF RecordMerged, Move, TypeOK
  <2>4. Working(r)
    BY <1>7 DEF RecordMerged, Working, At
  <2>5. ClaimInv'
    BY <2>2, <2>3, <2>4 DEF ClaimInv, OneOwnerPerKey, Working
  <2>6. ToldInv' /\ MergedInv'
    BY <2>1, <2>2, <2>3, <2>4 DEF ToldInv, MergedInv, HasMerged, Working, At
  <2>7. AnswerInv' /\ MergedAtTheForge'
    BY <2>1, <2>2 DEF AnswerInv, MergedAtTheForge
  <2> QED
    BY <2>5, <2>6, <2>7
<1>8. CASE Rebase(r)
  <2>1. UNCHANGED <<merger, claim, req, run>>
    BY <1>8 DEF Rebase
  <2>2. forge.status = forge'.status
    BY <1>8 DEF Rebase, TypeOK
  <2> QED
    BY <2>1, <2>2 DEF ClaimInv, OneOwnerPerKey, ToldInv, MergedInv, AnswerInv,
                      MergedAtTheForge, Working, HasMerged, At
<1> QED
  BY <1>1, <1>2, <1>3, <1>4, <1>5, <1>6, <1>7, <1>8 DEF Serve, QuietActions

LEMMA ProtocolStep == TypeOK /\ ProtocolInv /\ [Next]_vars => ProtocolInv'
<1> SUFFICES ASSUME TypeOK, ProtocolInv, [Next]_vars
             PROVE  ProtocolInv'
  OBVIOUS
<1>1. ASSUME NEW r \in Request, Serve(r) PROVE ProtocolInv'
  BY <1>1, ServeStep
<1> USE DEF ProtocolInv, ClaimInv, OneOwnerPerKey, ToldInv, MergedInv,
            AnswerInv, MergedAtTheForge, Working, HasMerged, At,
            pull, rows, keys
<1>2. ASSUME NEW c \in Reconciler, Reconcile(c) PROVE ProtocolInv'
  <2>1. UNCHANGED <<forge, merger, claim, req>>
    BY <1>2 DEF Reconcile, Fetch, Sync, Escalate, EscalateFails, Resync
  <2>2. run.state = "merged" <=> run'.state = "merged"
    BY <1>2, OtherMoves
       DEF Reconcile, Fetch, Sync, Escalate, EscalateFails, Resync
  <2> QED
    BY <2>1, <2>2
<1>3. CASE Push \/ CiEnds \/ Close \/ Reopen
  <2>1. UNCHANGED <<merger, claim, req, run>>
    BY <1>3 DEF Push, CiEnds, Close, Reopen
  <2>2. forge.status = "merged" <=> forge'.status = "merged"
    BY <1>3 DEF Push, CiEnds, Close, Reopen, TypeOK
  <2> QED
    BY <2>1, <2>2
<1>4. CASE MergeByHand
  <2>1. ~merger.told /\ run.state # "merged" /\ ~merger'.told
    BY <1>4 DEF MergeByHand, MergedBy
  <2> QED
    BY <1>4, <2>1 DEF MergeByHand
<1>5. CASE Approve \/ Resume \/ Finalize
  <2>1. UNCHANGED <<forge, merger, claim, req>>
    BY <1>5 DEF Approve, Resume, Finalize
  <2>2. /\ run.state = "merged" => run'.state = "merged"
        /\ run'.state = "merged" => forge.status = "merged"
    BY <1>5 DEF Approve, Resume, Finalize, Move, Confirmed
  <2> QED
    BY <2>1, <2>2
<1>6. CASE UNCHANGED vars
  BY <1>6 DEF vars
<1> QED
  BY <1>1, <1>2, <1>3, <1>4, <1>5, <1>6 DEF Next, People

\* A call of the tool that is about to record a merge has had it.
ToolInv == \A t \in Tool : tool[t].pc = "record" => forge.status = "merged"

LEMMA MergedStays ==
  ASSUME TypeOK, [Next]_vars, forge.status = "merged"
  PROVE  forge'.status = "merged"
<1> USE DEF pull, rows, keys
<1>1. ASSUME NEW r \in Request, Serve(r) PROVE forge'.status = "merged"
  BY <1>1
     DEF Serve, Claim, TurnAway, Answer, Release, ReadRun, Replay, Gate, Refuse,
         Ready, Recheck, Rebase, Merge, Reject, LoseAnswer, RecordMerged,
         RecordMergeFailed, Refetch, Settle, Throw, Crash, CanMerge
<1>2. ASSUME NEW c \in Reconciler, Reconcile(c) PROVE forge'.status = "merged"
  BY <1>2 DEF Reconcile, Fetch, Sync, Escalate, EscalateFails, Resync
<1>3. CASE People
  BY <1>3 DEF People, Push, CiEnds, Close, Reopen, MergeByHand, Approve, Resume,
              Finalize
<1>4. CASE UNCHANGED vars
  BY <1>4 DEF vars
<1> QED
  BY <1>1, <1>2, <1>3, <1>4 DEF Next

LEMMA ToolProtocol ==
  ASSUME TypeOK, ToolTypeOK, ProtocolInv, ToolInv, NEW t \in Tool, Invoke(t)
  PROVE  ProtocolInv' /\ ToolInv'
<1>1. UNCHANGED <<claim, req>> /\ ToolSteps(t)
  BY ToolStep DEF Apart
<1> USE DEF ProtocolInv, ClaimInv, OneOwnerPerKey, ToldInv, MergedInv,
            AnswerInv, MergedAtTheForge, Working, HasMerged, At
<1>2. CASE CallMerge(t)
  <2>1. /\ forge.status = "open" /\ forge'.status = "merged"
        /\ ~merger'.told /\ run' = run
    BY <1>2 DEF CallMerge, CanMerge, MergedBy, TypeOK, rows
  <2>2. ~merger.told /\ run.state # "merged"
    BY <2>1
  <2> QED
    BY <1>1, <2>1, <2>2 DEF ToolInv
<1>3. CASE RecordMerge(t)
  <2>1. /\ forge.status = "merged" /\ UNCHANGED <<forge, merger>>
        /\ run.state = "merged" => run'.state = "merged"
    BY <1>3 DEF RecordMerge, ToolInv, Move, pull
  <2> QED
    BY <1>1, <2>1 DEF ToolInv
<1>4. CASE /\ UNCHANGED <<forge, merger, mirror>>
           /\ \E call : /\ tool' = [tool EXCEPT ![t] = call]
                        /\ call.pc # "record"
           /\ run.state = "merged" <=> run'.state = "merged"
  <2>1. \A u \in Tool : tool'[u].pc = "record" => tool[u].pc = "record"
    BY <1>4 DEF ToolTypeOK
  <2>2. ToolInv'
    BY <1>4, <2>1 DEF ToolInv
  <2>3. ProtocolInv'
    BY <1>1, <1>4
  <2> QED
    BY <2>2, <2>3
<1> QED
  BY <1>1, <1>2, <1>3, <1>4 DEF ToolSteps

LEMMA CommandStep ==
  /\ TypeOK /\ ToolTypeOK /\ ProtocolInv /\ ToolInv
  /\ [CommandNext]_<<vars, command>>
  => ProtocolInv' /\ ToolInv'
<1> SUFFICES ASSUME TypeOK, ToolTypeOK, ProtocolInv, ToolInv,
                    [CommandNext]_<<vars, command>>
             PROVE  ProtocolInv' /\ ToolInv'
  OBVIOUS
<1>1. CASE [Next]_vars /\ UNCHANGED command
  BY <1>1, ProtocolStep, MergedStays DEF command, ToolInv
<1>2. ASSUME NEW t \in Tool, Invoke(t) PROVE ProtocolInv' /\ ToolInv'
  BY <1>2, ToolProtocol
<1> QED
  BY <1>1, <1>2 DEF CommandNext, command

LEMMA ProtocolInvariant == CommandSpec => []ProtocolInv
<1>1. CommandInit => ProtocolInv /\ ToolInv
  BY MergeAssumption
     DEF CommandInit, Init, ProtocolInv, ClaimInv, OneOwnerPerKey, ToldInv,
         MergedInv, AnswerInv, MergedAtTheForge, Working, HasMerged, At, Fresh,
         ToolInv, NoCall
<1> QED
  BY <1>1, CommandStep, TypeCorrect, PTL DEF CommandSpec

\* Two requests under one key are never both between the claim and its end,
\* whatever fails or dies.
THEOREM ClaimsAreExclusive == CommandSpec => []OneOwnerPerKey
  BY ProtocolInvariant, PTL DEF ProtocolInv, ClaimInv

\* The run is recorded as merged only after the forge has merged it.
THEOREM RunTellsTheTruth == CommandSpec => []MergedAtTheForge
  BY ProtocolInvariant, PTL DEF ProtocolInv

\* The key of a request that was told of its merge is never claimed again.
THEOREM MergesAreKept == CommandSpec => []PointOfNoReturn
<1>1. ProtocolInv => PointOfNoReturn
  BY DEF ProtocolInv, ToldInv, PointOfNoReturn
<1> QED
  BY <1>1, ProtocolInvariant, PTL

\* A stored "merged" is the answer of the request that merged, under its key.
THEOREM StoredAnswersAreTrue == CommandSpec => []AnswersAreTrue
<1>1. ProtocolInv => AnswersAreTrue
  BY DEF ProtocolInv, AnswerInv, ToldInv, AnswersAreTrue
<1> QED
  BY <1>1, ProtocolInvariant, PTL

-----------------------------------------------------------------------------
(* The commit that a gated merge merges.                                   *)

\* Commit h has passed its tests, or the branch has left it behind.
Tested(h) == tests[h] = "passed" \/ forge.head > h

\* A row or an observation that the branch has reached.
Shows(row) ==
    row.head <= forge.head /\ (row.ci = "passed" => tests[row.head] = "passed")

\* The mirror and what is about to be written to it.
MirrorInv ==
    /\ Shows(mirror)
    /\ \A c \in Reconciler : rec[c].step # "idle" => Shows(rec[c].saw)

\* A request or a call: while the mirror only moves forward, what it read is no newer
\* than the mirror its gate sees, so what passes the gate is tested or left behind.
Checked(call, starts) ==
    /\ call.pc \in starts => ~call.gated
    /\ call.pc = "gate" /\ ~receded => call.head <= mirror.head
    /\ call.gated /\ ~receded => Tested(call.head)

\* A step that moves the mirror forward, or after which it is known to have receded.
Advances == ~receded' => ~receded /\ mirror.head <= mirror'.head

GatedInv ==
    /\ \A r \in Request : Checked(req[r], {"idle", "read"})
    /\ \A t \in Tool : Checked(tool[t], {"idle"})
    /\ merger.gated => forge.status = "merged"
    /\ GatedMergeWasTested

\* The branch grows until it is merged, and a commit that has passed has passed.
Later ==
    /\ forge'.provider = forge.provider /\ forge.head <= forge'.head
    /\ forge.status = "merged" => forge' = forge
    /\ \A h \in Head : tests[h] = "passed" => tests'[h] = "passed"

LEMMA ForgeTyped ==
  ASSUME TypeOK
  PROVE  /\ forge.head \in Head /\ forge.status \in Status
         /\ Head \subseteq Nat
  BY DEF TypeOK, Head

LEMMA MergedByLater ==
  ASSUME TypeOK, NEW by, NEW gated, NEW told, MergedBy(by, gated, told),
         forge.status = "open"
  PROVE  Later
<1>1. /\ forge'.provider = forge.provider /\ forge'.head = forge.head
      /\ tests' = tests
  BY DEF MergedBy, TypeOK
<1> QED
  BY <1>1, ForgeTyped DEF Later

LEMMA GrowsLater ==
  ASSUME TypeOK, forge.status = "open", tests' = tests,
         forge' = [forge EXCEPT !.head = @ + 1]
  PROVE  Later
<1>1. forge'.provider = forge.provider /\ forge'.head = forge.head + 1
  BY DEF TypeOK
<1> QED
  BY <1>1, ForgeTyped DEF Later

LEMMA SameLater ==
  ASSUME TypeOK, UNCHANGED <<forge, tests>>
  PROVE  Later
  BY ForgeTyped DEF Later

LEMMA NextLater ==
  ASSUME TypeOK, [Next]_vars
  PROVE  Later
<1> USE DEF pull, rows, keys
<1>1. ASSUME NEW r \in Request, Serve(r) PROVE Later
  <2>1. CASE Merge(r)
    BY <2>1, MergedByLater DEF Merge, CanMerge
  <2>2. CASE LoseAnswer(r)
    BY <2>2, MergedByLater DEF LoseAnswer, CanMerge
  <2>3. CASE Rebase(r)
    BY <2>3, GrowsLater DEF Rebase
  <2>4. CASE ~Merge(r) /\ ~LoseAnswer(r) /\ ~Rebase(r)
    <3>1. UNCHANGED <<forge, tests>>
      BY <1>1, <2>4
         DEF Serve, Claim, TurnAway, Answer, Release, ReadRun, Replay, Gate,
             Refuse, Ready, Recheck, Reject, RecordMerged, RecordMergeFailed,
             Refetch, Settle, Throw, Crash
    <3> QED
      BY <3>1, SameLater
  <2> QED
    BY <2>1, <2>2, <2>3, <2>4
<1>2. ASSUME NEW c \in Reconciler, Reconcile(c) PROVE Later
  BY <1>2, SameLater DEF Reconcile, Fetch, Sync, Escalate, EscalateFails, Resync
<1>3. CASE Push
  BY <1>3, GrowsLater DEF Push
<1>4. CASE CiEnds
  <2>1. PICK h \in 1 .. forge.head, result \in {"passed", "failed"} :
             tests[h] = "running" /\ tests' = [tests EXCEPT ![h] = result]
    BY <1>4 DEF CiEnds
  <2>2. \A m \in Head : tests[m] = "passed" => tests'[m] = "passed"
    BY <2>1 DEF TypeOK
  <2>3. forge' = forge
    BY <1>4 DEF CiEnds
  <2> QED
    BY <2>2, <2>3, ForgeTyped DEF Later
<1>5. CASE Close \/ Reopen
  <2>1. forge'.provider = forge.provider /\ forge'.head = forge.head
    BY <1>5 DEF Close, Reopen, TypeOK
  <2>2. tests' = tests /\ forge.status # "merged"
    BY <1>5 DEF Close, Reopen
  <2> QED
    BY <2>1, <2>2, ForgeTyped DEF Later
<1>6. CASE MergeByHand
  BY <1>6, MergedByLater DEF MergeByHand
<1>7. CASE Approve \/ Resume \/ Finalize \/ UNCHANGED vars
  BY <1>7, SameLater DEF Approve, Resume, Finalize, vars
<1> QED
  BY <1>1, <1>2, <1>3, <1>4, <1>5, <1>6, <1>7 DEF Next, People

LEMMA ToolLater ==
  ASSUME TypeOK, ToolTypeOK, NEW t \in Tool, Invoke(t)
  PROVE  Later
<1>1. ToolSteps(t) /\ Apart
  BY ToolStep
<1>2. CASE CallMerge(t)
  BY <1>2, MergedByLater DEF CallMerge, CanMerge
<1>3. CASE UNCHANGED <<forge, tests>>
  BY <1>3, SameLater
<1> QED
  BY <1>1, <1>2, <1>3 DEF ToolSteps, Apart, RecordMerge, pull

LEMMA TestedStays ==
  ASSUME TypeOK, TypeOK', Later, NEW h \in Head, Tested(h)
  PROVE  Tested(h)'
<1>1. h \in Nat /\ forge.head \in Nat /\ forge'.head \in Nat
  BY ForgeTyped DEF TypeOK
<1> QED
  BY <1>1 DEF Tested, Later

LEMMA ShowsStays ==
  ASSUME TypeOK, TypeOK', Later, NEW row \in Mirror, Shows(row)
  PROVE  Shows(row)'
<1>1. row.head \in Head
  BY DEF Mirror
<1>2. row.head \in Nat /\ forge.head \in Nat /\ forge'.head \in Nat
  BY <1>1, ForgeTyped DEF TypeOK
<1> QED
  BY <1>1, <1>2 DEF Shows, Later

\* Nobody but a reconciliation writes the head or the checks of the mirror.
MirrorKept ==
    /\ rec' = rec /\ receded' = receded
    /\ mirror'.head = mirror.head /\ mirror'.ci = mirror.ci

LEMMA MirrorKeeps ==
  ASSUME TypeOK, TypeOK', Later, MirrorInv, MirrorKept
  PROVE  MirrorInv' /\ Advances
<1>1. mirror \in Mirror /\ \A c \in Reconciler : rec[c].saw \in Mirror
  BY DEF TypeOK, Pass
<1>2. Shows(mirror)'
  <2>1. /\ mirror.head <= forge'.head
        /\ mirror.ci = "passed" => tests'[mirror.head] = "passed"
    BY <1>1, ShowsStays DEF MirrorInv, Shows
  <2> QED
    BY <2>1 DEF Shows, MirrorKept
<1>3. ASSUME NEW c \in Reconciler, rec'[c].step # "idle"
      PROVE  Shows(rec[c].saw)'
  <2>1. /\ rec[c].saw.head <= forge'.head
        /\ rec[c].saw.ci = "passed" => tests'[rec[c].saw.head] = "passed"
    BY <1>1, <1>3, ShowsStays DEF MirrorInv, MirrorKept, Shows
  <2> QED
    BY <2>1 DEF MirrorKept, Shows
<1>4. Advances
  BY DEF Advances, MirrorKept, TypeOK, Mirror, Head
<1> QED
  BY <1>2, <1>3, <1>4 DEF MirrorInv

LEMMA OthersKeepMirror ==
  ASSUME TypeOK, ToolTypeOK,
         \/ \E r \in Request : Serve(r)
         \/ People
         \/ \E t \in Tool : Invoke(t)
         \/ UNCHANGED vars
  PROVE  MirrorKept
<1> USE DEF pull, rows, keys, MirrorKept
<1>1. \A status : /\ [mirror EXCEPT !.status = status].head = mirror.head
                  /\ [mirror EXCEPT !.status = status].ci = mirror.ci
  BY DEF TypeOK, Mirror
<1>2. ASSUME NEW r \in Request, Serve(r) PROVE MirrorKept
  <2>1. /\ rec' = rec /\ receded' = receded
        /\ mirror' = mirror \/ mirror' = [mirror EXCEPT !.status = "merged"]
    BY <1>2
       DEF Serve, Claim, TurnAway, Answer, Release, ReadRun, Replay, Gate,
           Refuse, Ready, Recheck, Rebase, Merge, Reject, LoseAnswer,
           RecordMerged, RecordMergeFailed, Refetch, Settle, Throw, Crash
  <2> QED
    BY <1>1, <2>1
<1>3. CASE People
  BY <1>1, <1>3
     DEF People, Push, CiEnds, Close, Reopen, MergeByHand, Approve, Resume,
         Finalize
<1>4. ASSUME NEW t \in Tool, Invoke(t) PROVE MirrorKept
  <2>1. ToolSteps(t) /\ Apart
    BY <1>4, ToolStep
  <2> QED
    BY <1>1, <2>1 DEF ToolSteps, Apart, CallMerge, RecordMerge
<1>5. CASE UNCHANGED vars
  BY <1>5 DEF vars
<1> QED
  BY <1>2, <1>3, <1>4, <1>5

\* A reconciliation writes what was true, and when that is older than the mirror, it is
\* known to be.
LEMMA ReconcileKeepsMirror ==
  ASSUME TypeOK, MirrorInv, NEW c \in Reconciler, Reconcile(c)
  PROVE  MirrorInv' /\ Advances
<1> USE DEF rows
<1>1. UNCHANGED <<forge, tests>>
  BY DEF Reconcile, Fetch, Sync, Escalate, EscalateFails, Resync, pull
<1>2. \A row \in Mirror : Shows(row)' <=> Shows(row)
  BY <1>1 DEF Shows
<1>3. mirror.head \in Nat /\ rec[c].saw \in Mirror /\ mirror \in Mirror
  BY DEF TypeOK, Pass, Mirror, Head
<1>4. CASE Fetch(c)
  <2>1. Observed \in Mirror /\ Shows(Observed)
    <3>1. Observed \in Mirror /\ Observed.head = forge.head
          /\ Observed.ci = tests[forge.head]
      BY ObservedTyped DEF Observed
    <3> QED
      BY <3>1, ForgeTyped DEF Shows
  <2>2. rec'[c].saw = Observed /\ mirror' = mirror /\ receded' = receded
    BY <1>4 DEF Fetch, TypeOK, Pass
  <2>3. \A d \in Reconciler \ {c} : rec'[d] = rec[d]
    BY <1>4 DEF Fetch, TypeOK
  <2> QED
    BY <1>1, <1>3, <2>1, <2>2, <2>3 DEF MirrorInv, Shows, Advances
<1>5. CASE Sync(c) \/ Resync(c)
  <2>1. Mirrors(rec[c].saw) /\ rec[c].step # "idle"
    BY <1>5 DEF Sync, Resync
  <2>2. Shows(rec[c].saw)
    BY <2>1 DEF MirrorInv
  <2>3. rec'[c].step # "idle" => rec'[c].saw = rec[c].saw
    BY <1>5 DEF Sync, Resync, Idle, TypeOK, Pass
  <2>4. rec[c].saw.head \in Nat
    BY <1>3 DEF Mirror, Head
  <2>5. \A d \in Reconciler \ {c} : rec'[d] = rec[d]
    BY <1>5 DEF Sync, Resync, TypeOK
  <2>6. Advances
    BY <1>3, <2>1, <2>4 DEF Advances, Mirrors
  <2> QED
    BY <1>1, <2>1, <2>2, <2>3, <2>5, <2>6 DEF MirrorInv, Shows, Mirrors
<1>6. CASE Escalate(c) \/ EscalateFails(c)
  <2>1. mirror' = mirror /\ receded' = receded
    BY <1>6 DEF Escalate, EscalateFails
  <2>2. /\ rec[c].step # "idle"
        /\ rec'[c].step # "idle" => rec'[c].saw = rec[c].saw
        /\ \A d \in Reconciler \ {c} : rec'[d] = rec[d]
    BY <1>6 DEF Escalate, EscalateFails, Idle, TypeOK, Pass
  <2> QED
    BY <1>1, <1>3, <2>1, <2>2 DEF MirrorInv, Shows, Advances
<1> QED
  BY <1>4, <1>5, <1>6 DEF Reconcile

\* What is checked stays checked while the mirror moves forward.
LEMMA CheckedStays ==
  ASSUME TypeOK, TypeOK', Later, Advances,
         NEW call, call.head \in Head, NEW starts, Checked(call, starts)
  PROVE  Checked(call, starts)'
<1>1. call.head \in Nat /\ mirror.head \in Nat /\ mirror'.head \in Nat
  BY DEF Head, TypeOK, Mirror
<1>2. call.gated /\ ~receded => Tested(call.head)'
  BY TestedStays DEF Checked
<1> QED
  BY <1>1, <1>2 DEF Checked, Advances

\* Requests that end, and requests that go on as they were.
LEMMA Unchecked ==
  ASSUME NEW call, ~call.gated, call.pc # "gate", NEW starts
  PROVE  Checked(call, starts)
  BY DEF Checked

LEMMA GoesOnChecked ==
  ASSUME NEW call, NEW call2, NEW starts, Checked(call, starts),
         call2.gated = call.gated, call2.head = call.head,
         call2.pc # "gate", call2.pc \in starts => call.pc \in starts
  PROVE  Checked(call2, starts)
  BY DEF Checked

Starts == {"idle", "read"}

LEMMA CatchChecked ==
  ASSUME TypeOK, NEW r \in Request, Catch(r)
  PROVE  \E local \in Local : /\ req' = [req EXCEPT ![r] = local]
                              /\ Checked(local, Starts)
<1>1. \A local \in {Gone, [Gone EXCEPT !.pc = "release"]} :
          ~local.gated /\ local.pc # "gate"
  BY DEF Gone, Fresh
<1>2. PICK local \in {Gone, [Gone EXCEPT !.pc = "release"]} :
          req' = [req EXCEPT ![r] = local]
  BY DEF Catch
<1> QED
  BY <1>1, <1>2, LocalGone, Unchecked

LEMMA ReplyChecked ==
  ASSUME TypeOK, NEW r \in Request, NEW reply \in {"merged", "refused"},
         Reply(r, reply)
  PROVE  \E local \in Local : /\ req' = [req EXCEPT ![r] = local]
                              /\ Checked(local, Starts)
<1> DEFINE local == [Fresh EXCEPT !.pc = "answer", !.reply = reply]
<1>1. local \in Local
  BY LocalFresh DEF Local, Inside
<1>2. ~local.gated /\ local.pc # "gate"
  BY DEF Fresh
<1>3. req' = [req EXCEPT ![r] = local]
  BY DEF Reply
<1> HIDE DEF local
<1> QED
  BY <1>1, <1>2, <1>3, Unchecked

LEMMA GotoChecked ==
  ASSUME TypeOK, NEW r \in Request, NEW pc \in Place \ {"gate"},
         Checked(req[r], Starts), pc \in Starts => req[r].pc \in Starts,
         Goto(r, pc)
  PROVE  \E local \in Local : /\ req' = [req EXCEPT ![r] = local]
                              /\ Checked(local, Starts)
<1> DEFINE local == [req[r] EXCEPT !.pc = pc]
<1>1. req[r] \in Local /\ mirror.head \in Head
  BY DEF TypeOK, Mirror
<1>2. /\ local.pc = pc
      /\ local.gated = req[r].gated /\ local.head = req[r].head
  BY <1>1 DEF Local
<1>4. local \in Local
  BY <1>1, LocalRead, OneIsVersion
<1>3. req' = [req EXCEPT ![r] = local]
  BY DEF Goto
<1> HIDE DEF local
<1>5. Checked(local, Starts)
  BY <1>2, GoesOnChecked
<1> QED
  BY <1>3, <1>4, <1>5

LEMMA FollowChecked ==
  ASSUME TypeOK, NEW r \in Request, NEW name, NEW to,
         Checked(req[r], Starts), FollowUp(r, name, to)
  PROVE  \E local \in Local : /\ req' = [req EXCEPT ![r] = local]
                              /\ Checked(local, Starts)
<1>1. CASE Catch(r)
  BY <1>1, CatchChecked
<1>2. CASE Goto(r, "refetch")
  BY <1>2, GotoChecked DEF Place, Inside, Starts
<1>3. CASE Reply(r, "refused")
  BY <1>3, ReplyChecked
<1> QED
  BY <1>1, <1>2, <1>3 DEF FollowUp, Continue

\* Every step of a request leaves it checked.
LEMMA ServeChecked ==
  ASSUME TypeOK, MirrorInv, NEW r \in Request, Checked(req[r], Starts), Serve(r)
  PROVE  \E local \in Local : /\ req' = [req EXCEPT ![r] = local]
                              /\ Checked(local, Starts)
<1> DEFINE Good == \E local \in Local : /\ req' = [req EXCEPT ![r] = local]
                                        /\ Checked(local, Starts)
<1> USE DEF Starts, Place, Inside
<1>1. req[r] \in Local /\ mirror.head \in Head /\ run.version \in Version
  BY DEF TypeOK, Mirror
<1>2. ASSUME NEW local \in Local, req' = [req EXCEPT ![r] = local],
             Checked(local, Starts)
      PROVE  Good
  BY <1>2
<1>3. CASE Claim(r)
  BY <1>3, GotoChecked DEF Claim, At
<1>4. CASE TurnAway(r)
  BY <1>4, GotoChecked DEF TurnAway, At
<1>5. CASE Answer(r) \/ Release(r) \/ Crash(r)
  <2>1. ~Gone.gated /\ Gone.pc # "gate"
    BY DEF Gone, Fresh
  <2> QED
    BY <1>2, <1>5, <2>1, LocalGone, Unchecked DEF Answer, Release, Crash
<1>6. CASE ReadRun(r)
  <2> DEFINE local == [req[r] EXCEPT !.pc = "gate", !.version = run.version,
                                     !.head = mirror.head]
  <2>1. local \in Local
    BY <1>1, LocalRead
  <2>2. local.gated = req[r].gated /\ local.head = mirror.head /\ local.pc = "gate"
    BY <1>1 DEF Local
  <2>3. ~req[r].gated
    BY <1>6 DEF ReadRun, At, Checked
  <2>4. mirror.head <= mirror.head
    BY <1>1 DEF Head
  <2>5. req' = [req EXCEPT ![r] = local]
    BY <1>6 DEF ReadRun
  <2> HIDE DEF local
  <2>6. Checked(local, Starts)
    BY <2>2, <2>3, <2>4 DEF Checked
  <2> QED
    BY <1>2, <2>1, <2>5, <2>6
<1>7. CASE Replay(r)
  BY <1>7, GotoChecked DEF Replay
<1>8. CASE Gate(r)
  <2> DEFINE local == [req[r] EXCEPT !.pc = "ready", !.gated = TRUE]
  <2>1. local \in Local
    BY <1>1, LocalRead, OneIsVersion
  <2>2. local.head = req[r].head /\ local.pc = "ready"
    BY <1>1 DEF Local
  <2>3. ~receded => Tested(req[r].head)
    <3>1. ~receded => req[r].head <= mirror.head
      BY <1>8 DEF Gate, At, Checked
    <3>2. mirror.head <= forge.head /\ tests[mirror.head] = "passed"
      BY <1>8 DEF Gate, GatePasses, MirrorInv, Shows
    <3>3. req[r].head \in Nat /\ mirror.head \in Nat /\ forge.head \in Nat
      BY <1>1, ForgeTyped DEF Local, Head
    <3> QED
      BY <3>1, <3>2, <3>3 DEF Tested
  <2>4. req' = [req EXCEPT ![r] = local]
    BY <1>8 DEF Gate
  <2> HIDE DEF local
  <2>5. Checked(local, Starts)
    BY <2>2, <2>3 DEF Checked
  <2> QED
    BY <1>2, <2>1, <2>4, <2>5
<1>9. CASE Refuse(r)
  BY <1>9, ReplyChecked DEF Refuse
<1>10. CASE Ready(r)
  BY <1>10, CatchChecked, GotoChecked DEF Ready
<1>11. ASSUME NEW pc \in {"merge", "settle"},
              req' = [req EXCEPT ![r].pc = pc, ![r].version = run.version]
       PROVE  Good
  <2> DEFINE local == [req[r] EXCEPT !.pc = pc, !.version = run.version]
  <2>1. local \in Local
    BY <1>1, LocalRead
  <2>2. local.gated = req[r].gated /\ local.head = req[r].head /\ local.pc = pc
    BY <1>1 DEF Local
  <2>3. req' = [req EXCEPT ![r] = local]
    BY <1>11
  <2> HIDE DEF local
  <2>4. Checked(local, Starts)
    BY <2>2, GoesOnChecked
  <2> QED
    BY <1>2, <2>1, <2>3, <2>4
<1>12. CASE Recheck(r)
  BY <1>11, <1>12, CatchChecked DEF Recheck
<1>13. ASSUME NEW pc \in {"record", "fail"}, NEW b \in BOOLEAN,
              \/ req' = [req EXCEPT ![r] = Onward(r, pc)]
              \/ req' = [req EXCEPT ![r] = [Onward(r, pc) EXCEPT !.clearable = b]]
       PROVE  Good
  <2> DEFINE on == Onward(r, pc)
             failed == [Onward(r, pc) EXCEPT !.clearable = b]
  <2>1. on \in Local /\ failed \in Local
    BY LocalOnward
  <2>2. ~on.gated /\ on.pc = pc
    BY DEF Onward, Fresh
  <2>3. ~failed.gated /\ failed.pc = pc
    BY DEF Onward, Fresh
  <2> HIDE DEF on, failed
  <2>4. Checked(on, Starts) /\ Checked(failed, Starts)
    BY <2>2, <2>3, Unchecked
  <2>5. req' = [req EXCEPT ![r] = on] \/ req' = [req EXCEPT ![r] = failed]
    BY <1>13 DEF on, failed
  <2> QED
    BY <1>2, <2>1, <2>4, <2>5
<1>14. CASE Rebase(r)
  <2>1. req' = [req EXCEPT ![r] = req[r]]
    BY <1>14 DEF Rebase, TypeOK
  <2> QED
    BY <1>1, <1>2, <2>1
<1>15. CASE Merge(r)
  BY <1>13, <1>15 DEF Merge
<1>16. CASE Reject(r)
  BY <1>13, <1>16 DEF Reject
<1>17. CASE LoseAnswer(r) \/ Throw(r)
  BY <1>17, CatchChecked DEF LoseAnswer, Throw
<1>18. CASE RecordMerged(r)
  BY <1>18, CatchChecked, ReplyChecked DEF RecordMerged
<1>19. CASE RecordMergeFailed(r) \/ Settle(r)
  BY <1>19, FollowChecked DEF RecordMergeFailed, Settle
<1>20. CASE Refetch(r)
  BY <1>11, <1>20 DEF Refetch
<1> QED
  BY <1>3, <1>4, <1>5, <1>6, <1>7, <1>8, <1>9, <1>10, <1>12, <1>14, <1>15, <1>16,
     <1>17, <1>18, <1>19, <1>20 DEF Serve

\* The same for a call of the tool.
LEMMA DispatchChecked ==
  ASSUME TypeOK, ToolTypeOK, NEW t \in Tool, NEW name, NEW to,
         NEW next \in Call, Checked(next, {"idle"}), Dispatch(t, name, to, next)
  PROVE  \E call \in Call : Become(t, call) /\ Checked(call, {"idle"})
<1>1. Over \in Call /\ Checked(Over, {"idle"})
  BY CallTyped, Unchecked DEF Over, NoCall
<1> QED
  BY <1>1 DEF Dispatch

LEMMA InvokeChecked ==
  ASSUME TypeOK, ToolTypeOK, MirrorInv, NEW t \in Tool,
         Checked(tool[t], {"idle"}), Invoke(t)
  PROVE  \E call \in Call : Become(t, call) /\ Checked(call, {"idle"})
<1> DEFINE Good == \E call \in Call : Become(t, call) /\ Checked(call, {"idle"})
<1>1. tool[t] \in Call /\ mirror.head \in Head /\ run.version \in Version
  BY DEF TypeOK, ToolTypeOK, Mirror
<1>2. Over \in Call /\ Checked(Over, {"idle"})
  BY CallTyped, Unchecked DEF Over, NoCall
<1>3. ASSUME NEW pc \in {"recheck", "merge", "record", "fail", "refetch", "settle"},
             NEW version \in Version, NEW b \in BOOLEAN
      PROVE  /\ [tool[t] EXCEPT !.pc = pc] \in Call
             /\ [tool[t] EXCEPT !.pc = pc, !.version = version] \in Call
             /\ [tool[t] EXCEPT !.pc = pc, !.clearable = b] \in Call
  BY <1>1 DEF Call
<1>4. ASSUME NEW pc \in {"recheck", "merge", "record", "fail", "refetch", "settle"},
             NEW call, call.pc = pc, call.gated = tool[t].gated,
             call.head = tool[t].head
      PROVE  Checked(call, {"idle"})
  BY <1>4, GoesOnChecked
<1>5. ASSUME NEW pc \in {"recheck", "merge", "record", "fail", "refetch", "settle"},
             NEW version \in Version, NEW b \in BOOLEAN
      PROVE  /\ Checked([tool[t] EXCEPT !.pc = pc], {"idle"})
             /\ Checked([tool[t] EXCEPT !.pc = pc, !.version = version], {"idle"})
             /\ Checked([tool[t] EXCEPT !.pc = pc, !.clearable = b], {"idle"})
  <2> DEFINE c1 == [tool[t] EXCEPT !.pc = pc]
             c2 == [tool[t] EXCEPT !.pc = pc, !.version = version]
             c3 == [tool[t] EXCEPT !.pc = pc, !.clearable = b]
  <2>1. c1.pc = pc /\ c1.gated = tool[t].gated /\ c1.head = tool[t].head
    BY <1>1 DEF Call
  <2>2. c2.pc = pc /\ c2.gated = tool[t].gated /\ c2.head = tool[t].head
    BY <1>1 DEF Call
  <2>3. c3.pc = pc /\ c3.gated = tool[t].gated /\ c3.head = tool[t].head
    BY <1>1 DEF Call
  <2> HIDE DEF c1, c2, c3
  <2>4. Checked(c1, {"idle"}) /\ Checked(c2, {"idle"}) /\ Checked(c3, {"idle"})
    BY <1>4, <2>1, <2>2, <2>3
  <2> QED
    BY <2>4 DEF c1, c2, c3
<1>6. CASE Begin(t)
  <2> DEFINE call == [tool[t] EXCEPT !.pc = "gate", !.version = run.version,
                                     !.head = mirror.head]
  <2>1. call \in Call
    BY <1>1 DEF Call
  <2>2. call.gated = tool[t].gated /\ call.head = mirror.head /\ call.pc = "gate"
    BY <1>1 DEF Call
  <2>3. ~tool[t].gated
    BY <1>6 DEF Begin, Checked
  <2>4. mirror.head <= mirror.head
    BY <1>1 DEF Head
  <2>5. Become(t, call)
    BY <1>6 DEF Begin
  <2> HIDE DEF call
  <2>6. Checked(call, {"idle"})
    BY <2>2, <2>3, <2>4 DEF Checked
  <2> QED
    BY <2>1, <2>5, <2>6
<1>7. CASE EvaluateGate(t)
  <2>1. CASE Proceed(t, "recheck")
    BY <1>1, <1>3, <1>5, <2>1 DEF Proceed
  <2>2. CASE Become(t, Over)
    BY <1>2, <2>2
  <2>3. CASE GatePasses /\ Become(t, [tool[t] EXCEPT !.pc = "ready", !.gated = TRUE])
    <3> DEFINE call == [tool[t] EXCEPT !.pc = "ready", !.gated = TRUE]
    <3>1. call \in Call
      BY <1>1 DEF Call
    <3>2. call.head = tool[t].head /\ call.pc = "ready"
      BY <1>1 DEF Call
    <3>3. ~receded => tool[t].head <= mirror.head
      BY <1>7 DEF EvaluateGate, Checked
    <3>4. mirror.head <= forge.head /\ tests[mirror.head] = "passed"
      BY <2>3 DEF GatePasses, MirrorInv, Shows
    <3>5. tool[t].head \in Nat /\ mirror.head \in Nat /\ forge.head \in Nat
      BY <1>1, ForgeTyped DEF Call, Head
    <3>6. ~receded => Tested(tool[t].head)
      BY <3>3, <3>4, <3>5 DEF Tested
    <3> HIDE DEF call
    <3>7. Checked(call, {"idle"})
      BY <3>2, <3>6 DEF Checked
    <3> QED
      BY <2>3, <3>1, <3>7 DEF call
  <2> QED
    BY <1>7, <2>1, <2>2, <2>3 DEF EvaluateGate
<1>8. CASE BecomeReady(t)
  BY <1>1, <1>3, <1>5, <1>8, DispatchChecked DEF BecomeReady
<1>9. CASE RecheckReady(t)
  BY <1>1, <1>2, <1>3, <1>5, <1>9 DEF RecheckReady
<1>10. CASE CallMerge(t)
  BY <1>1, <1>2, <1>3, <1>5, <1>10 DEF CallMerge, Proceed
<1>11. CASE BeRejected(t)
  BY <1>1, <1>3, <1>5, <1>11 DEF BeRejected
<1>12. CASE RecordMerge(t) \/ Break(t)
  BY <1>2, <1>12 DEF RecordMerge, Break
<1>13. CASE RecordRejection(t)
  BY <1>1, <1>3, <1>5, <1>13, DispatchChecked DEF RecordRejection
<1>14. CASE ReadAgain(t)
  BY <1>1, <1>3, <1>5, <1>14 DEF ReadAgain
<1>15. CASE SettleRejection(t)
  BY <1>2, <1>15, DispatchChecked DEF SettleRejection
<1> QED
  BY <1>6, <1>7, <1>8, <1>9, <1>10, <1>11, <1>12, <1>13, <1>14, <1>15 DEF Invoke

\* A merge: a gated one has had its head compared, or is not at such a forge.
MergerMoves ==
    \/ UNCHANGED merger
    \/ /\ forge.status = "open" /\ forge'.status = "merged"
       /\ forge'.head = forge.head /\ tests' = tests
       /\ merger'.gated =>
            \E h \in Head : (~receded => Tested(h)) /\ HeadMatches(h)

LEMMA MergedByMoves ==
  ASSUME TypeOK, NEW by, NEW gated \in BOOLEAN, NEW told, NEW h \in Head,
         MergedBy(by, gated, told), CanMerge(h), gated /\ ~receded => Tested(h)
  PROVE  MergerMoves
<1>1. forge'.head = forge.head /\ forge'.status = "merged" /\ tests' = tests
  BY DEF MergedBy, TypeOK
<1>2. merger'.gated = gated
  BY DEF MergedBy
<1> QED
  BY <1>1, <1>2 DEF MergerMoves, CanMerge

LEMMA NextMerges ==
  ASSUME TypeOK, GatedInv, [Next]_vars
  PROVE  MergerMoves
<1> USE DEF pull, rows, keys
<1>1. ASSUME NEW r \in Request, Serve(r) PROVE MergerMoves
  <2>1. /\ req[r].head \in Head /\ req[r].gated \in BOOLEAN
        /\ req[r].gated /\ ~receded => Tested(req[r].head)
    BY DEF TypeOK, Local, GatedInv, Checked
  <2>2. CASE Merge(r)
    BY <2>1, <2>2, MergedByMoves DEF Merge
  <2>3. CASE LoseAnswer(r)
    BY <2>1, <2>3, MergedByMoves DEF LoseAnswer
  <2>4. CASE ~Merge(r) /\ ~LoseAnswer(r)
    <3>1. UNCHANGED merger
      BY <1>1, <2>4
         DEF Serve, Claim, TurnAway, Answer, Release, ReadRun, Replay, Gate,
             Refuse, Ready, Recheck, Rebase, Reject, RecordMerged,
             RecordMergeFailed, Refetch, Settle, Throw, Crash
    <3> QED
      BY <3>1 DEF MergerMoves
  <2> QED
    BY <2>2, <2>3, <2>4
<1>2. ASSUME NEW c \in Reconciler, Reconcile(c) PROVE MergerMoves
  BY <1>2 DEF MergerMoves, Reconcile, Fetch, Sync, Escalate, EscalateFails, Resync
<1>3. CASE MergeByHand
  <2>1. forge'.head = forge.head /\ forge'.status = "merged" /\ tests' = tests
    BY <1>3 DEF MergeByHand, MergedBy, TypeOK
  <2>2. merger'.gated = FALSE
    BY <1>3 DEF MergeByHand, MergedBy
  <2> QED
    BY <1>3, <2>1, <2>2 DEF MergerMoves, MergeByHand
<1>4. CASE Push \/ CiEnds \/ Close \/ Reopen \/ Approve \/ Resume \/ Finalize
           \/ UNCHANGED vars
  BY <1>4 DEF MergerMoves, Push, CiEnds, Close, Reopen, Approve, Resume,
              Finalize, vars
<1> QED
  BY <1>1, <1>2, <1>3, <1>4 DEF Next, People

LEMMA ToolMerges ==
  ASSUME TypeOK, ToolTypeOK, GatedInv, NEW t \in Tool, Invoke(t)
  PROVE  MergerMoves
<1>1. ToolSteps(t) /\ Apart
  BY ToolStep
<1>2. CASE CallMerge(t)
  <2>1. /\ tool[t].head \in Head /\ tool[t].gated \in BOOLEAN
        /\ tool[t].gated /\ ~receded => Tested(tool[t].head)
    BY DEF ToolTypeOK, Call, GatedInv, Checked
  <2> QED
    BY <1>2, <2>1, MergedByMoves DEF CallMerge
<1>3. CASE UNCHANGED merger
  BY <1>3 DEF MergerMoves
<1> QED
  BY <1>1, <1>2, <1>3 DEF ToolSteps, RecordMerge, pull

\* What is merged stays merged, at a head that stays tested.
LEMMA MergedStaysTested ==
  ASSUME TypeOK, TypeOK', Later, Advances, GatedInv, MergerMoves
  PROVE  (merger'.gated => forge'.status = "merged") /\ GatedMergeWasTested'
<1>1. forge.head \in Head /\ forge.head \in Nat
  BY ForgeTyped
<1>2. CASE UNCHANGED merger
  <2>1. merger.gated => forge.status = "merged" /\ forge' = forge
    BY DEF GatedInv, Later
  <2> QED
    BY <1>1, <1>2, <2>1 DEF GatedInv, GatedMergeWasTested, Later, Advances
<1>3. CASE /\ forge'.status = "merged"
           /\ forge'.head = forge.head /\ tests' = tests
           /\ merger'.gated =>
                \E h \in Head : (~receded => Tested(h)) /\ HeadMatches(h)
  <2> SUFFICES ASSUME merger'.gated, forge'.provider # "gitea", ~receded'
               PROVE  tests'[forge'.head] = "passed"
    BY <1>3 DEF GatedMergeWasTested
  <2>1. PICK h \in Head : Tested(h) /\ HeadMatches(h)
    BY <1>3 DEF Advances
  <2>2. forge.head = h
    BY <2>1 DEF HeadMatches, Later
  <2> QED
    BY <1>1, <1>3, <2>1, <2>2 DEF Tested
<1> QED
  BY <1>2, <1>3 DEF MergerMoves

LEMMA GatedStep ==
  ASSUME TypeOK, ToolTypeOK, TypeOK', ToolTypeOK', MirrorInv, GatedInv,
         [CommandNext]_<<vars, command>>
  PROVE  MirrorInv' /\ GatedInv'
<1>1. ASSUME Later, MirrorInv', Advances, MergerMoves,
             \/ UNCHANGED req
             \/ \E r \in Request, local \in Local :
                   req' = [req EXCEPT ![r] = local] /\ Checked(local, Starts),
             \/ UNCHANGED tool
             \/ \E t \in Tool, call \in Call :
                   Become(t, call) /\ Checked(call, {"idle"})
      PROVE  GatedInv'
  <2>1. ASSUME NEW q \in Request
        PROVE  req'[q] \in Local /\ Checked(req'[q], Starts)
    <3>1. req'[q] \in Local
      BY DEF TypeOK
    <3>2. Checked(req[q], Starts)
      BY DEF GatedInv, Starts
    <3>3. CASE UNCHANGED req
      BY <3>1, <3>2, <3>3
    <3>4. CASE \E r \in Request, local \in Local :
                  req' = [req EXCEPT ![r] = local] /\ Checked(local, Starts)
      <4>1. PICK r \in Request, local \in Local :
                  req' = [req EXCEPT ![r] = local] /\ Checked(local, Starts)
        BY <3>4
      <4>2. req'[q] = req[q] \/ req'[q] = local
        BY <4>1 DEF TypeOK
      <4> QED
        BY <3>1, <3>2, <4>1, <4>2
    <3> QED
      BY <1>1, <3>3, <3>4
  <2>2. ASSUME NEW u \in Tool
        PROVE  tool'[u] \in Call /\ Checked(tool'[u], {"idle"})
    <3>1. tool'[u] \in Call
      BY DEF ToolTypeOK
    <3>2. Checked(tool[u], {"idle"})
      BY DEF GatedInv
    <3>3. CASE UNCHANGED tool
      BY <3>1, <3>2, <3>3
    <3>4. CASE \E t \in Tool, call \in Call :
                  Become(t, call) /\ Checked(call, {"idle"})
      <4>1. PICK t \in Tool, call \in Call :
                  Become(t, call) /\ Checked(call, {"idle"})
        BY <3>4
      <4>2. tool'[u] = tool[u] \/ tool'[u] = call
        BY <4>1 DEF Become, ToolTypeOK
      <4> QED
        BY <3>1, <3>2, <4>1, <4>2
    <3> QED
      BY <1>1, <3>3, <3>4
  <2>3. \A local \in Local : Checked(local, Starts) => Checked(local, Starts)'
    BY <1>1, CheckedStays DEF Local
  <2>4. \A call \in Call : Checked(call, {"idle"}) => Checked(call, {"idle"})'
    BY <1>1, CheckedStays DEF Call
  <2>5. (\A r \in Request : Checked(req[r], Starts))'
    BY <2>1, <2>3 DEF Checked, Tested
  <2>6. (\A t \in Tool : Checked(tool[t], {"idle"}))'
    BY <2>2, <2>4 DEF Checked, Tested
  <2> QED
    BY <1>1, <2>5, <2>6, MergedStaysTested DEF GatedInv, Starts
<1>2. ASSUME NEW r \in Request, Serve(r), UNCHANGED command
      PROVE  MirrorInv' /\ GatedInv'
  <2>1. Later /\ MergerMoves
    BY <1>2, NextLater, NextMerges DEF Next
  <2>2. MirrorInv' /\ Advances
    BY <1>2, <2>1, OthersKeepMirror, MirrorKeeps
  <2>3. \E local \in Local :
           req' = [req EXCEPT ![r] = local] /\ Checked(local, Starts)
    BY <1>2, ServeChecked DEF GatedInv, Starts
  <2> QED
    BY <1>1, <1>2, <2>1, <2>2, <2>3 DEF command
<1>3. ASSUME NEW c \in Reconciler, Reconcile(c), UNCHANGED command
      PROVE  MirrorInv' /\ GatedInv'
  <2>1. Later /\ MergerMoves
    BY <1>3, NextLater, NextMerges DEF Next
  <2>2. MirrorInv' /\ Advances
    BY <1>3, ReconcileKeepsMirror
  <2>3. UNCHANGED req
    BY <1>3 DEF Reconcile, Fetch, Sync, Escalate, EscalateFails, Resync
  <2> QED
    BY <1>1, <1>3, <2>1, <2>2, <2>3 DEF command
<1>4. CASE (People \/ UNCHANGED vars) /\ UNCHANGED command
  <2>1. Later /\ MergerMoves
    BY <1>4, NextLater, NextMerges DEF Next
  <2>2. MirrorInv' /\ Advances
    BY <1>4, <2>1, OthersKeepMirror, MirrorKeeps
  <2>3. UNCHANGED req
    BY <1>4 DEF People, Push, CiEnds, Close, Reopen, MergeByHand, Approve,
                Resume, Finalize, vars
  <2> QED
    BY <1>1, <1>4, <2>1, <2>2, <2>3 DEF command
<1>5. ASSUME NEW t \in Tool, Invoke(t)
      PROVE  MirrorInv' /\ GatedInv'
  <2>1. Later /\ MergerMoves
    BY <1>5, ToolLater, ToolMerges
  <2>2. MirrorInv' /\ Advances
    BY <1>5, <2>1, OthersKeepMirror, MirrorKeeps
  <2>3. UNCHANGED req
    BY <1>5, ToolStep DEF Apart
  <2>4. \E call \in Call : Become(t, call) /\ Checked(call, {"idle"})
    BY <1>5, InvokeChecked DEF GatedInv
  <2> QED
    BY <1>1, <2>1, <2>2, <2>3, <2>4
<1> QED
  BY <1>2, <1>3, <1>4, <1>5 DEF CommandNext, Next, command

\* However many reconciliations overlap: whoever went through a gate of its own, request
\* or call of the tool, has merged a commit that passed its tests, at a forge that
\* compares the head, unless a reconciliation has set the mirror back to an older head.
\* The head was read before the gate, and whatever the mirror showed since is later.
THEOREM GatedMergesAreTested == CommandSpec => []GatedMergeWasTested
<1> DEFINE IInv == MirrorInv /\ GatedInv
<1>1. CommandInit => IInv
  <2> SUFFICES ASSUME CommandInit PROVE IInv
    OBVIOUS
  <2>1. /\ forge.head = 1 /\ tests[1] = "passed"
        /\ mirror.head = 1 /\ ~merger.gated
    BY MergeAssumption DEF CommandInit, Init, Observed, Head
  <2>2. Shows(mirror)
    BY <2>1 DEF Shows
  <2>3. \A r \in Request : req[r] = Fresh
    BY DEF CommandInit, Init
  <2>4. \A t \in Tool : tool[t] = NoCall
    BY DEF CommandInit
  <2>5. \A c \in Reconciler : rec[c].step = "idle"
    BY DEF CommandInit, Init, Idle
  <2> QED
    BY <2>1, <2>2, <2>3, <2>4, <2>5
       DEF MirrorInv, GatedInv, Checked, Fresh, NoCall, GatedMergeWasTested
<1>2. /\ TypeOK /\ ToolTypeOK /\ TypeOK' /\ ToolTypeOK'
      /\ IInv /\ [CommandNext]_<<vars, command>>
      => IInv'
  BY GatedStep
<1>3. IInv => GatedMergeWasTested
  BY DEF GatedInv
<1> HIDE DEF IInv
<1> QED
  BY <1>1, <1>2, <1>3, TypeCorrect, PTL DEF CommandSpec
=============================================================================
