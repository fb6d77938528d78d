---------------------------- MODULE MergeCommand -----------------------------
(***************************************************************************)
(* minicoder merge merge-if-ready beside the route of the same name        *)
(* (cli/src/commands/merge.ts).  The tool takes the route's steps without  *)
(* a claim: nothing keeps two calls apart but the version of the run, of   *)
(* which its idempotency keys are made, so two calls at one version share  *)
(* the results of their commands.  It answers only its terminal.           *)
(***************************************************************************)
EXTENDS MergeRoute

CONSTANT Tool   \* invocations

VARIABLES
    tool,   \* the invocations
    kept    \* commands of the tool that have a stored result, by version

command == <<tool, kept>>

Call == [pc : {"idle", "gate", "ready", "recheck", "merge", "record", "fail",
               "refetch", "settle", "done"},
         version : Version, head : Head, gated : BOOLEAN, clearable : BOOLEAN]

NoCall == [pc |-> "idle", version |-> 1, head |-> 1, gated |-> FALSE,
           clearable |-> FALSE]
Over == [NoCall EXCEPT !.pc = "done"]

ToolTypeOK ==
    /\ tool \in [Tool -> Call]
    /\ kept \subseteq ({"ready", "failed", "settled"} \X Version)

CommandInit ==
    /\ Init
    /\ tool = [t \in Tool |-> NoCall]
    /\ kept = {}

-----------------------------------------------------------------------------
Become(t, call) == tool' = [tool EXCEPT ![t] = call]
Proceed(t, pc) == Become(t, [tool[t] EXCEPT !.pc = pc])
Kept(t, name) == <<name, tool[t].version>> \in kept
Keep(t, name) == kept' = kept \cup {<<name, tool[t].version>>}

Begin(t) ==
    /\ tool[t].pc = "idle"
    /\ Become(t, [tool[t] EXCEPT !.pc = "gate", !.version = run.version,
                                 !.head = mirror.head])
    /\ UNCHANGED <<vars, kept>>

\* MergeIfReady: its stored result, its gate, or the end of the call.
EvaluateGate(t) ==
    /\ tool[t].pc = "gate"
    /\ \/ Kept(t, "ready") /\ Proceed(t, "recheck")
       \/ /\ ~Kept(t, "ready") /\ GatePasses
          /\ Become(t, [tool[t] EXCEPT !.pc = "ready", !.gated = TRUE])
       \/ ~Kept(t, "ready") /\ Become(t, Over)
    /\ UNCHANGED <<vars, kept>>

\* A command of the tool: replayed, or the run moves, or it throws.
Dispatch(t, name, to, next) ==
    \/ Kept(t, name) /\ Become(t, next) /\ UNCHANGED <<run, kept>>
    \/ /\ ~Kept(t, name) /\ Accepts(tool[t].version, to)
       /\ Move(to) /\ Keep(t, name) /\ Become(t, next)
    \/ /\ ~Kept(t, name) /\ ~Accepts(tool[t].version, to)
       /\ Become(t, Over) /\ UNCHANGED <<run, kept>>

BecomeReady(t) ==
    /\ tool[t].pc = "ready"
    /\ Dispatch(t, "ready", "merge_ready", [tool[t] EXCEPT !.pc = "recheck"])
    /\ UNCHANGED <<pull, mirror, escalated, keys, req, rec, receded, faults>>

RecheckReady(t) ==
    /\ tool[t].pc = "recheck"
    /\ IF run.state = "merge_ready"
       THEN Become(t, [tool[t] EXCEPT !.pc = "merge", !.version = run.version])
       ELSE Become(t, Over)
    /\ UNCHANGED <<vars, kept>>

\* The forge merges; the answer arrives, or the call ends with an error.
CallMerge(t) ==
    /\ tool[t].pc = "merge" /\ CanMerge(tool[t].head)
    /\ MergedBy(Nobody, tool[t].gated, FALSE)
    /\ \/ Proceed(t, "record") /\ faults' = faults
       \/ Become(t, Over) /\ faults < MaxFaults /\ faults' = faults + 1
    /\ UNCHANGED <<rows, keys, req, rec, receded, kept>>

BeRejected(t) ==
    /\ tool[t].pc = "merge"
    /\ \E clearable \in BOOLEAN :
         /\ clearable => forge.status = "open" /\ ~HeadMatches(tool[t].head)
         /\ Become(t, [tool[t] EXCEPT !.pc = "fail", !.clearable = clearable])
    /\ UNCHANGED <<vars, kept>>

\* The key names the merge commit, which only this call knows.
RecordMerge(t) ==
    /\ tool[t].pc = "record"
    /\ \/ /\ Accepts(tool[t].version, "merged")
          /\ Move("merged")
          /\ mirror' = [mirror EXCEPT !.status = "merged"]
       \/ /\ ~Accepts(tool[t].version, "merged")
          /\ UNCHANGED <<run, mirror>>
    /\ Become(t, Over)
    /\ UNCHANGED <<pull, escalated, keys, req, rec, receded, faults, kept>>

RecordRejection(t) ==
    /\ tool[t].pc = "fail"
    /\ Dispatch(t, "failed", "merge_failed", [tool[t] EXCEPT !.pc = "refetch"])
    /\ UNCHANGED <<pull, mirror, escalated, keys, req, rec, receded, faults>>

ReadAgain(t) ==
    /\ tool[t].pc = "refetch"
    /\ Become(t, [tool[t] EXCEPT !.pc = "settle", !.version = run.version])
    /\ UNCHANGED <<vars, kept>>

SettleRejection(t) ==
    /\ tool[t].pc = "settle"
    /\ Dispatch(t, "settled",
                IF tool[t].clearable THEN "under_review" ELSE "human_required",
                Over)
    /\ UNCHANGED <<pull, mirror, escalated, keys, req, rec, receded, faults>>

\* A statement fails, or the process dies.
Break(t) ==
    /\ tool[t].pc \notin {"idle", "done"} /\ faults < MaxFaults
    /\ faults' = faults + 1
    /\ Become(t, Over)
    /\ UNCHANGED <<pull, rows, keys, req, rec, receded, kept>>

Invoke(t) ==
    \/ Begin(t) \/ EvaluateGate(t) \/ BecomeReady(t) \/ RecheckReady(t)
    \/ CallMerge(t) \/ BeRejected(t) \/ RecordMerge(t) \/ RecordRejection(t)
    \/ ReadAgain(t) \/ SettleRejection(t) \/ Break(t)

CommandNext ==
    \/ Next /\ UNCHANGED command
    \/ \E t \in Tool : Invoke(t)

CommandSpec == CommandInit /\ [][CommandNext]_<<vars, command>>
=============================================================================
