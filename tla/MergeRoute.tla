----------------------------- MODULE MergeRoute -----------------------------
(***************************************************************************)
(* POST /commands/merge-if-ready for one feature run: what happens between *)
(* the claim of an Idempotency-Key and the answer, while reconciliation    *)
(* mirrors the pull request, people push, close and merge at the forge,    *)
(* calls fail and processes die (api/src/commands/merge-if-ready-route.ts, *)
(* api/src/route-idempotency.ts, finalize-if-github-merged-route.ts).      *)
(*                                                                         *)
(* Each statement and each call is a step; a command is one transaction    *)
(* that compares the version of the run.  A run that goes back to the      *)
(* coder from review leaves the model.  Keys are kept for 7 days, which    *)
(* outlives everything here.                                               *)
(***************************************************************************)
EXTENDS Naturals

CONSTANTS
    Request,      \* requests to the route
    Key,          \* Idempotency-Key headers
    KeyOf,        \* the key a request is sent with
    Reconciler,   \* webhook handlers and reconciliation tasks
    Provider,     \* the repository's provider is one of these
    Nobody,       \* the pull request was not merged by a request
    MaxHead,      \* bound: commits pushed to the branch
    MaxVersion,   \* bound: version of a run that is approved or resumed
    MaxFaults     \* bound: failed calls and dead processes

ASSUME MergeAssumption ==
    /\ KeyOf \in [Request -> Key]
    /\ Nobody \notin Request
    /\ Provider \subseteq {"github", "gitlab", "gitea"}
    /\ MaxHead \in Nat \ {0}
    /\ MaxVersion \in Nat
    /\ MaxFaults \in Nat

VARIABLES
    forge,      \* the provider, and the pull request there
    tests,      \* tests[h]: the CI result of commit h
    merger,     \* history: who merged it, through a gate of its own, and was
                \* that request told?
    mirror,     \* the row of pull_requests
    run,        \* the row of feature_runs
    escalated,  \* escalate-human-github:{run} has a stored result
    claim,      \* claim[k]: the route's row of idempotency_keys
    spent,      \* spent[k]: the commands under k that have a stored result
    req,        \* the requests
    rec,        \* the reconciliations
    receded,    \* history: one wrote an older head over a newer one
    faults

pull == <<forge, tests, merger>>
rows == <<mirror, run, escalated>>
keys == <<claim, spent>>
vars == <<pull, rows, keys, req, rec, receded, faults>>

Head == 1 .. MaxHead
Status == {"open", "closed", "merged"}
Ci == {"running", "passed", "failed"}
Mirror == [head : Head, status : Status, ci : Ci]
RunState == {"under_review", "approved_by_policy", "merge_ready",
             "merge_failed", "merged", "human_required"}
Version == Nat \ {0}

\* Where a request is in the try block of the handler.
Inside == {"read", "gate", "ready", "recheck", "merge", "record", "fail",
           "refetch", "settle", "answer"}
\* A request: its place, the version and head it has read, whether it passed
\* the gate, whether its rejection clears by itself, and its answer.
Local == [pc : Inside \cup {"idle", "release", "done"}, version : Version,
          head : Head, gated : BOOLEAN, clearable : BOOLEAN,
          reply : {"merged", "refused"}]
Fresh == [pc |-> "idle", version |-> 1, head |-> 1, gated |-> FALSE,
          clearable |-> FALSE, reply |-> "refused"]
Gone == [Fresh EXCEPT !.pc = "done"]

\* A reconciliation: its step, what it has fetched and the run it has read.
Pass == [step : {"idle", "sync", "act", "resync"}, saw : Mirror,
         version : Version]

TypeOK ==
    /\ forge \in [provider : Provider, head : Head, status : Status]
    /\ tests \in [Head -> Ci]
    /\ merger \in [by : Request \cup {Nobody}, gated : BOOLEAN,
                    told : BOOLEAN]
    /\ mirror \in Mirror
    /\ run \in [state : RunState, version : Version]
    /\ escalated \in BOOLEAN
    /\ claim \in [Key -> {"free", "pending", "merged", "refused"}]
    /\ spent \in [Key -> SUBSET {"ready", "failed", "reconcile", "escalate"}]
    /\ req \in [Request -> Local]
    /\ rec \in [Reconciler -> Pass]
    /\ receded \in BOOLEAN
    /\ faults \in 0 .. MaxFaults

\* getPullRequest
Observed == [head |-> forge.head, status |-> forge.status,
             ci |-> tests[forge.head]]

Idle == [step |-> "idle", version |-> 1,
         saw |-> [head |-> 1, status |-> "open", ci |-> "running"]]

\* A run gets to review with its commit tested.
Init ==
    /\ \E p \in Provider : forge = [provider |-> p, head |-> 1, status |-> "open"]
    /\ tests = [h \in Head |-> IF h = 1 THEN "passed" ELSE "running"]
    /\ merger = [by |-> Nobody, gated |-> FALSE, told |-> FALSE]
    /\ mirror = Observed
    /\ run = [state |-> "under_review", version |-> 1]
    /\ escalated = FALSE
    /\ claim = [k \in Key |-> "free"]
    /\ spent = [k \in Key |-> {}]
    /\ req = [r \in Request |-> Fresh]
    /\ rec = [c \in Reconciler |-> Idle]
    /\ receded = FALSE
    /\ faults = 0

-----------------------------------------------------------------------------
\* FEATURE_EXECUTION_MATRIX among the states here.
Matrix ==
    {<<"under_review", "approved_by_policy">>,
     <<"approved_by_policy", "merge_ready">>, <<"merge_ready", "merged">>,
     <<"merge_ready", "merge_failed">>, <<"merge_failed", "under_review">>,
     <<"human_required", "under_review">>}
    \cup ({"under_review", "approved_by_policy", "merge_ready",
           "merge_failed"} \X {"human_required"})

\* A command finds the run at the expected version and in a state that may
\* move to the new one.
Accepts(version, to) == run.version = version /\ <<run.state, to>> \in Matrix

Move(to) == run' = [state |-> to, version |-> run.version + 1]

\* evaluateMergeGate on what the mirror shows.  Findings, labels, budget,
\* approvals and mergeability may reject as well, see Refuse.
GatePasses == mirror.status = "open" /\ mirror.ci = "passed"

At(r, pc) == req[r].pc = pc
Goto(r, pc) == req' = [req EXCEPT ![r].pc = pc]
Spent(r, name) == name \in spent[KeyOf[r]]
\* On with the version alone: nothing else is read again.
Onward(r, pc) == [Fresh EXCEPT !.pc = pc, !.version = req[r].version]
Reply(r, reply) ==
    req' = [req EXCEPT ![r] = [Fresh EXCEPT !.pc = "answer", !.reply = reply]]
Store(r, name) == spent' = [spent EXCEPT ![KeyOf[r]] = @ \cup {name}]

\* Mutant of HasMerged: mergeSucceeded is set once the merge is recorded.
HasRecorded(r) == At(r, "answer") /\ req[r].reply = "merged"

\* mergeSucceeded
HasMerged(r) == At(r, "record") \/ (At(r, "answer") /\ req[r].reply = "merged")

\* Mutant of Catch: past the point of no return, the key is answered.
AnswerAnyway(r) ==
    IF HasMerged(r) THEN Reply(r, "merged")
    ELSE req' = [req EXCEPT ![r] = [Gone EXCEPT !.pc = "release"]]

\* An error in the try block releases the claim, but not past the point of no
\* return.
Catch(r) ==
    req' = [req EXCEPT ![r] = IF HasMerged(r) THEN Gone
                              ELSE [Gone EXCEPT !.pc = "release"]]

-----------------------------------------------------------------------------
(* The claim                                                               *)

\* Mutant of Claimable: only a stored answer stops a second request.
Unanswered(k) == claim[k] \in {"free", "pending"}

\* INSERT ... ON CONFLICT DO NOTHING inserts a row.
Claimable(k) == claim[k] = "free"

Claim(r) ==
    /\ At(r, "idle") /\ Claimable(KeyOf[r])
    /\ claim' = [claim EXCEPT ![KeyOf[r]] = "pending"]
    /\ Goto(r, "read")
    /\ UNCHANGED <<pull, rows, spent, rec, receded, faults>>

\* The stored answer is replayed, or 409 request-in-progress.
TurnAway(r) ==
    /\ At(r, "idle") /\ ~Claimable(KeyOf[r])
    /\ Goto(r, "done")
    /\ UNCHANGED <<pull, rows, keys, rec, receded, faults>>

\* fulfillRouteIdempotencyKey
Answer(r) ==
    /\ At(r, "answer")
    /\ claim' = [claim EXCEPT ![KeyOf[r]] = req[r].reply]
    /\ req' = [req EXCEPT ![r] = Gone]
    /\ UNCHANGED <<pull, rows, spent, rec, receded, faults>>

\* releaseRouteIdempotencyKey, from the outer catch
Release(r) ==
    /\ At(r, "release")
    /\ claim' = [claim EXCEPT ![KeyOf[r]] = "free"]
    /\ req' = [req EXCEPT ![r] = Gone]
    /\ UNCHANGED <<pull, rows, spent, rec, receded, faults>>

-----------------------------------------------------------------------------
(* From the claim to merge_ready                                           *)

\* The version is read before the head; a run that moves in between only makes
\* Ready fail.
ReadRun(r) ==
    /\ At(r, "read")
    /\ req' = [req EXCEPT ![r].pc = "gate", ![r].version = run.version,
                          ![r].head = mirror.head]
    /\ UNCHANGED <<pull, rows, keys, rec, receded, faults>>

\* The executor finds the stored result of {key}:merge-ready.
Replay(r) ==
    /\ At(r, "gate") /\ Spent(r, "ready")
    /\ Goto(r, "recheck")
    /\ UNCHANGED <<pull, rows, keys, rec, receded, faults>>

\* The first transaction of MergeIfReadyHandler.
Gate(r) ==
    /\ At(r, "gate") /\ ~Spent(r, "ready") /\ GatePasses
    /\ req' = [req EXCEPT ![r].pc = "ready", ![r].gated = TRUE]
    /\ UNCHANGED <<pull, rows, keys, rec, receded, faults>>

Refuse(r) ==
    /\ At(r, "gate") /\ ~Spent(r, "ready")
    /\ Reply(r, "refused")
    /\ UNCHANGED <<pull, rows, keys, rec, receded, faults>>

\* The second transaction; it throws when the run has moved.
Ready(r) ==
    /\ At(r, "ready")
    /\ \/ /\ Accepts(req[r].version, "merge_ready")
          /\ Move("merge_ready") /\ Store(r, "ready") /\ Goto(r, "recheck")
       \/ /\ ~Accepts(req[r].version, "merge_ready")
          /\ Catch(r) /\ UNCHANGED <<run, spent>>
    /\ UNCHANGED <<pull, mirror, escalated, claim, rec, receded, faults>>

\* Reads the run again and insists on merge_ready.
Recheck(r) ==
    /\ At(r, "recheck")
    /\ \/ /\ run.state = "merge_ready"
          /\ req' = [req EXCEPT ![r].pc = "merge", ![r].version = run.version]
       \/ run.state # "merge_ready" /\ Catch(r)
    /\ UNCHANGED <<pull, rows, keys, rec, receded, faults>>

-----------------------------------------------------------------------------
(* mergePullRequest                                                        *)

\* Mutant of HeadMatches: merge without the expected sha.
AnyHead(head) == TRUE

\* GitHub and GitLab compare the head with the expected sha; Gitea's request has
\* no such parameter.
HeadMatches(head) == forge.provider # "gitea" => forge.head = head

CanMerge(head) == forge.status = "open" /\ HeadMatches(head)

\* GitLab's client has the branch rebased first when the method is rebase, and
\* then expects the sha from before.
Rebase(r) ==
    /\ At(r, "merge") /\ forge.provider = "gitlab"
    /\ forge.status = "open" /\ forge.head < MaxHead
    /\ forge' = [forge EXCEPT !.head = @ + 1]
    /\ UNCHANGED <<tests, merger, rows, keys, req, rec, receded, faults>>

MergedBy(by, gated, told) ==
    /\ forge' = [forge EXCEPT !.status = "merged"]
    /\ merger' = [by |-> by, gated |-> gated, told |-> told]
    /\ UNCHANGED tests

Merge(r) ==
    /\ At(r, "merge") /\ CanMerge(req[r].head)
    /\ MergedBy(r, req[r].gated, TRUE)
    /\ req' = [req EXCEPT ![r] = Onward(r, "record")]
    /\ UNCHANGED <<rows, keys, rec, receded, faults>>

\* 409 (GitLab: 406): the head is not the expected one; 405, 422 and whatever
\* Gitea rejects: branch protection, a conflict, or a pull request not open.
Reject(r) ==
    /\ At(r, "merge")
    /\ \E clearable \in BOOLEAN :
         /\ clearable => forge.status = "open" /\ ~HeadMatches(req[r].head)
         /\ req' = [req EXCEPT ![r] =
                        [Onward(r, "fail") EXCEPT !.clearable = clearable]]
    /\ UNCHANGED <<pull, rows, keys, rec, receded, faults>>

\* The forge merges, the connection breaks (Gitea: or the request for the merge
\* commit fails), and the client throws an error that is not a rejection.
LoseAnswer(r) ==
    /\ faults < MaxFaults
    /\ At(r, "merge") /\ CanMerge(req[r].head)
    /\ faults' = faults + 1
    /\ MergedBy(r, req[r].gated, FALSE)
    /\ Catch(r)
    /\ UNCHANGED <<rows, keys, rec, receded>>

-----------------------------------------------------------------------------
(* Recording the outcome                                                   *)

\* {key}:record-merged cannot have a stored result: a key that has merged is
\* not claimed again.
RecordMerged(r) ==
    /\ At(r, "record")
    /\ \/ /\ Accepts(req[r].version, "merged")
          /\ Move("merged")
          /\ mirror' = [mirror EXCEPT !.status = "merged"]
          /\ Reply(r, "merged")
       \/ /\ ~Accepts(req[r].version, "merged")
          /\ Catch(r) /\ UNCHANGED <<run, mirror>>
    /\ UNCHANGED <<pull, escalated, keys, rec, receded, faults>>

\* The rejection is recorded, then acted on, then answered.
Continue(r) ==
    IF At(r, "fail") THEN Goto(r, "refetch") ELSE Reply(r, "refused")

\* A command of request r under the key {key}:{name}: replayed when its result
\* is stored, else it moves the run or throws.
FollowUp(r, name, to) ==
    \/ /\ Spent(r, name)
       /\ Continue(r) /\ UNCHANGED <<run, spent>>
    \/ /\ ~Spent(r, name) /\ Accepts(req[r].version, to)
       /\ Move(to) /\ Store(r, name) /\ Continue(r)
    \/ /\ ~Spent(r, name) /\ ~Accepts(req[r].version, to)
       /\ Catch(r) /\ UNCHANGED <<run, spent>>

RecordMergeFailed(r) ==
    /\ At(r, "fail")
    /\ FollowUp(r, "failed", "merge_failed")
    /\ UNCHANGED <<pull, mirror, escalated, claim, rec, receded, faults>>

Refetch(r) ==
    /\ At(r, "refetch")
    /\ req' = [req EXCEPT ![r].pc = "settle", ![r].version = run.version]
    /\ UNCHANGED <<pull, rows, keys, rec, receded, faults>>

\* ReconcileMergeFailedCommand or EscalateToHumanCommand
Settle(r) ==
    /\ At(r, "settle")
    /\ IF req[r].clearable
       THEN FollowUp(r, "reconcile", "under_review")
       ELSE FollowUp(r, "escalate", "human_required")
    /\ UNCHANGED <<pull, mirror, escalated, claim, rec, receded, faults>>

\* A statement, or a call that has no effect, fails.
Throw(r) ==
    /\ faults < MaxFaults /\ req[r].pc \in Inside
    /\ faults' = faults + 1
    /\ Catch(r)
    /\ UNCHANGED <<pull, rows, keys, rec, receded>>

\* The process dies, or the release itself fails.
Crash(r) ==
    /\ faults < MaxFaults /\ req[r].pc \in Inside \cup {"release"}
    /\ faults' = faults + 1
    /\ req' = [req EXCEPT ![r] = Gone]
    /\ UNCHANGED <<pull, rows, keys, rec, receded>>

-----------------------------------------------------------------------------
(* Reconciliation: one observation is fetched, then mirrored twice         *)

Fetch(c) ==
    /\ rec[c].step = "idle"
    /\ rec' = [rec EXCEPT ![c].step = "sync", ![c].saw = Observed]
    /\ UNCHANGED <<pull, rows, keys, req, receded, faults>>

\* syncPullRequestObservedState: the row is overwritten, whatever it shows.
Mirrors(saw) ==
    /\ mirror' = saw
    /\ receded' = IF saw.head < mirror.head THEN TRUE ELSE receded

\* Reads the run, then syncs the row.  A run that moves in between only makes
\* Escalate fail.
Sync(c) ==
    /\ rec[c].step = "sync"
    /\ Mirrors(rec[c].saw)
    /\ LET lost == /\ rec[c].saw.status = "closed"
                   /\ run.state \notin {"merged", "human_required"}
       IN  rec' = [rec EXCEPT ![c].step = IF lost THEN "act" ELSE "resync",
                              ![c].version = IF lost THEN run.version ELSE 1]
    /\ UNCHANGED <<pull, run, escalated, keys, req, faults>>

\* The pull request was closed without a merge.  The key names only the run, so
\* a second escalation is a replay.
Escalate(c) ==
    /\ rec[c].step = "act"
    /\ \/ escalated /\ UNCHANGED <<run, escalated>>
       \/ /\ ~escalated /\ Accepts(rec[c].version, "human_required")
          /\ Move("human_required") /\ escalated' = TRUE
    /\ rec' = [rec EXCEPT ![c].step = "resync", ![c].version = 1]
    /\ UNCHANGED <<pull, mirror, keys, req, receded, faults>>

\* The run has moved: the reconciliation throws and syncs no more.
EscalateFails(c) ==
    /\ rec[c].step = "act"
    /\ ~escalated /\ ~Accepts(rec[c].version, "human_required")
    /\ rec' = [rec EXCEPT ![c] = Idle]
    /\ UNCHANGED <<pull, rows, keys, req, receded, faults>>

Resync(c) ==
    /\ rec[c].step = "resync"
    /\ Mirrors(rec[c].saw)
    /\ rec' = [rec EXCEPT ![c] = Idle]
    /\ UNCHANGED <<pull, run, escalated, keys, req, faults>>

-----------------------------------------------------------------------------
(* The forge and the people                                                *)

Push ==
    /\ forge.status = "open" /\ forge.head < MaxHead
    /\ forge' = [forge EXCEPT !.head = @ + 1]
    /\ UNCHANGED <<tests, merger, rows, keys, req, rec, receded, faults>>

CiEnds ==
    /\ \E h \in 1 .. forge.head, result \in {"passed", "failed"} :
         /\ tests[h] = "running"
         /\ tests' = [tests EXCEPT ![h] = result]
    /\ UNCHANGED <<forge, merger, rows, keys, req, rec, receded, faults>>

Close ==
    /\ forge.status = "open"
    /\ forge' = [forge EXCEPT !.status = "closed"]
    /\ UNCHANGED <<tests, merger, rows, keys, req, rec, receded, faults>>

Reopen ==
    /\ forge.status = "closed"
    /\ forge' = [forge EXCEPT !.status = "open"]
    /\ UNCHANGED <<tests, merger, rows, keys, req, rec, receded, faults>>

\* Somebody merges at the forge, past MiniCoder.
MergeByHand ==
    /\ forge.status = "open"
    /\ MergedBy(Nobody, FALSE, FALSE)
    /\ UNCHANGED <<rows, keys, req, rec, receded, faults>>

\* run-merge-gate.  Its two transactions are one step: the second compares the
\* version, and Gate looks at the mirror again.
Approve ==
    /\ run.state = "under_review" /\ GatePasses
    /\ run.version < MaxVersion
    /\ Move("approved_by_policy")
    /\ UNCHANGED <<pull, mirror, escalated, keys, req, rec, receded, faults>>

\* ResumeFeatureExecutionCommand
Resume ==
    /\ run.state = "human_required"
    /\ run.version < MaxVersion
    /\ Move("under_review")
    /\ UNCHANGED <<pull, mirror, escalated, keys, req, rec, receded, faults>>

\* Mutant of Confirmed: the recovery trusts its caller.
Trusted == TRUE

Confirmed == forge.status = "merged"

\* finalize-if-github-merged reads the run, asks the forge and records.  It is
\* one step: the record compares the version, and a merge at the forge is final.
Finalize ==
    /\ run.state = "merge_ready" /\ Confirmed
    /\ Move("merged")
    /\ mirror' = [mirror EXCEPT !.status = "merged"]
    /\ UNCHANGED <<pull, escalated, keys, req, rec, receded, faults>>

-----------------------------------------------------------------------------
Serve(r) ==
    \/ Claim(r) \/ TurnAway(r) \/ Answer(r) \/ Release(r)
    \/ ReadRun(r) \/ Replay(r) \/ Gate(r) \/ Refuse(r) \/ Ready(r)
    \/ Recheck(r) \/ Rebase(r) \/ Merge(r) \/ Reject(r) \/ LoseAnswer(r)
    \/ RecordMerged(r) \/ RecordMergeFailed(r) \/ Refetch(r) \/ Settle(r)
    \/ Throw(r) \/ Crash(r)

Reconcile(c) ==
    Fetch(c) \/ Sync(c) \/ Escalate(c) \/ EscalateFails(c) \/ Resync(c)

People ==
    \/ Push \/ CiEnds \/ Close \/ Reopen \/ MergeByHand
    \/ Approve \/ Resume \/ Finalize

Next ==
    \/ \E r \in Request : Serve(r)
    \/ \E c \in Reconciler : Reconcile(c)
    \/ People

Spec == Init /\ [][Next]_vars

-----------------------------------------------------------------------------
(* Properties                                                              *)

Working(r) == req[r].pc \notin {"idle", "done"}

\* Two requests with one key are never both at work between the claim and its
\* answer or release, so no merge call is made beside another one of its key.
OneOwnerPerKey ==
    \A q, r \in Request :
        q # r /\ KeyOf[q] = KeyOf[r] => ~(Working(q) /\ Working(r))

\* A run is recorded as merged only when the forge has merged it: neither a
\* replayed result, nor the recovery route, nor a rival's outcome records a
\* merge that did not happen.
MergedAtTheForge == run.state = "merged" => forge.status = "merged"

\* Once a request has been told that its call merged, its key is never free
\* again: a retry neither merges again nor takes the merge for a failure.
PointOfNoReturn ==
    merger.told => claim[KeyOf[merger.by]] \in {"pending", "merged"}

\* What a key answers is what happened: "merged" is stored only when a request
\* of this key merged and the run says so.
AnswersAreTrue ==
    \A k \in Key : claim[k] = "merged" =>
        /\ run.state = "merged"
        /\ merger.by \in Request /\ KeyOf[merger.by] = k

\* Where the forge compares the head, who went through the gate merges a tested commit,
\* although the commit was read before the gate read the mirror, and however many
\* reconciliations overlap.  Exempt is a mirror that one of them has ever set back to an
\* older head: nothing keeps the older observation from being written last, and between
\* the two reads it lets the gate judge another commit than the one that is merged.
GatedMergeWasTested ==
    merger.gated /\ forge.provider # "gitea" /\ ~receded => tests[forge.head] = "passed"
=============================================================================
