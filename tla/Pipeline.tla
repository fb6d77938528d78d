------------------------------ MODULE Pipeline ------------------------------
(***************************************************************************)
(* The automation tasks that drive feature runs through the commands of    *)
(* FeatureExecution: start-next-feature, run-coder, run-review and         *)
(* run-merge-gate (triggerdev/src/tasks).  An invocation is a sequence of  *)
(* steps: it reads the run, calls an agent, takes the execution lane and   *)
(* dispatches commands, and any other invocation, a webhook or a human may *)
(* step in between, or the worker may die.                                 *)
(*                                                                         *)
(* Two mechanisms keep the invocations apart.  A command carries the       *)
(* version of the run its task read; here a task knows whether that read   *)
(* is still current.  And a command carries an idempotency key: a recorded *)
(* key replays its result without looking at anything else (Once).  The    *)
(* cache keeps a key for a week; the model covers one such week.           *)
(*                                                                         *)
(* Coding and fixing also take the execution lane.  Its lease may run out  *)
(* at any time, so what is claimed here has to hold without it: a task     *)
(* that fails to get the lane or to pass the fence ends (Quit), and what   *)
(* the lane adds is in WorkflowLocks.                                      *)
(***************************************************************************)
EXTENDS FeatureExecution, Sequences

CONSTANTS
    Worker,      \* task workers, each running one invocation at a time
    MaxCommits   \* bound: commits on a run's branch

ASSUME PipelineAssumption == MaxCommits \in Nat

VARIABLES
    task,     \* task[w]: the invocation w is executing
    keys,     \* idempotency_keys, those that do not name a run's version
    branch,   \* branch[f]: who made each commit of minicoder/<run>
    prs,      \* runs with a pull request at the forge
    mirror,   \* pull_requests.head_sha: the last commit observed, 0 for none
    cleared   \* review_occurrence_markers: a review found that commit clean

forge == <<branch, prs>>
observed == <<mirror, cleared>>
pipelineVars == <<vars, task, keys, forge, observed>>

Idle == [at |-> "idle"]

\* The steps an invocation stops at.  The fields of its record:
\*   current  the version of the run it last read has not moved on
\*   fixes    the fix attempts it read, which tell review cycles apart
\*   cycle    what became of the review cycle it reserved by reading it
\*   given    it handed the run's open findings to the coder
\*   commit   the commit it works from, pushed, or reviews
Step == {"start coding", "clone", "push", "record push", "open pr", "review",
         "dispute", "arbiter", "clear", "request", "escalate", "start fixing"}

Task == [at : Step, run : Feature, current : BOOLEAN, fixes : 0 .. FixThreshold,
         cycle : {"free", "written", "requested"}, given : BOOLEAN,
         commit : 0 .. MaxCommits]

PipelineTypeOK ==
    /\ TypeOK
    /\ task \in [Worker -> Task \cup {Idle}]
    /\ keys \subseteq {"select", "start", "push", "escalate"}
                          \X Feature \X (0 .. MaxCommits)
    /\ branch \in [Feature -> Seq({"coder", "human"})]
    /\ \A f \in Feature : Len(branch[f]) <= MaxCommits
    /\ prs \subseteq Feature
    /\ mirror \in [Feature -> 0 .. MaxCommits]
    /\ cleared \in [Feature -> BOOLEAN]

PipelineInit ==
    /\ Init
    /\ task = [w \in Worker |-> Idle]
    /\ keys = {}
    /\ branch = [f \in Feature |-> <<>>]
    /\ prs = {}
    /\ mirror = [f \in Feature |-> 0]
    /\ cleared = [f \in Feature |-> FALSE]

-----------------------------------------------------------------------------
(* Versions and idempotency keys                                           *)

\* Every transition of a run moves its version, and no transition leads from a
\* state to itself.
Moved(f) == state'[f] # state[f]

Aged(v) ==
    IF task[v] = Idle THEN Idle
    ELSE [task[v] EXCEPT !.current = @ /\ ~Moved(task[v].run)]

\* w goes on as t; the versions the others read may be out of date now.
Continue(w, t) == task' = [v \in Worker |-> IF v = w THEN t ELSE Aged(v)]

\* The same for a step that writes review findings: whoever read the same
\* MAX(review_cycle) before it shares the cycle it used.
ContinueWriting(w, t, how) ==
    task' = [v \in Worker |->
                IF v = w THEN t
                ELSE IF task[v] = Idle \/ task[v].run # task[w].run THEN Aged(v)
                ELSE [Aged(v) EXCEPT !.cycle = IF @ = "requested" THEN @ ELSE how]]

Others == task' = [v \in Worker |-> Aged(v)]

\* An invocation as it stands after the reads it begins with; a field that
\* its later steps do not use keeps the value it has here.
Begun(step, f) ==
    [at |-> step, run |-> f, current |-> TRUE, fixes |-> 0, cycle |-> "free",
     given |-> FALSE, commit |-> 0]

Begin(w, t) ==
    /\ task[w] = Idle
    /\ UNCHANGED <<vars, keys, forge, observed>>
    /\ Continue(w, t)

At(w, step) == task[w] # Idle /\ task[w].at = step

\* A verdict needs no commit, and clearing one no version.
To(w, step) ==
    [task[w] EXCEPT !.at = step,
                    !.current = @ /\ step # "clear",
                    !.fixes = IF step = "clear" THEN 0 ELSE @,
                    !.commit = IF step \in {"request", "escalate"} THEN 0 ELSE @]

\* TransactionalCommandExecutor and claimIdempotencyKey: a recorded key ends
\* the command with the recorded result, before any of its guards is read; a
\* handler that rejects rolls its own claim back.
Once(key, Command) ==
    \/ key \notin keys /\ Command /\ keys' = keys \cup {key}
    \/ key \in keys /\ UNCHANGED <<vars, keys>>

\* Mutant of Fresh: the version is not compared.
Blind(w) == TRUE

\* assertVersion.
Fresh(w) == task[w].current

\* The process dies, an agent or the forge fails, the budget check stops the
\* task, the lane is taken, or a command rejects: the invocation ends where it
\* is.  A task queue may begin it anew.
Quit(w) ==
    /\ task[w] # Idle
    /\ task' = [task EXCEPT ![w] = Idle]
    /\ UNCHANGED <<vars, keys, forge, observed>>

-----------------------------------------------------------------------------
(* start-next-feature                                                      *)

\* A run that was selected and not started is picked up again; otherwise the
\* invocation names a run, or takes the next eligible one, and selects it.  The
\* keys of both commands are fixed for the run.  Where a task reads a version
\* and dispatches at once, the two are one step: a version that moves between
\* them makes the command reject.
StartNextFeature(w, f) ==
    /\ task[w] = Idle /\ automation = "running"
    /\ \/ active = f /\ state[f] = "selected" /\ UNCHANGED <<vars, keys>>
       \/ Once(<<"select", f, 0>>, SelectFeature(f))
    /\ Continue(w, [Begun("start coding", f) EXCEPT !.current = FALSE])
    /\ UNCHANGED <<forge, observed>>

\* The version is read again in the lane.
DispatchStartCoding(w) ==
    /\ At(w, "start coding")
    /\ LET f == task[w].run IN Once(<<"start", f, 0>>, StartCoding(f))
    /\ Continue(w, Idle)
    /\ UNCHANGED <<forge, observed>>

-----------------------------------------------------------------------------
(* run-coder and the coder's workspace                                     *)

RunCoder(w, f) ==
    /\ state[f] \in {"coding", "fixing"}
    /\ Begin(w, [Begun("clone", f) EXCEPT
                    !.current = FALSE,
                    !.given = state[f] = "fixing" /\ unresolved[f]])

\* prepareBranch: a fresh clone, on the run's branch if the forge has it.
PrepareBranch(w) ==
    /\ At(w, "clone")
    /\ UNCHANGED <<vars, keys, forge, observed>>
    /\ Continue(w, [To(w, "push") EXCEPT !.commit = Len(branch[task[w].run])])

\* findExistingRunCommit: the commit carries the run's trailer, as each of the
\* coder's commits for the run does.
Existing(f, n) == n > 0 /\ branch[f][n] = "coder"

\* Mutant of FastForward: a forced push.
ForcedPush(f, n) == TRUE

\* The forge accepts a push that builds on what it has.
FastForward(f, n) == Len(branch[f]) = n

\* commitAndPush: a clone whose last commit carries the trailer is taken for
\* the work of an earlier attempt; otherwise the files are committed, pushed.
CommitAndPush(w) ==
    /\ At(w, "push")
    /\ UNCHANGED <<vars, keys, prs, observed>>
    /\ LET f == task[w].run
           n == task[w].commit
       IN  \/ /\ Existing(f, n)
              /\ Continue(w, To(w, "record push"))
              /\ UNCHANGED branch
           \/ /\ ~Existing(f, n) /\ FastForward(f, n) /\ Len(branch[f]) < MaxCommits
              /\ branch' = [branch EXCEPT ![f] = Append(@, "coder")]
              /\ Continue(w, [To(w, "record push") EXCEPT !.commit = Len(branch[f]) + 1])

DispatchCodePushed(w) ==
    /\ At(w, "record push")
    /\ LET f == task[w].run
       IN  Once(<<"push", f, task[w].commit>>, RecordCodePushed(f, task[w].given))
    /\ Continue(w, [Begun("open pr", task[w].run) EXCEPT !.current = FALSE])
    /\ UNCHANGED <<forge, observed>>

\* A failure here is logged and nothing tries again.
CreatePullRequest(w) ==
    /\ At(w, "open pr")
    /\ UNCHANGED <<vars, keys, branch, observed>>
    /\ prs' = prs \cup {task[w].run}
    /\ Continue(w, Idle)

-----------------------------------------------------------------------------
(* run-review                                                              *)

\* A commit that a review found clean is not reviewed again; a run at
\* changes_requested only needs its second command.
RunReview(w, f) ==
    \/ /\ state[f] = "under_review" /\ tracked[f]
       /\ ~cleared[f]
       /\ Begin(w, [Begun("review", f) EXCEPT !.fixes = fixes[f],
                                              !.commit = mirror[f]])
    \/ /\ state[f] = "changes_requested"
       /\ Begin(w, Begun("start fixing", f))

\* The reviewer answers: nothing that blocks, a finding that needs a human, a
\* blocking one, or a blocking one that an earlier review had already raised.
Judge(w) ==
    /\ At(w, "review")
    /\ UNCHANGED <<vars, keys, forge, observed>>
    /\ \E next \in {"clear", "escalate", "request", "dispute"} :
           /\ next \in {"request", "dispute"} => task[w].fixes < FixThreshold
           /\ Continue(w, To(w, next))

InsertDisagreement(w) ==
    /\ At(w, "dispute")
    /\ \/ OpenDispute(task[w].run)
       \/ UNCHANGED vars  \* another review of the cycle has inserted it
    /\ Continue(w, To(w, "arbiter"))
    /\ UNCHANGED <<keys, forge, observed>>

\* The arbiter escalates, upholds the finding, or dismisses it.
Arbitrate(w) ==
    /\ At(w, "arbiter")
    /\ \E open \in BOOLEAN, next \in {"escalate", "request", "clear"} :
           /\ next = "escalate" => open
           /\ ArbiterRules(task[w].run, open)
           /\ Continue(w, To(w, next))
    /\ UNCHANGED <<keys, forge, observed>>

\* One transaction writes the remaining findings and the marker.  It checks
\* neither the run's version nor its state.
ClearReview(w) ==
    /\ At(w, "clear")
    /\ UNCHANGED <<vars, keys, forge, mirror>>
    /\ LET f == task[w].run
       IN  /\ cleared' = [cleared EXCEPT ![f] = @ \/ task[w].commit = mirror[f]]
           /\ Continue(w, Idle) \/ ContinueWriting(w, Idle, "written")

\* insertReviewFindings leaves rows that another review wrote for the same
\* cycle and position.
Kept(w) == IF task[w].cycle = "free" THEN {TRUE} ELSE BOOLEAN

\* The key names the review cycle, which MAX(review_cycle) + 1 gave.
RequestChanges(w) ==
    /\ At(w, "request")
    /\ LET f == task[w].run
       IN  \/ /\ task[w].cycle # "requested" /\ Fresh(w)
              /\ \E found \in Kept(w) : RecordChangesRequested(f, found)
              /\ ContinueWriting(w, Begun("start fixing", f), "requested")
           \/ /\ task[w].cycle = "requested"
              /\ UNCHANGED vars
              /\ Continue(w, Begun("start fixing", f))
    /\ UNCHANGED <<keys, forge, observed>>

\* dispatchEscalation: its key is fixed for the run.
DispatchEscalation(w) ==
    /\ At(w, "escalate")
    /\ LET f == task[w].run
           key == <<"escalate", f, 0>>
       IN  /\ Once(key, Fresh(w) /\ \E found \in Kept(w) : EscalateReview(f, found))
           /\ IF key \in keys THEN Continue(w, Idle)
              ELSE ContinueWriting(w, Idle, "written")
    /\ UNCHANGED <<forge, observed>>

\* The second half of advanceToFixing.  The key names the version.
DispatchStartFixing(w) ==
    /\ At(w, "start fixing")
    /\ Fresh(w) /\ StartFixing(task[w].run)
    /\ Continue(w, Idle)
    /\ UNCHANGED <<keys, forge, observed>>

-----------------------------------------------------------------------------
(* run-merge-gate: its command is all that it writes                       *)

RunMergeGate(f) ==
    /\ RecordApprovedByPolicy(f)
    /\ Others
    /\ UNCHANGED <<keys, forge, observed>>

-----------------------------------------------------------------------------
(* What happens around the tasks                                           *)

\* Someone else commits to the branch.
HumanPush(f) ==
    /\ branch[f] # <<>> /\ Len(branch[f]) < MaxCommits
    /\ branch' = [branch EXCEPT ![f] = Append(@, "human")]
    /\ UNCHANGED <<vars, task, keys, prs, observed>>

\* A webhook or the reconciliation task looks at the pull request, mirrors its
\* head, and may move the run.
ObservePullRequest(f) ==
    /\ f \in prs
    /\ Reconcile(f) \/ RecordChangesRequested(f, FALSE) \/ UNCHANGED vars
    /\ tracked'[f]
    /\ mirror' = [mirror EXCEPT ![f] = Len(branch[f])]
    /\ cleared' = [cleared EXCEPT ![f] = @ /\ mirror'[f] = mirror[f]]
    /\ Others
    /\ UNCHANGED <<keys, forge>>

MergeRun(f) ==
    \/ MergeIfReady(f) \/ RecordMerged(f) \/ RecordMergeFailed(f)
    \/ ReconcileMergeFailed(f) \/ EscalateMergeFailed(f)

\* The merge route and the humans, whose commands are not cached across
\* versions.  A pause only makes a task end early, as Quit does.
Intervene ==
    /\ \E f \in Feature : MergeRun(f) \/ Human(f)
    /\ Others
    /\ UNCHANGED <<keys, forge, observed>>

-----------------------------------------------------------------------------
TriggerTask(w, f) ==
    \/ StartNextFeature(w, f) \/ RunCoder(w, f) \/ RunReview(w, f)

RunStep(w) ==
    \/ DispatchStartCoding(w)
    \/ PrepareBranch(w) \/ CommitAndPush(w) \/ DispatchCodePushed(w)
    \/ CreatePullRequest(w)
    \/ Judge(w) \/ InsertDisagreement(w) \/ Arbitrate(w) \/ ClearReview(w)
    \/ RequestChanges(w) \/ DispatchEscalation(w) \/ DispatchStartFixing(w)

PipelineNext ==
    \/ \E w \in Worker : (\E f \in Feature : TriggerTask(w, f))
                           \/ RunStep(w) \/ Quit(w)
    \/ \E f \in Feature : RunMergeGate(f) \/ HumanPush(f) \/ ObservePullRequest(f)
    \/ Intervene

PipelineSpec == PipelineInit /\ [][PipelineNext]_pipelineVars

-----------------------------------------------------------------------------
(* Properties                                                              *)

\* A retried or a rival coder never commits the same work twice: no commit of
\* the coder follows another one directly (findExistingRunCommit, and a push
\* from a stale clone that the forge rejects).
NoCommitTwice ==
    \A f \in Feature : \A n \in 1 .. Len(branch[f]) - 1 :
        branch[f][n] = "coder" => branch[f][n + 1] # "coder"

\* What the database takes for pushed work is at the forge, and the coder made
\* it: crash, retry and a human's commits on the branch do not blur that.
RecordedIsTheCoders ==
    \A f \in Feature, n \in 0 .. MaxCommits : <<"push", f, n>> \in keys =>
        n \in DOMAIN branch[f] /\ branch[f][n] = "coder"

\* A verdict moves a run only in the fix cycle that was reviewed, however long
\* the reviewer and the arbiter took and whatever happened meanwhile.
VerdictsAreCurrent ==
    [][\A w \in Worker :
           /\ RequestChanges(w) \/ DispatchEscalation(w)
           /\ Moved(task[w].run)
           => task[w].fixes = fixes[task[w].run]]_pipelineVars

\* docs/00-glossary-and-terms.md 2.3: a fix always flows from fixing to
\* code_pushed.  So when run-coder reports a push the run has left fixing.
FixIsPushed ==
    [][\A w \in Worker :
           At(w, "record push") /\ DispatchCodePushed(w)
           => state'[task[w].run] \notin {"coding", "fixing"}]_pipelineVars
=============================================================================
