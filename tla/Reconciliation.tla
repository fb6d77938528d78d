---------------------------- MODULE Reconciliation ----------------------------
(***************************************************************************)
(* How what happens at the forge reaches the feature runs                  *)
(* (core/src/scm/reconcile.ts).  A pass starts from a webhook or from the  *)
(* scheduled github-reconciliation task.  It fetches the pull request in   *)
(* several requests, then reads the run, copies what it saw to the         *)
(* pull_requests row (the mirror) and dispatches command after command     *)
(* until nothing more follows from what it saw.  Between any two of these  *)
(* steps the forge, another pass or another command may go ahead.          *)
(*                                                                         *)
(* A command is guarded by the version the pass expects and by a key that  *)
(* names the commit or the version it is about.  A recorded key replays    *)
(* its result, and the pass goes on as if the run had just moved: it then  *)
(* expects a version the run does not have yet.                            *)
(*                                                                         *)
(* Deliveries may be lost, late or repeated (EventQueue), so a webhook may *)
(* start a pass at any time.  The lane is in WorkflowLocks: a pass that    *)
(* fails to get it ends (Quit).                                            *)
(***************************************************************************)
EXTENDS FeatureMatrix, Naturals, FiniteSets, Sequences

CONSTANTS
    Feature,       \* feature runs
    Worker,        \* processes that run passes
    FixThreshold,  \* FIX_ATTEMPT_THRESHOLD
    MaxCommits,    \* bound: commits on a run's branch
    Setting        \* bound: triples of a provider, what may happen at the forge
                   \* besides commits and CI, and which moves other commands make

ASSUME ReconciliationAssumption ==
    /\ FixThreshold \in Nat /\ MaxCommits \in Nat
    /\ Setting \subseteq {"github", "gitlab", "gitea"}
                          \X (SUBSET {"close", "object", "rerun"}) \X (SUBSET Matrix)

VARIABLES
    state,      \* feature_runs.current_execution_state
    fixes,      \* feature_runs.fix_attempt_count
    tracked,    \* the run has a pull_requests row
    mirror,     \* its head_sha and ci_status
    keys,       \* idempotency_keys, those that do not name a version
    setting,    \* repositories.provider, what may happen there, who else moves runs
    head,       \* the forge: the last commit of the run's branch
    pull,       \* the forge: its pull request
    objection,  \* the forge: a reviewer's change request stands
    ci,         \* the forge: CI of each commit
    pass        \* pass[w]: the pass that w runs

runs == <<state, fixes, tracked>>
forge == <<setting, head, pull, objection, ci>>
vars == <<runs, mirror, keys, forge, pass>>

provider == setting[1]
happens == setting[2]
elsewhere == setting[3]

Idle == [at |-> "idle"]
MaxSteps == 5  \* MAX_RECONCILE_STEPS: the longest chain, pushed to fixing

CiState == {"none", "running", "passed", "failed"}
CiStatus == {"pending", "running", "passed", "failed"}

\* seen, closed, ci, objected: what the pass fetched.  believed: the state it
\* takes the run to be in.  ahead, missed: how many versions the one it expects
\* is past the run's, or the moves the run made since.  sure: it had no replay.
Pass == [at : {"discover", "task", "event", "read", "step"}, run : Feature,
         seen : 0 .. MaxCommits, closed : BOOLEAN, ci : CiStatus,
         objected : BOOLEAN, lane : BOOLEAN,
         believed : State, ahead : Nat, missed : Seq(State),
         sure : BOOLEAN]

TypeOK ==
    /\ state \in [Feature -> State]
    /\ fixes \in [Feature -> 0 .. FixThreshold]
    /\ tracked \in [Feature -> BOOLEAN]
    /\ mirror \in [Feature -> [head : 0 .. MaxCommits, ci : CiStatus]]
    /\ setting \in Setting
    /\ head \in [Feature -> 0 .. MaxCommits]
    /\ pull \in [Feature -> {"none", "open", "closed"}]
    /\ objection \in [Feature -> BOOLEAN]
    /\ ci \in [Feature -> [1 .. MaxCommits -> CiState]]
    /\ pass \in [Worker -> Pass \cup {Idle}]

\* The runs are being coded: what comes before is in FeatureExecution.
Init ==
    /\ state = [f \in Feature |-> "coding"]
    /\ fixes = [f \in Feature |-> 0]
    /\ tracked = [f \in Feature |-> FALSE]
    /\ mirror = [f \in Feature |-> [head |-> 0, ci |-> "pending"]]
    /\ keys = {}
    /\ setting \in Setting
    /\ head = [f \in Feature |-> 0]
    /\ pull = [f \in Feature |-> "none"]
    /\ objection = [f \in Feature |-> FALSE]
    /\ ci = [f \in Feature |-> [n \in 1 .. MaxCommits |-> "none"]]
    /\ pass = [w \in Worker |-> Idle]

-----------------------------------------------------------------------------
(* Commands and versions                                                   *)

Move(f, to) ==
    /\ <<state[f], to>> \in Matrix
    /\ state' = [state EXCEPT ![f] = to]

Moved(f) == state'[f] # state[f]

\* Every move uses up a version of its run.  A pass that missed more moves than
\* it has commands never catches up: missed stops there.
Aged(w) ==
    LET p == pass[w] IN
    IF p = Idle \/ p.at \notin {"discover", "step"} \/ ~Moved(p.run) THEN p
    ELSE IF p.ahead > 0 THEN [p EXCEPT !.ahead = @ - 1]
    ELSE IF Len(p.missed) < MaxSteps THEN [p EXCEPT !.missed = Append(@, state'[p.run])]
    ELSE p

Continue(w, p) == pass' = [v \in Worker |-> IF v = w THEN p ELSE Aged(v)]
Others == pass' = [w \in Worker |-> Aged(w)]
At(w, step) == pass[w] # Idle /\ pass[w].at = step

\* As if no version were compared.
Blind(w) == TRUE

\* The run still has the version the pass expects.
Fresh(w) == pass[w].ahead = 0 /\ pass[w].missed = <<>>

Recorded(key) == key \in keys

\* The command went through: the run is in `to', at the version expected next.
Done(w, to) == Continue(w, [pass[w] EXCEPT !.believed = to])

\* The answer is an old one.  The pass does as if the command had gone through.
Replay(w, to) ==
    /\ UNCHANGED <<runs, keys>>
    /\ pass' = [pass EXCEPT ![w].believed = to, ![w].sure = FALSE,
                            ![w].ahead = IF pass[w].missed = <<>> THEN @ + 1 ELSE @,
                            ![w].missed = IF @ = <<>> THEN @ ELSE Tail(@)]

Once(w, key, Command, to) ==
    \/ /\ ~Recorded(key) /\ Fresh(w) /\ Command
       /\ keys' = keys \cup {key}
       /\ Done(w, to)
    \/ Recorded(key) /\ Replay(w, to)

\* The key names the version: it is recorded if the move the run made from that
\* version is the one this command makes.
OncePerVersion(w, Command, to) ==
    \/ /\ Fresh(w) /\ Command /\ UNCHANGED keys /\ Done(w, to)
    \/ /\ pass[w].missed # <<>> /\ Head(pass[w].missed) = to /\ Replay(w, to)

\* What the commands change.  Their handlers look at the pair of states only.
Transit(f, to) == Move(f, to) /\ UNCHANGED <<fixes, tracked>>

CountFix(f) ==
    /\ Move(f, "changes_requested")
    /\ fixes[f] < FixThreshold
    /\ fixes' = [fixes EXCEPT ![f] = @ + 1]
    /\ UNCHANGED tracked

\* A row whose columns are not all reset.
KeptRow(f, n) == [mirror[f] EXCEPT !.head = n]

\* The row that insertPullRequestRow writes for commit n.
NewRow(f, n) == [head |-> n, ci |-> "pending"]

RecordPrOpened(f, n) ==
    /\ Move(f, "pr_opened")
    /\ tracked' = [tracked EXCEPT ![f] = TRUE]
    /\ mirror' = [mirror EXCEPT ![f] = NewRow(f, n)]
    /\ UNCHANGED fixes

-----------------------------------------------------------------------------
(* What starts a pass                                                      *)

\* What events tell of, and how they name the run: by its pull request, or by a
\* commit.  Branch names never help: a branch bears the run's id, and
\* resolveFeatureRunId looks for a request's.
GithubEvents ==
    ({"pull", "push", "review", "ci"} \X {"number"}) \cup ({"push", "ci"} \X {"commit"})
GitlabEvents ==
    ({"pull", "push", "review"} \X {"number"}) \cup ({"push", "ci"} \X {"commit"})
GiteaEvents ==
    ({"pull", "push", "review"} \X {"number"}) \cup ({"push", "ci"} \X {"commit"})

\* An event about commit n finds the run only if the mirror shows n.
Resolves(f, delivery) ==
    tracked[f] /\ (delivery[1][2] = "commit" => mirror[f].head = delivery[2])

\* requiresExecutionLock
Gated == {"code_pushed", "pr_opened", "changes_requested"}

\* The first request shows the pull request and its head.
Begun(step, f, lane) ==
    [at |-> step, run |-> f, seen |-> head[f], closed |-> pull[f] = "closed",
     ci |-> "pending", objected |-> FALSE, lane |-> lane,
     believed |-> "merged", ahead |-> 0, missed |-> <<>>, sure |-> TRUE]

Begin(w, p) ==
    /\ pass[w] = Idle
    /\ pass' = [pass EXCEPT ![w] = p]
    /\ UNCHANGED <<runs, mirror, keys, forge>>

Handle(w, f, events) ==
    /\ {delivery \in events \X (1 .. MaxCommits) : Resolves(f, delivery)} # {}
    /\ Begin(w, Begun("event", f, FALSE))

HandleGithubEvent(w, f) == provider = "github" /\ Handle(w, f, GithubEvents)
HandleGitlabEvent(w, f) == provider = "gitlab" /\ Handle(w, f, GitlabEvents)
HandleGiteaEvent(w, f) == provider = "gitea" /\ Handle(w, f, GiteaEvents)

\* EXCLUDED_STATES
Excluded == {"approved_pending_execution", "selected", "coding", "merged",
             "human_required", "blocked", "failed", "system_failed"}

\* The task decides by the state it listed the run with whether it takes the lane.
ReconcileRun(w, f) ==
    /\ tracked[f] /\ state[f] \notin Excluded
    /\ Begin(w, Begun("task", f, state[f] \in Gated))

DiscoverPull(w, f) ==
    /\ state[f] = "code_pushed" /\ ~tracked[f] /\ pull[f] = "open"
    /\ Begin(w, Begun("discover", f, TRUE))

RecordDiscovery(w) ==
    /\ At(w, "discover")
    /\ LET f == pass[w].run
           key == <<"discovered", f, 0>>
       IN  \/ /\ ~Recorded(key) /\ Fresh(w) /\ RecordPrOpened(f, pass[w].seen)
              /\ keys' = keys \cup {key}
           \/ Recorded(key) /\ UNCHANGED <<runs, mirror, keys>>
    /\ Continue(w, Idle)
    /\ UNCHANGED forge

-----------------------------------------------------------------------------
(* What a pass sees                                                        *)

\* deriveCiStatus, for the CI of commit n.  Gitea has no status for CI that runs.
GithubCi(f, n) == IF ci[f][n] = "none" THEN "pending" ELSE ci[f][n]
GiteaCi(f, n) == IF ci[f][n] \in {"none", "running"} THEN "pending" ELSE ci[f][n]

\* GitLab lists the pipelines of the merge request, of whatever commit, and the
\* first of them, the last one started, counts.
GitlabCi(f) ==
    LET Last(n) == ci[f][n] # "none" /\ \A m \in n + 1 .. head[f] : ci[f][m] = "none"
    IN  IF \E n \in 1 .. head[f] : Last(n)
        THEN ci[f][CHOOSE n \in 1 .. head[f] : Last(n)] ELSE "pending"

Reported(f, n) ==
    CASE n = 0 -> "pending"
      [] n > 0 /\ provider = "github" -> GithubCi(f, n)
      [] n > 0 /\ provider = "gitea" -> GiteaCi(f, n)
      [] n > 0 /\ provider = "gitlab" -> GitlabCi(f)

\* deriveReviewState: somebody who asked for changes has not withdrawn it since.
Blocked(f) == objection[f]

\* The further requests: CI of the commit seen, and the reviews (or, at GitLab,
\* the unresolved discussions).  A webhook's handler then looks at the state.
FetchChecks(w) ==
    /\ At(w, "event") \/ At(w, "task")
    /\ UNCHANGED <<runs, mirror, keys, forge>>
    /\ LET f == pass[w].run
       IN  Continue(w, [pass[w] EXCEPT
               !.at = "read", !.ci = Reported(f, pass[w].seen), !.objected = Blocked(f),
               !.lane = IF At(w, "event") THEN state[f] \in Gated ELSE @])

\* syncPullRequestObservedState
SyncRow(w) ==
    LET f == pass[w].run
    IN  mirror' = [mirror EXCEPT ![f] =
            IF tracked[f] THEN [head |-> pass[w].seen, ci |-> pass[w].ci] ELSE @]

\* The state and the version that the commands go by are read here.
ReadRun(w) ==
    /\ At(w, "read")
    /\ UNCHANGED <<runs, keys, forge>>
    /\ SyncRow(w)
    /\ Continue(w, [pass[w] EXCEPT !.at = "step", !.believed = state[pass[w].run]])

-----------------------------------------------------------------------------
(* runStep: at most one command                                            *)
Terminal == {"merged", "human_required", "blocked", "failed"}

Closed(w) == pass[w].closed /\ pass[w].believed \notin Terminal

In(w, s) == At(w, "step") /\ ~Closed(w) /\ pass[w].believed = s

\* The keys of escalations name the run only.
Escalate(w, kind) ==
    LET f == pass[w].run
    IN  /\ Once(w, <<kind, f, 0>>, Transit(f, "human_required"), "human_required")
        /\ UNCHANGED <<mirror, forge>>

\* fix_attempt_count is read when the step is chosen.
Spent(w) == fixes[pass[w].run] >= FixThreshold

EscalateClosed(w) == At(w, "step") /\ Closed(w) /\ Escalate(w, "closed")
EscalateFailures(w) == In(w, "ci_failed") /\ Spent(w) /\ Escalate(w, "failures")
EscalateReviews(w) ==
    In(w, "under_review") /\ pass[w].objected /\ Spent(w) /\ Escalate(w, "reviews")

OpenPr(w) ==
    /\ In(w, "code_pushed") /\ pass[w].lane
    /\ LET f == pass[w].run
           n == pass[w].seen
           key == <<"opened", f, n>>
       IN  /\ Once(w, key, RecordPrOpened(f, n), "pr_opened")
           /\ Recorded(key) => UNCHANGED mirror
    /\ UNCHANGED forge

\* The keys of the records name the commit the pass saw.
Record(w, kind, to) ==
    LET f == pass[w].run
    IN  /\ Once(w, <<kind, f, pass[w].seen>>, Transit(f, to), to)
        /\ UNCHANGED <<mirror, forge>>

RecordCiRunning(w) ==
    /\ In(w, "pr_opened") /\ pass[w].ci # "pending" /\ pass[w].lane
    /\ Record(w, "running", "ci_running")
RecordCiPassed(w) ==
    In(w, "ci_running") /\ pass[w].ci = "passed" /\ Record(w, "passed", "under_review")
RecordCiFailed(w) ==
    In(w, "ci_running") /\ pass[w].ci = "failed" /\ Record(w, "failed", "ci_failed")

RequestChangesAfterCiFail(w) ==
    /\ In(w, "ci_failed") /\ ~Spent(w)
    /\ OncePerVersion(w, CountFix(pass[w].run), "changes_requested")
    /\ UNCHANGED <<mirror, forge>>

RecordChangesRequested(w) ==
    /\ In(w, "under_review") /\ pass[w].objected /\ ~Spent(w)
    /\ LET f == pass[w].run
       IN  Once(w, <<"changes", f, pass[w].seen>>, CountFix(f), "changes_requested")
    /\ UNCHANGED <<mirror, forge>>

StartFixing(w) ==
    /\ In(w, "changes_requested") /\ pass[w].lane
    /\ OncePerVersion(w, Transit(pass[w].run, "fixing"), "fixing")
    /\ UNCHANGED <<mirror, forge>>

\* A step follows from what the pass saw.
Follows(w) ==
    \/ Closed(w)
    \/ In(w, "code_pushed") \/ In(w, "ci_failed") \/ In(w, "changes_requested")
    \/ In(w, "pr_opened") /\ pass[w].ci # "pending"
    \/ In(w, "ci_running") /\ pass[w].ci \in {"passed", "failed"}
    \/ In(w, "under_review") /\ pass[w].objected

\* No step is left, or one that needs the lane, which the pass then takes to
\* start over with what it fetched.
Finish(w) ==
    /\ At(w, "step")
    /\ UNCHANGED <<runs, keys, forge>>
    /\ SyncRow(w)
    /\ \/ ~Follows(w) /\ Continue(w, Idle)
       \/ /\ Follows(w) /\ ~Closed(w) /\ pass[w].believed \in Gated /\ ~pass[w].lane
          /\ Continue(w, [pass[w] EXCEPT !.at = "read", !.lane = TRUE,
                    !.believed = "merged", !.ahead = 0, !.missed = <<>>, !.sure = TRUE])

\* A request or a command fails, the lane is taken, or the process dies.
Quit(w) ==
    /\ pass[w] # Idle
    /\ pass' = [pass EXCEPT ![w] = Idle]
    /\ UNCHANGED <<runs, mirror, keys, forge>>

-----------------------------------------------------------------------------
(* The forge, and everybody else                                           *)
Push(f) ==
    /\ head[f] < MaxCommits
    /\ head' = [head EXCEPT ![f] = @ + 1]
    /\ UNCHANGED <<mirror, keys, setting, pull, objection, ci>>

\* run-coder pushes and records it (Pipeline has the steps between).
CoderPushes(f) == Transit(f, "code_pushed") /\ Push(f) /\ Others

HumanPushes(f) == pull[f] = "open" /\ Push(f) /\ UNCHANGED <<runs, pass>>

PullChanges(f) ==
    /\ \/ pull[f] = "none" /\ head[f] > 0 /\ pull' = [pull EXCEPT ![f] = "open"]
       \/ pull[f] = "open" /\ "close" \in happens /\ pull' = [pull EXCEPT ![f] = "closed"]
    /\ UNCHANGED <<runs, mirror, keys, setting, head, objection, ci, pass>>

ReviewerSays(f) ==
    /\ pull[f] = "open" /\ "object" \in happens
    /\ objection' = [objection EXCEPT ![f] = ~@]
    /\ UNCHANGED <<runs, mirror, keys, setting, head, pull, ci, pass>>

\* CI that failed may be run again, CI that passed is not.
RunCi(f, n) ==
    /\ n <= head[f] /\ pull[f] = "open"
    /\ \E r \in CiState :
          /\ \/ <<ci[f][n], r>> \in {<<"none", "running">>,
                                   <<"running", "passed">>, <<"running", "failed">>}
             \/ "rerun" \in happens /\ <<ci[f][n], r>> = <<"failed", "running">>
          /\ ci' = [ci EXCEPT ![f][n] = r]
    /\ UNCHANGED <<runs, mirror, keys, setting, head, pull, objection, pass>>

\* Any other command moves the run (FeatureExecution).
Intervene(f) ==
    /\ \E to \in State : <<state[f], to>> \in elsewhere /\ Transit(f, to)
    /\ Others
    /\ UNCHANGED <<mirror, keys, forge>>

-----------------------------------------------------------------------------
Start(w, f) ==
    \/ HandleGithubEvent(w, f) \/ HandleGitlabEvent(w, f) \/ HandleGiteaEvent(w, f)
    \/ ReconcileRun(w, f) \/ DiscoverPull(w, f)

Observe(w) == RecordDiscovery(w) \/ FetchChecks(w) \/ ReadRun(w)

RunStep(w) ==
    \/ EscalateClosed(w) \/ EscalateFailures(w) \/ EscalateReviews(w)
    \/ OpenPr(w) \/ RecordCiRunning(w) \/ RecordCiPassed(w) \/ RecordCiFailed(w)
    \/ RequestChangesAfterCiFail(w) \/ RecordChangesRequested(w) \/ StartFixing(w)

Outside(f) ==
    \/ CoderPushes(f) \/ HumanPushes(f) \/ PullChanges(f) \/ ReviewerSays(f)
    \/ Intervene(f)
    \/ \E n \in 1 .. MaxCommits : RunCi(f, n)

Next ==
    \/ \E w \in Worker :
          Observe(w) \/ RunStep(w) \/ Finish(w) \/ Quit(w) \/ \E f \in Feature : Start(w, f)
    \/ \E f \in Feature : Outside(f)

Spec == Init /\ [][Next]_vars

-----------------------------------------------------------------------------
(* What follows from this                                                  *)

\* GitHub and Gitea.  Whatever passes run beside each other and however late
\* they write, a row that shows CI as passed shows a commit whose CI passed: the
\* merge gate never takes the verdict on one commit for another's.
CiVerdictIsOfTheHead ==
    provider # "gitlab" =>
        \A f \in Feature : mirror[f].ci = "passed" => ci[f][mirror[f].head] = "passed"

\* Unless it was answered by an old result, a pass that gives a command knows
\* which state the run is in, however many moves others made since it read it.
KnowsWhatItMoves ==
    [][\A w \in Worker :
          At(w, "step") /\ At(w, "step")' /\ pass'[w].believed # pass[w].believed
             => ~pass'[w].sure \/ state[pass[w].run] = pass[w].believed]_vars
=============================================================================
