# MiniCoder in TLA+

MiniCoder drives coding agents through a list of feature requests: it plans, lets
an agent code each request on a branch, has the pull request reviewed, merges it
through a gate, and escalates to a human when something does not converge.  All
state is in one relational database (SQLite or PostgreSQL); processes coordinate
through its rows only.  This directory models the parts in which several
processes, callbacks and retries meet on the same rows, checks the models with
TLC and proves the properties that matter most with TLAPS.

Paths below are relative to `packages/` unless they start with `docs/`.

## The system

| part | state | operations | who calls it |
|---|---|---|---|
| workflow locks (`workflow/src/locks`, `lanes`) | `workflow_locks`: fence, holder, expiry | acquire, heartbeat, release, assert fence | workflow tasks; guarded commands check the fence in their own transaction |
| feature execution (`core/src/commands/handlers/feature`, `github`) | `feature_runs`, `pull_requests`, `review_findings`, `human_approvals`, `disagreement_records`, `workflow_states` | some 25 command handlers, each one transaction with an optimistic version check | tasks, reconciliation, API, CLI |
| automation tasks (`triggerdev/src/tasks`) | what an invocation has read; branches and pull requests at the forge | start-next-feature, run-coder, run-review, run-merge-gate | task workers |
| SCM reconciliation (`core/src/scm/reconcile.ts`, `github-reconciliation`) | `pull_requests`, the mirror of the pull request | turns an observed pull request into feature commands, several in a row | inbox workers and a scheduled task |
| webhook ingest (`github`, `gitea`, `gitlab`, `cli/src/commands/inbox.ts`) | `inbox_events` | normalise, receive, look the run up, observe | forges; `simulate-*` by hand |
| merge gate and merge (`core/src/merge-gate`, `api/src/commands/merge-if-ready-route.ts`, `cli/src/commands/merge.ts`) | `merge_gate_evaluations`, route idempotency rows | evaluate, approve, claim the key, merge at the forge, record, answer or release; finalize after a lost record | gate task, approvers, operators |
| inbox processor, outbox dispatcher (`workflow/src/inbox`, `outbox`) | `inbox_events`, `outbox_events` | recover stale claims, select, claim, handle, mark | `minicoder inbox worker` and `drain` |
| task queue (`triggerdev/src/task-worker.ts`) | `task_queue`, `task_concurrency_gates`, a count per process | the same, plus a limit per task id, cancel and replay | `minicoder tasks worker`, operators |
| command executor, idempotency keys (`core/src/commands`) | `idempotency_keys` | claim, fulfil, replay, expire | every command |
| agents, budgets, automation (`core/src/adapters`, `cost`, `budget-preflight.ts`, `handlers/automation`) | `agent_runs`, `agent_registry`, `cost_records`, `workflow_states.automation_state` | register, forecast, call, record, charge, pause, resume | tasks, operators |
| planning, clarification (`handlers/planning`, `plan`, `clarification`) | assessments, gaps, sessions, questions, plans, `feature_requests`, `feature_dependencies` | assess, ask, answer, generate, import, validate, submit, approve, activate | tasks, humans |
| project lifecycle, design document (`handlers/project`, `core/src/design-doc`) | `projects`, `design_documents`, `artifact_exports` | complete the implementation, draft, export, record, judge | tasks, humans |
| driver of a run (`cli/src/commands/run.ts`) | what a process remembers | polls the run and asks for tasks | `minicoder run feature --watch` |
| repository connection (`cli/src/commands/repo.ts`) | `repositories`; the forge | look up, create, seed, verify, connect | `minicoder repo connect` |
| migrations (`migrations/src/runner.ts`) | the schema, `_migrations`, confirmation tokens | up, down, reset | operators, every installation that starts |
| read models, routes, interfaces, telemetry, configuration | none that interacts | | |

What is hard about it: leases that run out under a live holder; constant holder
ids, so that two processes of one task re-enter each other's lock; a fence that
is checked and used in different statements; sequences of human commands (block,
skip, retry, resume, unblock) that reach the pipeline past its usual entrance;
decisions of a gate that must hold several commands later; an agent that works for
minutes on what it read before; observations put together from several requests and
written late; rows that are selected, then claimed and marked much later; heartbeats
that are late or fail; processes that die with claimed rows; calls of which one in a
sequence fails, after others that cannot be undone; retries, and results replayed
under keys that were made for something else.  `PROJECT.json` lists each with its line.

How the parts interact: planning leaves an activated plan, which is the initial state
of feature execution.  The tasks, reconciliation and humans change runs through
commands (`minicoder state repair --apply` would write runs itself, see "Not modelled").  The task queue calls the tasks, the inbox processor calls reconciliation.
Tasks take the lane lock and pass its fence to their commands.  The merge reads the
mirror that reconciliation writes.  The end of execution is the start of the design
document.

## Modules

    FencingTokens         abstract: tokens are issued in order and writes carry the latest
    WorkflowLocks         the lock row and the writes that check it; implements FencingTokens
    FeatureMatrix         the states of a feature run and the admitted transitions
    FeatureExecution      the feature runs of a project and every command on them
    ProjectCompletion     FeatureExecution beside MarkImplementationComplete
    Pipeline              FeatureExecution under the automation tasks; implements it
    Reconciliation        passes that carry what they saw at the forge to the runs
    Webhooks              from a change at the forge to the mirror
    MergeRoute            one merge: forge, mirror, gate, claimed key, record, recovery
    MergeCommand          MergeRoute beside the command line's merge
    Planning              from an assessment of readiness to the first feature runs
    DesignDocument        from implementation_complete to complete, and run-design-doc
    AgentRuns             forecasts, calls of agents, their records and costs, automation
    AtLeastOnce           abstract: an item is settled only after a successful run
    EventQueue            inbox processor / outbox dispatcher; implements AtLeastOnce
    TaskQueue             task queue and its workers; implements AtLeastOnce
    FeatureWatch          the driver of a run, its jobs and their failures
    RepositoryLink        connecting a project to its repository
    Migrations            the migration runner on both databases
    *_proofs              theorems and proofs, see Proofs for which modules each is about
    MC*                   the small instances TLC checks

### WorkflowLocks

One lock row (`row`), a wall clock, and for each invocation its program counter,
the time it read before its acquire transaction (`now`) and its fence.
`AcquireUpdate`, `AcquireInsert` and `AcquireConflict` are the three outcomes of
the upsert in `acquire`; `Release` keeps the row but expires it and retires its
fence; `CheckFence` and `CommitWrite` are the two statements of a guarded
command, `assertLockFence` and its write.  `Crash` may happen anywhere.
`Serialized` tells SQLite, where a transaction that has read the row excludes
other writers, from PostgreSQL at READ COMMITTED, where it does not.

### FeatureExecution, ProjectCompletion

One run per feature request.  A command handler is one transaction that compares
the version of the run, so each handler is one action; it is written with the
guard of its matrix row (`Valid`), its own checks, and everything it changes.
What the forge reports and what a reviewer finds is chosen freely by the action that
reads it.  `Foreign` are runs whose request has a pull request at the forge that the
run did not open, on a branch named after the request: webhooks find such a run by
that name.  The merge gate is `GatePasses`, reduced to the state the model keeps; its
mirrored pull request and budget can only reject more.  `MergeIfReady` evaluates the
gate in one transaction and moves the run in a second one; they are one action here
because every command that changes what `GatePasses` reads also moves the run, and the
second transaction then fails on the version.  `BlockFeature` writes a deferred
approval (`barred`) which no command clears: a run that was blocked and unblocked
never passes the gate again.

`ProjectCompletion` adds the transaction of `MarkImplementationComplete`.  It asks for
SERIALIZABLE, so on PostgreSQL even its guarded UPDATE reads the first snapshot, while
commands on runs go ahead beside it: `EvaluateAcceptance` and
`MarkImplementationComplete` are two steps with any commands in between.

### Pipeline

Workers run start-next-feature, run-coder, run-review and run-merge-gate.  An
invocation is a record of the step it is at, whether its last read of the run is still
current, the fix attempts it read, and what it cloned.  Between two steps anything may
happen; `Quit` is a failure, a crash, a lost lane or a missed fence.  A command is
given by `Once`: a recorded key replays its result and changes nothing, otherwise the
command of `FeatureExecution` runs if the version is current.  The branch at the forge
is the sequence of who made each commit.  Everything that is not one of these tasks is
`Intervene`, any step of `FeatureExecution`.

### Reconciliation

A pass is a record of the step it is at, what it observed, what it believes of the
run, and whether its belief can be trusted (`sure`: it was not answered by an old
result).  `Observe` fetches the pull request and its checks in separate requests,
in the order of each provider's client; `RunStep` dispatches the next command that
the observation implies.  `mirror` is the `pull_requests` row, `keys` the
idempotency keys that name a commit.  The providers differ: which events exist, what
a fetch returns, whose verdict GitLab shows.  `setting` chooses the provider and what
else may happen (closing, objections, CI run again, commands of others), so that one
run covers the combinations without multiplying them.

### Webhooks

The same observations from the other side: what each change makes a forge send (or
not send), the receiver with its dedup key, the lookup of the run by number, commit or
name, and the two writes of the mirror by each pass.  `behind` remembers that
something was missed for good: a lost or given-up event, an event without a run, a
write out of order.  A whole pass of the scheduled task clears it.

Reviews are announced as each forge does it.  GitHub tells of every review submitted
and dismissed.  Gitea tells of a review submitted, not of one dismissed.  GitLab has no
verdict against a pull request: `deriveReviewState` makes one of unresolved discussions
and the approvals left, so a note that begins a discussion and an approval are told of,
while a discussion resolved or reopened and an approval withdrawn are not
(`gitlab/src/normalize.ts` returns null for the latter).  These are `ReviewUntold`,
which sets `behind`: only the scheduled task will see them.

### MergeRoute, MergeCommand

One feature run from review on.  `forge`, `tests` and `merger` are the pull request
where it lives, changed by `Push`, `CiEnds`, `Close`, `Reopen`, `MergeByHand` and the
merge call; `mirror` is its row in `pull_requests`.  `req[r]` is a request inside the
handler of `POST /commands/merge-if-ready`, at one of its statements or calls, with
what it has read.  `claim[k]` is the route's row for an Idempotency-Key, `spent[k]` the
commands `k:merge-ready`, `k:record-merge-failed` and so on that have a stored result
and are replayed.  `Throw` is an exception at any point of the try block, `Catch` what
the outer catch makes of it, `Crash` the end of the process.  Here the gate and the
transition of `MergeIfReady` are two actions, since the mirror may change between
them.  A reconciliation is `Fetch`, `Sync`, `Escalate` when the pull request was closed,
`Resync`.  GitLab and GitHub compare the expected head at the merge, Gitea does not.
What the gate checks beside the state and the CI result is `Refuse`, which is always
possible.  `receded` remembers that a reconciliation set the mirror back to an older
head, which `syncPullRequestObservedState` (`Mirrors`) does without a look at what the
row shows.  `MergeCommand` adds calls of `minicoder merge`, which take the route's steps
without a claim and make their keys from the version of the run.

### Planning

Assessments with their blocking gaps and one clarification session each, plans, and
feature requests with their dependencies (`needs`) and, for a feature, whether it has
criteria and expectations (`kind`).  Of a round only the number of questions without
an answer is kept; its size is `RoundSize`.  Commands on sessions, gaps and plans are
one action, as each compares the version of the row it changes.  `ValidateBacklog`
and `SubmitPlanForApproval` are two (`ReadBacklog` and `WriteVerdict`, `ReadPlan` and
`SubmitPlan`): they write a plan on what they have read of its backlog, and a backlog
changes without the version of its plan.  A plan has one of each open at a time.
`late` remembers the requests that were added while one of the two was open, which only
PostgreSQL allows, or after the submission, which the code allows everywhere.

### DesignDocument

The project, its design documents with their sections, and one artifact for each,
created together and numbered in order.  A draft is a number, and the text of a
section is the draft it came from, missing, or a placeholder.  Each command but the
export is one action, as each is one transaction that compares `projects.version`.  The
export compares no version and its first UPDATE looks at no state, so at READ COMMITTED
its statements count: `BeginExport` (the key is claimed, the artifact read),
`ReadSections` (they must be whole), `FinishExport` (both UPDATEs, of which the second
sees the first, and the commit), or `DropExport`.  `render[x]` is what an open export
has read.  Runs export an artifact under one key, so among them one waits for the
other's transaction; a replay by hand (`Hand`) comes with a key of its own, and
`overlapped` remembers that two exports of one artifact were open at once.  A run of
`run-design-doc` goes from the first look (`Start`) through the lease (`Acquire`,
`Conflict`), two separate queries, the answer of the adapter (`Draft`), one statement
per section, the export and the record (`CheckProject` reads the version `Record`
compares) to `Release`; it may throw or die anywhere.  Executions of the same queue
row share a holder id, so they share the lease, and nobody renews it: `Expire`.
`ReplayExport` and `ReplayRecord` are the two commands the registry accepts from a
system key.  `disturbed` remembers that a lease ran out under its run, that two
executions of a row were at work at once, or that a command was replayed beside a run.

### AgentRuns

A task forecasts (`budget-preflight.ts`), on a breach reads the version of the
workflow state and reports, then looks its adapter up in two queries, inserts its
`agent_runs` row, calls, and records result and cost in separate statements, any of
which may fail.  `spent` is what counts against a feature's limit: with a policy that
has `window_days` the forecast sums the costs of those days only, and `LeaveWindow` lets
any part of them grow too old, at any time (`Windowed` are the features with such a
policy).  A forecast of a project without a row in `workflow_states` blocks and records
nothing; `CreateProject` inserts the row and nothing deletes it, so that branch is left
out.  `automation` is the project's automation state with its version, `stops` the versions at which a breach stopped it
(history), `revisions` the registry's rows.  Operators pause, resume and override;
`AutomationMatrix` is the validator's.

### EventQueue, TaskQueue

Inbox and outbox are the same code over two tables.  A poll is `Recover`,
`Select`, then for each row of the batch `Claim`, the handler (`Finish`, `Throw`)
beside its heartbeat (`Beat`), and `MarkProcessed` or `MarkFailed`; an event
without a handler is put off by `PushBack`.  Row versions only grow, so comparing
a poll's version with the row's is asking whether anybody wrote the row since:
`current[p]` is the set of rows of which `p` still has the latest version.  Time is
kept relative (`wait` until the retry, `age` of a claim, `beat` until the next
heartbeat).  A heartbeat or a final update that is due goes before time passes;
`Tick` may keep it waiting at the cost of a fault, and `late` remembers that.

`TaskQueue` has jobs that run side by side in one process, the claim as a
transaction of three steps (`LockGate`, `Count`, `Claim`) under the row lock of the
task's gate, and the process's own count `inFlight`, read in `BeginClaim` and written
in `Claim`.  `MarkFailedFails` is the failure of the update in the catch block.  An
operator cancels a job, running or not, and replays a failed one.

### FeatureWatch

The driver process, the jobs it has asked for, and the run in steps of a whole task.
Each tick reads the run (`Poll`) and then asks for what the state calls for
(`ActOnState`): at once in some states, in the others only after the state has stayed
for a while (`StuckLongEnough`).  A job executes, finds nothing to do, or fails for
good (`Fail`).  Webhooks, CI, people at the forge and a human who disposes of a held
run move on beside it, and the driver may be stopped and started again.  What is left
out: automation is running, no human reviews at the forge, there is one run, its pull
request is not closed, pushes are mirrored at once, and `--no-merge` is `Stop`.

### RepositoryLink

Processes of `minicoder repo connect` between their look at the forge and their row:
look up, create as each forge does it, seed, look again, verify, and the transaction
(`ReadLink`, `WriteLink`), serialised on SQLite and not on PostgreSQL.  People make
repositories and push beside them.

### Migrations

For each database its tables, whether `_migrations` exists, and its rows.  `migrate`
reads once what is applied and then applies each migration in a transaction of its
own; `rollback` undoes the last; `reset` uses a confirmation token, then drops by a
fixed list, in one transaction on PostgreSQL and table by table on SQLite.  Any process
may die at any step (`EndCommand`); `torn` remembers a reset that died.  That nobody
rolls back or resets beside somebody who migrates is up to the operator (`Only`), not
to the code.

## Runs

| run | what it asks | result |
|---|---|---|
| `features` | three runs with a dependency and a foreign branch, every command, reconciliation, completion: does what selection checked still hold when a run merges, and was a completed project complete? | holds |
| `pipeline` | two workers run the tasks on one run and die anywhere, beside webhooks, the merge route and humans: is work committed once, and does a verdict move only the fix cycle it is about? | holds |
| `pipeline_fix` | does a fix that run-coder reports as pushed leave `fixing`? | no: a fix cycle takes its predecessor's commit for its own |
| `reconciliation` | two passes on one run at each forge: does the mirror ever pair a commit with another's verdict, and does a pass know what it moves? | holds at GitHub and Gitea (GitLab shows a pipeline of any commit), unless an old result misleads the pass |
| `merge` | a request, its retry and a call of the tool, through one fault, or a request beside two reconciliations: one owner per key, true answers, no merge recorded that did not happen or forgotten that did, gated merges of tested commits | holds; gated merges apart after a mirror went back to an older head |
| `planning` | assessments, rounds, plans and backlogs extended before, beside and after every step: verdicts are true, plans are submitted in order, runs wait for runs | holds, late additions and dependencies on discovery requests apart |
| `design_doc` | two runs of the task and replays by hand through two cycles: project, documents and artifacts stay together, and what an approver judges is whole, exported and left alone | holds; sections and artifact agree unless a lease ran out under its run or a command was replayed beside one, and an artifact is rendered once unless two exports of it overlapped |
| `agent_runs` | two tasks forecast, call, record and fail, beside operators and registrations: how far can what counts against a feature's limit pass it, is a call blocked only when automation was stopped, is the revision the run's? | holds |
| `events` | two processes, two faults: at-least-once delivery, no double handling without a delay, nothing stuck, everything settles | holds |
| `tasks` | two workers, one fault, cancel and replay: rows and executions within the limit, at-least-once, everything settles | holds, executions apart whose heartbeat failed or that were cancelled |
| `installation` | five independent parts, see below | holds |
| `watch_review` | does the driver get every approved commit reviewed? | no: it asks for the review and for the gate in one tick |

`installation` is one run for five modules that share no state: the lane lock,
migrations, repository connection, webhooks, and the driver.  The initial state chooses
`part`, and only that part moves, under its own next-state relation (and the driver's
fairness).  So its states are the union of five state spaces, not their product, and
each part is checked as its own specification; a property of one part holds in the
others because its variables rest.  What it asks of each:
`OneValidFence`, `NoZombieWrite`, `NoStolenLease`, `TokensSpec` of the locks;
`SchemaHolds` of migrations: `_migrations` tells the truth and what is missing can be
applied; `ConnectionHolds` of connections: one repository on SQLite, and the row names
a repository that is there, with the right branch; `MirrorCatchesUp` of webhooks: when
all events are dealt with, the mirror is the forge's pull request, its review included,
unless it is `behind`;
`NoHopIsLost` of the driver: whatever jobs fail, it does not sit for ever in one state
that a task it may ask for would move.

The violations are disagreements between the code and what its documents say;
`PROJECT.json` quotes both sides.

### Bounds

`features`: three runs allow a dependency, a rival and a foreign branch at once;
a threshold of one fix gives a run below it, at it and past it.
`pipeline`: one run, since tasks of different runs share nothing but the lane, which is
not assumed here; two workers, since every race is between two; three commits make a
coder's, a human's and a coder's again, or two fix cycles.
`reconciliation`: two passes and two commits; per provider only what matters there:
GitHub with a closed pull request and an approval beside the pass, or with objections,
Gitea with CI run again and an operator who holds the run and sends it back, GitLab.
`merge`: a request and its retry under one key and one call of the tool, so that a
retry and a rival meet; two commits, of which the second is untested at first; a forge
that compares heads and one that does not; one fault, since what it does to a request is
the subject; versions to 4 leave room for an escalation and a return to review.  All
that together is too much for one search, so `MCMergeRoute` lets the initial state
choose what overlaps: the calls, while one reconciliation follows another, or two
reconciliations, around one request at GitLab with nobody closing the pull request.
`planning`: two assessments with one gap each, so that a plan can be confused with the
other's; two plans and two requests, so that one request can be late, the two can form
a cycle and one can be missing from the payload that names it; three rounds, the limit
of the code; two questions a round and two raised.
`design_doc`: two runs, on one row or on two; two sections, so that a document can be
half written; two cycles, so that a run of the first can be late in the second; two
drafts, so that a document is drafted again after a failure or the second one after it;
one hand that replays beside them, which with a run makes two exports that overlap.
`agent_runs`: two tasks on a feature with limit 3, estimates 1 and 2 and costs to 2:
both may pass the forecast together, and a call may cost more or less than estimated;
the policy has a window, since a policy without one is a window nothing ever leaves;
four registrations of two implementations, and four versions of the workflow state.
`events`: two processes; one event with and one without a handler; two attempts, so one
retry and one exhaustion; two faults, so that a crash can follow a delay.  Stale claims
are two ticks old and heartbeats due every tick, the ratio of the code.
`tasks`: two workers and two jobs of a task with limit 1 or of one that nobody knows;
one attempt and one fault keep all interleavings within reach.
`installation`: a clock to 4 with leases of 2 lets a lease run out, be taken over and
run out again, and of three invocations two share a holder id; three migrations of which
the last renames a table of the first, as 0018 does, on one database of each kind, with
two processes; two connections with two branch names at one repository; two commits and
three events, or two where more may happen, with one inbox worker and one worker of the
scheduled task; a driver with one job that fails and a threshold of one fix.
`CHECK_DEADLOCK FALSE` is set where the system may stop: bounded counters, queues that
are empty or whose faults are used up, a connection that was made.

### Fairness

`FairSpec` of the queues assumes that time passes, that each process polls again and
again (it does so from an interval timer and catches the errors of a poll), that
handlers return or throw, and for the task queue that a worker waiting for a gate is
granted it in the end although others take it in between (the database queues row
locks): weak fairness for all of them, strong fairness for the gate.  `WatchFairness`
assumes that the driver goes on until it ends and that its timer runs, and that a
worker takes every job; a job may fail, `MaxFailures` times.  Nothing else in the
system is scheduled, humans and the forge least of all, so the other modules have no
liveness properties.

## Proofs

Theorems hold for every value of the constants that satisfies the assumptions of
their modules, and for any number of steps: the counters the runs bound are constants
in the theorems.  Every safety invariant and action property that a passing run checks
is also a theorem.  Each proof starts with typing.

| module | proves about |
|---|---|
| `Installation_proofs` | WorkflowLocks, Migrations, RepositoryLink, Webhooks |
| `Pipeline_proofs` | FeatureExecution, ProjectCompletion, Pipeline |
| `Reconciliation_proofs` | Reconciliation |
| `MergeRoute_proofs` | MergeRoute, MergeCommand |
| `Approvals_proofs` | Planning, DesignDocument |
| `AgentRuns_proofs` | AgentRuns |
| `EventQueue_proofs` | EventQueue, its refinement of AtLeastOnce |
| `TaskQueue_proofs` | TaskQueue, its refinement of AtLeastOnce |

**Locks.**  `OneValidFence` is not inductive: a new fence must be larger
than every fence still held.  `FencesInv` adds that no invocation holds a fence above
the row's and that two holders never have equal fences; `AtMostOneValidFence` follows.
`LeaseIsRespected` needs that the time an acquire has read is not in the future.  For
the writes, `CheckedInv` says that with serialized transactions an invocation that has
checked its fence still has the row's: it is what DbFree protects.  From it follow
`ZombieWritesRejected`, `FencedWritesOrdered` and, step by step,
`ImplementsFencingTokens`.

**Migrations.**  `_migrations` always holds the first n files, and the tables are theirs
(`TargetFits`).  `SchemaAlwaysHolds` needs with it what each command knows when it acts
(`CommandFits`): one that migrates has read nothing that is not recorded, one that rolls
back has read all that is, and a reset on SQLite has dropped what it has passed.  That
stays so because who migrates meets only others who migrate, who rolls back only others
who roll back, and a reset nobody (`Compatible`, from `Only`).  The files
are constants, so `Creates` and `Removes` are any that satisfy
`MigrationFilesAssumption`: two files never create the same table, and one that renames a
table (0018 is the only one) finds it made by an earlier file and gives it a name the
reset list has.  Without it the claim is false: of two files that create one table the
second cannot be applied.

**Connections.**  `ConnectionsHold` needs `Prepared`: once `--create` has made or found
the repository, it fits the branch the process has in hand until the row is written
(`RepositoryKeeps`: nothing at the forge takes that back).  On SQLite nobody else
acts between the read and the write of the transaction, so the write that inserts a row
has seen that there is none.

**Mirror.**  `MirrorCatchesUp` says of a state at rest what `HookInv` says of every
state: a change the mirror does not show has an event still to be fetched for, or a pass
that `Stands`, which has fetched it, will write it, and whose event is taken again if it
fails.  A pass that is late is `Harmless`: it is right, it is known to be old, or a pass
that stands will overwrite it.  `InOrderOfFetch` is why a whole pass of the task
makes up for what was missed before it (`behind` may be cleared): of two passes one is
known to have fetched later, and what it may have missed, the other may have missed.  The
invariant is said twice, of the pull request with its review and of CI, since a verdict is announced by
its commit only, which counts only once the mirror shows that commit.  A change nobody
tells of leaves every pass under way unsure and the mirror behind (`UntoldStep`).

**Feature runs.**  Each of `ActiveIsOccupied`, `MergeStageIsActive`,
`NothingOutstandingAtMerge` and `NoPendingBehindSkipped` is inductive relative to
typing, with one step per group of actions.  `StartedAfterDependencies` is not: a run in
`human_required` may be resumed without any check, so one needs that it got there with
its dependencies merged, and a webhook may move any run that has a pull request;
`StartedInv` adds that a tracked run has its dependencies merged, and
`DepsMergedStable` that a merged run stays merged.  `CompletionIsFinal` rests on
`CompletionInv`: an accepted snapshot stays accepted, because no command leads out of
merged or skipped or adds a finding there, and only late requests can violate it.

**Tasks.**  `TasksImplementFeatureExecution` is a refinement with the identity as
mapping: every step of a task either stutters or is a command (`StepsAreCommands`), so
all theorems about the feature runs hold of the runs the tasks drive.
`WorkIsCommittedOnce` is inductive: a coder looks for its commit in its clone, and the
forge rejects the push of a clone that is behind.  `RecordedWorkExists` needs
`ClonedInv`: branches only grow, and a worker about to record a push has the coder's
commit at the forge.  `VerdictsMoveTheirCycle` needs `DatedInv`: a review that still
holds the run's version holds its fix cycle.

**Reconciliation.**  `VerdictsAreOfTheHead` needs `SeenInv`: what a pass carries as
passed did pass, on the commit it carries it for, which holds because GitHub and Gitea
are asked for the checks of a commit; and a verdict of a commit is not taken back while
somebody carries it (`PassedIsKept`).  `PassesKnowWhatTheyMove` needs `BeliefInv`: a pass
that was not misled, and has missed no move of its run, believes the run's state.

**Merges**, of `CommandSpec`, the route and the tool together.  `ProtocolInv`: a
request at work holds the claim of its key, alone (`ClaimInv`); after a merge its request
was told of, nobody else is at work under the key (`ToldInv`), which is what keeps the
claim from being released or answered by another; a request that believes it has merged
is the one that did (`MergedInv`), and stored answers say so (`AnswerInv`); a call of the
tool about to record a merge has had it at the forge (`ToolInv`).  Most steps are `Quiet`: they
neither claim, merge nor settle, and one lemma covers them.  From it follow
`ClaimsAreExclusive`, `MergesAreKept`, `StoredAnswersAreTrue` and `RunTellsTheTruth`, for
any number of requests, keys, calls, reconciliations, commits and faults.
`GatedMergesAreTested` says which commit a gated merge may merge, at a forge that
compares heads.  `MirrorInv`: the mirror and what a reconciliation carries show commits
of the branch, as passed only what has passed.  `GatedInv`: the head a request or call has read is no newer
than the mirror its gate sees, so what passes the gate is tested or has been left behind,
and then the forge refuses it.  It holds for any number of reconciliations, as long as
none has set the mirror back to an older head (`receded`), which nothing in the code
prevents one that was overtaken from doing.

**Design documents.**  `DesignTypeCorrect` needs that a run that writes has read a document
and an artifact (`TargetsKnown`).  `ProjectFollowsDocument` holds by itself as an
invariant: the lemma `Shape` sees every step through `Published` (project, latest, document,
artifact, content) as one of a few moves, and the invariants follow move by move.  For
`JudgedIsWhole`, `ArtifactInv` adds that an exported artifact is whole whether or not
its document has been released yet, and `RendersAreWhole` that so is what an open export
has read.  `PublishedIsFrozen` needs `AloneOnPending`: unless two overlapped, an artifact
that is being exported is still pending, and by one only.
`ApproversSeeWhatIsExported` needs `OneAtATime`: as long as nothing was disturbed, who is
at work holds the lease, works on the document the project waits for, and writes only
before it is exported; and `Rendering`: who exports works on its target, no replay is
open beside it, and what it has read the sections still say.  So an artifact shows the
sections as they are.

**Plans.**  Four invariants, each over its part of the state.  `SessionsInv`
gives `RoundsAreAnswered` and `WaitingCanStart`.  `SoundInv` says of validations under
way what `VerdictIsEarned` says of verdicts: a bad backlog stays bad when requests are
added to it, and a good one stays good without the late ones, since soundness is local
to a set of requests and shrinks with it (`SoundIsLocal`, `SoundShrinks`).  `GroundInv`
keeps what `InOrder` has checked true while a submission is open and ever after;
`LinksInv` says that dependencies stay within a plan, which gives `RunsDependOnRuns` at
the activation.

**Agent runs.**  `BreachesAreRecorded` needs `StopInv`: a stored breach stopped
automation at the version its key names, so a replay blocks nothing new.  `RevisionsAreOfTheRuns` needs
`RevisionInv`: the newest revision of an adapter is what its row says, and a task that
has read the adapter names a revision of the implementation it will use.
`OverspendBound` counts: `SpendInv` bounds the costs that count, plus one call for each that is
still open, by a forecast that passed plus two calls of every worker; a recorded cost
closes its call.

**Queues.**  What a worker or a poll knows of a row is its version.  `KnowledgeInv` says
what that is good for: as long as a row's version is the one that was selected, the row
is open and has the attempts that were read; as long as it is the one that was claimed,
the row is `processing` and nobody else's.  With `HandledInv` (a run about to mark its
item has completed it) every step is a step of `AtLeastOnce` or stutters, which gives
`QueueDeliversAtLeastOnce` and `JobsAreDeliveredAtLeastOnce`.  `RowsAreNeverStuck`
follows too: a failure is only counted on a row whose attempts are still those read, so
the last one always exhausts it; it says that no open row has its attempts used up, and
nothing of who will settle it, which is `EventuallySettled`.  `TimeInv` is about heartbeats: while none is late, the
age of a claim and the time to the next heartbeat never exceed the interval together,
and the interval is shorter than the stale timeout (`IntervalBeforeStale`), so a live
claim is never recovered; `HandlersRunAlone` follows.

The task queue adds a limit.  `LimitsHold` needs `GateHeld`: a worker between its count
and its claim holds the gate row of the task, so nobody else has claimed a row of the
task since, and what recovery, crashes and final updates do only lowers the count.
`ExecutionWithinLimits` maps each execution to its row: by `TimeInv` a run that is not
late and not cancelled owns a `processing` row, by `KnowledgeInv` two runs do not own
one row, so there are at most as many as `LimitsHold` allows.  `QueueTypeCorrect` needs
`CountInv`, that the process's own count is never less than its runs.  `EventQueue`'s
`wait` has no type in the proof: its bound is an exponential, and no guard that matters
there reads it; TLC checks it.

Proved and not run, since they follow from what is run or cost too much beside it:
`RoundsAreAnswered`, `WaitingCanStart`, `RecordedIsTheCoders`, `MergeStageIsActive`,
`FencedWritesOrdered`.

Only model-checked: liveness (`EventuallySettled`, `NoHopIsLost`), since the prover
handles neither fairness nor ENABLED.  No module reaches a RECURSIVE
operator from a theorem, and nothing is proved by induction over data.

## What the models showed beside their properties

These are exempted in a property, in a guard, or visible in a state graph; each is what
the code does.

- `assertLockFence` reads without a lock, so at READ COMMITTED a paused worker may
  commit after its successor took the fence (`core/src/commands/helpers.ts:238`).
- Resuming, fixing and unblocking ignore the active pointer, so two runs may be worked on
  at once (`resume-feature-execution.ts:60`, against docs/01-system-architecture.md:182).
- A retried merge key replays merge-ready without the gate and merges the head it reads
  anew (`merge-if-ready-route.ts:211`); when the answer of a merge is lost, the claim is
  released after the merge (`:357`); Gitea merges without comparing the head.
- Of two overlapping reconciliations the one that fetched earlier may write last and set
  the mirror back to an older head (`pull-request-row.ts:172`).  A request that reads
  the newer head before and passes the gate after merges a commit nobody has tested.
- Two exports of one artifact under different keys, begun while it is pending, both
  render it on PostgreSQL, the second after the first has committed
  (`export-design-document.ts:208`): what an approver was shown may change under him.
- A budget with `window_days` bounds what is spent inside the window, by each forecast;
  over time a feature may spend any multiple of its limit (`core/src/cost/forecast.ts:77`).
- GitLab sends nothing when a discussion is resolved or reopened, and a withdrawn approval is
  dropped (`gitlab/src/normalize.ts:124`); Gitea's dismissals are not known to the
  receiver.  Such changes reach the mirror with the next event or the scheduled task.
- The second escalation of a run replays the first (`run-review.ts:818`).
- A replayed command lets a pass of reconciliation move a run that a human holds
  (`scm/reconcile.ts:228`).  A stale pass may move a run at one commit by the verdict of
  another; each pass writes the mirror twice, and the second write may be the older one.
- A rolled-back SQLite database, once reset, may keep `github_links`, a table its reset
  does not know; a reset on SQLite that dies leaves `_migrations` claiming what is gone
  (`migrations/src/runner.ts:463`).  A confirmation token may be used twice (`:270`).
- Two connections beside each other on PostgreSQL give a project two rows
  (`cli/src/commands/repo.ts:197`); nothing else looks for the second.
- Requests added to a plan after its submission are approved unvalidated, and after its
  activation never get a run; the project then never passes acceptance.  Validation
  accepts a dependency on a discovery request, which never runs.  Every round asks the
  first questions again, since nothing writes `planning_questions.answer`.
- Exhausted events never block acceptance, and `minicoder inbox drain` reports an empty
  inbox while failed events wait for their retry.
- Skipping a feature leaves its blocking findings unresolved, so acceptance rejects the
  project although it counts a skipped run as accepted (`acceptance.ts:51`).
- A job that is cancelled while it runs goes on executing (`trigger.ts:171`).
- A database error after a call succeeded records it as failed, and its cost is lost
  (`run-recorder.ts:262`); a crash leaves `agent_runs` queued or running for ever.
- The driver asks for discovery once (`run.ts:594`): when that job is lost it waits for
  its timeout.  Once it has been stuck it asks for another job every tick.

## Not modelled

Adapters' prompts and answers (outcomes are inputs), read models and diagnostics, API
validation, authentication, the terminal and web interfaces, telemetry, configuration,
backlog parsing, fitness tests and infrastructure: they keep no state that interacts.
Commands of the tool that make one API call or one query are their API's.  Of review,
how findings are normalised and matched, and of the gate task, the status check it
publishes.  Of idempotency keys, the sweeper: keys are kept for a week and the
models cover one such week.  Of planning, the ingestion of a specification and the
exports; of the project lifecycle, the repair of a document's binding to its artifact.
Of webhooks, signatures.  Reconciliation and Pipeline assume that CI which passed is not
run again while somebody acts on it, except where a setting lets it.  Dead code (the
second unblock handler, the recording of a budget approval) is left out.  `minicoder state repair --apply`
(`cli/src/commands/state.ts:463`) moves runs to `human_required` without a version bump or
a look at the matrix; it selects them by `started_at`, which nothing sets, so today
it never finds one, and no module has it.

## Plan

1. Done: locks, feature execution and its completion, the tasks over it,
   reconciliation, webhooks, both merges, planning and clarification, the design-document
   loop, agent runs and budgets, the queues, the driver, connections and migrations.
2. Done: a theorem for each safety invariant and action property of the runs, and both
   refinements of `AtLeastOnce`.
3. Left: liveness beyond the two properties the runs check, and what "Not modelled" lists.
