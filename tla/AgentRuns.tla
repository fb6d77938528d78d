------------------------------ MODULE AgentRuns ------------------------------
(***************************************************************************)
(* Calls of the agents: the forecast that may stop a call                  *)
(* (triggerdev/src/tasks/budget-preflight.ts), the row and the cost that   *)
(* record it (core/src/adapters/run-recorder.ts) and the registry that     *)
(* says which adapter it used (core/src/adapters/registry.ts).  The tasks  *)
(* are run-coder and run-review; a review may call the arbiter as well,    *)
(* on the same forecast.  What they do with an answer is in Pipeline.      *)
(*                                                                         *)
(* None of this runs in one transaction: tasks on the same feature, new    *)
(* registrations of an adapter, operators and other commands come between  *)
(* any two steps, and a task may fail or die after each.                   *)
(***************************************************************************)
EXTENDS Integers, FiniteSets

CONSTANTS
    Feature,          \* feature requests
    Worker,           \* processes that run tasks
    Estimate,         \* CODE_GEN_ and REVIEW_ESTIMATED_COST_USD, or None
    Hard,             \* the hard limit of the feature's active policy, or None
    Windowed,         \* the features whose policy has a window (window_days)
    MaxCost,          \* no call costs more
    Implementation,   \* what implements adapters
    Offer,            \* bound: the registrations that are made
    MaxSpend,         \* bound: no task starts on a feature that spent this
    MaxVersion,       \* bound: versions of the project's workflow state
    MaxRegistrations  \* bound: registrations

None == -1

Role == {"coder", "reviewer", "arbiter"}
Tasks == {"coder", "reviewer"}

\* AUTOMATION_CONTROL_MATRIX: the validator knows pairs, not commands.
AutomationMatrix ==
    LET stopped == {"paused_by_operator", "paused_budget_exceeded",
                    "waiting_for_budget_approval"}
    IN  ({"running"} \X stopped) \cup (stopped \X {"running"})

ASSUME AgentRunsAssumption ==
    /\ IsFiniteSet(Worker)
    /\ Estimate \in [Tasks -> Nat \cup {None}]
    /\ Hard \in [Feature -> Nat \cup {None}] /\ Windowed \subseteq Feature
    /\ MaxCost \in Nat /\ MaxSpend \in Nat /\ MaxVersion \in Nat /\ MaxRegistrations \in Nat
    /\ Offer \subseteq [implementation : Implementation, declares : BOOLEAN, active : BOOLEAN]

VARIABLES
    automation,  \* workflow_states.automation_state
    version,     \* workflow_states.version
    keys,        \* idempotency_keys of RecordBudgetExceeded
    stops,       \* the versions at which a breach stopped automation (workflow_events)
    spent,       \* the sum of the cost_records that count for a feature: those
                 \* within its policy's window, all of them without a window
    adapter,     \* agent_adapters and agent_capabilities, for each role
    revisions,   \* adapter_revisions
    task         \* task[w]: the task that w runs

control == <<automation, version, keys, stops>>
registry == <<adapter, revisions>>
vars == <<control, spent, registry, task>>

Idle == [at |-> "idle"]

\* declares: the registration has the capabilities that the call uses.
Registration == [implementation : Implementation, declares : BOOLEAN, active : BOOLEAN]

\* expected: the version that was read.  used, revision: the implementation and
\* the adapter's version that the row of the run names.  cost: of the answer.
Task == [at : {"forecast", "version", "report", "blocked", "lookup", "capabilities",
               "insert", "queued", "running", "returned", "charge", "operations", "failing"},
         on : Feature, as : Role, row : {"none", "queued", "running", "succeeded", "failed"},
         expected : Nat, used : Implementation, revision : Nat, cost : 0 .. MaxCost]

TypeOK ==
    /\ automation \in {"running", "paused_by_operator", "paused_budget_exceeded"}
    /\ version \in Nat /\ stops \subseteq Nat
    /\ spent \in [Feature -> Nat]
    /\ adapter \in [Role -> [version : Nat, is : Registration]]
    /\ revisions \subseteq [of : Role, version : Nat, is : Registration]
    /\ task \in [Worker -> Task \cup {Idle}]

Init ==
    /\ automation = "running" /\ version = 1 /\ keys = {} /\ stops = {}
    /\ spent = [f \in Feature |-> 0]
    /\ \E n \in Offer :
          /\ n.declares /\ n.active
          /\ adapter = [r \in Role |-> [version |-> 1, is |-> n]]
          /\ revisions = {[of |-> r, version |-> 1, is |-> n] : r \in Role}
    /\ task = [w \in Worker |-> Idle]

At(w, step) == task[w] # Idle /\ task[w].at = step
Set(w, t) == task' = [task EXCEPT ![w] = t]
Go(w, step) == Set(w, [task[w] EXCEPT !.at = step])

-----------------------------------------------------------------------------
(* The forecast                                                            *)
Start(w, f, r) ==
    /\ task[w] = Idle /\ spent[f] < MaxSpend
    /\ Set(w, [at |-> "forecast", on |-> f, as |-> r, row |-> "none", expected |-> 0,
               used |-> adapter[r].is.implementation, revision |-> 0, cost |-> 0])
    /\ UNCHANGED <<control, spent, registry>>

RunCoder(w, f) == Start(w, f, "coder")
RunReview(w, f) == Start(w, f, "reviewer")

\* What the forecast compares with the limit, for a call that may cost e: the
\* costs that count at the moment it asks.
Spending(f, e) == spent[f]
Projected(f, e) == spent[f] + e

Breaches(f, r) ==
    /\ Estimate[r] # None /\ Hard[f] # None
    /\ Projected(f, Estimate[r]) >= Hard[f]

Forecast(w) ==
    /\ At(w, "forecast")
    /\ Go(w, IF Breaches(task[w].on, task[w].as) THEN "version" ELSE "lookup")
    /\ UNCHANGED <<control, spent, registry>>

ReadVersion(w) ==
    /\ At(w, "version")
    /\ Set(w, [task[w] EXCEPT !.at = "report", !.expected = version])
    /\ UNCHANGED <<control, spent, registry>>

\* The key of a breach, with and without the version.
KeyOfPolicy(f, v) == <<f, 0>>
BreachKey(f, v) == <<f, v>>

\* applyBudgetDecision.  A stored result blocks the call just as well; a command
\* that is refused fails the task.
RecordBudgetExceeded(w) ==
    /\ At(w, "report")
    /\ LET key == BreachKey(task[w].on, task[w].expected)
       IN  \/ key \in keys /\ Go(w, "blocked") /\ UNCHANGED control
           \/ /\ key \notin keys /\ version = task[w].expected
              /\ <<automation, "paused_budget_exceeded">> \in AutomationMatrix
              /\ version < MaxVersion
              /\ automation' = "paused_budget_exceeded"
              /\ version' = version + 1
              /\ keys' = keys \cup {key}
              /\ stops' = stops \cup {version}
              /\ Go(w, "blocked")
           \/ /\ key \notin keys
              /\ \/ version # task[w].expected
                 \/ <<automation, "paused_budget_exceeded">> \notin AutomationMatrix
              /\ Set(w, Idle) /\ UNCHANGED control
    /\ UNCHANGED <<spent, registry>>

Blocked(w) ==
    /\ At(w, "blocked") /\ Set(w, Idle)
    /\ UNCHANGED <<control, spent, registry>>

-----------------------------------------------------------------------------
(* AgentRunRecorder.record                                                 *)

\* The adapter's row and its capabilities are read one after the other.
GetById(w) ==
    /\ At(w, "lookup")
    /\ LET a == adapter[task[w].as]
       IN  \/ a.is.active /\ Set(w, [task[w] EXCEPT !.at = "capabilities",
                                     !.used = a.is.implementation, !.revision = a.version])
           \/ ~a.is.active /\ Set(w, Idle)
    /\ UNCHANGED <<control, spent, registry>>

ReadCapabilities(w) ==
    /\ At(w, "capabilities")
    /\ \/ adapter[task[w].as].is.declares /\ Go(w, "insert")
       \/ ~adapter[task[w].as].is.declares /\ Set(w, Idle)
    /\ UNCHANGED <<control, spent, registry>>

\* The row names the revision with the version that was read, or none (0).
InsertRun(w) ==
    /\ At(w, "insert")
    /\ LET t == task[w]
           found == \E v \in revisions : v.of = t.as /\ v.version = t.revision
       IN  Set(w, [t EXCEPT !.at = "queued", !.row = "queued",
                            !.revision = IF found THEN @ ELSE 0])
    /\ UNCHANGED <<control, spent, registry>>

SetRunning(w) ==
    /\ At(w, "queued")
    /\ Set(w, [task[w] EXCEPT !.at = "running", !.row = "running"])
    /\ UNCHANGED <<control, spent, registry>>

\* An answer without token counts costs nothing.
Call(w) ==
    /\ At(w, "running")
    /\ \/ \E c \in 0 .. MaxCost : Set(w, [task[w] EXCEPT !.at = "returned", !.cost = c])
       \/ Go(w, "failing")
    /\ UNCHANGED <<control, spent, registry>>

ApplyUsageAndSetSucceeded(w) ==
    /\ At(w, "returned")
    /\ Set(w, [task[w] EXCEPT !.at = "charge", !.row = "succeeded"])
    /\ UNCHANGED <<control, spent, registry>>

InsertCostRecord(w) ==
    /\ At(w, "charge")
    /\ spent' = [spent EXCEPT ![task[w].on] = @ + task[w].cost]
    /\ Set(w, [task[w] EXCEPT !.at = "operations", !.cost = 0])
    /\ UNCHANGED <<control, registry>>

\* A review that finds a repeated finding calls the arbiter, without a forecast.
AsArbiter(t) == [t EXCEPT !.at = "lookup", !.as = "arbiter", !.row = "none"]

\* The end of a call.
InsertToolOperations(w) ==
    /\ At(w, "operations")
    /\ \/ Set(w, Idle)
       \/ /\ task[w].as = "reviewer"
          /\ Set(w, AsArbiter(task[w]))
    /\ UNCHANGED <<control, spent, registry>>

\* A write after the answer fails: the catch block takes the call for a failed one.
WriteFails(w) ==
    /\ At(w, "returned") \/ At(w, "charge") \/ At(w, "operations")
    /\ Go(w, "failing")
    /\ UNCHANGED <<control, spent, registry>>

\* No extractor reports a cost for a call that failed.  The task fails too.
ApplyUsageAndSetFailed(w) ==
    /\ At(w, "failing")
    /\ \/ task[w].row # "failed" /\ Set(w, [task[w] EXCEPT !.row = "failed"])
       \/ task[w].row = "failed" /\ Set(w, Idle)
    /\ UNCHANGED <<control, spent, registry>>

\* The process dies, or a step before the answer fails.
Quit(w) ==
    /\ task[w] # Idle /\ Set(w, Idle)
    /\ UNCHANGED <<control, spent, registry>>

-----------------------------------------------------------------------------
(* Everybody else                                                          *)

\* The version that a new revision gets, and one that is read too early.
VersionBefore(r) == adapter[r].version
VersionAfter(r) == adapter[r].version + 1

\* AdapterRegistry.register of an adapter that is there: one transaction.
Register(r, n) ==
    /\ Cardinality(revisions) < MaxRegistrations
    /\ adapter' = [adapter EXCEPT ![r] = [version |-> @.version + 1, is |-> n]]
    /\ revisions' = revisions \cup {[of |-> r, version |-> VersionAfter(r), is |-> n]}
    /\ UNCHANGED <<control, spent, task>>

Command(to) ==
    /\ version < MaxVersion
    /\ automation' = to /\ version' = version + 1
    /\ UNCHANGED <<keys, stops, spent, registry, task>>

Control(to) == <<automation, to>> \in AutomationMatrix /\ Command(to)

PauseAutomation == Control("paused_by_operator")

\* Neither handler asks what stopped automation.
ResumeAutomation == Control("running")
ApproveBudgetOverride == Control("running")

\* Selecting a feature and the like use versions up as well.
OtherCommand == Command(automation)

\* Time passes, and costs that were recorded before the window began stop to
\* count: here any part of them.
LeaveWindow(f) ==
    /\ f \in Windowed
    /\ \E left \in 0 .. spent[f] - 1 : spent' = [spent EXCEPT ![f] = left]
    /\ UNCHANGED <<control, registry, task>>

-----------------------------------------------------------------------------
Preflight(w) == Forecast(w) \/ ReadVersion(w) \/ RecordBudgetExceeded(w) \/ Blocked(w)

RecordRun(w) ==
    \/ GetById(w) \/ ReadCapabilities(w) \/ InsertRun(w) \/ SetRunning(w) \/ Call(w)
    \/ ApplyUsageAndSetSucceeded(w) \/ InsertCostRecord(w) \/ InsertToolOperations(w)
    \/ WriteFails(w) \/ ApplyUsageAndSetFailed(w)

Operate ==
    \/ PauseAutomation \/ ResumeAutomation \/ ApproveBudgetOverride \/ OtherCommand
    \/ \E r \in Role, n \in Offer : Register(r, n)

Next ==
    \/ \E w \in Worker :
          \/ Preflight(w) \/ RecordRun(w) \/ Quit(w)
          \/ \E f \in Feature : RunCoder(w, f) \/ RunReview(w, f)
    \/ Operate
    \/ \E f \in Feature : LeaveWindow(f)

Spec == Init /\ [][Next]_vars

-----------------------------------------------------------------------------
(* What follows from this                                                  *)

\* However many tasks forecast beside each other before any of their costs is
\* recorded, the costs that count for a feature stay, at any time, below its hard
\* limit, less an estimate, plus two calls of every worker: the forecast keeps
\* nothing back for calls that are still running, and a review's forecast stands
\* for the arbiter's call as well.  Without a window these are all the costs that
\* were ever recorded; with one, those of its days, and the total has no bound.
OverspendIsBounded ==
    \A f \in Feature :
        Hard[f] # None /\ (\A r \in Tasks : Estimate[r] # None) /\ spent[f] > 0 =>
            \E r \in Tasks :
                spent[f] + Estimate[r] < Hard[f] + 2 * Cardinality(Worker) * MaxCost

\* A call is blocked only if a breach stopped automation at the version that was
\* read after the forecast, or later.  An answer stored for an earlier breach would
\* block the call and leave automation running.  (A project without a row in
\* workflow_states would be blocked with nothing recorded; CreateProject inserts
\* the row with the project and nothing deletes it, so that branch is left out.)
BreachesStopAutomation ==
    [][\A w \in Worker :
          At(w, "report") /\ At(w, "blocked")' =>
              \E v \in stops' : v >= task[w].expected]_vars

\* Whoever registers the adapter again meanwhile, the revision that the row of a
\* run names is one of the implementation that the row names.
RevisionIsOfTheRun ==
    \A w \in Worker :
        task[w] # Idle /\ task[w].row # "none" /\ task[w].revision # 0 =>
            \A v \in revisions :
                v.of = task[w].as /\ v.version = task[w].revision
                    => v.is.implementation = task[w].used
=============================================================================
