--------------------------- MODULE AgentRuns_proofs ---------------------------
(***************************************************************************)
(* Proofs about the calls of the agents, for any number of features and    *)
(* workers and any limits, estimates and costs.                            *)
(*                                                                         *)
(* The bound on the costs counts the calls that are still open: the most   *)
(* that the forecasts that went well let pass.  A forecast that goes well  *)
(* starts the count anew, from what is spent then, and a cost that is      *)
(* recorded takes one open call away.                                      *)
(***************************************************************************)
EXTENDS AgentRuns, FiniteSetTheorems, TLAPS

LEMMA TaskTyped ==
    ASSUME TypeOK, NEW w \in Worker, NEW step, At(w, step)
    PROVE  task[w] \in Task /\ task[w].at = step
  BY DEF TypeOK, At

\* A worker goes on, with its task or without one.
LEMMA SetTyped ==
    ASSUME TypeOK, NEW w \in Worker, NEW t \in Task \cup {Idle}, Set(w, t)
    PROVE  task' \in [Worker -> Task \cup {Idle}]
  BY DEF TypeOK, Set

LEMMA GoTyped ==
    ASSUME TypeOK, NEW w \in Worker, task[w] # Idle,
           NEW step \in {"version", "blocked", "lookup", "insert", "operations", "failing"},
           Go(w, step)
    PROVE  task' \in [Worker -> Task \cup {Idle}]
<1>1. [task[w] EXCEPT !.at = step] \in Task
  BY DEF TypeOK, Task
<1> QED
  BY <1>1, SetTyped DEF Go

LEMMA TypeInit == Init => TypeOK
  BY AgentRunsAssumption DEF Init, TypeOK, Registration

LEMMA PreflightTyped ==
    ASSUME TypeOK, NEW w \in Worker, Preflight(w)
    PROVE  TypeOK'
<1>1. CASE Forecast(w)
  <2>1. task' \in [Worker -> Task \cup {Idle}]
    BY <1>1, GoTyped DEF Forecast, At
  <2> QED
    BY <1>1, <2>1 DEF Forecast, control, registry, TypeOK
<1>2. CASE ReadVersion(w)
  <2>1. [task[w] EXCEPT !.at = "report", !.expected = version] \in Task
    <3>1. task[w] \in Task /\ version \in Nat
      BY <1>2, TaskTyped DEF ReadVersion, TypeOK
    <3>2. \A t \in Task, n \in Nat : [t EXCEPT !.at = "report", !.expected = n] \in Task
      BY DEF Task
    <3> QED
      BY <3>1, <3>2
  <2>2. task' \in [Worker -> Task \cup {Idle}]
    BY <1>2, <2>1, SetTyped DEF ReadVersion
  <2> QED
    BY <1>2, <2>2 DEF ReadVersion, control, registry, TypeOK
<1>3. CASE RecordBudgetExceeded(w)
  <2>1. task' \in [Worker -> Task \cup {Idle}]
    <3>1. task[w] # Idle /\ (Go(w, "blocked") \/ Set(w, Idle))
      BY <1>3 DEF RecordBudgetExceeded, At
    <3> QED
      BY <3>1, GoTyped, SetTyped
  <2>2. /\ automation' \in {"running", "paused_by_operator", "paused_budget_exceeded"}
        /\ version' \in Nat /\ stops' \subseteq Nat
    <3>1. \/ UNCHANGED control
          \/ /\ automation' = "paused_budget_exceeded" /\ version' = version + 1
             /\ stops' = stops \cup {version}
      BY <1>3 DEF RecordBudgetExceeded
    <3>2. /\ automation \in {"running", "paused_by_operator", "paused_budget_exceeded"}
          /\ version \in Nat /\ version + 1 \in Nat /\ stops \subseteq Nat
      BY DEF TypeOK
    <3>3. CASE UNCHANGED control
      BY <3>2, <3>3 DEF control
    <3>4. CASE /\ automation' = "paused_budget_exceeded" /\ version' = version + 1
               /\ stops' = stops \cup {version}
      <4>1. stops' \subseteq Nat
        BY <3>2, <3>4
      <4> QED
        BY <3>2, <3>4, <4>1
    <3> QED
      BY <3>1, <3>3, <3>4
  <2> QED
    BY <1>3, <2>1, <2>2 DEF RecordBudgetExceeded, registry, TypeOK
<1>4. CASE Blocked(w)
  <2>1. task' \in [Worker -> Task \cup {Idle}]
    BY <1>4, SetTyped DEF Blocked
  <2> QED
    BY <1>4, <2>1 DEF Blocked, control, registry, TypeOK
<1> QED
  BY <1>1, <1>2, <1>3, <1>4 DEF Preflight

LEMMA RecordRunTyped ==
    ASSUME TypeOK, NEW w \in Worker, RecordRun(w)
    PROVE  TypeOK'
<1>1. ASSUME task' \in [Worker -> Task \cup {Idle}], UNCHANGED <<control, spent, registry>>
      PROVE  TypeOK'
  BY <1>1 DEF control, registry, TypeOK
<1>2. CASE GetById(w)
  <2> DEFINE a == adapter[task[w].as]
  <2>1. task[w] \in Task /\ a.is.implementation \in Implementation /\ a.version \in Nat
    BY <1>2, TaskTyped DEF GetById, Task, TypeOK, Registration
  <2>2. [task[w] EXCEPT !.at = "capabilities", !.used = a.is.implementation,
                        !.revision = a.version] \in Task
    BY <2>1 DEF Task
  <2>3. task' \in [Worker -> Task \cup {Idle}]
    BY <1>2, <2>2, SetTyped DEF GetById
  <2> QED
    BY <1>1, <1>2, <2>3 DEF GetById
<1>3. CASE ReadCapabilities(w)
  <2>1. task' \in [Worker -> Task \cup {Idle}]
    BY <1>3, GoTyped, SetTyped DEF ReadCapabilities, At
  <2> QED
    BY <1>1, <1>3, <2>1 DEF ReadCapabilities
<1>4. CASE InsertRun(w)
  <2>1. task[w] \in Task
    BY <1>4, TaskTyped DEF InsertRun
  <2>2. \A n \in Nat :
            [task[w] EXCEPT !.at = "queued", !.row = "queued", !.revision = n] \in Task
    BY <2>1 DEF Task
  <2>3. task[w].revision \in Nat
    BY <2>1 DEF Task
  <2>4. PICK n \in Nat :
            Set(w, [task[w] EXCEPT !.at = "queued", !.row = "queued", !.revision = n])
    <3>1. CASE \E v \in revisions : v.of = task[w].as /\ v.version = task[w].revision
      BY <1>4, <2>3, <3>1 DEF InsertRun
    <3>2. CASE ~ \E v \in revisions : v.of = task[w].as /\ v.version = task[w].revision
      BY <1>4, <3>2 DEF InsertRun
    <3> QED
      BY <3>1, <3>2
  <2>5. task' \in [Worker -> Task \cup {Idle}]
    BY <2>2, <2>4, SetTyped
  <2> QED
    BY <1>1, <1>4, <2>5 DEF InsertRun
<1>5. CASE SetRunning(w)
  <2>1. [task[w] EXCEPT !.at = "running", !.row = "running"] \in Task
    BY <1>5, TaskTyped DEF SetRunning, Task
  <2>2. task' \in [Worker -> Task \cup {Idle}]
    BY <1>5, <2>1, SetTyped DEF SetRunning
  <2> QED
    BY <1>1, <1>5, <2>2 DEF SetRunning
<1>6. CASE Call(w)
  <2>1. \A c \in 0 .. MaxCost : [task[w] EXCEPT !.at = "returned", !.cost = c] \in Task
    BY <1>6, TaskTyped DEF Call, Task
  <2>2. task' \in [Worker -> Task \cup {Idle}]
    BY <1>6, <2>1, GoTyped, SetTyped DEF Call, At
  <2> QED
    BY <1>1, <1>6, <2>2 DEF Call
<1>7. CASE ApplyUsageAndSetSucceeded(w)
  <2>1. [task[w] EXCEPT !.at = "charge", !.row = "succeeded"] \in Task
    BY <1>7, TaskTyped DEF ApplyUsageAndSetSucceeded, Task
  <2>2. task' \in [Worker -> Task \cup {Idle}]
    BY <1>7, <2>1, SetTyped DEF ApplyUsageAndSetSucceeded
  <2> QED
    BY <1>1, <1>7, <2>2 DEF ApplyUsageAndSetSucceeded
<1>8. CASE InsertCostRecord(w)
  <2>1. task[w] \in Task
    BY <1>8, TaskTyped DEF InsertCostRecord
  <2>2. [task[w] EXCEPT !.at = "operations", !.cost = 0] \in Task
    <3>1. 0 \in 0 .. MaxCost
      BY AgentRunsAssumption
    <3> QED
      BY <2>1, <3>1 DEF Task
  <2>3. task' \in [Worker -> Task \cup {Idle}]
    BY <1>8, <2>2, SetTyped DEF InsertCostRecord
  <2>4. task[w].on \in Feature /\ task[w].cost \in Nat
    BY <2>1, AgentRunsAssumption DEF Task
  <2>5. spent' \in [Feature -> Nat]
    BY <1>8, <2>4 DEF InsertCostRecord, TypeOK
  <2> QED
    BY <1>8, <2>3, <2>5 DEF InsertCostRecord, control, registry, TypeOK
<1>9. CASE InsertToolOperations(w)
  <2>1. [task[w] EXCEPT !.at = "lookup", !.as = "arbiter", !.row = "none"] \in Task
    <3>1. task[w] \in Task
      BY <1>9, TaskTyped DEF InsertToolOperations
    <3>2. \A t \in Task : [t EXCEPT !.at = "lookup"] \in Task
      BY DEF Task
    <3>3. \A t \in Task : [t EXCEPT !.as = "arbiter"] \in Task
      BY DEF Task, Role
    <3>4. \A t \in Task : [t EXCEPT !.row = "none"] \in Task
      BY DEF Task
    <3>5. \A t : [t EXCEPT !.at = "lookup", !.as = "arbiter", !.row = "none"]
                     = [[[t EXCEPT !.at = "lookup"] EXCEPT !.as = "arbiter"] EXCEPT !.row = "none"]
      BY Zenon
    <3> QED
      BY <3>1, <3>2, <3>3, <3>4, <3>5
  <2>2. task' \in [Worker -> Task \cup {Idle}]
    BY <1>9, <2>1, SetTyped DEF InsertToolOperations, AsArbiter
  <2> QED
    BY <1>1, <1>9, <2>2 DEF InsertToolOperations
<1>10. CASE WriteFails(w)
  <2>1. task' \in [Worker -> Task \cup {Idle}]
    BY <1>10, GoTyped DEF WriteFails, At
  <2> QED
    BY <1>1, <1>10, <2>1 DEF WriteFails
<1>11. CASE ApplyUsageAndSetFailed(w)
  <2>1. [task[w] EXCEPT !.row = "failed"] \in Task
    BY <1>11, TaskTyped DEF ApplyUsageAndSetFailed, Task
  <2>2. task' \in [Worker -> Task \cup {Idle}]
    BY <1>11, <2>1, SetTyped DEF ApplyUsageAndSetFailed
  <2> QED
    BY <1>1, <1>11, <2>2 DEF ApplyUsageAndSetFailed
<1> QED
  BY <1>2, <1>3, <1>4, <1>5, <1>6, <1>7, <1>8, <1>9, <1>10, <1>11 DEF RecordRun

LEMMA OperateTyped ==
    ASSUME TypeOK, Operate
    PROVE  TypeOK'
<1>1. ASSUME NEW to \in {"running", "paused_by_operator", "paused_budget_exceeded"},
             Command(to)
      PROVE  TypeOK'
  BY <1>1 DEF Command, registry, TypeOK
<1>2. ASSUME NEW r \in Role, NEW n \in Offer, Register(r, n)
      PROVE  TypeOK'
  <2>1. n \in Registration /\ adapter[r].version + 1 \in Nat
    BY AgentRunsAssumption DEF Registration, TypeOK
  <2>2. adapter' \in [Role -> [version : Nat, is : Registration]]
    BY <1>2, <2>1 DEF Register, TypeOK
  <2>3. revisions' \subseteq [of : Role, version : Nat, is : Registration]
    BY <1>2, <2>1 DEF Register, VersionAfter, TypeOK
  <2> QED
    BY <1>2, <2>2, <2>3 DEF Register, control, TypeOK
<1>3. automation \in {"running", "paused_by_operator", "paused_budget_exceeded"}
  BY DEF TypeOK
<1> QED
  BY <1>1, <1>2, <1>3 DEF Operate, Control, PauseAutomation, ResumeAutomation,
                          ApproveBudgetOverride, OtherCommand

LEMMA StartTyped ==
    ASSUME TypeOK, NEW w \in Worker, NEW f \in Feature, NEW r \in Tasks, Start(w, f, r)
    PROVE  TypeOK'
<1> DEFINE t == [at |-> "forecast", on |-> f, as |-> r, row |-> "none", expected |-> 0,
                 used |-> adapter[r].is.implementation, revision |-> 0, cost |-> 0]
<1>1. r \in Role /\ adapter[r].is.implementation \in Implementation
  BY DEF Tasks, Role, TypeOK, Registration
<1>2. t \in Task
  BY <1>1, AgentRunsAssumption DEF Task
<1>3. task' \in [Worker -> Task \cup {Idle}]
  BY <1>2, SetTyped DEF Start
<1> QED
  BY <1>3 DEF Start, control, registry, TypeOK

\* A step of Next, whichever task a worker starts.
LEMMA NextForms ==
    ASSUME Next
    PROVE  \/ Operate
           \/ \E w \in Worker : Preflight(w) \/ RecordRun(w) \/ Quit(w)
           \/ \E w \in Worker, f \in Feature, r \in Tasks : Start(w, f, r)
           \/ \E f \in Feature : LeaveWindow(f)
  BY DEF Next, RunCoder, RunReview, Tasks

LEMMA TypeNext ==
    ASSUME TypeOK, [Next]_vars
    PROVE  TypeOK'
<1>1. ASSUME NEW w \in Worker, Quit(w)
      PROVE  TypeOK'
  <2>1. task' \in [Worker -> Task \cup {Idle}]
    BY <1>1, SetTyped DEF Quit
  <2> QED
    BY <1>1, <2>1 DEF Quit, control, registry, TypeOK
<1>2. CASE UNCHANGED vars
  BY <1>2 DEF vars, control, registry, TypeOK
<1>3. ASSUME NEW f \in Feature, LeaveWindow(f)
      PROVE  TypeOK'
  <2>1. spent' \in [Feature -> Nat]
    BY <1>3 DEF LeaveWindow, TypeOK
  <2> QED
    BY <1>3, <2>1 DEF LeaveWindow, control, registry, TypeOK
<1> QED
  BY <1>1, <1>2, <1>3, PreflightTyped, RecordRunTyped, OperateTyped, StartTyped, NextForms

-----------------------------------------------------------------------------
\* A stored breach stopped automation at the version that its key names.
StopInv == \A f \in Feature, v \in Nat : BreachKey(f, v) \in keys => v \in stops

LEMMA OthersKeepControl ==
    ASSUME [Next]_vars, ~ \E w \in Worker : RecordBudgetExceeded(w)
    PROVE  UNCHANGED <<keys, stops>>
  BY DEF Next, Preflight, Forecast, ReadVersion, Blocked, RecordRun, GetById,
         ReadCapabilities, InsertRun, SetRunning, Call, ApplyUsageAndSetSucceeded,
         InsertCostRecord, InsertToolOperations, WriteFails, ApplyUsageAndSetFailed, Quit,
         RunCoder, RunReview, Start, Operate, Register, Control, Command, PauseAutomation, ResumeAutomation,
         ApproveBudgetOverride, OtherCommand, LeaveWindow, control, vars

LEMMA StopNext ==
    ASSUME TypeOK, StopInv, [Next]_vars
    PROVE  StopInv'
<1>1. ASSUME NEW w \in Worker, RecordBudgetExceeded(w)
      PROVE  StopInv'
  <2> SUFFICES ASSUME NEW f \in Feature, NEW v \in Nat, BreachKey(f, v) \in keys'
               PROVE  v \in stops'
    BY DEF StopInv, BreachKey
  <2>1. CASE BreachKey(f, v) \in keys
    BY <1>1, <2>1 DEF StopInv, RecordBudgetExceeded, control
  <2>2. CASE BreachKey(f, v) \notin keys
    <3>1. /\ BreachKey(f, v) = BreachKey(task[w].on, task[w].expected)
          /\ version = task[w].expected /\ stops' = stops \cup {version}
      BY <1>1, <2>2 DEF RecordBudgetExceeded, control
    <3> QED
      BY <3>1 DEF BreachKey
  <2> QED
    BY <2>1, <2>2
<1>2. CASE ~ \E w \in Worker : RecordBudgetExceeded(w)
  BY <1>2, OthersKeepControl DEF StopInv
<1> QED
  BY <1>1, <1>2

\* Only the step that reports a breach ends in a blocked call.
LEMMA BlockedByReport ==
    ASSUME TypeOK, [Next]_vars, NEW w \in Worker, At(w, "report"), At(w, "blocked")'
    PROVE  RecordBudgetExceeded(w)
<1>0. task[w] \in Task /\ task[w].at = "report" /\ task'[w].at = "blocked"
  BY TaskTyped DEF At
<1>1. ASSUME NEW v \in Worker, v # w, NEW t, Set(v, t)
      PROVE  FALSE
  BY <1>0, <1>1 DEF Set, TypeOK
<1>2. task' # task
  BY <1>0
<1>3. ASSUME NEW v \in Worker, Preflight(v) \/ RecordRun(v) \/ Quit(v)
      PROVE  v = w
  BY <1>1, <1>3 DEF Preflight, Forecast, ReadVersion, RecordBudgetExceeded, Blocked,
         RecordRun, GetById, ReadCapabilities, InsertRun, SetRunning, Call,
         ApplyUsageAndSetSucceeded, InsertCostRecord, InsertToolOperations, WriteFails,
         ApplyUsageAndSetFailed, Quit, Go
<1>4. ASSUME NEW v \in Worker, NEW f \in Feature, NEW r \in Tasks, Start(v, f, r)
      PROVE  FALSE
  <2>1. v = w
    BY <1>1, <1>4 DEF Start
  <2> QED
    BY <1>4, <2>1 DEF Start, At
<1>5. ~Quit(w) /\ ~RecordRun(w) /\ ~Forecast(w) /\ ~ReadVersion(w) /\ ~Blocked(w)
  <2>1. ~Quit(w)
    <3>1. Idle.at # "blocked"
      BY DEF Idle
    <3> QED
      BY <1>0, <3>1 DEF Quit, Set, TypeOK
  <2> QED
    BY <1>0, <2>1 DEF RecordRun, GetById, ReadCapabilities, InsertRun, SetRunning, Call,
         ApplyUsageAndSetSucceeded, InsertCostRecord, InsertToolOperations, WriteFails,
         ApplyUsageAndSetFailed, Forecast, ReadVersion, Blocked, At
<1>6. ~Operate /\ ~UNCHANGED vars /\ \A f \in Feature : ~LeaveWindow(f)
  BY <1>2 DEF Operate, Register, Control, Command, PauseAutomation, ResumeAutomation,
              ApproveBudgetOverride, OtherCommand, LeaveWindow, vars
<1> QED
  BY <1>3, <1>4, <1>5, <1>6, NextForms DEF Preflight

\* BreachesStopAutomation: the key names the version, and it is stored by the very
\* transaction that stops automation at this version.
THEOREM BreachesAreRecorded == Spec => BreachesStopAutomation
<1>1. Init => TypeOK /\ StopInv
  BY TypeInit DEF Init, StopInv
<1>2. TypeOK /\ StopInv /\ [Next]_vars => TypeOK' /\ StopInv'
  BY TypeNext, StopNext
<1>3. ASSUME TypeOK, StopInv, [Next]_vars, NEW w \in Worker, At(w, "report"),
             At(w, "blocked")'
      PROVE  \E v \in stops' : v >= task[w].expected
  <2>1. RecordBudgetExceeded(w)
    BY <1>3, BlockedByReport
  <2>2. task[w] \in Task /\ task[w].on \in Feature /\ task[w].expected \in Nat
    BY <1>3, TaskTyped DEF Task
  <2>3. task[w].expected \in stops'
    <3>1. CASE BreachKey(task[w].on, task[w].expected) \in keys
      BY <1>3, <2>1, <2>2, <3>1 DEF StopInv, RecordBudgetExceeded, control
    <3>2. CASE task'[w] # Idle /\ BreachKey(task[w].on, task[w].expected) \notin keys
      BY <1>3, <2>1, <3>2 DEF RecordBudgetExceeded, Set, TypeOK
    <3> QED
      BY <1>3, <3>1, <3>2 DEF At
  <2> QED
    BY <2>2, <2>3
<1>4. TypeOK /\ StopInv /\ [Next]_vars
        => [\A w \in Worker :
              At(w, "report") /\ At(w, "blocked")' =>
                  \E v \in stops' : v >= task[w].expected]_vars
  BY <1>3
<1> QED
  BY <1>1, <1>2, <1>4, PTL DEF Spec, BreachesStopAutomation

-----------------------------------------------------------------------------
\* A task that has read the adapter knows a revision of its implementation.
Known(t) == t.at \notin {"forecast", "version", "report", "blocked", "lookup"}

Match(t) ==
    /\ t.revision <= adapter[t.as].version
    /\ \A v \in revisions :
          v.of = t.as /\ v.version = t.revision => v.is.implementation = t.used

Named(t) == (t.row # "none" => Known(t)) /\ (Known(t) /\ t.revision # 0 => Match(t))

RevisionInv ==
    /\ \A v \in revisions :
          /\ v.version <= adapter[v.of].version
          /\ v.version = adapter[v.of].version => v.is = adapter[v.of].is
    /\ \A w \in Worker : task[w] # Idle => Named(task[w])

\* The registry stays as it is, and a worker goes on with a task that is named.
LEMMA NamedSet ==
    ASSUME TypeOK, RevisionInv, UNCHANGED registry, NEW w \in Worker, NEW t, Set(w, t),
           t = Idle \/ Named(t)
    PROVE  RevisionInv'
<1>1. \A v \in Worker : task'[v] = task[v] \/ task'[v] = t
  BY DEF Set, TypeOK
<1>2. \A v \in Worker : task'[v] # Idle => Named(task'[v])
  BY <1>1 DEF RevisionInv
<1>3. \A v \in Worker : task'[v] # Idle => Named(task[v])'
  BY <1>2 DEF Named, Known, Match, registry
<1> QED
  BY <1>3 DEF RevisionInv, registry

\* The same, when the task names what it named before.
LEMMA NamedGoesOn ==
    ASSUME TypeOK, RevisionInv, UNCHANGED registry, NEW w \in Worker, task[w] # Idle,
           NEW t, Set(w, t), t.as = task[w].as, t.used = task[w].used,
           t.revision \in {task[w].revision, 0},
           Known(t) => Known(task[w]), t.row # "none" => Known(t)
    PROVE  RevisionInv'
<1>1. Named(task[w])
  BY DEF RevisionInv
<1>2. Named(t)
  BY <1>1 DEF Named, Match
<1> QED
  BY <1>2, NamedSet

LEMMA RevisionPreflight ==
    ASSUME TypeOK, RevisionInv, NEW w \in Worker, Preflight(w)
    PROVE  RevisionInv'
<1>1. task[w] \in Task /\ task[w] # Idle /\ UNCHANGED registry /\ Named(task[w])
  BY TaskTyped DEF Preflight, Forecast, ReadVersion, RecordBudgetExceeded, Blocked, At,
                   RevisionInv
<1>2. ~Known(task[w]) /\ task[w].row = "none"
  BY <1>1 DEF Preflight, Forecast, ReadVersion, RecordBudgetExceeded, Blocked, At, Known,
              Named
<1>3. PICK step \in {"version", "report", "blocked", "lookup"}, v \in Nat :
          Set(w, Idle) \/ Set(w, [task[w] EXCEPT !.at = step, !.expected = v])
  <2>1. task[w].expected \in Nat /\ version \in Nat
    BY <1>1 DEF Task, TypeOK
  <2>2. [task[w] EXCEPT !.expected = task[w].expected] = task[w]
    BY <1>1 DEF Task
  <2>3. \A step : [task[w] EXCEPT !.at = step]
                    = [task[w] EXCEPT !.at = step, !.expected = task[w].expected]
    BY <1>1 DEF Task
  <2>4. CASE ReadVersion(w)
    BY <2>1, <2>4 DEF ReadVersion
  <2>5. CASE Forecast(w) \/ RecordBudgetExceeded(w) \/ Blocked(w)
    <3>1. Set(w, Idle) \/ \E step \in {"version", "blocked", "lookup"} : Go(w, step)
      BY <2>5 DEF Forecast, RecordBudgetExceeded, Blocked
    <3> QED
      BY <2>1, <2>3, <3>1 DEF Go
  <2> QED
    BY <2>4, <2>5 DEF Preflight
<1>4. CASE Set(w, Idle)
  BY <1>1, <1>4, NamedSet
<1>5. CASE Set(w, [task[w] EXCEPT !.at = step, !.expected = v])
  <2> DEFINE t == [task[w] EXCEPT !.at = step, !.expected = v]
  <2>1. t.at = step /\ t.row = "none"
    BY <1>1, <1>2 DEF Task
  <2>2. ~Known(t)
    BY <2>1 DEF Known
  <2> HIDE DEF t
  <2>3. Named(t)
    BY <2>1, <2>2 DEF Named
  <2> QED
    BY <1>1, <1>5, <2>3, NamedSet DEF t
<1> QED
  BY <1>3, <1>4, <1>5

LEMMA RevisionRecord ==
    ASSUME TypeOK, RevisionInv, NEW w \in Worker, RecordRun(w)
    PROVE  RevisionInv'
<1> DEFINE T == task[w]
<1>1. T \in Task /\ T # Idle /\ UNCHANGED registry /\ Named(T)
  BY TaskTyped DEF RecordRun, GetById, ReadCapabilities, InsertRun, SetRunning, Call,
        ApplyUsageAndSetSucceeded, InsertCostRecord, InsertToolOperations, WriteFails,
        ApplyUsageAndSetFailed, At, RevisionInv
<1>2. ASSUME Set(w, Idle)
      PROVE  RevisionInv'
  BY <1>1, <1>2, NamedSet
<1>3. ASSUME NEW step \in {"capabilities", "insert", "queued", "running", "returned",
                           "charge", "operations", "failing"},
             NEW row, NEW cost, NEW revision \in {T.revision, 0}, Known(T),
             Set(w, [T EXCEPT !.at = step, !.row = row, !.cost = cost, !.revision = revision])
      PROVE  RevisionInv'
  <2> DEFINE t == [T EXCEPT !.at = step, !.row = row, !.cost = cost, !.revision = revision]
  <2>1. t.at = step /\ t.as = T.as /\ t.used = T.used /\ t.revision = revision
    BY <1>1 DEF Task
  <2>2. Known(t)
    BY <2>1 DEF Known
  <2> HIDE DEF t
  <2> QED
    BY <1>1, <1>3, <2>1, <2>2, NamedGoesOn DEF t
<1>4. CASE GetById(w)
  <2> DEFINE a == adapter[T.as]
             t == [T EXCEPT !.at = "capabilities", !.used = a.is.implementation,
                            !.revision = a.version]
  <2>1. T.as \in Role /\ a.version \in Nat
    BY <1>1 DEF Task, TypeOK
  <2>2. t.as = T.as /\ t.used = a.is.implementation /\ t.revision = a.version
        /\ t.at = "capabilities"
    BY <1>1 DEF Task
  <2> HIDE DEF t
  <2>3. Match(t)
    BY <2>1, <2>2 DEF RevisionInv, Match, TypeOK
  <2>4. Named(t)
    BY <2>2, <2>3 DEF Named, Known
  <2> QED
    BY <1>1, <1>2, <1>4, <2>4, NamedSet DEF GetById, t
<1>5. CASE ReadCapabilities(w)
  <2>1. Set(w, Idle) \/ Set(w, [T EXCEPT !.at = "insert", !.row = T.row, !.cost = T.cost,
                                         !.revision = T.revision])
    <3>1. [T EXCEPT !.at = "insert"]
            = [T EXCEPT !.at = "insert", !.row = T.row, !.cost = T.cost,
                        !.revision = T.revision]
      BY <1>1 DEF Task
    <3> QED
      BY <1>5, <3>1 DEF ReadCapabilities, Go
  <2>2. Known(T)
    BY <1>5 DEF ReadCapabilities, At, Known
  <2> QED
    BY <1>2, <1>3, <2>1, <2>2
<1>6. CASE InsertRun(w)
  <2>1. Known(T)
    BY <1>6 DEF InsertRun, At, Known
  <2>2. \E n \in {T.revision, 0} :
            Set(w, [T EXCEPT !.at = "queued", !.row = "queued", !.revision = n])
    <3>1. CASE \E v \in revisions : v.of = T.as /\ v.version = T.revision
      BY <1>6, <3>1 DEF InsertRun
    <3>2. CASE ~ \E v \in revisions : v.of = T.as /\ v.version = T.revision
      BY <1>6, <3>2 DEF InsertRun
    <3> QED
      BY <3>1, <3>2
  <2> DEFINE To(n) == [T EXCEPT !.at = "queued", !.row = "queued", !.cost = T.cost,
                                !.revision = n]
  <2>3. \A n : [T EXCEPT !.at = "queued", !.row = "queued", !.revision = n] = To(n)
    BY <1>1 DEF Task
  <2>4. \A n \in {T.revision, 0} : Set(w, To(n)) => RevisionInv'
    BY <1>3, <2>1
  <2> HIDE DEF To
  <2> QED
    BY <2>2, <2>3, <2>4
<1>7. CASE InsertToolOperations(w)
  <2> DEFINE t == [T EXCEPT !.at = "lookup", !.as = "arbiter", !.row = "none"]
  <2>1. t.at = "lookup" /\ t.row = "none"
    BY <1>1 DEF Task
  <2>2. Named(t)
    BY <2>1 DEF Named, Known
  <2> QED
    BY <1>1, <1>2, <1>7, <2>2, NamedSet DEF InsertToolOperations, AsArbiter
<1>8. CASE \/ SetRunning(w) \/ Call(w) \/ ApplyUsageAndSetSucceeded(w) \/ InsertCostRecord(w)
           \/ WriteFails(w) \/ ApplyUsageAndSetFailed(w)
  <2>1. Known(T)
    BY <1>8 DEF SetRunning, Call, ApplyUsageAndSetSucceeded, InsertCostRecord, WriteFails,
                ApplyUsageAndSetFailed, At, Known
  <2> DEFINE To(step, row, cost) ==
               [T EXCEPT !.at = step, !.row = row, !.cost = cost, !.revision = T.revision]
             Steps == {"running", "returned", "charge", "operations", "failing"}
  <2>2. \A step \in Steps : \A row, cost : Set(w, To(step, row, cost)) => RevisionInv'
    BY <1>3, <2>1
  <2>3. /\ \A step, row : [T EXCEPT !.at = step, !.row = row] = To(step, row, T.cost)
        /\ \A step, c : [T EXCEPT !.at = step, !.cost = c] = To(step, T.row, c)
        /\ \A step : [T EXCEPT !.at = step] = To(step, T.row, T.cost)
        /\ \A row : [T EXCEPT !.row = row] = To(T.at, row, T.cost)
    BY <1>1 DEF Task
  <2> HIDE DEF To
  <2>4. CASE SetRunning(w)
    <3>1. Set(w, To("running", "running", T.cost))
      BY <2>3, <2>4 DEF SetRunning
    <3> QED
      BY <2>2, <3>1
  <2>5. CASE ApplyUsageAndSetSucceeded(w)
    <3>1. Set(w, To("charge", "succeeded", T.cost))
      BY <2>3, <2>5 DEF ApplyUsageAndSetSucceeded
    <3> QED
      BY <2>2, <3>1
  <2>6. CASE InsertCostRecord(w)
    <3>1. Set(w, To("operations", T.row, 0))
      BY <2>3, <2>6 DEF InsertCostRecord
    <3> QED
      BY <2>2, <3>1
  <2>7. CASE Call(w)
    <3>1. \/ \E c \in 0 .. MaxCost : Set(w, To("returned", T.row, c))
          \/ Set(w, To("failing", T.row, T.cost))
      <4>1. CASE Go(w, "failing")
        BY <2>3, <4>1 DEF Go
      <4>2. ASSUME NEW c \in 0 .. MaxCost,
                   Set(w, [task[w] EXCEPT !.at = "returned", !.cost = c])
            PROVE  Set(w, To("returned", T.row, c))
        BY <2>3, <4>2
      <4> QED
        BY <2>7, <4>1, <4>2 DEF Call
    <3> QED
      BY <2>2, <3>1
  <2>8. CASE WriteFails(w)
    <3>1. Set(w, To("failing", T.row, T.cost))
      BY <2>3, <2>8 DEF WriteFails, Go
    <3> QED
      BY <2>2, <3>1
  <2>9. CASE ApplyUsageAndSetFailed(w)
    <3>1. Set(w, Idle) \/ Set(w, To("failing", "failed", T.cost))
      BY <2>3, <2>9 DEF ApplyUsageAndSetFailed, At
    <3> QED
      BY <1>2, <2>2, <3>1
  <2> QED
    BY <1>8, <2>4, <2>5, <2>6, <2>7, <2>8, <2>9
<1> QED
  BY <1>4, <1>5, <1>6, <1>7, <1>8 DEF RecordRun

\* A registration adds a revision later than all that tasks know of.
LEMMA RevisionRegister ==
    ASSUME TypeOK, RevisionInv, NEW r \in Role, NEW n \in Offer, Register(r, n)
    PROVE  RevisionInv'
<1>1. /\ adapter' = [adapter EXCEPT ![r] = [version |-> @.version + 1, is |-> n]]
      /\ revisions' = revisions
            \cup {[of |-> r, version |-> adapter[r].version + 1, is |-> n]}
      /\ UNCHANGED task
  BY DEF Register, VersionAfter
<1>2. \A q \in Role : adapter[q].version \in Nat
  BY DEF TypeOK
<1>3. \A q \in Role :
          adapter'[q] = IF q = r THEN [version |-> adapter[r].version + 1, is |-> n]
                        ELSE adapter[q]
  BY <1>1 DEF TypeOK
<1>4. ASSUME NEW v \in revisions'
      PROVE  /\ v.version <= adapter'[v.of].version
             /\ v.version = adapter'[v.of].version => v.is = adapter'[v.of].is
  <2>1. CASE v \in revisions
    <3>1. v.of \in Role /\ v.version \in Nat /\ v.version <= adapter[v.of].version
      BY <2>1 DEF TypeOK, RevisionInv
    <3>2. CASE v.of = r
      BY <1>2, <1>3, <3>1, <3>2
    <3>3. CASE v.of # r
      BY <1>3, <2>1, <3>1, <3>3 DEF RevisionInv
    <3> QED
      BY <3>2, <3>3
  <2>2. CASE v = [of |-> r, version |-> adapter[r].version + 1, is |-> n]
    BY <1>2, <1>3, <2>2
  <2> QED
    BY <1>1, <2>1, <2>2
<1>5. ASSUME NEW w \in Worker, task[w] # Idle
      PROVE  Named(task[w])'
  <2> DEFINE t == task[w]
  <2>1. t \in Task /\ t.as \in Role /\ t.revision \in Nat /\ Named(t)
    BY <1>5 DEF TypeOK, Task, RevisionInv
  <2>2. ASSUME Known(t), t.revision # 0
        PROVE  Match(t)'
    <3>1. t.revision <= adapter[t.as].version
          /\ \A v \in revisions :
                v.of = t.as /\ v.version = t.revision => v.is.implementation = t.used
      BY <2>1, <2>2 DEF Named, Match
    <3>2. t.revision <= adapter'[t.as].version
      BY <1>2, <1>3, <2>1, <3>1
    <3>3. t.as = r => t.revision # adapter[r].version + 1
      BY <1>2, <2>1, <3>1
    <3> QED
      BY <1>1, <3>1, <3>2, <3>3 DEF Match
  <2>3. (t.row # "none" => Known(t)) /\ UNCHANGED t
    BY <1>1, <2>1 DEF Named
  <2> QED
    BY <2>2, <2>3 DEF Named, Known
<1> QED
  BY <1>1, <1>4, <1>5 DEF RevisionInv

LEMMA RevisionNext ==
    ASSUME TypeOK, RevisionInv, [Next]_vars
    PROVE  RevisionInv'
<1>1. ASSUME NEW w \in Worker, Quit(w)
      PROVE  RevisionInv'
  BY <1>1, NamedSet DEF Quit
<1>2. ASSUME NEW w \in Worker, NEW f \in Feature, NEW r \in Tasks, Start(w, f, r)
      PROVE  RevisionInv'
  <2> DEFINE t == [at |-> "forecast", on |-> f, as |-> r, row |-> "none", expected |-> 0,
                   used |-> adapter[r].is.implementation, revision |-> 0, cost |-> 0]
  <2>1. Named(t)
    BY DEF Named, Known
  <2> QED
    BY <1>2, <2>1, NamedSet DEF Start
<1>3. CASE Operate /\ ~ \E r \in Role, n \in Offer : Register(r, n)
  <2>1. UNCHANGED <<registry, task>>
    BY <1>3 DEF Operate, Control, Command, PauseAutomation, ResumeAutomation, ApproveBudgetOverride,
                OtherCommand
  <2> QED
    BY <2>1 DEF registry, RevisionInv, Named, Known, Match
<1>4. CASE UNCHANGED vars \/ \E f \in Feature : LeaveWindow(f)
  BY <1>4 DEF LeaveWindow, vars, registry, RevisionInv, Named, Known, Match
<1> QED
  BY <1>1, <1>2, <1>3, <1>4, RevisionPreflight, RevisionRecord, RevisionRegister,
     NextForms

\* RevisionIsOfTheRun: register writes a revision in the transaction that gives the
\* adapter its version, and never a second one for a version.
THEOREM RevisionsAreOfTheRuns == Spec => []RevisionIsOfTheRun
<1>1. Init => TypeOK /\ RevisionInv
  <2>1. Init => RevisionInv
    BY DEF Init, RevisionInv, Named
  <2> QED
    BY <2>1, TypeInit
<1>2. TypeOK /\ RevisionInv /\ [Next]_vars => TypeOK' /\ RevisionInv'
  BY TypeNext, RevisionNext
<1>3. RevisionInv => RevisionIsOfTheRun
  BY DEF RevisionInv, Named, Match, RevisionIsOfTheRun
<1> QED
  BY <1>1, <1>2, <1>3, PTL DEF Spec

-----------------------------------------------------------------------------
\* The calls whose costs a task may still record on the forecast that let it pass.
Calling == {"lookup", "capabilities", "insert", "queued", "running", "returned", "charge"}

Owed(t, k) ==
    \/ t.at \in Calling /\ (k = 1 \/ t.as # "arbiter")
    \/ t.at = "operations" /\ t.as # "arbiter" /\ k = 1

Open(f) ==
    {o \in Worker \X {1, 2} :
        task[o[1]] # Idle /\ task[o[1]].on = f /\ Owed(task[o[1]], o[2])}

Most == 2 * Cardinality(Worker)

Bounded(f) ==
    \E r \in Tasks :
        spent[f] + Estimate[r] + MaxCost * Cardinality(Open(f)) < Hard[f] + MaxCost * Most

SpendInv ==
    \A f \in Feature :
        Hard[f] # None /\ (\A r \in Tasks : Estimate[r] # None)
            /\ (spent[f] > 0 \/ Open(f) # {})
          => Bounded(f)

LEMMA OpenFinite ==
    ASSUME NEW f
    PROVE  /\ IsFiniteSet(Open(f)) /\ Cardinality(Open(f)) \in Nat
           /\ Cardinality(Open(f)) <= Most /\ Most \in Nat
<1>1. IsFiniteSet({1, 2}) /\ Cardinality({1, 2}) = 2
  <2>1. IsFiniteSet({1}) /\ Cardinality({1}) = 1
    BY FS_Singleton
  <2>2. {1, 2} = {1} \cup {2} /\ 2 \notin {1}
    OBVIOUS
  <2>3. /\ IsFiniteSet({1} \cup {2})
        /\ Cardinality({1} \cup {2}) = IF 2 \in {1} THEN 1 ELSE Cardinality({1}) + 1
    BY <2>1, FS_AddElement
  <2> QED
    BY <2>1, <2>2, <2>3
<1>2. /\ IsFiniteSet(Worker \X {1, 2})
      /\ Cardinality(Worker \X {1, 2}) = Cardinality(Worker) * Cardinality({1, 2})
  BY <1>1, FS_Product, AgentRunsAssumption
<1>3. Cardinality(Worker) \in Nat
  BY FS_CardinalityType, AgentRunsAssumption
<1>4. Open(f) \subseteq Worker \X {1, 2}
  BY DEF Open
<1>5. IsFiniteSet(Open(f)) /\ Cardinality(Open(f)) <= Cardinality(Worker \X {1, 2})
  BY <1>2, <1>4, FS_Subset
<1> QED
  BY <1>1, <1>2, <1>3, <1>5, FS_CardinalityType DEF Most

\* Only coders and reviewers ask for a forecast.
AskInv == \A w \in Worker : At(w, "forecast") => task[w].as \in Tasks

\* Nothing is spent and no call is let pass: what is open only closes.
Closes == \A f \in Feature : Open(f)' \subseteq Open(f)

LEMMA SpendCloses ==
    ASSUME TypeOK, SpendInv, UNCHANGED spent, Closes
    PROVE  SpendInv'
<1> SUFFICES ASSUME NEW f \in Feature, Hard[f] # None,
                    \A r \in Tasks : Estimate[r] # None,
                    spent[f] > 0 \/ Open(f)' # {}
             PROVE  Bounded(f)'
  BY DEF SpendInv
<1>1. Open(f)' \subseteq Open(f)
  BY DEF Closes
<1>2. PICK r \in Tasks :
          spent[f] + Estimate[r] + MaxCost * Cardinality(Open(f)) < Hard[f] + MaxCost * Most
  BY <1>1 DEF SpendInv, Bounded
<1>3. /\ Cardinality(Open(f)') <= Cardinality(Open(f))
      /\ Cardinality(Open(f)') \in Nat /\ Cardinality(Open(f)) \in Nat
  BY <1>1, OpenFinite, FS_Subset, FS_CardinalityType
<1>4. MaxCost * Cardinality(Open(f)') <= MaxCost * Cardinality(Open(f))
  BY <1>3, AgentRunsAssumption
<1>5. /\ spent[f] \in Nat /\ Estimate[r] \in Int /\ Hard[f] \in Int /\ Most \in Nat
      /\ MaxCost * Cardinality(Open(f)') \in Int /\ MaxCost * Cardinality(Open(f)) \in Int
      /\ MaxCost * Most \in Int
  BY <1>3, OpenFinite, AgentRunsAssumption DEF TypeOK, None
<1>6. spent[f] + Estimate[r] + MaxCost * Cardinality(Open(f)')
        < Hard[f] + MaxCost * Most
  BY <1>2, <1>4, <1>5
<1> QED
  BY <1>6 DEF Bounded, Most

\* The other workers' calls stay as they are when one worker goes on.
LEMMA SetCloses ==
    ASSUME TypeOK, NEW w \in Worker, NEW t, Set(w, t),
           \/ t = Idle
           \/ \A k \in {1, 2} : ~Owed(t, k)
           \/ /\ task[w] # Idle /\ t.on = task[w].on
              /\ \A k \in {1, 2} : Owed(t, k) => Owed(task[w], k)
    PROVE  Closes
<1> SUFFICES ASSUME NEW f \in Feature, NEW v \in Worker, NEW k \in {1, 2},
                    task'[v] # Idle, task'[v].on = f, Owed(task'[v], k)
             PROVE  task[v] # Idle /\ task[v].on = f /\ Owed(task[v], k)
  BY DEF Closes, Open, Owed
<1>1. CASE v = w
  <2>1. task'[v] = t
    BY <1>1 DEF Set, TypeOK
  <2> QED
    BY <1>1, <2>1
<1>2. CASE v # w
  <2>1. task'[v] = task[v]
    BY <1>2 DEF Set, TypeOK
  <2> QED
    BY <2>1
<1> QED
  BY <1>1, <1>2

LEMMA PreflightSpends ==
    ASSUME TypeOK, SpendInv, AskInv, NEW w \in Worker, Preflight(w)
    PROVE  SpendInv'
<1>1. task[w] \in Task /\ task[w] # Idle /\ UNCHANGED spent
  BY TaskTyped DEF Preflight, Forecast, ReadVersion, RecordBudgetExceeded, Blocked, At
<1>2. ASSUME NEW step \in {"version", "blocked"}, Go(w, step)
      PROVE  SpendInv'
  <2>1. [task[w] EXCEPT !.at = step].at = step
    BY <1>1 DEF Task
  <2>2. \A k \in {1, 2} : ~Owed([task[w] EXCEPT !.at = step], k)
    BY <2>1 DEF Owed, Calling
  <2> QED
    BY <1>1, <1>2, <2>2, SetCloses, SpendCloses DEF Go
<1>3. ASSUME Set(w, Idle)
      PROVE  SpendInv'
  BY <1>1, <1>3, SetCloses, SpendCloses
<1>4. CASE ReadVersion(w)
  <2> DEFINE t == [task[w] EXCEPT !.at = "report", !.expected = version]
  <2>1. t.at = "report"
    BY <1>1 DEF Task
  <2>2. \A k \in {1, 2} : ~Owed(t, k)
    BY <2>1 DEF Owed, Calling
  <2> QED
    BY <1>1, <1>4, <2>2, SetCloses, SpendCloses DEF ReadVersion
<1>5. CASE RecordBudgetExceeded(w) \/ Blocked(w)
  <2>1. Go(w, "blocked") \/ Set(w, Idle)
    BY <1>5 DEF RecordBudgetExceeded, Blocked
  <2> QED
    BY <1>2, <1>3, <2>1
<1>6. CASE Forecast(w) /\ Breaches(task[w].on, task[w].as)
  BY <1>2, <1>6 DEF Forecast
<1>7. CASE Forecast(w) /\ ~Breaches(task[w].on, task[w].as)
  <2> DEFINE g == task[w].on
             t == [task[w] EXCEPT !.at = "lookup"]
  <2>1. Set(w, t) /\ t.on = g /\ g \in Feature
    BY <1>1, <1>7 DEF Forecast, Go, Task
  <2> SUFFICES ASSUME NEW f \in Feature, Hard[f] # None,
                      \A r \in Tasks : Estimate[r] # None,
                      spent[f] > 0 \/ Open(f)' # {}
               PROVE  Bounded(f)'
    BY <1>1 DEF SpendInv
  <2>2. CASE f # g
    <3>1. Open(f)' = Open(f)
      BY <2>1, <2>2 DEF Open, Set, TypeOK
    <3>2. Bounded(f)
      BY <1>1, <3>1 DEF SpendInv
    <3> QED
      BY <1>1, <3>1, <3>2 DEF Bounded, Most
  <2>3. CASE f = g
    <3>1. task[w].as \in Tasks
      BY <1>7 DEF AskInv, Forecast
    <3>2. PICK r \in Tasks : spent[f] + Estimate[r] < Hard[f]
      <4>1. ~(Projected(f, Estimate[task[w].as]) >= Hard[f])
        BY <1>7, <2>3, <3>1 DEF Breaches
      <4>2. spent[f] \in Nat /\ Estimate[task[w].as] \in Int /\ Hard[f] \in Int
        BY <3>1, AgentRunsAssumption DEF TypeOK, None
      <4> QED
        BY <3>1, <4>1, <4>2 DEF Projected
    <3>3. Cardinality(Open(f)') <= Most /\ Cardinality(Open(f)') \in Nat /\ Most \in Nat
      <4>1. (/\ IsFiniteSet(Open(f)) /\ Cardinality(Open(f)) \in Nat
             /\ Cardinality(Open(f)) <= Most /\ Most \in Nat)'
        BY OpenFinite, PTL
      <4> QED
        BY <4>1, OpenFinite DEF Most
    <3>4. MaxCost * Cardinality(Open(f)') <= MaxCost * Most
      BY <3>3, AgentRunsAssumption
    <3>5. /\ spent[f] \in Nat /\ Estimate[r] \in Int /\ Hard[f] \in Int
          /\ MaxCost * Cardinality(Open(f)') \in Int /\ MaxCost * Most \in Int
      BY <3>3, AgentRunsAssumption DEF TypeOK, None
    <3>6. spent[f] + Estimate[r] + MaxCost * Cardinality(Open(f)')
            < Hard[f] + MaxCost * Most
      BY <3>2, <3>4, <3>5
    <3> QED
      BY <1>1, <3>6 DEF Bounded, Most
  <2> QED
    BY <2>2, <2>3
<1> QED
  BY <1>4, <1>5, <1>6, <1>7 DEF Preflight

\* A cost that is recorded closes a call, and is no more than any call costs.
LEMMA ChargeSpends ==
    ASSUME TypeOK, SpendInv, NEW w \in Worker, InsertCostRecord(w)
    PROVE  SpendInv'
<1> DEFINE g == task[w].on
           t == [task[w] EXCEPT !.at = "operations", !.cost = 0]
           e == <<w, IF task[w].as = "arbiter" THEN 1 ELSE 2>>
<1>1. /\ task[w] \in Task /\ task[w] # Idle /\ task[w].at = "charge"
      /\ g \in Feature /\ task[w].cost \in 0 .. MaxCost
  BY TaskTyped DEF InsertCostRecord, At, Task
<1>2. Set(w, t) /\ spent' = [spent EXCEPT ![g] = @ + task[w].cost]
  BY DEF InsertCostRecord
<1>3. t.on = g /\ t.as = task[w].as /\ t.at = "operations"
  BY <1>1 DEF Task
<1>4. \A v \in Worker : task'[v] = IF v = w THEN t ELSE task[v]
  BY <1>2 DEF Set, TypeOK
<1>5. ASSUME NEW f \in Feature
      PROVE  Open(f)' \subseteq IF f = g THEN Open(f) \ {e} ELSE Open(f)
  <2> SUFFICES ASSUME NEW v \in Worker, NEW k \in {1, 2},
                      task'[v] # Idle, task'[v].on = f, Owed(task'[v], k)
               PROVE  /\ task[v] # Idle /\ task[v].on = f /\ Owed(task[v], k)
                      /\ f = g => <<v, k>> # e
    BY DEF Open, Owed
  <2> HIDE DEF t
  <2>1. CASE v = w
    BY <1>1, <1>3, <1>4, <2>1 DEF Owed, Calling
  <2>2. CASE v # w
    BY <1>4, <2>2
  <2> QED
    BY <2>1, <2>2
<1>6. e \in Open(g)
  BY <1>1 DEF Open, Owed, Calling
<1> HIDE DEF e, t
<1> SUFFICES ASSUME NEW f \in Feature, Hard[f] # None,
                    \A r \in Tasks : Estimate[r] # None,
                    spent'[f] > 0 \/ Open(f)' # {}
             PROVE  Bounded(f)'
  BY DEF SpendInv
<1>7. /\ IsFiniteSet(Open(f)) /\ Cardinality(Open(f)) \in Nat /\ Most \in Nat
  BY OpenFinite
<1>8. /\ spent[f] \in Nat /\ Hard[f] \in Int /\ \A r \in Tasks : Estimate[r] \in Int
  BY AgentRunsAssumption DEF TypeOK, None
<1>9. CASE f # g
  <2>1. spent'[f] = spent[f] /\ Open(f)' \subseteq Open(f)
    BY <1>1, <1>2, <1>5, <1>9 DEF TypeOK
  <2>2. PICK r \in Tasks :
            spent[f] + Estimate[r] + MaxCost * Cardinality(Open(f))
              < Hard[f] + MaxCost * Most
    BY <2>1 DEF SpendInv, Bounded
  <2>3. Cardinality(Open(f)') <= Cardinality(Open(f)) /\ Cardinality(Open(f)') \in Nat
    BY <1>7, <2>1, FS_Subset, FS_CardinalityType
  <2>4. MaxCost * Cardinality(Open(f)') <= MaxCost * Cardinality(Open(f))
    BY <1>7, <2>3, AgentRunsAssumption
  <2>5. /\ MaxCost * Cardinality(Open(f)') \in Int /\ MaxCost * Cardinality(Open(f)) \in Int
        /\ MaxCost * Most \in Int
    BY <1>7, <2>3, AgentRunsAssumption
  <2>6. spent'[f] + Estimate[r] + MaxCost * Cardinality(Open(f)') < Hard[f] + MaxCost * Most
    BY <1>8, <2>1, <2>2, <2>4, <2>5
  <2> QED
    BY <2>6 DEF Bounded, Most
<1>10. CASE f = g
  <2>1. spent'[f] = spent[f] + task[w].cost /\ Open(f)' \subseteq Open(f) \ {e}
    BY <1>1, <1>2, <1>5, <1>10 DEF TypeOK
  <2>2. PICK r \in Tasks :
            spent[f] + Estimate[r] + MaxCost * Cardinality(Open(f))
              < Hard[f] + MaxCost * Most
    BY <1>6, <1>10 DEF SpendInv, Bounded
  <2>3. /\ IsFiniteSet(Open(f) \ {e})
        /\ Cardinality(Open(f) \ {e}) = Cardinality(Open(f)) - 1
    BY <1>6, <1>7, <1>10, FS_RemoveElement
  <2>4. /\ Cardinality(Open(f)') <= Cardinality(Open(f)) - 1
        /\ Cardinality(Open(f)') \in Nat
    BY <2>1, <2>3, FS_Subset, FS_CardinalityType
  <2>5. MaxCost * Cardinality(Open(f)') <= MaxCost * (Cardinality(Open(f)) - 1)
    BY <1>7, <2>4, AgentRunsAssumption
  <2>6. MaxCost * (Cardinality(Open(f)) - 1) = MaxCost * Cardinality(Open(f)) - MaxCost
    BY <1>7, AgentRunsAssumption
  <2>7. /\ MaxCost * Cardinality(Open(f)') \in Int /\ MaxCost * Cardinality(Open(f)) \in Int
        /\ MaxCost * Most \in Int
    BY <1>7, <2>4, AgentRunsAssumption
  <2>8. spent'[f] + Estimate[r] + MaxCost * Cardinality(Open(f)') < Hard[f] + MaxCost * Most
    <3>1. task[w].cost <= MaxCost /\ task[w].cost \in Int /\ MaxCost \in Int
      BY <1>1, AgentRunsAssumption
    <3> HIDE DEF g
    <3> QED
      BY <1>8, <2>1, <2>2, <2>5, <2>6, <2>7, <3>1
  <2> QED
    BY <2>8 DEF Bounded, Most
<1> QED
  BY <1>9, <1>10

LEMMA RecordSpends ==
    ASSUME TypeOK, SpendInv, NEW w \in Worker, RecordRun(w)
    PROVE  SpendInv'
<1> DEFINE T == task[w]
<1>1. CASE InsertCostRecord(w)
  BY <1>1, ChargeSpends
<1>2. CASE ~InsertCostRecord(w)
  <2>1. T \in Task /\ T # Idle /\ UNCHANGED spent
    BY <1>2, TaskTyped DEF RecordRun, GetById, ReadCapabilities, InsertRun, SetRunning, Call,
          ApplyUsageAndSetSucceeded, InsertToolOperations, WriteFails,
          ApplyUsageAndSetFailed, At
  <2>2. ASSUME Set(w, Idle)
        PROVE  SpendInv'
    BY <2>1, <2>2, SetCloses, SpendCloses
  <2>3. ASSUME NEW t, Set(w, t), t.on = T.on, t.as = T.as, T.at \in Calling,
               t.at \in Calling \cup {"failing"}
        PROVE  SpendInv'
    <3>1. \A k \in {1, 2} : Owed(t, k) => Owed(T, k)
      BY <2>3 DEF Owed, Calling
    <3> QED
      BY <2>1, <2>3, <3>1, SetCloses, SpendCloses
  <2>4. ASSUME NEW t, Set(w, t), t.at = "failing"
        PROVE  SpendInv'
    <3>1. \A k \in {1, 2} : ~Owed(t, k)
      BY <2>4 DEF Owed, Calling
    <3> QED
      BY <2>1, <2>4, <3>1, SetCloses, SpendCloses
  <2>5. ASSUME NEW step, Go(w, step)
        PROVE  /\ Set(w, [T EXCEPT !.at = step])
               /\ [T EXCEPT !.at = step].on = T.on /\ [T EXCEPT !.at = step].as = T.as
               /\ [T EXCEPT !.at = step].at = step
    BY <2>1, <2>5 DEF Go, Task
  <2>6. CASE GetById(w)
    <3> DEFINE a == adapter[T.as]
               t == [T EXCEPT !.at = "capabilities", !.used = a.is.implementation,
                              !.revision = a.version]
    <3>1. t.on = T.on /\ t.as = T.as /\ t.at = "capabilities"
      BY <2>1 DEF Task
    <3>2. Set(w, t) \/ Set(w, Idle)
      BY <2>6 DEF GetById
    <3>3. T.at \in Calling /\ "capabilities" \in Calling
      BY <2>6 DEF GetById, At, Calling
    <3> HIDE DEF t
    <3> QED
      BY <2>2, <2>3, <3>1, <3>2, <3>3
  <2>7. CASE ReadCapabilities(w)
    <3>1. T.at \in Calling /\ "insert" \in Calling
      BY <2>7 DEF ReadCapabilities, At, Calling
    <3>2. CASE Set(w, Idle)
      BY <2>2, <3>2
    <3>3. CASE Go(w, "insert")
      <4> DEFINE t == [T EXCEPT !.at = "insert"]
      <4>1. Set(w, t) /\ t.on = T.on /\ t.as = T.as /\ t.at \in Calling
        BY <2>5, <3>1, <3>3
      <4> HIDE DEF t
      <4> QED
        BY <2>3, <3>1, <4>1
    <3> QED
      BY <2>7, <3>2, <3>3 DEF ReadCapabilities
  <2>8. CASE InsertRun(w)
    <3> DEFINE t(n) == [T EXCEPT !.at = "queued", !.row = "queued", !.revision = n]
    <3>1. \A n : t(n).on = T.on /\ t(n).as = T.as /\ t(n).at = "queued"
      BY <2>1 DEF Task
    <3>2. T.at \in Calling /\ "queued" \in Calling
      BY <2>8 DEF InsertRun, At, Calling
    <3>3. PICK n : Set(w, t(n))
      <4>1. CASE \E v \in revisions : v.of = T.as /\ v.version = T.revision
        BY <2>8, <4>1 DEF InsertRun
      <4>2. CASE ~ \E v \in revisions : v.of = T.as /\ v.version = T.revision
        BY <2>8, <4>2 DEF InsertRun
      <4> QED
        BY <4>1, <4>2
    <3> HIDE DEF t
    <3> QED
      BY <2>3, <3>1, <3>2, <3>3
  <2>9. CASE SetRunning(w)
    <3> DEFINE t == [T EXCEPT !.at = "running", !.row = "running"]
    <3>1. t.on = T.on /\ t.as = T.as /\ t.at = "running"
      BY <2>1 DEF Task
    <3>2. T.at \in Calling /\ "running" \in Calling /\ Set(w, t)
      BY <2>9 DEF SetRunning, At, Calling
    <3> HIDE DEF t
    <3> QED
      BY <2>3, <3>1, <3>2
  <2>10. CASE Call(w)
    <3> DEFINE t(c) == [T EXCEPT !.at = "returned", !.cost = c]
    <3>1. \A c : t(c).on = T.on /\ t(c).as = T.as /\ t(c).at = "returned"
      BY <2>1 DEF Task
    <3>2. T.at \in Calling /\ "returned" \in Calling
      BY <2>10 DEF Call, At, Calling
    <3>3. CASE Go(w, "failing")
      BY <2>4, <2>5, <3>3
    <3>4. CASE \E c \in 0 .. MaxCost : Set(w, t(c))
      <4> HIDE DEF t
      <4> QED
        BY <2>3, <3>1, <3>2, <3>4
    <3> QED
      BY <2>10, <3>3, <3>4 DEF Call
  <2>11. CASE ApplyUsageAndSetSucceeded(w)
    <3> DEFINE t == [T EXCEPT !.at = "charge", !.row = "succeeded"]
    <3>1. t.on = T.on /\ t.as = T.as /\ t.at = "charge"
      BY <2>1 DEF Task
    <3>2. T.at \in Calling /\ "charge" \in Calling /\ Set(w, t)
      BY <2>11 DEF ApplyUsageAndSetSucceeded, At, Calling
    <3> HIDE DEF t
    <3> QED
      BY <2>3, <3>1, <3>2
  <2>12. CASE InsertToolOperations(w)
    <3> DEFINE t == [T EXCEPT !.at = "lookup", !.as = "arbiter", !.row = "none"]
    <3>1. t.on = T.on /\ t.as = "arbiter" /\ t.at = "lookup"
      BY <2>1 DEF Task
    <3>2. CASE Set(w, Idle)
      BY <2>2, <3>2
    <3>3. CASE T.as = "reviewer" /\ Set(w, t)
      <4>1. T.at = "operations"
        BY <2>12 DEF InsertToolOperations, At
      <4> HIDE DEF t
      <4>2. \A k \in {1, 2} : Owed(t, k) => Owed(T, k)
        BY <3>1, <3>3, <4>1 DEF Owed
      <4> QED
        BY <2>1, <3>1, <3>3, <4>2, SetCloses, SpendCloses
    <3> QED
      BY <2>12, <3>2, <3>3 DEF InsertToolOperations, AsArbiter
  <2>13. CASE WriteFails(w)
    BY <2>4, <2>5, <2>13 DEF WriteFails
  <2>14. CASE ApplyUsageAndSetFailed(w)
    <3>1. [T EXCEPT !.row = "failed"].at = "failing"
      BY <2>1, <2>14 DEF ApplyUsageAndSetFailed, At, Task
    <3>2. Set(w, Idle) \/ Set(w, [T EXCEPT !.row = "failed"])
      BY <2>14 DEF ApplyUsageAndSetFailed
    <3> QED
      BY <2>2, <2>4, <3>1, <3>2
  <2> QED
    BY <1>2, <2>6, <2>7, <2>8, <2>9, <2>10, <2>11, <2>12, <2>13, <2>14 DEF RecordRun
<1> QED
  BY <1>1, <1>2

\* Costs that stop to count only lower what counts.
LEMMA SpendLeaves ==
    ASSUME TypeOK, SpendInv, NEW g \in Feature, LeaveWindow(g)
    PROVE  SpendInv'
<1> SUFFICES ASSUME NEW f \in Feature, Hard[f] # None,
                    \A r \in Tasks : Estimate[r] # None,
                    spent'[f] > 0 \/ Open(f)' # {}
             PROVE  Bounded(f)'
  BY DEF SpendInv
<1>1. Open(f)' = Open(f)
  BY DEF LeaveWindow, Open
<1>2. spent[f] \in Nat /\ spent'[f] \in Nat /\ spent'[f] <= spent[f]
  BY DEF LeaveWindow, TypeOK
<1>3. PICK r \in Tasks :
          spent[f] + Estimate[r] + MaxCost * Cardinality(Open(f)) < Hard[f] + MaxCost * Most
  BY <1>1, <1>2 DEF SpendInv, Bounded
<1>4. /\ Estimate[r] \in Int /\ Hard[f] \in Int
      /\ MaxCost * Cardinality(Open(f)) \in Int /\ MaxCost * Most \in Int
  BY OpenFinite, FS_CardinalityType, AgentRunsAssumption DEF None, Most
<1>5. spent'[f] + Estimate[r] + MaxCost * Cardinality(Open(f)) < Hard[f] + MaxCost * Most
  BY <1>2, <1>3, <1>4
<1> QED
  BY <1>1, <1>5 DEF Bounded, Most

LEMMA SpendNext ==
    ASSUME TypeOK, SpendInv, AskInv, [Next]_vars
    PROVE  SpendInv'
<1>1. ASSUME NEW w \in Worker, Quit(w)
      PROVE  SpendInv'
  BY <1>1, SetCloses, SpendCloses DEF Quit
<1>2. ASSUME NEW w \in Worker, NEW f \in Feature, NEW r \in Tasks, Start(w, f, r)
      PROVE  SpendInv'
  <2> DEFINE t == [at |-> "forecast", on |-> f, as |-> r, row |-> "none", expected |-> 0,
                   used |-> adapter[r].is.implementation, revision |-> 0, cost |-> 0]
  <2>1. \A k \in {1, 2} : ~Owed(t, k)
    BY DEF Owed, Calling
  <2> QED
    BY <1>2, <2>1, SetCloses, SpendCloses DEF Start
<1>3. CASE Operate \/ UNCHANGED vars
  <2>1. UNCHANGED <<spent, task>>
    BY <1>3 DEF Operate, Register, Control, Command, PauseAutomation, ResumeAutomation,
                ApproveBudgetOverride, OtherCommand, vars
  <2>2. Closes
    BY <2>1 DEF Closes, Open
  <2> QED
    BY <2>1, <2>2, SpendCloses
<1>4. ASSUME NEW f \in Feature, LeaveWindow(f)
      PROVE  SpendInv'
  BY <1>4, SpendLeaves
<1> QED
  BY <1>1, <1>2, <1>3, <1>4, PreflightSpends, RecordSpends, NextForms

LEMMA AskNext ==
    ASSUME TypeOK, AskInv, [Next]_vars
    PROVE  AskInv'
<1>1. ASSUME NEW w \in Worker, NEW t, Set(w, t),
             t = Idle \/ t.at # "forecast" \/ t.as \in Tasks
      PROVE  AskInv'
  <2>1. \A v \in Worker : task'[v] = IF v = w THEN t ELSE task[v]
    BY <1>1 DEF Set, TypeOK
  <2> QED
    BY <1>1, <2>1 DEF AskInv, At
<1>2. ASSUME NEW w \in Worker, NEW f \in Feature, NEW r \in Tasks, Start(w, f, r)
      PROVE  AskInv'
  BY <1>1, <1>2 DEF Start
<1>3. ASSUME NEW w \in Worker, Preflight(w) \/ RecordRun(w) \/ Quit(w)
      PROVE  AskInv'
  <2>1. task[w] \in Task /\ task[w] # Idle
    BY <1>3 DEF Preflight, Forecast, ReadVersion, RecordBudgetExceeded, Blocked, RecordRun,
          GetById, ReadCapabilities, InsertRun, SetRunning, Call, ApplyUsageAndSetSucceeded,
          InsertCostRecord, InsertToolOperations, WriteFails, ApplyUsageAndSetFailed, Quit,
          At, TypeOK
  <2>2. CASE Set(w, Idle)
    BY <1>1, <2>2
  <2>3. ASSUME NEW step, step # "forecast", Go(w, step)
        PROVE  AskInv'
    <3>1. [task[w] EXCEPT !.at = step].at = step
      BY <2>1 DEF Task
    <3> QED
      BY <1>1, <2>3, <3>1 DEF Go
  <2>4. CASE Preflight(w)
    <3>1. [task[w] EXCEPT !.at = "report", !.expected = version].at = "report"
      BY <2>1 DEF Task
    <3>2. CASE ReadVersion(w)
      BY <1>1, <3>1, <3>2 DEF ReadVersion
    <3> QED
      BY <2>2, <2>3, <2>4, <3>2 DEF Preflight, Forecast, RecordBudgetExceeded, Blocked
  <2>5. CASE RecordRun(w)
    <3> DEFINE T == task[w]
    <3>2. CASE GetById(w)
      <4> DEFINE t == [T EXCEPT !.at = "capabilities", !.used = adapter[T.as].is.implementation,
                                !.revision = adapter[T.as].version]
      <4>1. t.at = "capabilities"
        BY <2>1 DEF Task
      <4>2. Set(w, t) \/ Set(w, Idle)
        BY <3>2 DEF GetById
      <4> HIDE DEF t
      <4> QED
        BY <1>1, <2>2, <4>1, <4>2
    <3>3. CASE InsertRun(w)
      <4>1. PICK z : Set(w, [T EXCEPT !.at = "queued", !.row = "queued", !.revision = z])
        BY <3>3 DEF InsertRun
      <4> DEFINE t == [T EXCEPT !.at = "queued", !.row = "queued", !.revision = z]
      <4>2. t.at = "queued"
        BY <2>1 DEF Task
      <4> QED
        BY <1>1, <4>1, <4>2
    <3>4. CASE SetRunning(w)
      <4> DEFINE t == [T EXCEPT !.at = "running", !.row = "running"]
      <4>1. t.at = "running"
        BY <2>1 DEF Task
      <4>2. Set(w, t)
        BY <3>4 DEF SetRunning
      <4> HIDE DEF t
      <4> QED
        BY <1>1, <4>1, <4>2
    <3>5. CASE Call(w)
      <4>1. CASE Go(w, "failing")
        BY <2>3, <4>1
      <4>2. CASE \E c \in 0 .. MaxCost : Set(w, [T EXCEPT !.at = "returned", !.cost = c])
        <5>1. PICK c \in 0 .. MaxCost : Set(w, [T EXCEPT !.at = "returned", !.cost = c])
          BY <4>2
        <5>2. [T EXCEPT !.at = "returned", !.cost = c].at = "returned"
          BY <2>1 DEF Task
        <5> QED
          BY <1>1, <5>1, <5>2
      <4> QED
        BY <3>5, <4>1, <4>2 DEF Call
    <3>6. CASE ApplyUsageAndSetSucceeded(w)
      <4> DEFINE t == [T EXCEPT !.at = "charge", !.row = "succeeded"]
      <4>1. t.at = "charge"
        BY <2>1 DEF Task
      <4>2. Set(w, t)
        BY <3>6 DEF ApplyUsageAndSetSucceeded
      <4> HIDE DEF t
      <4> QED
        BY <1>1, <4>1, <4>2
    <3>7. CASE InsertCostRecord(w)
      <4> DEFINE t == [T EXCEPT !.at = "operations", !.cost = 0]
      <4>1. t.at = "operations"
        BY <2>1 DEF Task
      <4>2. Set(w, t)
        BY <3>7 DEF InsertCostRecord
      <4> HIDE DEF t
      <4> QED
        BY <1>1, <4>1, <4>2
    <3>8. CASE InsertToolOperations(w)
      <4> DEFINE t == [T EXCEPT !.at = "lookup", !.as = "arbiter", !.row = "none"]
      <4>1. t.at = "lookup"
        BY <2>1 DEF Task
      <4>2. Set(w, t) \/ Set(w, Idle)
        BY <3>8 DEF InsertToolOperations, AsArbiter
      <4> HIDE DEF t
      <4> QED
        BY <1>1, <2>2, <4>1, <4>2
    <3>9. CASE ApplyUsageAndSetFailed(w)
      <4>1. T.at = "failing" /\ [T EXCEPT !.row = "failed"].at = T.at
        BY <2>1, <3>9 DEF ApplyUsageAndSetFailed, At, Task
      <4> QED
        BY <1>1, <2>2, <3>9, <4>1 DEF ApplyUsageAndSetFailed
    <3> QED
      BY <2>3, <2>2, <2>5, <3>2, <3>3, <3>4, <3>5, <3>6, <3>7, <3>8, <3>9
         DEF RecordRun, ReadCapabilities, WriteFails
  <2>6. CASE Quit(w)
    BY <2>2, <2>6 DEF Quit
  <2> QED
    BY <1>3, <2>4, <2>5, <2>6
<1>4. CASE Operate \/ UNCHANGED vars \/ \E f \in Feature : LeaveWindow(f)
  BY <1>4 DEF Operate, Register, Control, Command, PauseAutomation, ResumeAutomation,
              ApproveBudgetOverride, OtherCommand, LeaveWindow, vars, AskInv, At
<1> QED
  BY <1>2, <1>3, <1>4, NextForms

\* OverspendIsBounded: when a forecast goes well, what counts and an estimate are
\* below the limit, and each worker still owes two costs at the most, its own
\* among them.  Forecasts that do not go well let nothing pass.
THEOREM OverspendBound == Spec => []OverspendIsBounded
<1>1. Init => TypeOK /\ SpendInv /\ AskInv
  <2>1. Init => SpendInv /\ AskInv
    BY DEF Init, SpendInv, AskInv, Open, At
  <2> QED
    BY <2>1, TypeInit
<1>2. TypeOK /\ SpendInv /\ AskInv /\ [Next]_vars => TypeOK' /\ SpendInv' /\ AskInv'
  BY TypeNext, SpendNext, AskNext
<1>3. TypeOK /\ SpendInv => OverspendIsBounded
  <2> SUFFICES ASSUME TypeOK, SpendInv, NEW f \in Feature, Hard[f] # None,
                      \A r \in Tasks : Estimate[r] # None, spent[f] > 0
               PROVE  \E r \in Tasks :
                        spent[f] + Estimate[r] < Hard[f] + 2 * Cardinality(Worker) * MaxCost
    BY DEF OverspendIsBounded
  <2>1. PICK r \in Tasks :
            spent[f] + Estimate[r] + MaxCost * Cardinality(Open(f)) < Hard[f] + MaxCost * Most
    BY DEF SpendInv, Bounded
  <2>2. Cardinality(Open(f)) \in Nat /\ Most \in Nat /\ Cardinality(Worker) \in Nat
    BY OpenFinite, FS_CardinalityType, AgentRunsAssumption
  <2>3. MaxCost * Cardinality(Open(f)) \in Nat
    BY <2>2, AgentRunsAssumption
  <2>4. MaxCost * Most = 2 * Cardinality(Worker) * MaxCost
    BY <2>2, AgentRunsAssumption DEF Most
  <2>5. /\ spent[f] \in Nat /\ Estimate[r] \in Int /\ Hard[f] \in Int
        /\ 2 * Cardinality(Worker) * MaxCost \in Int
    BY <2>2, AgentRunsAssumption DEF TypeOK, None
  <2> QED
    BY <2>1, <2>3, <2>4, <2>5
<1> QED
  BY <1>1, <1>2, <1>3, PTL DEF Spec
=============================================================================
