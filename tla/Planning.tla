------------------------------ MODULE Planning ------------------------------
(***************************************************************************)
(* From a specification to feature runs: readiness assessments with their  *)
(* gaps and clarification sessions, plans and their backlogs               *)
(* (core/src/commands/handlers/planning, clarification, plan).             *)
(*                                                                         *)
(* A command is one transaction.  Those on sessions and gaps compare the   *)
(* version of the row they change.  ValidateBacklog and SubmitPlan read a  *)
(* backlog and write its plan later, and a backlog changes without the     *)
(* version of its plan: these two take two steps.  SQLite excludes other   *)
(* writers from them, PostgreSQL does not; late is the difference.         *)
(***************************************************************************)
EXTENDS Integers

CONSTANTS
    Assessment, Gap, Plan,
    Request,        \* feature requests by fr_id, which is unique in a project
    MaxRounds,      \* clarification_sessions.max_rounds, always 3
    MaxQuestions,   \* questions of a round, 7 in the code
    MaxRaised,      \* bound on the questions an assessment raises
    Unset

ASSUME PlanningAssumption ==
    /\ Unset \notin Plan \cup Assessment
    /\ MaxRounds \in Nat \ {0} /\ MaxQuestions \in Nat /\ MaxRaised \in Nat

VARIABLES
    readiness,  \* planning_readiness_assessments.status
    gaps,       \* blocking planning_gaps without resolved_at
    raised,     \* number of planning_questions of the project
    session,    \* clarification_sessions.status
    round,      \* clarification_sessions.round
    unanswered, \* clarification_questions without an answer, by round
    state,      \* implementation_plans.state
    basis,      \* implementation_plans.assessment_id
    verdict,    \* implementation_plans.backlog_validated_state
    backlog,    \* the plan of each feature request
    kind,       \* feature_requests.kind, and whether a feature has criteria and tests
    needs,      \* feature_dependencies: source, target
    runs,       \* requests with a feature run
    validating, \* the verdict an open ValidateBacklog has come to
    submitting, \* an open SubmitPlan has found the plan in order
    late        \* requests added beside one of the two, or after their plan was submitted

assessing == <<readiness, gaps, raised>>
clarifying == <<session, round, unanswered>>
requests == <<backlog, kind, needs>>
open == <<validating, submitting, late>>
planningVars == <<assessing, clarifying, state, basis, verdict, requests, runs, open>>

Round == 1 .. MaxRounds
Kind == {"feature", "bare_feature", "discovery"}

PlanningTypeOK ==
    /\ readiness \in [Assessment -> {"none", "sufficient", "insufficient"}]
    /\ gaps \in [Assessment -> SUBSET Gap]
    /\ raised \in Nat
    /\ session \in [Assessment -> {"none", "required", "in_progress", "complete", "blocked"}]
    /\ round \in [Assessment -> 0 .. MaxRounds]
    /\ unanswered \in [Assessment -> [Round -> 0 .. MaxQuestions]]
    /\ state \in [Plan -> {"none", "draft", "pending_approval", "approved",
                           "activated_for_execution"}]
    /\ basis \in [Plan -> Assessment \cup {Unset}]
    /\ verdict \in [Plan -> {"none", "valid", "invalid"}]
    /\ backlog \in [Request -> Plan \cup {Unset}]
    /\ kind \in [Request -> Kind \cup {"none"}]
    /\ needs \subseteq Request \X Request
    /\ runs \subseteq Request
    /\ validating \in [Plan -> {"none", "valid", "invalid"}]
    /\ submitting \in [Plan -> BOOLEAN]
    /\ late \subseteq Request

PlanningInit ==
    /\ readiness = [a \in Assessment |-> "none"]
    /\ gaps = [a \in Assessment |-> {}]
    /\ raised = 0
    /\ session = [a \in Assessment |-> "none"]
    /\ round = [a \in Assessment |-> 0]
    /\ unanswered = [a \in Assessment |-> [r \in Round |-> 0]]
    /\ state = [p \in Plan |-> "none"]
    /\ basis = [p \in Plan |-> Unset]
    /\ verdict = [p \in Plan |-> "none"]
    /\ backlog = [f \in Request |-> Unset]
    /\ kind = [f \in Request |-> "none"]
    /\ needs = {}
    /\ runs = {}
    /\ validating = [p \in Plan |-> "none"]
    /\ submitting = [p \in Plan |-> FALSE]
    /\ late = {}

-----------------------------------------------------------------------------
(* Assessment and clarification                                            *)

\* What the planner found is recorded with a session, which is complete at
\* once unless the specification was insufficient.
AssessPlanningReadiness(a) ==
    /\ readiness[a] = "none"
    /\ \E result \in {"sufficient", "insufficient"}, found \in SUBSET Gap, n \in 0 .. MaxRaised :
           /\ readiness' = [readiness EXCEPT ![a] = result]
           /\ gaps' = [gaps EXCEPT ![a] = found]
           /\ raised' = raised + n
           /\ session' = [session EXCEPT ![a] = IF result = "insufficient"
                                                THEN "required" ELSE "complete"]
    /\ UNCHANGED <<round, unanswered, state, basis, verdict, requests, runs, open>>

ResolvePlanningGap(a, g) ==
    /\ g \in gaps[a]
    /\ gaps' = [gaps EXCEPT ![a] = @ \ {g}]
    /\ UNCHANGED <<readiness, raised, clarifying, state, basis, verdict, requests, runs, open>>

\* Both commands that lead to a new round check the limit.
RoundsLeft(a) == round[a] < MaxRounds

\* Nothing ever marks a planning question as answered: each round asks the
\* first of all that were raised in the project.
RoundSize == IF raised < MaxQuestions THEN raised ELSE MaxQuestions

StartClarification(a) ==
    /\ session[a] = "required" /\ RoundsLeft(a)
    /\ session' = [session EXCEPT ![a] = "in_progress"]
    /\ round' = [round EXCEPT ![a] = @ + 1]
    /\ unanswered' = [unanswered EXCEPT ![a][round[a] + 1] = RoundSize]
    /\ UNCHANGED <<assessing, state, basis, verdict, requests, runs, open>>

\* Of any round, whatever the state of the session.
RecordClarificationAnswer(a, r) ==
    /\ unanswered[a][r] > 0
    /\ unanswered' = [unanswered EXCEPT ![a][r] = @ - 1]
    /\ UNCHANGED <<assessing, session, round, state, basis, verdict, requests, runs, open>>

RoundAnswered(a) == round[a] > 0 => unanswered[a][round[a]] = 0

RequestAnotherClarificationRound(a) ==
    /\ session[a] = "in_progress" /\ RoundsLeft(a) /\ RoundAnswered(a)
    /\ session' = [session EXCEPT ![a] = "required"]
    /\ UNCHANGED <<assessing, round, unanswered, state, basis, verdict, requests, runs, open>>

CompleteClarification(a) ==
    /\ session[a] = "in_progress" /\ RoundAnswered(a)
    /\ session' = [session EXCEPT ![a] = "complete"]
    /\ UNCHANGED <<assessing, round, unanswered, state, basis, verdict, requests, runs, open>>

\* The circuit breaker.  A round never times out, as nothing sets its timeout.
BlockClarification(a) ==
    /\ session[a] \in {"required", "in_progress"} /\ ~RoundsLeft(a)
    /\ session' = [session EXCEPT ![a] = "blocked"]
    /\ UNCHANGED <<assessing, round, unanswered, state, basis, verdict, requests, runs, open>>

-----------------------------------------------------------------------------
(* Plans and backlogs                                                      *)

Ready(a) == readiness[a] = "sufficient" /\ session[a] = "complete"

GenerateImplementationPlan(p, a) ==
    /\ state[p] = "none" /\ Ready(a)
    /\ state' = [state EXCEPT ![p] = "draft"]
    /\ basis' = [basis EXCEPT ![p] = a]
    /\ UNCHANGED <<assessing, clarifying, verdict, requests, runs, open>>

Of(p) == {f \in Request : backlog[f] = p}

\* Mutant of Outdated: the verdict is kept.
StillGood(p) == verdict

\* The version of the backlog goes up and its validated version is cleared, so
\* a verdict is either about the current version or none.
Outdated(p) == [verdict EXCEPT ![p] = "none"]

\* Mutant of Links: a dependency need not be in the payload.
AnyLinks(new) == new \X Request

Links(new) == new \X new

\* Requests are added to a plan in whatever state it is.
AddRequests(p, new, kinds) ==
    /\ state[p] # "none"
    /\ new # {} /\ \A f \in new : backlog[f] = Unset
    /\ backlog' = [f \in Request |-> IF f \in new THEN p ELSE backlog[f]]
    /\ \E k \in [new -> kinds] :
           kind' = [f \in Request |-> IF f \in new THEN k[f] ELSE kind[f]]
    /\ \E d \in SUBSET Links(new) : needs' = needs \cup d
    /\ verdict' = Outdated(p)
    /\ late' = IF validating[p] # "none" \/ submitting[p] \/ state[p] # "draft"
               THEN late \cup new ELSE late
    /\ UNCHANGED <<assessing, clarifying, state, basis, runs, validating, submitting>>

GenerateFeatureBacklog(p, new) == AddRequests(p, new, Kind)

\* Imported requests have neither criteria nor expectations.
ImportBacklog(p, new) == AddRequests(p, new, {"bare_feature", "discovery"})

\* No dependency leads back: every set has a member that needs none of it.
Acyclic(S) ==
    \A C \in (SUBSET S) \ {{}} : \E f \in C : \A g \in C : <<f, g>> \notin needs

\* Criteria and expectations for every feature, and no cycle.
Sound(S) == (\A f \in S : kind[f] # "bare_feature") /\ Acyclic(S)

\* ValidateBacklog reads requests, dependencies, criteria and expectations ...
ReadBacklog(p) ==
    /\ validating[p] = "none" /\ Of(p) # {}
    /\ validating' = [validating EXCEPT ![p] = IF Sound(Of(p)) THEN "valid" ELSE "invalid"]
    /\ UNCHANGED <<assessing, clarifying, state, basis, verdict, requests, runs,
                   submitting, late>>

\* ... and records the outcome for the version the backlog has by then.
WriteVerdict(p) ==
    /\ validating[p] # "none"
    /\ verdict' = [verdict EXCEPT ![p] = validating[p]]
    /\ validating' = [validating EXCEPT ![p] = "none"]
    /\ UNCHANGED <<assessing, clarifying, state, basis, requests, runs, submitting, late>>

\* Mutant of InOrder: gaps are left to the approver.
GapsOrNot(p) == state[p] = "draft" /\ verdict[p] = "valid"

InOrder(p) == state[p] = "draft" /\ verdict[p] = "valid" /\ gaps[basis[p]] = {}

\* SubmitPlanForApproval reads the plan and its gaps ...
ReadPlan(p) ==
    /\ ~submitting[p] /\ InOrder(p)
    /\ submitting' = [submitting EXCEPT ![p] = TRUE]
    /\ UNCHANGED <<assessing, clarifying, state, basis, verdict, requests, runs,
                   validating, late>>

\* ... and compares the version of the plan, which backlogs leave alone.
SubmitPlan(p) ==
    /\ submitting[p] /\ state[p] = "draft"
    /\ state' = [state EXCEPT ![p] = "pending_approval"]
    /\ submitting' = [submitting EXCEPT ![p] = FALSE]
    /\ UNCHANGED <<assessing, clarifying, basis, verdict, requests, runs, validating, late>>

\* A transaction is rolled back.
Rollback(p) ==
    /\ validating[p] # "none" \/ submitting[p]
    /\ \/ validating' = [validating EXCEPT ![p] = "none"] /\ UNCHANGED submitting
       \/ submitting' = [submitting EXCEPT ![p] = FALSE] /\ UNCHANGED validating
    /\ UNCHANGED <<assessing, clarifying, state, basis, verdict, requests, runs, late>>

ApprovePlan(p) ==
    /\ state[p] = "pending_approval"
    /\ state' = [state EXCEPT ![p] = "approved"]
    /\ UNCHANGED <<assessing, clarifying, basis, verdict, requests, runs, open>>

Executable(p) == {f \in Of(p) : kind[f] # "discovery"}

\* A first run for every feature the plan has now.
ActivatePlan(p) ==
    /\ state[p] = "approved"
    /\ state' = [state EXCEPT ![p] = "activated_for_execution"]
    /\ runs' = runs \cup Executable(p)
    /\ UNCHANGED <<assessing, clarifying, basis, verdict, requests, open>>

-----------------------------------------------------------------------------
Clarify(a) ==
    \/ AssessPlanningReadiness(a) \/ StartClarification(a)
    \/ RequestAnotherClarificationRound(a) \/ CompleteClarification(a)
    \/ BlockClarification(a)
    \/ \E g \in Gap : ResolvePlanningGap(a, g)
    \/ \E r \in Round : RecordClarificationAnswer(a, r)

Draw(p) ==
    \/ \E a \in Assessment : GenerateImplementationPlan(p, a)
    \/ \E new \in SUBSET Request : GenerateFeatureBacklog(p, new) \/ ImportBacklog(p, new)
    \/ ReadBacklog(p) \/ WriteVerdict(p) \/ ReadPlan(p) \/ SubmitPlan(p) \/ Rollback(p)
    \/ ApprovePlan(p) \/ ActivatePlan(p)

PlanningNext == (\E a \in Assessment : Clarify(a)) \/ (\E p \in Plan : Draw(p))

PlanningSpec == PlanningInit /\ [][PlanningNext]_planningVars
-----------------------------------------------------------------------------
(* Properties                                                              *)

\* A session leaves a round behind only when it is answered: questions without
\* an answer are those of the current round of a session in progress, or of
\* one that was blocked.
RoundsAreAnswered ==
    \A a \in Assessment, r \in Round :
        unanswered[a][r] > 0 => r = round[a] /\ session[a] \in {"in_progress", "blocked"}

\* A session that waits for another round can have it; the circuit breaker is
\* needed only in the last one.
WaitingCanStart ==
    \A a \in Assessment : session[a] = "required" => round[a] < MaxRounds

\* A verdict is true of the backlog it stands beside, whatever was generated or
\* imported before and after it; of what was added while a validation was
\* open, only a bad one is.
VerdictIsEarned ==
    \A p \in Plan :
        /\ verdict[p] = "valid" => Sound(Of(p) \ late)
        /\ verdict[p] = "invalid" => ~Sound(Of(p))

\* A plan is never drawn from an insufficient assessment or beside an open
\* session, and from its submission on it has no blocking gap that is not
\* resolved and no backlog, late additions apart, that would fail validation.
SubmittedIsInOrder ==
    \A p \in Plan :
        /\ state[p] # "none" =>
               readiness[basis[p]] = "sufficient" /\ session[basis[p]] = "complete"
        /\ state[p] \notin {"none", "draft"} =>
               gaps[basis[p]] = {} /\ Sound(Of(p) \ late)

\* Activation gives runs to the features of approved plans only, and a run waits
\* only for requests that run as well; the exception is a discovery request,
\* which validation accepts as a dependency and which never runs.
RunsDependOnRuns ==
    \A f \in runs :
        /\ kind[f] # "discovery" /\ state[backlog[f]] = "activated_for_execution"
        /\ \A g \in Request : <<f, g>> \in needs => g \in runs \/ kind[g] = "discovery"
=============================================================================
