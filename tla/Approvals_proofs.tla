-------------------------- MODULE Approvals_proofs --------------------------
(***************************************************************************)
(* Proofs about what people approve.                                       *)
(*                                                                         *)
(* Plans, for any number of assessments, plans and requests: rounds of     *)
(* clarification are answered, verdicts earned, plans in order when they   *)
(* are submitted, and runs wait for runs.                                  *)
(*                                                                         *)
(* Design documents, for every number of runs, rows, sections, generation  *)
(* cycles and drafts: the project is where its documents are, what an      *)
(* approver judges is whole and is what is exported, and what was exported *)
(* is never rendered again.                                                *)
(***************************************************************************)
EXTENDS Planning, DesignDocument, TLAPS

-----------------------------------------------------------------------------
(* Plans and their backlogs: types                                         *)

ClarifyTypes ==
    /\ readiness \in [Assessment -> {"none", "sufficient", "insufficient"}]
    /\ gaps \in [Assessment -> SUBSET Gap]
    /\ raised \in Nat
    /\ session \in [Assessment -> {"none", "required", "in_progress", "complete", "blocked"}]
    /\ round \in [Assessment -> 0 .. MaxRounds]
    /\ unanswered \in [Assessment -> [Round -> 0 .. MaxQuestions]]

PlanTypes ==
    /\ state \in [Plan -> {"none", "draft", "pending_approval", "approved",
                           "activated_for_execution"}]
    /\ basis \in [Plan -> Assessment \cup {Unset}]
    /\ verdict \in [Plan -> {"none", "valid", "invalid"}]
    /\ validating \in [Plan -> {"none", "valid", "invalid"}]
    /\ submitting \in [Plan -> BOOLEAN]

RequestTypes ==
    /\ backlog \in [Request -> Plan \cup {Unset}]
    /\ kind \in [Request -> Kind \cup {"none"}]
    /\ needs \subseteq Request \X Request
    /\ runs \subseteq Request
    /\ late \subseteq Request

LEMMA PlanningParts == PlanningTypeOK <=> ClarifyTypes /\ PlanTypes /\ RequestTypes
  BY DEF PlanningTypeOK, ClarifyTypes, PlanTypes, RequestTypes

LEMMA PlanningPartsNext == ClarifyTypes' /\ PlanTypes' /\ RequestTypes' => PlanningTypeOK'
  BY DEF PlanningTypeOK, ClarifyTypes, PlanTypes, RequestTypes

LEMMA ClarifyStepTypes ==
  ASSUME ClarifyTypes, NEW a \in Assessment, Clarify(a)
  PROVE  ClarifyTypes'
<1> USE PlanningAssumption DEF ClarifyTypes
<1>1. CASE AssessPlanningReadiness(a)
  BY <1>1 DEF AssessPlanningReadiness
<1>2. CASE StartClarification(a)
  <2>1. round[a] + 1 \in 1 .. MaxRounds
    BY <1>2 DEF StartClarification, RoundsLeft
  <2>2. RoundSize \in 0 .. MaxQuestions
    BY DEF RoundSize
  <2>3. unanswered' \in [Assessment -> [Round -> 0 .. MaxQuestions]]
    BY <1>2, <2>2 DEF StartClarification, Round
  <2> QED
    BY <1>2, <2>1, <2>3 DEF StartClarification, assessing
<1>3. CASE RequestAnotherClarificationRound(a)
  BY <1>3 DEF RequestAnotherClarificationRound, assessing
<1>4. CASE CompleteClarification(a)
  BY <1>4 DEF CompleteClarification, assessing
<1>5. CASE BlockClarification(a)
  BY <1>5 DEF BlockClarification, assessing
<1>6. ASSUME NEW g \in Gap, ResolvePlanningGap(a, g)
      PROVE  ClarifyTypes'
  BY <1>6 DEF ResolvePlanningGap, clarifying
<1>7. ASSUME NEW r \in Round, RecordClarificationAnswer(a, r)
      PROVE  ClarifyTypes'
  <2>1. unanswered[a][r] - 1 \in 0 .. MaxQuestions
    BY <1>7 DEF RecordClarificationAnswer
  <2> QED
    BY <1>7, <2>1 DEF RecordClarificationAnswer, assessing
<1> QED
  BY <1>1, <1>2, <1>3, <1>4, <1>5, <1>6, <1>7 DEF Clarify

\* The two halves of the system touch each other only through what a plan reads.
LEMMA ClarifyFrame ==
  ASSUME NEW a \in Assessment, Clarify(a)
  PROVE  UNCHANGED <<state, basis, verdict, requests, runs, open>>
<1>1. CASE AssessPlanningReadiness(a)
  BY <1>1 DEF AssessPlanningReadiness
<1>2. CASE StartClarification(a) \/ RequestAnotherClarificationRound(a)
  BY <1>2 DEF StartClarification, RequestAnotherClarificationRound
<1>3. CASE CompleteClarification(a) \/ BlockClarification(a)
  BY <1>3 DEF CompleteClarification, BlockClarification
<1>4. CASE \E g \in Gap : ResolvePlanningGap(a, g)
  BY <1>4 DEF ResolvePlanningGap
<1>5. CASE \E r \in Round : RecordClarificationAnswer(a, r)
  BY <1>5 DEF RecordClarificationAnswer
<1> QED
  BY <1>1, <1>2, <1>3, <1>4, <1>5 DEF Clarify

LEMMA DrawFrame ==
  ASSUME NEW p \in Plan, Draw(p)
  PROVE  UNCHANGED <<assessing, clarifying>>
<1>1. CASE \E a \in Assessment : GenerateImplementationPlan(p, a)
  BY <1>1 DEF GenerateImplementationPlan
<1>2. CASE \E new \in SUBSET Request : GenerateFeatureBacklog(p, new) \/ ImportBacklog(p, new)
  BY <1>2 DEF GenerateFeatureBacklog, ImportBacklog, AddRequests
<1>3. CASE ReadBacklog(p) \/ WriteVerdict(p) \/ ReadPlan(p) \/ SubmitPlan(p)
  BY <1>3 DEF ReadBacklog, WriteVerdict, ReadPlan, SubmitPlan
<1>4. CASE Rollback(p) \/ ApprovePlan(p) \/ ActivatePlan(p)
  BY <1>4 DEF Rollback, ApprovePlan, ActivatePlan
<1> QED
  BY <1>1, <1>2, <1>3, <1>4 DEF Draw

\* What adding requests does, whichever command adds them.
LEMMA Adds ==
  ASSUME RequestTypes, NEW p \in Plan, NEW new \in SUBSET Request,
         NEW kinds \in SUBSET Kind, AddRequests(p, new, kinds)
  PROVE  /\ RequestTypes'
         /\ \A f \in Request \ new : backlog'[f] = backlog[f] /\ kind'[f] = kind[f]
         /\ \A f \in new : backlog[f] = Unset /\ backlog'[f] = p /\ kind'[f] \in Kind
         /\ needs \subseteq needs' /\ needs' \subseteq needs \cup (new \X new)
<1> USE DEF RequestTypes
<1>1. PICK k \in [new -> kinds] :
          kind' = [f \in Request |-> IF f \in new THEN k[f] ELSE kind[f]]
  BY DEF AddRequests
<1>2. kind' \in [Request -> Kind \cup {"none"}]
  BY <1>1
<1>3. PICK d \in SUBSET (new \X new) : needs' = needs \cup d
  BY DEF AddRequests, Links
<1>4. new \X new \subseteq Request \X Request
  OBVIOUS
<1>5. backlog' \in [Request -> Plan \cup {Unset}]
  BY DEF AddRequests
<1>6. late' \subseteq Request /\ runs' \subseteq Request
  BY DEF AddRequests
<1> QED
  BY <1>1, <1>2, <1>3, <1>4, <1>5, <1>6 DEF AddRequests

Adding(p) == \E new \in SUBSET Request, kinds \in SUBSET Kind : AddRequests(p, new, kinds)

LEMMA BacklogsAdd ==
  ASSUME NEW p \in Plan, NEW new \in SUBSET Request,
         GenerateFeatureBacklog(p, new) \/ ImportBacklog(p, new)
  PROVE  Adding(p)
<1>1. Kind \in SUBSET Kind /\ {"bare_feature", "discovery"} \in SUBSET Kind
  BY DEF Kind
<1> QED
  BY <1>1 DEF Adding, GenerateFeatureBacklog, ImportBacklog

\* The steps of a plan, with the two commands that add requests as one.
LEMMA DrawCases ==
  ASSUME NEW p \in Plan, Draw(p)
  PROVE  \/ \E a \in Assessment : GenerateImplementationPlan(p, a)
         \/ Adding(p) \/ ReadBacklog(p) \/ WriteVerdict(p) \/ ReadPlan(p)
         \/ SubmitPlan(p) \/ Rollback(p) \/ ApprovePlan(p) \/ ActivatePlan(p)
  BY BacklogsAdd DEF Draw

LEMMA DrawTypes ==
  ASSUME PlanTypes, RequestTypes, NEW p \in Plan, Draw(p)
  PROVE  PlanTypes' /\ RequestTypes'
<1>1. ASSUME NEW a \in Assessment, GenerateImplementationPlan(p, a)
      PROVE  PlanTypes' /\ RequestTypes'
  BY <1>1 DEF GenerateImplementationPlan, requests, open, PlanTypes, RequestTypes
<1>2. ASSUME NEW new \in SUBSET Request, NEW kinds \in SUBSET Kind, AddRequests(p, new, kinds)
      PROVE  PlanTypes' /\ RequestTypes'
  <2>1. RequestTypes'
    BY <1>2, Adds
  <2> QED
    BY <1>2, <2>1 DEF AddRequests, Outdated, PlanTypes
<1>3. CASE ReadBacklog(p)
  BY <1>3 DEF ReadBacklog, requests, PlanTypes, RequestTypes
<1>4. CASE WriteVerdict(p)
  BY <1>4 DEF WriteVerdict, requests, PlanTypes, RequestTypes
<1>5. CASE ReadPlan(p)
  BY <1>5 DEF ReadPlan, requests, PlanTypes, RequestTypes
<1>6. CASE SubmitPlan(p)
  BY <1>6 DEF SubmitPlan, requests, PlanTypes, RequestTypes
<1>7. CASE Rollback(p)
  BY <1>7 DEF Rollback, requests, PlanTypes, RequestTypes
<1>8. CASE ApprovePlan(p)
  BY <1>8 DEF ApprovePlan, requests, open, PlanTypes, RequestTypes
<1>9. CASE ActivatePlan(p)
  <2>1. runs' \subseteq Request
    BY <1>9 DEF ActivatePlan, Executable, Of, RequestTypes
  <2> QED
    BY <1>9, <2>1 DEF ActivatePlan, requests, open, PlanTypes, RequestTypes
<1> QED
  BY <1>1, <1>2, <1>3, <1>4, <1>5, <1>6, <1>7, <1>8, <1>9, DrawCases DEF Adding

LEMMA PlanningInitTypes == PlanningInit => PlanningTypeOK
  BY PlanningAssumption DEF PlanningInit, PlanningTypeOK

LEMMA StepTypes == PlanningTypeOK /\ [PlanningNext]_planningVars => PlanningTypeOK'
<1> SUFFICES ASSUME PlanningTypeOK, [PlanningNext]_planningVars
             PROVE  PlanningTypeOK'
  OBVIOUS
<1>0. ClarifyTypes /\ PlanTypes /\ RequestTypes
  BY PlanningParts
<1>1. ASSUME NEW a \in Assessment, Clarify(a)
      PROVE  PlanningTypeOK'
  BY <1>0, <1>1, ClarifyStepTypes, ClarifyFrame, PlanningPartsNext
  DEF requests, open, PlanTypes, RequestTypes
<1>2. ASSUME NEW p \in Plan, Draw(p)
      PROVE  PlanningTypeOK'
  BY <1>0, <1>2, DrawTypes, DrawFrame, PlanningPartsNext DEF assessing, clarifying, ClarifyTypes
<1>3. CASE UNCHANGED planningVars
  BY <1>3 DEF planningVars, assessing, clarifying, requests, open, PlanningTypeOK
<1> QED
  BY <1>1, <1>2, <1>3 DEF PlanningNext

\* Every variable keeps its type, whichever of the commands in handlers/planning,
\* clarification and plan runs.
THEOREM PlanningTypeCorrect == PlanningSpec => []PlanningTypeOK
  BY PlanningInitTypes, StepTypes, PTL DEF PlanningSpec

(* Clarification                                                           *)

SessionsInv ==
    /\ \A a \in Assessment : readiness[a] = "none" => session[a] = "none" /\ round[a] = 0
    /\ RoundsAreAnswered
    /\ WaitingCanStart

LEMMA SessionsStep ==
  ASSUME ClarifyTypes, SessionsInv, NEW a \in Assessment, Clarify(a)
  PROVE  SessionsInv'
<1> USE PlanningAssumption DEF ClarifyTypes, SessionsInv, RoundsAreAnswered, WaitingCanStart
<1>0. ASSUME NEW r \in Round, r # round[a] \/ session[a] \notin {"in_progress", "blocked"}
      PROVE  unanswered[a][r] = 0
  <2>1. unanswered[a] \in [Round -> 0 .. MaxQuestions]
    OBVIOUS
  <2>2. unanswered[a][r] \in 0 .. MaxQuestions
    BY <2>1
  <2> QED
    BY <1>0, <2>2
<1>1. CASE AssessPlanningReadiness(a)
  BY <1>1 DEF AssessPlanningReadiness
<1>2. CASE StartClarification(a)
  <2>1. \A r \in Round : unanswered[a][r] = 0
    BY <1>0, <1>2 DEF StartClarification
  <2>2. \A r \in Round : unanswered'[a][r] > 0 => r = round'[a]
    BY <1>2, <2>1 DEF StartClarification, Round
  <2>3. \A b \in Assessment \ {a} : /\ unanswered'[b] = unanswered[b]
                                    /\ round'[b] = round[b] /\ session'[b] = session[b]
    BY <1>2 DEF StartClarification
  <2>4. session'[a] = "in_progress" /\ readiness' = readiness
    BY <1>2 DEF StartClarification, assessing
  <2>5. readiness[a] # "none"
    BY <1>2 DEF StartClarification
  <2> QED
    BY <2>2, <2>3, <2>4, <2>5
<1>3. CASE RequestAnotherClarificationRound(a)
  <2>1. \A r \in Round : unanswered[a][r] = 0
    BY <1>0, <1>3 DEF RequestAnotherClarificationRound, RoundAnswered, Round
  <2> QED
    BY <1>3, <2>1 DEF RequestAnotherClarificationRound, RoundsLeft, assessing
<1>4. CASE CompleteClarification(a)
  <2>1. \A r \in Round : unanswered[a][r] = 0
    BY <1>0, <1>4 DEF CompleteClarification, RoundAnswered, Round
  <2> QED
    BY <1>4, <2>1 DEF CompleteClarification, assessing
<1>5. CASE BlockClarification(a)
  BY <1>5 DEF BlockClarification, assessing
<1>6. ASSUME NEW g \in Gap, ResolvePlanningGap(a, g)
      PROVE  SessionsInv'
  BY <1>6 DEF ResolvePlanningGap, clarifying
<1>7. ASSUME NEW r \in Round, RecordClarificationAnswer(a, r)
      PROVE  SessionsInv'
  <2>1. \A b \in Assessment, q \in Round : unanswered'[b][q] > 0 => unanswered[b][q] > 0
    BY <1>7 DEF RecordClarificationAnswer
  <2> QED
    BY <1>7, <2>1 DEF RecordClarificationAnswer, assessing
<1> QED
  BY <1>1, <1>2, <1>3, <1>4, <1>5, <1>6, <1>7 DEF Clarify

LEMMA SessionsInvariant == PlanningSpec => [](PlanningTypeOK /\ SessionsInv)
<1>1. PlanningInit => SessionsInv
  BY PlanningAssumption
  DEF PlanningInit, SessionsInv, RoundsAreAnswered, WaitingCanStart
<1>2. PlanningTypeOK /\ SessionsInv /\ [PlanningNext]_planningVars => SessionsInv'
  <2> SUFFICES ASSUME PlanningTypeOK, SessionsInv, [PlanningNext]_planningVars
               PROVE  SessionsInv'
    OBVIOUS
  <2>1. ASSUME NEW a \in Assessment, Clarify(a)
        PROVE  SessionsInv'
    BY <2>1, SessionsStep, PlanningParts
  <2>2. CASE UNCHANGED <<assessing, clarifying>>
    BY <2>2 DEF assessing, clarifying, SessionsInv, RoundsAreAnswered, WaitingCanStart
  <2>3. ASSUME NEW p \in Plan, Draw(p)
        PROVE  SessionsInv'
    BY <2>2, <2>3, DrawFrame
  <2> QED
    BY <2>1, <2>2, <2>3 DEF PlanningNext, planningVars
<1> QED
  BY <1>1, <1>2, PlanningTypeCorrect, PTL DEF PlanningSpec

\* request-another-round and complete look at the current round only; no
\* question of an earlier one is left without an answer either.
THEOREM RoundsEndAnswered == PlanningSpec => []RoundsAreAnswered
  BY SessionsInvariant, PTL DEF SessionsInv

\* No session waits for a round that start-clarification would refuse, so
\* block-clarification never finds one that does.
THEOREM WaitingSessionsCanStart == PlanningSpec => []WaitingCanStart
  BY SessionsInvariant, PTL DEF SessionsInv

(* Soundness of a set of requests                                          *)

SoundIn(S, k, n) ==
    /\ \A f \in S : k[f] # "bare_feature"
    /\ \A C \in (SUBSET S) \ {{}} : \E f \in C : \A g \in C : <<f, g>> \notin n

LEMMA SoundIsSoundIn == \A S : Sound(S) = SoundIn(S, kind, needs)
  BY Zenon DEF Sound, Acyclic, SoundIn

\* What a sound set contains is sound.
LEMMA SoundShrinks ==
  ASSUME NEW S, NEW T, NEW k, NEW n, S \subseteq T, SoundIn(T, k, n)
  PROVE  SoundIn(S, k, n)
<1>1. \A C \in (SUBSET S) \ {{}} : C \in (SUBSET T) \ {{}}
  OBVIOUS
<1> QED
  BY <1>1 DEF SoundIn

\* Kinds and dependencies elsewhere do not matter.
LEMMA SoundIsLocal ==
  ASSUME NEW S, NEW k1, NEW n1, NEW k2, NEW n2,
         \A f \in S : k1[f] = k2[f],
         \A f \in S, g \in S : <<f, g>> \in n1 <=> <<f, g>> \in n2,
         SoundIn(S, k1, n1)
  PROVE  SoundIn(S, k2, n2)
<1>1. \A C \in SUBSET S : \A f \in C, g \in C : <<f, g>> \in n1 <=> <<f, g>> \in n2
  OBVIOUS
<1> QED
  BY <1>1 DEF SoundIn

(* Verdicts and submissions                                                *)

Good(p) == SoundIn(Of(p) \ late, kind, needs)
Bad(p) == ~SoundIn(Of(p), kind, needs)

\* Whoever has read a good backlog has read what is still good, late requests
\* apart; a bad backlog stays bad.
SoundInv ==
    \A p \in Plan :
        /\ \/ verdict[p] = "valid" \/ validating[p] = "valid" \/ submitting[p]
           \/ state[p] \notin {"none", "draft"}
           => Good(p)
        /\ verdict[p] = "invalid" \/ validating[p] = "invalid" => Bad(p)

LEMMA AddingKeepsSound ==
  ASSUME PlanTypes, RequestTypes, SoundInv, NEW p \in Plan, Adding(p)
  PROVE  SoundInv'
<1>1. PICK new \in SUBSET Request, kinds \in SUBSET Kind : AddRequests(p, new, kinds)
  BY DEF Adding
<1>2. /\ \A f \in Request \ new : backlog'[f] = backlog[f] /\ kind'[f] = kind[f]
      /\ \A f \in new : backlog[f] = Unset /\ backlog'[f] = p /\ kind'[f] \in Kind
      /\ needs \subseteq needs' /\ needs' \subseteq needs \cup (new \X new)
  BY <1>1, Adds, Zenon
<1> USE DEF SoundInv
<1>3. ASSUME NEW S \in SUBSET (Request \ new)
      PROVE  SoundIn(S, kind, needs) <=> SoundIn(S, kind', needs')
  <2>1. \A f \in S : kind[f] = kind'[f]
    BY <1>2
  <2>2. \A f \in S, g \in S : <<f, g>> \in needs <=> <<f, g>> \in needs'
    BY <1>2
  <2>3. ASSUME SoundIn(S, kind, needs)
        PROVE  SoundIn(S, kind', needs')
    BY <2>1, <2>2, <2>3, SoundIsLocal
  <2>4. ASSUME SoundIn(S, kind', needs')
        PROVE  SoundIn(S, kind, needs)
    BY <2>1, <2>2, <2>4, SoundIsLocal
  <2> QED
    BY <2>3, <2>4
<1>4. Unset \notin Plan
  BY PlanningAssumption
<1>5. \A q \in Plan : /\ Of(q) \in SUBSET (Request \ new)
                      /\ Of(q) \ late \in SUBSET (Request \ new)
                      /\ Of(q) \subseteq Of(q)'
                      /\ q # p => Of(q)' = Of(q)
  BY <1>2, <1>4 DEF Of
<1>6. Of(p)' = Of(p) \cup new
  BY <1>2, <1>4 DEF Of
<1>7. ASSUME NEW q \in Plan, Bad(q)
      PROVE  Bad(q)'
  <2>1. ASSUME SoundIn(Of(q)', kind', needs')
        PROVE  FALSE
    <3>1. SoundIn(Of(q), kind', needs')
      BY <1>5, <2>1, SoundShrinks
    <3>2. SoundIn(Of(q), kind, needs)
      BY <1>3, <1>5, <3>1
    <3> QED
      BY <1>7, <3>2 DEF Bad
  <2> QED
    BY <2>1 DEF Bad
<1>8. ASSUME NEW q \in Plan, Good(q), (Of(q) \ late)' = Of(q) \ late
      PROVE  Good(q)'
  <2>1. SoundIn(Of(q) \ late, kind', needs')
    BY <1>3, <1>5, <1>8 DEF Good
  <2> QED
    BY <1>8, <2>1 DEF Good
<1>9. UNCHANGED <<state, validating, submitting>> /\ verdict' = Outdated(p)
  BY <1>1 DEF AddRequests
<1>10. late' = late \/ late' = late \cup new
  BY <1>1 DEF AddRequests
<1>11. ASSUME NEW q \in Plan, q # p
       PROVE  (Of(q) \ late)' = Of(q) \ late
  BY <1>5, <1>10, <1>11
<1>12. CASE late' = late \cup new
  <2>1. (Of(p) \ late)' = Of(p) \ late
    BY <1>5, <1>6, <1>12
  <2> QED
    BY <1>7, <1>8, <1>9, <1>11, <2>1 DEF Outdated, PlanTypes
<1>13. CASE ~(validating[p] # "none" \/ submitting[p] \/ state[p] # "draft")
  BY <1>7, <1>8, <1>9, <1>11, <1>13 DEF Outdated, PlanTypes
<1> QED
  BY <1>1, <1>12, <1>13 DEF AddRequests

LEMMA DrawKeepsSound ==
  ASSUME PlanTypes, RequestTypes, SoundInv, NEW p \in Plan, Draw(p)
  PROVE  SoundInv'
<1>0. ASSUME UNCHANGED <<requests, late>>
      PROVE  \A q \in Plan : Good(q)' = Good(q) /\ Bad(q)' = Bad(q)
  BY <1>0 DEF requests, Good, Bad, SoundIn, Of
<1> USE DEF SoundInv, PlanTypes
<1>1. ASSUME NEW a \in Assessment, GenerateImplementationPlan(p, a)
      PROVE  SoundInv'
  BY <1>0, <1>1 DEF GenerateImplementationPlan, open
<1>2. CASE Adding(p)
  BY <1>2, AddingKeepsSound
<1>3. CASE ReadBacklog(p)
  <2>1. IF validating'[p] = "valid" THEN SoundIn(Of(p), kind, needs) ELSE Bad(p)
    BY <1>3, SoundIsSoundIn DEF ReadBacklog, Bad
  <2>2. validating'[p] = "valid" => Good(p)
    BY <2>1, SoundShrinks DEF Good
  <2> QED
    BY <1>0, <1>3, <2>1, <2>2 DEF ReadBacklog
<1>4. CASE WriteVerdict(p)
  BY <1>0, <1>4 DEF WriteVerdict
<1>5. CASE ReadPlan(p)
  BY <1>0, <1>5 DEF ReadPlan, InOrder
<1>6. CASE SubmitPlan(p)
  BY <1>0, <1>6 DEF SubmitPlan
<1>7. CASE Rollback(p)
  BY <1>0, <1>7 DEF Rollback
<1>8. CASE ApprovePlan(p)
  BY <1>0, <1>8 DEF ApprovePlan, open
<1>9. CASE ActivatePlan(p)
  BY <1>0, <1>9 DEF ActivatePlan, open
<1> QED
  BY <1>1, <1>2, <1>3, <1>4, <1>5, <1>6, <1>7, <1>8, <1>9, DrawCases

LEMMA SoundInvariant == PlanningSpec => [](PlanningTypeOK /\ SoundInv)
<1>1. PlanningInit => SoundInv
  BY DEF PlanningInit, SoundInv
<1>2. PlanningTypeOK /\ SoundInv /\ [PlanningNext]_planningVars => SoundInv'
  <2> SUFFICES ASSUME PlanningTypeOK, SoundInv, [PlanningNext]_planningVars
               PROVE  SoundInv'
    OBVIOUS
  <2>1. CASE UNCHANGED <<state, basis, verdict, requests, runs, open>>
    BY <2>1 DEF requests, open, SoundInv, Good, Bad, SoundIn, Of
  <2>2. ASSUME NEW a \in Assessment, Clarify(a)
        PROVE  SoundInv'
    BY <2>1, <2>2, ClarifyFrame
  <2>3. ASSUME NEW p \in Plan, Draw(p)
        PROVE  SoundInv'
    BY <2>3, DrawKeepsSound, PlanningParts
  <2> QED
    BY <2>1, <2>2, <2>3 DEF PlanningNext, planningVars
<1> QED
  BY <1>1, <1>2, PlanningTypeCorrect, PTL DEF PlanningSpec

\* validate-backlog records what is true of the backlog, whatever is generated
\* or imported at any time.
THEOREM VerdictsAreEarned == PlanningSpec => []VerdictIsEarned
<1>1. SoundInv => VerdictIsEarned
  BY SoundIsSoundIn DEF SoundInv, Good, Bad, VerdictIsEarned
<1> QED
  BY <1>1, SoundInvariant, PTL

(* What a plan was drawn from                                              *)

GroundInv ==
    \A p \in Plan :
        /\ state[p] # "none" =>
               /\ basis[p] \in Assessment
               /\ readiness[basis[p]] = "sufficient" /\ session[basis[p]] = "complete"
        /\ submitting[p] => state[p] = "draft"
        /\ submitting[p] \/ state[p] \notin {"none", "draft"} => gaps[basis[p]] = {}

\* An assessment that was sufficient stays so, its session stays complete, and
\* no gap is found later.
LEMMA GroundIsFirm ==
  ASSUME ClarifyTypes, NEW a \in Assessment, Clarify(a),
         NEW b \in Assessment, readiness[b] = "sufficient", session[b] = "complete"
  PROVE  /\ readiness'[b] = "sufficient" /\ session'[b] = "complete"
         /\ gaps[b] = {} => gaps'[b] = {}
<1> USE DEF ClarifyTypes
<1>1. CASE AssessPlanningReadiness(a)
  <2>1. b # a
    BY <1>1 DEF AssessPlanningReadiness
  <2> QED
    BY <1>1, <2>1 DEF AssessPlanningReadiness
<1>2. CASE StartClarification(a)
  BY <1>2 DEF StartClarification, assessing
<1>3. CASE RequestAnotherClarificationRound(a)
  BY <1>3 DEF RequestAnotherClarificationRound, assessing
<1>4. CASE CompleteClarification(a) \/ BlockClarification(a)
  BY <1>4 DEF CompleteClarification, BlockClarification, assessing
<1>5. ASSUME NEW g \in Gap, ResolvePlanningGap(a, g)
      PROVE  /\ readiness'[b] = "sufficient" /\ session'[b] = "complete"
             /\ gaps[b] = {} => gaps'[b] = {}
  BY <1>5 DEF ResolvePlanningGap, clarifying
<1>6. CASE \E r \in Round : RecordClarificationAnswer(a, r)
  BY <1>6 DEF RecordClarificationAnswer, assessing
<1> QED
  BY <1>1, <1>2, <1>3, <1>4, <1>5, <1>6 DEF Clarify

LEMMA DrawKeepsGround ==
  ASSUME PlanTypes, GroundInv, NEW p \in Plan, Draw(p)
  PROVE  GroundInv'
<1>0. UNCHANGED <<readiness, gaps, session>>
  BY DrawFrame DEF assessing, clarifying
<1> USE <1>0 DEF GroundInv, PlanTypes
<1>1. ASSUME NEW a \in Assessment, GenerateImplementationPlan(p, a)
      PROVE  GroundInv'
  BY <1>1 DEF GenerateImplementationPlan, Ready, open
<1>2. CASE Adding(p)
  BY <1>2 DEF Adding, AddRequests
<1>3. CASE ReadBacklog(p) \/ WriteVerdict(p)
  BY <1>3 DEF ReadBacklog, WriteVerdict
<1>4. CASE ReadPlan(p)
  BY <1>4 DEF ReadPlan, InOrder
<1>5. CASE SubmitPlan(p)
  BY <1>5 DEF SubmitPlan
<1>6. CASE Rollback(p)
  BY <1>6 DEF Rollback
<1>7. CASE ApprovePlan(p)
  BY <1>7 DEF ApprovePlan, open
<1>8. CASE ActivatePlan(p)
  BY <1>8 DEF ActivatePlan, open
<1> QED
  BY <1>1, <1>2, <1>3, <1>4, <1>5, <1>6, <1>7, <1>8, DrawCases

LEMMA GroundInvariant == PlanningSpec => [](PlanningTypeOK /\ GroundInv)
<1>1. PlanningInit => GroundInv
  BY DEF PlanningInit, GroundInv
<1>2. PlanningTypeOK /\ GroundInv /\ [PlanningNext]_planningVars => GroundInv'
  <2> SUFFICES ASSUME PlanningTypeOK, GroundInv, [PlanningNext]_planningVars
               PROVE  GroundInv'
    OBVIOUS
  <2>1. ASSUME NEW a \in Assessment, Clarify(a)
        PROVE  GroundInv'
    <3>1. UNCHANGED <<state, basis, submitting>>
      BY <2>1, ClarifyFrame DEF open
    <3>2. ASSUME NEW b \in Assessment, readiness[b] = "sufficient", session[b] = "complete"
          PROVE  /\ readiness'[b] = "sufficient" /\ session'[b] = "complete"
                 /\ gaps[b] = {} => gaps'[b] = {}
      BY <2>1, <3>2, GroundIsFirm, PlanningParts
    <3> QED
      BY <3>1, <3>2 DEF GroundInv
  <2>2. ASSUME NEW p \in Plan, Draw(p)
        PROVE  GroundInv'
    BY <2>2, DrawKeepsGround, PlanningParts
  <2>3. CASE UNCHANGED planningVars
    BY <2>3 DEF planningVars, assessing, clarifying, open, GroundInv
  <2> QED
    BY <2>1, <2>2, <2>3 DEF PlanningNext
<1> QED
  BY <1>1, <1>2, PlanningTypeCorrect, PTL DEF PlanningSpec

\* submit-plan lets only plans through that have no open gap and a backlog that
\* passed validation, and nothing opens a gap or spoils the backlog afterwards.
THEOREM SubmittedPlansAreInOrder == PlanningSpec => []SubmittedIsInOrder
<1>1. SoundInv /\ GroundInv => SubmittedIsInOrder
  BY SoundIsSoundIn DEF SoundInv, GroundInv, Good, SubmittedIsInOrder
<1> QED
  BY <1>1, SoundInvariant, GroundInvariant, PTL

(* Dependencies and runs                                                   *)

LinksInv ==
    /\ \A f \in Request, g \in Request :
           <<f, g>> \in needs => backlog[f] \in Plan /\ backlog[g] = backlog[f]
    /\ \A f \in runs : backlog[f] \in Plan
    /\ RunsDependOnRuns

LEMMA DrawKeepsLinks ==
  ASSUME PlanTypes, RequestTypes, LinksInv, NEW p \in Plan, Draw(p)
  PROVE  LinksInv'
<1> USE DEF LinksInv, RunsDependOnRuns, PlanTypes, RequestTypes
<1>1. ASSUME NEW a \in Assessment, GenerateImplementationPlan(p, a)
      PROVE  LinksInv'
  BY <1>1 DEF GenerateImplementationPlan, requests
<1>2. CASE Adding(p)
  <2>1. PICK new \in SUBSET Request, kinds \in SUBSET Kind : AddRequests(p, new, kinds)
    BY <1>2 DEF Adding
  <2>2. /\ \A f \in Request \ new : backlog'[f] = backlog[f] /\ kind'[f] = kind[f]
        /\ \A f \in new : backlog[f] = Unset /\ backlog'[f] = p /\ kind'[f] \in Kind
        /\ needs \subseteq needs' /\ needs' \subseteq needs \cup (new \X new)
    BY <2>1, Adds, Zenon
  <2>3. Unset \notin Plan
    BY PlanningAssumption
  <2>4. runs' = runs /\ state' = state
    BY <2>1 DEF AddRequests
  <2>5. \A f \in runs : f \notin new
    BY <2>2, <2>3
  <2>6. \A f \in Request, g \in Request :
            <<f, g>> \in needs' => \/ <<f, g>> \in needs /\ f \notin new /\ g \notin new
                                   \/ f \in new /\ g \in new
    BY <2>2, <2>3
  <2>7. ASSUME NEW f \in Request, NEW g \in Request, <<f, g>> \in needs'
        PROVE  backlog'[f] \in Plan /\ backlog'[g] = backlog'[f]
    BY <2>2, <2>6, <2>7
  <2>8. ASSUME NEW f \in runs
        PROVE  /\ backlog'[f] \in Plan /\ kind'[f] # "discovery"
               /\ state'[backlog'[f]] = "activated_for_execution"
               /\ \A g \in Request : <<f, g>> \in needs' => g \in runs \/ kind'[g] = "discovery"
    BY <2>2, <2>4, <2>5, <2>6
  <2> QED
    BY <2>4, <2>7, <2>8
<1>3. CASE ReadBacklog(p)
  BY <1>3 DEF ReadBacklog, requests
<1>4. CASE WriteVerdict(p)
  BY <1>4 DEF WriteVerdict, requests
<1>5. CASE ReadPlan(p)
  BY <1>5 DEF ReadPlan, requests
<1>6. CASE SubmitPlan(p)
  BY <1>6 DEF SubmitPlan, requests
<1>7. CASE Rollback(p)
  BY <1>7 DEF Rollback, requests
<1>8. CASE ApprovePlan(p)
  BY <1>8 DEF ApprovePlan, requests
<1>9. CASE ActivatePlan(p)
  <2>1. \A f \in Executable(p) : backlog[f] = p /\ kind[f] # "discovery"
    BY DEF Executable, Of
  <2>2. ASSUME NEW f \in Executable(p), NEW g \in Request, <<f, g>> \in needs
        PROVE  g \in Executable(p) \/ kind[g] = "discovery"
    BY <2>1, <2>2 DEF Executable, Of
  <2>3. UNCHANGED <<backlog, kind, needs>> /\ runs' = runs \cup Executable(p)
    BY <1>9 DEF ActivatePlan, requests
  <2>4. \A q \in Plan : /\ state[q] = "activated_for_execution" => state'[q] = state[q]
                        /\ state'[p] = "activated_for_execution"
    BY <1>9 DEF ActivatePlan
  <2> QED
    BY <2>1, <2>2, <2>3, <2>4
<1> QED
  BY <1>1, <1>2, <1>3, <1>4, <1>5, <1>6, <1>7, <1>8, <1>9, DrawCases

LEMMA LinksInvariant == PlanningSpec => [](PlanningTypeOK /\ LinksInv)
<1>1. PlanningInit => LinksInv
  BY DEF PlanningInit, LinksInv, RunsDependOnRuns
<1>2. PlanningTypeOK /\ LinksInv /\ [PlanningNext]_planningVars => LinksInv'
  <2> SUFFICES ASSUME PlanningTypeOK, LinksInv, [PlanningNext]_planningVars
               PROVE  LinksInv'
    OBVIOUS
  <2>1. CASE UNCHANGED <<state, basis, verdict, requests, runs, open>>
    BY <2>1 DEF requests, LinksInv, RunsDependOnRuns
  <2>2. ASSUME NEW a \in Assessment, Clarify(a)
        PROVE  LinksInv'
    BY <2>1, <2>2, ClarifyFrame
  <2>3. ASSUME NEW p \in Plan, Draw(p)
        PROVE  LinksInv'
    BY <2>3, DrawKeepsLinks, PlanningParts
  <2> QED
    BY <2>1, <2>2, <2>3 DEF PlanningNext, planningVars
<1> QED
  BY <1>1, <1>2, PlanningTypeCorrect, PTL DEF PlanningSpec

\* activate-plan runs every feature of a plan at once, so no run waits for one
\* that was left behind, unless its request is not executable at all.
THEOREM RunsWaitForRuns == PlanningSpec => []RunsDependOnRuns
  BY LinksInvariant, PTL DEF LinksInv

-----------------------------------------------------------------------------
(* Design documents: types                                                 *)

Runs == pc \in [Run -> Body \cup {"idle", "acquiring", "releasing"}]

LEMMA Goes ==
  ASSUME TypeOK, NEW r \in Run, NEW where \in Body \cup {"idle", "acquiring", "releasing"},
         Goto(r, where)
  PROVE  Runs'
  BY DEF Goto, Runs, TypeOK

Locals ==
    /\ row \in [Run -> Row \cup {None}]
    /\ target \in [Run -> [doc : 0 .. MaxDocs, art : 0 .. MaxDocs]]
    /\ next \in [Run -> 1 .. Sections + 1]
    /\ draft \in [Run -> [number : 0 .. MaxDrafts, holes : SUBSET Section,
                          revise : BOOLEAN]]
    /\ seen \in [Run -> Nat]

LEMMA Forgets ==
  ASSUME TypeOK, NEW r \in Run, Forget(r)
  PROVE  Locals'
<1>1. /\ NoTarget \in [doc : 0 .. MaxDocs, art : 0 .. MaxDocs]
      /\ NoDraft \in [number : 0 .. MaxDrafts, holes : SUBSET Section, revise : BOOLEAN]
      /\ 1 \in 1 .. Sections + 1
  BY DesignDocumentAssumption DEF NoTarget, NoDraft
<1> QED
  BY <1>1 DEF Forget, Locals, TypeOK

Lock == [run : Run \cup {None}, row : Row \cup {None}, live : BOOLEAN]

States ==
    /\ project \in {"implementation_complete", "generating", "ready_for_review",
                    "revision_requested", "approved", "complete"}
    /\ version \in Nat
    /\ latest \in 0 .. MaxDocs
    /\ document \in [Doc -> {"none", "draft", "ready_for_review",
                             "revision_requested", "approved"}]

Texts ==
    /\ artifact \in [Doc -> {"none", "pending", "exported"}]
    /\ sections \in [Doc -> [Section -> Text]]
    /\ content \in [Doc -> [Section -> Text]]

Others == lock \in Lock /\ drafts \in 0 .. MaxDrafts /\ disturbed \in BOOLEAN

Exports ==
    /\ render \in [Exporter -> [doc : 0 .. MaxDocs, text : [Section -> Text]]]
    /\ overlapped \in BOOLEAN

LEMMA Parts == TypeOK <=> States /\ Texts /\ Runs /\ Locals /\ Others /\ Exports
  BY DEF TypeOK, States, Texts, Runs, Locals, Others, Lock, Exports

LEMMA PartsNext == States' /\ Texts' /\ Runs' /\ Locals' /\ Others' /\ Exports' => TypeOK'
  BY DEF TypeOK, States, Texts, Runs, Locals, Others, Lock, Exports

LEMMA RenderTypes ==
  NoRender \in [doc : 0 .. MaxDocs, text : [Section -> Text]]
  BY DesignDocumentAssumption DEF NoRender, Empty, Text, Missing

LEMMA ExportTypes ==
  ASSUME Texts, Exports, NEW x \in Exporter,
         \/ \E d \in Doc : BeginExport(x, d)
         \/ ReadSections(x) \/ FinishExport(x) \/ DropExport(x)
  PROVE  Exports'
<1>1. CASE \E d \in Doc : BeginExport(x, d)
  <2>1. Empty \in [Section -> Text]
    BY DesignDocumentAssumption DEF Empty, Text, Missing
  <2> QED
    BY <1>1, <2>1 DEF BeginExport, Exports, Doc, Renders
<1>2. CASE ReadSections(x)
  BY <1>2 DEF ReadSections, Exports, Texts
<1>3. CASE FinishExport(x) \/ DropExport(x)
  BY <1>3, RenderTypes DEF FinishExport, DropExport, Exports
<1> QED
  BY <1>1, <1>2, <1>3

LEMMA FinishTypes ==
  ASSUME Texts, Exports, NEW x \in Exporter, FinishExport(x), UNCHANGED sections
  PROVE  Texts'
<1>1. PICK d \in Doc : /\ artifact' = [artifact EXCEPT ![d] = "exported"]
                       /\ content' = [content EXCEPT ![d] = render[x].text]
  BY DEF FinishExport
<1>2. render[x].text \in [Section -> Text]
  BY DEF Exports
<1> QED
  BY <1>1, <1>2 DEF Texts

LEMMA CommandTypes ==
  ASSUME TypeOK, Command
  PROVE  TypeOK'
<1> USE DesignDocumentAssumption DEF exports
<1>0. States /\ Texts /\ Runs /\ Locals /\ Others /\ Exports
  BY Parts
<1> USE <1>0
<1>1. CASE GenerateDesignDocument
  <2>1. latest + 1 \in Doc /\ latest' = latest + 1
    BY <1>1 DEF GenerateDesignDocument, NewCycle, Doc, States
  <2>2. States'
    BY <1>1, <2>1 DEF GenerateDesignDocument, NewCycle, Move, States, Doc
  <2>3. Texts'
    BY <1>1, <2>1 DEF GenerateDesignDocument, NewCycle, Texts
  <2> QED
    BY <1>1, <2>2, <2>3, PartsNext
    DEF GenerateDesignDocument, NewCycle, locals, Runs, Locals, Others, Exports
<1>2. CASE CompleteProject
  <2>1. States'
    BY <1>2 DEF CompleteProject, Move, States
  <2> QED
    BY <1>2, <2>1, PartsNext DEF CompleteProject, texts, locals, Texts, Runs, Locals, Others, Exports
<1>3. ASSUME NEW d \in Doc, RequestDesignDocumentRevision(d) \/ ApproveDesignDocument(d)
      PROVE  TypeOK'
  <2>1. States'
    BY <1>3 DEF RequestDesignDocumentRevision, ApproveDesignDocument, Judged, Move, States
  <2>2. UNCHANGED <<texts, pc, locals, lock, drafts, exports, disturbed>>
    BY <1>3 DEF RequestDesignDocumentRevision, ApproveDesignDocument
  <2> QED
    BY <2>1, <2>2, PartsNext DEF texts, locals, Texts, Runs, Locals, Others, Exports
<1>4. ASSUME NEW h \in Hand, NEW d \in Doc, ReplayExport(h, d)
      PROVE  TypeOK'
  <2>1. Exports'
    BY <1>4, ExportTypes DEF ReplayExport, Exporter
  <2> QED
    BY <1>4, <2>1, PartsNext DEF ReplayExport, Beside, AtWork, states, texts, locals,
                             States, Texts, Runs, Locals, Others
<1>5. ASSUME NEW d \in Doc, ReplayRecord(d)
      PROVE  TypeOK'
  <2>1. States'
    BY <1>5 DEF ReplayRecord, RecordDesignDocumentReady, Move, States
  <2> QED
    BY <1>5, <2>1, PartsNext DEF ReplayRecord, Beside, AtWork, texts, locals,
                             Texts, Runs, Locals, Others, Exports
<1> QED
  BY <1>1, <1>2, <1>3, <1>4, <1>5 DEF Command

(* A step reads and writes the texts of a document that exists.            *)

\* What a run has read by the time it needs it.
TargetsKnown ==
    \A r \in Run :
        /\ pc[r] \in Body \ {"reading"} => target[r].doc \in Doc
        /\ pc[r] \in Body \ {"reading", "read"} => target[r].art \in Doc

LEMMA TaskTypes ==
  ASSUME TypeOK, TargetsKnown, NEW r \in Run, Task(r)
  PROVE  TypeOK'
<1> USE DesignDocumentAssumption DEF Body, exports
<1>0. States /\ Texts /\ Runs /\ Locals /\ Others /\ Exports
  BY Parts
<1> USE <1>0
<1>1. ASSUME NEW h \in Row, Start(r, h)
      PROVE  TypeOK'
  <2>1. Runs'
    BY <1>1, Goes DEF Start
  <2>2. Locals'
    BY <1>1 DEF Start, Locals
  <2> QED
    BY <1>1, <2>1, <2>2, PartsNext DEF Start, states, texts, States, Texts, Others, Exports
<1>2. CASE Acquire(r)
  <2>1. Runs'
    BY <1>2, Goes DEF Acquire
  <2>2. lock' \in Lock /\ disturbed' \in BOOLEAN
    BY <1>2 DEF Acquire, Take, Others, Lock, Locals, AtWork
  <2> QED
    BY <1>2, <2>1, <2>2, PartsNext DEF Acquire, states, texts, locals, States, Texts, Locals, Others, Exports
<1>3. CASE Conflict(r) \/ Crash(r)
  <2>1. Runs' /\ Locals'
    BY <1>3, Goes, Forgets DEF Conflict, Crash
  <2>2. Exports'
    BY <1>3, ExportTypes DEF Conflict, Crash, Exporter, Exports
  <2> QED
    BY <1>3, <2>1, <2>2, PartsNext DEF Conflict, Crash, states, texts, States, Texts, Others, Exports
<1>4. CASE ReadDocument(r)
  <2>1. Runs'
    BY <1>4, Goes DEF ReadDocument
  <2>2. target' \in [Run -> [doc : 0 .. MaxDocs, art : 0 .. MaxDocs]]
    BY <1>4 DEF ReadDocument, Locals, States
  <2> QED
    BY <1>4, <2>1, <2>2, PartsNext DEF ReadDocument, states, texts, States, Texts, Locals, Others, Exports
<1>5. CASE ReadArtifact(r)
  <2>1. Runs'
    BY <1>5, Goes DEF ReadArtifact
  <2>2. target' \in [Run -> [doc : 0 .. MaxDocs, art : 0 .. MaxDocs]]
    BY <1>5 DEF ReadArtifact, Locals, Pending, Doc
  <2> QED
    BY <1>5, <2>1, <2>2, PartsNext DEF ReadArtifact, states, texts, States, Texts, Locals, Others, Exports
<1>6. CASE Draft(r)
  <2>1. Runs'
    BY <1>6, Goes DEF Draft
  <2>2. drafts' \in 0 .. MaxDrafts /\ drafts + 1 \in 0 .. MaxDrafts
    BY <1>6 DEF Draft, Others
  <2>3. draft' \in [Run -> [number : 0 .. MaxDrafts, holes : SUBSET Section, revise : BOOLEAN]]
    BY <1>6, <2>2 DEF Draft, Locals
  <2> QED
    BY <1>6, <2>1, <2>2, <2>3, PartsNext DEF Draft, states, texts, States, Texts, Locals, Others, Exports
<1>7. CASE WriteSection(r)
  <2>1. target[r].doc \in Doc /\ next[r] \in Section
    BY <1>7 DEF WriteSection, AllWritten, TargetsKnown, Section, Locals
  <2>2. Drafted(r, next[r]) \in Text
    BY DEF Drafted, Text, Locals, Missing
  <2>3. Texts' /\ next' \in [Run -> 1 .. Sections + 1]
    BY <1>7, <2>1, <2>2 DEF WriteSection, Texts, Locals, Section
  <2> QED
    BY <1>7, <2>3, PartsNext DEF WriteSection, states, States, Runs, Locals, Others, Exports
<1>8. CASE EndWriting(r) \/ Throw(r)
  <2>1. Runs'
    BY <1>8, Goes DEF EndWriting, Throw
  <2>2. Exports'
    BY <1>8, ExportTypes DEF EndWriting, Throw, Exporter, Exports
  <2> QED
    BY <1>8, <2>1, <2>2, PartsNext DEF EndWriting, Throw, states, texts, locals, States, Texts, Locals, Others, Exports
<1>9. CASE Export(r) \/ AlreadyExported(r) \/ Render(r)
  <2>1. Runs'
    BY <1>9, Goes DEF Export, AlreadyExported, Render, Runs
  <2>2. target[r].art = target[r].doc /\ pc[r] = "exporting" => target[r].art \in Doc
    BY DEF TargetsKnown
  <2>3. Exports'
    BY <1>9, <2>2, ExportTypes DEF Export, AlreadyExported, Render, Exporter, Exports
  <2> QED
    BY <1>9, <2>1, <2>3, PartsNext DEF Export, AlreadyExported, Render, states, texts, locals,
                                       States, Texts, Locals, Others
<1>13. CASE Exported(r)
  <2>1. Runs'
    BY <1>13, Goes DEF Exported
  <2>2. Texts' /\ Exports'
    BY <1>13, ExportTypes, FinishTypes DEF Exported, Exporter
  <2> QED
    BY <1>13, <2>1, <2>2, PartsNext DEF Exported, states, locals, States, Locals, Others
<1>10. CASE CheckProject(r)
  <2>1. Runs'
    BY <1>10, Goes DEF CheckProject
  <2>2. seen' \in [Run -> Nat]
    BY <1>10 DEF CheckProject, Locals, States
  <2> QED
    BY <1>10, <2>1, <2>2, PartsNext DEF CheckProject, states, texts, States, Texts, Locals, Others, Exports
<1>11. CASE Record(r)
  <2>1. Runs'
    BY <1>11, Goes DEF Record
  <2>2. /\ project' = "ready_for_review" /\ version' = version + 1 /\ latest' = latest
        /\ document' = [document EXCEPT ![target[r].doc] = "ready_for_review"]
    BY <1>11 DEF Record, RecordDesignDocumentReady, Move
  <2>3. document' \in [Doc -> {"none", "draft", "ready_for_review",
                              "revision_requested", "approved"}]
    BY <2>2 DEF States
  <2>4. States'
    BY <2>2, <2>3 DEF States
  <2> QED
    BY <1>11, <2>1, <2>4, PartsNext DEF Record, texts, locals, Texts, Locals, Others, Exports
<1>12. CASE Release(r)
  <2>1. Runs' /\ Locals'
    BY <1>12, Goes, Forgets DEF Release
  <2>2. Others'
    BY <1>12 DEF Release, Others, Lock
  <2>3. UNCHANGED <<states, texts>>
    BY <1>12 DEF Release
  <2>4. States' /\ Texts'
    BY <2>3 DEF states, texts, States, Texts
  <2>5. Exports'
    BY <1>12 DEF Release, Exports
  <2> QED
    BY <2>1, <2>2, <2>4, <2>5, PartsNext
<1> QED
  BY <1>1, <1>2, <1>3, <1>4, <1>5, <1>6, <1>7, <1>8, <1>9, <1>10, <1>11, <1>12, <1>13 DEF Task

LEMMA ByHandTypes ==
  ASSUME TypeOK, NEW h \in Hand, ByHandSteps(h)
  PROVE  TypeOK'
<1>1. States /\ Texts /\ Runs /\ Locals /\ Others /\ Exports
  BY Parts
<1>2. Exports'
  BY <1>1, ExportTypes DEF ByHandSteps, RenderByHand, ExportedByHand, DroppedByHand, Exporter
<1>3. Texts'
  BY <1>1, FinishTypes
     DEF ByHandSteps, RenderByHand, ExportedByHand, DroppedByHand, Exporter, Texts, texts
<1>4. UNCHANGED <<states, pc, locals, lock, drafts, disturbed>>
  BY DEF ByHandSteps, RenderByHand, ExportedByHand, DroppedByHand
<1>5. States' /\ Runs' /\ Locals' /\ Others'
  BY <1>1, <1>4 DEF states, locals, States, Runs, Locals, Others
<1> QED
  BY <1>2, <1>3, <1>5, PartsNext

-----------------------------------------------------------------------------
(* Targets                                                                 *)

LEMMA CommandTargets ==
  ASSUME TargetsKnown, Command \/ Expire \/ \E h \in Hand : ByHandSteps(h)
  PROVE  TargetsKnown'
<1>1. UNCHANGED <<pc, target>>
  BY DEF Command, Expire, GenerateDesignDocument, NewCycle, CompleteProject,
         RequestDesignDocumentRevision, ApproveDesignDocument, ReplayExport,
         ReplayRecord, ByHandSteps, RenderByHand, ExportedByHand, DroppedByHand, locals
<1> QED
  BY <1>1 DEF TargetsKnown

LEMMA TaskTargets ==
  ASSUME TypeOK, TargetsKnown, NEW r \in Run, Task(r)
  PROVE  TargetsKnown'
<1> USE DEF Body
<1>1. CASE ReadDocument(r)
  <2>1. latest > 0 => latest \in Doc
    BY DEF TypeOK, Doc
  <2>2. \/ pc' = [pc EXCEPT ![r] = "releasing"] /\ UNCHANGED target
        \/ /\ latest > 0
           /\ pc' = [pc EXCEPT ![r] = "read"]
           /\ target' = [target EXCEPT ![r].doc = latest]
    BY <1>1 DEF ReadDocument, Goto
  <2>3. CASE pc' = [pc EXCEPT ![r] = "releasing"] /\ UNCHANGED target
    BY <2>3 DEF TargetsKnown, TypeOK
  <2>4. ASSUME latest > 0, pc' = [pc EXCEPT ![r] = "read"],
               target' = [target EXCEPT ![r].doc = latest]
        PROVE  TargetsKnown'
    <3>1. pc'[r] = "read" /\ target'[r].doc \in Doc
      BY <2>1, <2>4 DEF TypeOK
    <3>2. \A q \in Run \ {r} : target'[q] = target[q] /\ pc'[q] = pc[q]
      BY <2>4 DEF TypeOK
    <3> QED
      BY <3>1, <3>2 DEF TargetsKnown
  <2> QED
    BY <2>2, <2>3, <2>4
<1>2. CASE ReadArtifact(r)
  <2>1. \/ pc' = [pc EXCEPT ![r] = "releasing"] /\ UNCHANGED target
        \/ \E a \in Doc : /\ pc' = [pc EXCEPT ![r] = "drafting"]
                          /\ target' = [target EXCEPT ![r].art = a]
    BY <1>2 DEF ReadArtifact, Goto, Pending
  <2>2. target[r].doc \in Doc
    BY <1>2 DEF ReadArtifact, TargetsKnown
  <2>3. CASE pc' = [pc EXCEPT ![r] = "releasing"] /\ UNCHANGED target
    BY <2>3 DEF TargetsKnown, TypeOK
  <2>4. ASSUME NEW a \in Doc, pc' = [pc EXCEPT ![r] = "drafting"],
               target' = [target EXCEPT ![r].art = a]
        PROVE  TargetsKnown'
    <3>1. target'[r].doc \in Doc /\ target'[r].art \in Doc
      BY <2>2, <2>4 DEF TypeOK
    <3>2. \A q \in Run \ {r} : target'[q] = target[q] /\ pc'[q] = pc[q]
      BY <2>4 DEF TypeOK
    <3> QED
      BY <3>1, <3>2 DEF TargetsKnown
  <2> QED
    BY <2>1, <2>3, <2>4
<1>3. CASE (\E h \in Row : Start(r, h)) \/ Acquire(r) \/ Draft(r) \/ WriteSection(r)
           \/ EndWriting(r) \/ Export(r) \/ AlreadyExported(r) \/ Render(r) \/ Exported(r)
           \/ CheckProject(r) \/ Record(r) \/ Throw(r)
  <2>1. UNCHANGED target
    BY <1>3 DEF Start, Acquire, Draft, WriteSection, EndWriting, Export, AlreadyExported,
                Render, Exported, CheckProject, Record, Throw, locals
  <2>2. PICK where : \/ UNCHANGED pc
                     \/ /\ pc' = [pc EXCEPT ![r] = where]
                        /\ \/ where \in {"acquiring", "reading", "releasing"}
                           \/ pc[r] \in Body \ {"reading", "read"}
    BY <1>3 DEF Start, Acquire, Draft, WriteSection, EndWriting, Export, AlreadyExported,
                Render, Exported, CheckProject, Record, Throw, Goto
  <2> QED
    BY <2>1, <2>2 DEF TargetsKnown, TypeOK
<1>4. CASE Conflict(r) \/ Release(r) \/ Crash(r)
  BY <1>4 DEF Conflict, Release, Crash, Goto, Forget, TargetsKnown, TypeOK
<1> QED
  BY <1>1, <1>2, <1>3, <1>4 DEF Task

LEMMA TypeStep == TypeOK /\ TargetsKnown /\ [Next]_vars => TypeOK' /\ TargetsKnown'
<1> SUFFICES ASSUME TypeOK, TargetsKnown, [Next]_vars
             PROVE  TypeOK' /\ TargetsKnown'
  OBVIOUS
<1>1. CASE Command
  BY <1>1, CommandTypes, CommandTargets
<1>2. CASE Expire
  <2>1. Others'
    BY <1>2 DEF Expire, Others, Lock, TypeOK, AtWork
  <2>2. States /\ Texts /\ Runs /\ Locals /\ Exports
    BY Parts
  <2>3. States' /\ Texts' /\ Runs' /\ Locals' /\ Exports'
    BY <1>2, <2>2
       DEF Expire, states, texts, locals, exports, States, Texts, Runs, Locals, Exports
  <2>4. TypeOK'
    BY <2>1, <2>3, PartsNext
  <2> QED
    BY <1>2, <2>4, CommandTargets
<1>3. ASSUME NEW r \in Run, Task(r)
      PROVE  TypeOK' /\ TargetsKnown'
  BY <1>3, TaskTypes, TaskTargets
<1>4. CASE UNCHANGED vars
  BY <1>4 DEF vars, states, texts, locals, exports, TypeOK, TargetsKnown
<1>5. ASSUME NEW h \in Hand, ByHandSteps(h)
      PROVE  TypeOK' /\ TargetsKnown'
  BY <1>5, ByHandTypes, CommandTargets
<1> QED
  BY <1>1, <1>2, <1>3, <1>4, <1>5 DEF Next

LEMMA InitTypes == Init => TypeOK /\ TargetsKnown
<1> SUFFICES ASSUME Init
             PROVE  TypeOK /\ TargetsKnown
  OBVIOUS
<1>1. /\ NoTarget \in [doc : 0 .. MaxDocs, art : 0 .. MaxDocs]
      /\ NoDraft \in [number : 0 .. MaxDrafts, holes : SUBSET Section, revise : BOOLEAN]
      /\ 1 \in 1 .. Sections + 1 /\ Empty \in [Section -> Text]
  BY DesignDocumentAssumption DEF NoTarget, NoDraft, Empty, Text, Missing
<1>2. States /\ Texts
  BY <1>1, DesignDocumentAssumption DEF Init, States, Texts
<1>3. Runs /\ Locals
  BY <1>1 DEF Init, Runs, Locals
<1>4. Others
  <2>1. lock \in Lock
    BY DEF Init, Lock
  <2>2. drafts \in 0 .. MaxDrafts
    BY DesignDocumentAssumption DEF Init
  <2>3. disturbed \in BOOLEAN
    BY DEF Init
  <2> QED
    BY <2>1, <2>2, <2>3 DEF Others
<1>5. TargetsKnown
  BY DEF Init, TargetsKnown, Body
<1>6. Exports
  BY RenderTypes DEF Init, Exports
<1> QED
  BY <1>2, <1>3, <1>4, <1>5, <1>6, Parts

LEMMA TypesAndTargets == Spec => [](TypeOK /\ TargetsKnown)
  BY InitTypes, TypeStep, PTL DEF Spec

\* Every variable keeps its type, and a run that writes knows a document that
\* was created and an artifact that was.
THEOREM DesignTypeCorrect == Spec => []TypeOK
  BY TypesAndTargets, PTL

-----------------------------------------------------------------------------
(* What a step may do to the project, its documents and their artifacts.   *)

\* A run exports and records; the rest of what it does is not published.
Published == <<project, latest, document, artifact, content>>

Shape ==
    \/ UNCHANGED Published
    \/ GenerateDesignDocument
    \/ CompleteProject
    \/ \E d \in Doc : RequestDesignDocumentRevision(d) \/ ApproveDesignDocument(d)
    \/ \E x \in Exporter : FinishExport(x) /\ UNCHANGED states
    \/ \E d \in Doc : RecordDesignDocumentReady(d) /\ UNCHANGED <<latest, artifact, content>>

LEMMA Shapes == TargetsKnown /\ [Next]_vars => Shape
<1> SUFFICES ASSUME TargetsKnown, [Next]_vars
             PROVE  Shape
  OBVIOUS
<1> USE DEF Shape, states, texts
<1>1. CASE Command
  BY <1>1 DEF Command, ReplayExport, ReplayRecord, Published
<1>2. CASE Expire \/ UNCHANGED vars
  BY <1>2 DEF Expire, vars, Published
<1>3. ASSUME NEW r \in Run, Exported(r)
      PROVE  Shape
  BY <1>3 DEF Exported, Exporter
<1>4. ASSUME NEW r \in Run, Record(r)
      PROVE  Shape
  <2>1. target[r].doc \in Doc
    BY <1>4 DEF Record, TargetsKnown, Body
  <2> QED
    BY <1>4, <2>1 DEF Record
<1>5. ASSUME NEW r \in Run, Task(r), ~Exported(r), ~Record(r)
      PROVE  Shape
  <2>1. UNCHANGED Published
    BY <1>5 DEF Task, Start, Acquire, Conflict, ReadDocument, ReadArtifact, Draft,
                WriteSection, EndWriting, Export, AlreadyExported, Render, CheckProject,
                Throw, Release, Crash, Published
  <2> QED
    BY <2>1
<1>6. ASSUME NEW h \in Hand, ByHandSteps(h)
      PROVE  Shape
  BY <1>6 DEF ByHandSteps, RenderByHand, ExportedByHand, DroppedByHand, Exporter, Published
<1> QED
  BY <1>1, <1>2, <1>3, <1>4, <1>5, <1>6 DEF Next

\* ... and to the exports under way.
ExportShape ==
    \/ UNCHANGED exports /\ (UNCHANGED artifact \/ GenerateDesignDocument)
    \/ /\ UNCHANGED artifact
       /\ \E x \in Exporter : \/ \E d \in Doc : BeginExport(x, d)
                              \/ ReadSections(x) \/ DropExport(x)
    \/ \E x \in Exporter : FinishExport(x)

LEMMA ExportShapes == TargetsKnown /\ [Next]_vars => ExportShape
<1> SUFFICES ASSUME TargetsKnown, [Next]_vars
             PROVE  ExportShape
  OBVIOUS
<1> USE DEF ExportShape, texts, Exporter
<1>1. CASE Command
  BY <1>1 DEF Command, CompleteProject, RequestDesignDocumentRevision,
              ApproveDesignDocument, ReplayExport, ReplayRecord, GenerateDesignDocument,
              NewCycle
<1>2. CASE Expire \/ UNCHANGED vars
  BY <1>2 DEF Expire, vars
<1>3. ASSUME NEW r \in Run, Export(r)
      PROVE  ExportShape
  <2>1. target[r].art \in Doc
    BY <1>3 DEF Export, TargetsKnown, Body
  <2> QED
    BY <1>3, <2>1 DEF Export
<1>4. ASSUME NEW r \in Run, Render(r) \/ Exported(r) \/ Throw(r) \/ Crash(r)
      PROVE  ExportShape
  BY <1>4 DEF Render, Exported, Throw, Crash
<1>5. ASSUME NEW r \in Run, Task(r), ~Export(r), ~Render(r), ~Exported(r), ~Throw(r), ~Crash(r)
      PROVE  ExportShape
  <2>1. UNCHANGED <<exports, artifact>>
    BY <1>5 DEF Task, Start, Acquire, Conflict, ReadDocument, ReadArtifact, Draft,
                WriteSection, EndWriting, AlreadyExported, CheckProject, Record, Release
  <2> QED
    BY <2>1
<1>6. ASSUME NEW h \in Hand, ByHandSteps(h)
      PROVE  ExportShape
  BY <1>6 DEF ByHandSteps, RenderByHand, ExportedByHand, DroppedByHand
<1> QED
  BY <1>1, <1>2, <1>3, <1>4, <1>5, <1>6 DEF Next

-----------------------------------------------------------------------------
(* The project and its documents                                           *)

LEMMA MovesOn ==
  ASSUME TypeOK, ProjectFollowsDocument, latest \in Doc, latest' = latest,
         NEW to \in {"ready_for_review", "revision_requested", "approved"},
         project' = to, document' = [document EXCEPT ![latest] = to]
  PROVE  ProjectFollowsDocument'
<1>1. document'[latest] = to /\ \A e \in Doc \ {latest} : document'[e] = document[e]
  BY DEF TypeOK
<1>2. \A e \in Doc : document'[e] = "none" <=> e > latest'
  <2>1. latest \in Nat /\ Doc \subseteq Nat
    BY DEF TypeOK, Doc
  <2> QED
    BY <1>1, <2>1 DEF ProjectFollowsDocument
<1>3. \A e \in Doc : e < latest' => document'[e] = "revision_requested"
  <2>1. latest \in Nat /\ Doc \subseteq Nat
    BY DEF TypeOK, Doc
  <2> QED
    BY <1>1, <2>1 DEF ProjectFollowsDocument
<1> QED
  BY <1>1, <1>2, <1>3 DEF ProjectFollowsDocument

LEMMA FollowsStep == TypeOK /\ ProjectFollowsDocument /\ Shape => ProjectFollowsDocument'
<1> SUFFICES ASSUME TypeOK, ProjectFollowsDocument, Shape
             PROVE  ProjectFollowsDocument'
  OBVIOUS
<1>1. CASE UNCHANGED Published
  BY <1>1 DEF Published, ProjectFollowsDocument
<1>2. CASE GenerateDesignDocument
  <2>1. /\ project \in {"implementation_complete", "revision_requested"}
        /\ project' = "generating" /\ latest + 1 \in Doc /\ latest' = latest + 1
        /\ document' = [document EXCEPT ![latest + 1] = "draft"]
    <3>1. latest \in Nat /\ MaxDocs \in Nat
      BY DesignDocumentAssumption DEF TypeOK
    <3> QED
      BY <1>2, <3>1 DEF GenerateDesignDocument, Move, NewCycle, Doc
  <2>2. /\ latest \in Nat /\ Doc \subseteq Nat
        /\ \A d \in Doc : d <= latest => d = latest \/ d < latest
    BY DEF TypeOK, Doc
  <2>3. \A d \in Doc : d <= latest => document[d] = "revision_requested"
    <3>1. latest > 0 => document[latest] = "revision_requested"
      BY <2>1 DEF ProjectFollowsDocument
    <3> QED
      BY <2>2, <3>1 DEF ProjectFollowsDocument, Doc
  <2>4. /\ document'[latest + 1] = "draft"
        /\ \A d \in Doc \ {latest + 1} : document'[d] = document[d]
    BY <2>1 DEF TypeOK
  <2>5. \A d \in Doc : document'[d] = "none" <=> d > latest'
    BY <2>1, <2>2, <2>4 DEF ProjectFollowsDocument
  <2>6. \A d \in Doc : d < latest' => document'[d] = "revision_requested"
    BY <2>1, <2>2, <2>3, <2>4
  <2> QED
    BY <2>1, <2>4, <2>5, <2>6 DEF ProjectFollowsDocument
<1>3. CASE CompleteProject
  <2>1. /\ project = "approved" /\ project' = "complete"
        /\ latest' = latest /\ document' = document
    BY <1>3 DEF CompleteProject, Move
  <2> QED
    BY <2>1 DEF ProjectFollowsDocument, TypeOK
<1>4. ASSUME NEW d \in Doc, RequestDesignDocumentRevision(d) \/ ApproveDesignDocument(d)
      PROVE  ProjectFollowsDocument'
  <2>1. d = latest
    BY <1>4 DEF RequestDesignDocumentRevision, ApproveDesignDocument, Judged,
                ProjectFollowsDocument, TypeOK, Doc
  <2>2. PICK answer \in {"revision_requested", "approved"} :
            /\ project' = answer /\ latest' = latest
            /\ document' = [document EXCEPT ![d] = answer]
    BY <1>4 DEF RequestDesignDocumentRevision, ApproveDesignDocument, Judged, Move
  <2> QED
    BY <2>1, <2>2, MovesOn
<1>5. ASSUME NEW x \in Exporter, FinishExport(x), UNCHANGED states
      PROVE  ProjectFollowsDocument'
  <2>1. UNCHANGED <<project, latest, document>>
    BY <1>5 DEF states
  <2> QED
    BY <2>1 DEF ProjectFollowsDocument
<1>6. ASSUME NEW d \in Doc, RecordDesignDocumentReady(d), UNCHANGED latest
      PROVE  ProjectFollowsDocument'
  <2>1. d = latest
    <3>1. document[d] = "draft"
      BY <1>6 DEF RecordDesignDocumentReady, Recordable
    <3>2. d <= latest /\ ~(d < latest)
      BY <3>1 DEF ProjectFollowsDocument, TypeOK, Doc
    <3> QED
      BY <3>2 DEF TypeOK, Doc
  <2>2. /\ project' = "ready_for_review" /\ latest' = latest
        /\ document' = [document EXCEPT ![d] = "ready_for_review"]
    BY <1>6 DEF RecordDesignDocumentReady, Move
  <2> QED
    BY <2>1, <2>2, MovesOn
<1> QED
  BY <1>1, <1>2, <1>3, <1>4, <1>5, <1>6 DEF Shape

LEMMA InitFollows == Init => ProjectFollowsDocument
  BY DEF Init, ProjectFollowsDocument, Doc

\* A project moves along with its latest document and with no other.
THEOREM ProjectAndDocumentsAgree == Spec => []ProjectFollowsDocument
<1>1. TypeOK /\ TargetsKnown /\ ProjectFollowsDocument /\ [Next]_vars => ProjectFollowsDocument'
  BY Shapes, FollowsStep
<1> QED
  BY <1>1, InitFollows, TypesAndTargets, PTL DEF Spec

-----------------------------------------------------------------------------
(* Artifacts                                                               *)

\* An artifact is created pending, and what is exported has all its content.
ExportsAreWhole ==
    \A d \in Doc : /\ d > latest => artifact[d] = "none"
                   /\ artifact[d] = "exported" => Whole(content[d])

\* An export reads whole sections, for an artifact that was created.
RendersAreWhole ==
    \A x \in Exporter : /\ render[x].text # Empty => Whole(render[x].text)
                        /\ \A d \in Doc : Renders(x, d) => artifact[d] # "none"

ArtifactInv == ExportsAreWhole /\ RendersAreWhole /\ JudgedIsWhole

LEMMA RenderStep ==
  ASSUME TypeOK, ExportsAreWhole, RendersAreWhole, ExportShape
  PROVE  RendersAreWhole'
<1> USE DEF RendersAreWhole, Renders
<1>1. CASE UNCHANGED exports /\ UNCHANGED artifact
  BY <1>1 DEF exports, Whole
<1>2. CASE UNCHANGED exports /\ GenerateDesignDocument
  <2>1. artifact' = [artifact EXCEPT ![latest + 1] = "pending"] /\ UNCHANGED render
    BY <1>2 DEF GenerateDesignDocument, NewCycle, exports
  <2>2. \A d \in Doc : artifact[d] # "none" => artifact'[d] # "none"
    BY <2>1 DEF TypeOK
  <2> QED
    BY <2>1, <2>2 DEF Whole
<1>3. ASSUME NEW x \in Exporter, NEW d \in Doc, BeginExport(x, d), UNCHANGED artifact
      PROVE  RendersAreWhole'
  <2>1. render'[x] = [doc |-> d, text |-> Empty]
        /\ \A y \in Exporter \ {x} : render'[y] = render[y]
    BY <1>3 DEF BeginExport, TypeOK
  <2>2. artifact[d] # "none"
    BY <1>3 DEF BeginExport, Exportable
  <2> QED
    BY <1>3, <2>1, <2>2 DEF Whole
<1>4. ASSUME NEW x \in Exporter, ReadSections(x), UNCHANGED artifact
      PROVE  RendersAreWhole'
  <2>1. PICK d \in Doc : /\ Renders(x, d) /\ Whole(sections[d])
                         /\ render' = [render EXCEPT ![x].text = sections[d]]
    BY <1>4 DEF ReadSections
  <2>2. render'[x].doc = render[x].doc /\ render'[x].text = sections[d]
        /\ \A y \in Exporter \ {x} : render'[y] = render[y]
    BY <2>1 DEF TypeOK
  <2> QED
    BY <1>4, <2>1, <2>2 DEF Whole
<1>5. ASSUME NEW x \in Exporter, FinishExport(x) \/ (DropExport(x) /\ UNCHANGED artifact)
      PROVE  RendersAreWhole'
  <2>1. render'[x] = NoRender /\ \A y \in Exporter \ {x} : render'[y] = render[y]
    BY <1>5 DEF FinishExport, DropExport, TypeOK
  <2>2. \A d \in Doc : artifact[d] # "none" => artifact'[d] # "none"
    BY <1>5 DEF FinishExport, TypeOK
  <2>3. \A d \in Doc : d # 0
    BY DEF Doc
  <2> QED
    BY <2>1, <2>2, <2>3 DEF NoRender, Whole
<1> QED
  BY <1>1, <1>2, <1>3, <1>4, <1>5 DEF ExportShape

LEMMA ArtifactStep == TypeOK /\ ArtifactInv /\ Shape /\ ExportShape => ArtifactInv'
<1> SUFFICES ASSUME TypeOK, ArtifactInv, Shape, ExportShape
             PROVE  ExportsAreWhole' /\ JudgedIsWhole'
  BY RenderStep DEF ArtifactInv
<1> USE DEF ArtifactInv, ExportsAreWhole, JudgedIsWhole, Released
<1>1. CASE UNCHANGED Published
  BY <1>1 DEF Published
<1>2. CASE GenerateDesignDocument
  BY <1>2 DEF GenerateDesignDocument, NewCycle, TypeOK, Doc
<1>3. CASE CompleteProject
  BY <1>3 DEF CompleteProject, texts
<1>4. ASSUME NEW d \in Doc, RequestDesignDocumentRevision(d) \/ ApproveDesignDocument(d)
      PROVE  ExportsAreWhole' /\ JudgedIsWhole'
  BY <1>4 DEF RequestDesignDocumentRevision, ApproveDesignDocument, Judged, texts, TypeOK
<1>5. ASSUME NEW x \in Exporter, FinishExport(x), UNCHANGED states
      PROVE  ExportsAreWhole' /\ JudgedIsWhole'
  <2>1. PICK d \in Doc : /\ Renders(x, d)
                         /\ artifact' = [artifact EXCEPT ![d] = "exported"]
                         /\ content' = [content EXCEPT ![d] = render[x].text]
    BY <1>5 DEF FinishExport
  <2>2. Whole(render[x].text) /\ artifact[d] # "none"
    BY <1>5, <2>1 DEF FinishExport, RendersAreWhole
  <2>3. /\ artifact'[d] = "exported" /\ content'[d] = render[x].text
        /\ \A e \in Doc \ {d} : artifact'[e] = artifact[e] /\ content'[e] = content[e]
    BY <2>1 DEF TypeOK
  <2>4. UNCHANGED <<latest, document>>
    BY <1>5 DEF states
  <2> QED
    BY <2>2, <2>3, <2>4 DEF Whole
<1>6. ASSUME NEW d \in Doc, RecordDesignDocumentReady(d), UNCHANGED <<latest, artifact, content>>
      PROVE  ExportsAreWhole' /\ JudgedIsWhole'
  BY <1>6 DEF RecordDesignDocumentReady, Recordable, TypeOK, Whole
<1> QED
  BY <1>1, <1>2, <1>3, <1>4, <1>5, <1>6 DEF Shape

LEMMA ArtifactInvariant == Spec => [](TypeOK /\ TargetsKnown /\ ArtifactInv)
<1>1. Init => ArtifactInv
  <2> SUFFICES ASSUME Init
               PROVE  ArtifactInv
    OBVIOUS
  <2>1. \A x \in Exporter : render[x].text = Empty /\ render[x].doc = 0
    BY DEF Init, NoRender
  <2>2. \A d \in Doc : d # 0
    BY DEF Doc
  <2> QED
    BY <2>1, <2>2
       DEF Init, ArtifactInv, ExportsAreWhole, RendersAreWhole, Renders, JudgedIsWhole, Released
<1>2. TypeOK /\ TargetsKnown /\ ArtifactInv /\ [Next]_vars => ArtifactInv'
  BY Shapes, ExportShapes, ArtifactStep
<1> QED
  BY <1>1, <1>2, TypesAndTargets, PTL DEF Spec

\* Nothing reaches an approver that was not exported with content in every
\* section, whatever the adapter said of its draft.
THEOREM ApproversSeeWholeDocuments == Spec => []JudgedIsWhole
  BY ArtifactInvariant, PTL DEF ArtifactInv

\* Until two exports of an artifact overlap, an artifact that is being exported
\* is pending, and being exported once.
AloneOnPending ==
    ~overlapped => \A x \in Exporter, d \in Doc : Renders(x, d) =>
        artifact[d] = "pending" /\ \A y \in Exporter : Renders(y, d) => y = x

LEMMA AloneStep ==
  ASSUME TypeOK, ExportsAreWhole, RendersAreWhole, AloneOnPending, ExportShape
  PROVE  AloneOnPending'
<1> SUFFICES ASSUME ~overlapped', NEW x \in Exporter, NEW d \in Doc, Renders(x, d)'
             PROVE  artifact'[d] = "pending" /\ \A y \in Exporter : Renders(y, d)' => y = x
  BY DEF AloneOnPending
<1> USE DEF Renders
<1>1. ~overlapped
  BY DEF ExportShape, exports, BeginExport, ReadSections, DropExport, FinishExport
<1>2. \A z \in Exporter : render[z].doc = d =>
          artifact[d] = "pending" /\ \A y \in Exporter : render[y].doc = d => y = z
  BY <1>1 DEF AloneOnPending
<1>3. d # 0
  BY DEF Doc
<1>4. CASE UNCHANGED exports /\ (UNCHANGED artifact \/ GenerateDesignDocument)
  <2>1. UNCHANGED render
    BY <1>4 DEF exports
  <2>2. artifact[d] = "pending" => artifact'[d] = "pending"
    BY <1>4 DEF GenerateDesignDocument, NewCycle, TypeOK
  <2> QED
    BY <1>2, <2>1, <2>2
<1>5. ASSUME NEW z \in Exporter, NEW e \in Doc, BeginExport(z, e), UNCHANGED artifact
      PROVE  artifact'[d] = "pending" /\ \A y \in Exporter : Renders(y, d)' => y = x
  <2>1. render'[z].doc = e /\ \A y \in Exporter \ {z} : render'[y] = render[y]
    BY <1>5 DEF BeginExport, TypeOK
  <2>2. artifact[e] = "pending" /\ \A y \in Exporter : render[y].doc # e
    BY <1>5 DEF BeginExport, Exportable
  <2> QED
    BY <1>2, <1>5, <2>1, <2>2
<1>6. ASSUME NEW z \in Exporter, ReadSections(z) \/ DropExport(z), UNCHANGED artifact
      PROVE  artifact'[d] = "pending" /\ \A y \in Exporter : Renders(y, d)' => y = x
  <2>1. \A y \in Exporter : render'[y].doc \in {render[y].doc, 0}
    <3>1. CASE ReadSections(z)
      BY <3>1 DEF ReadSections, TypeOK
    <3>2. CASE DropExport(z)
      BY <3>2 DEF DropExport, NoRender, TypeOK
    <3> QED
      BY <1>6, <3>1, <3>2
  <2>2. \A y \in Exporter : render'[y].doc = d => render[y].doc = d
    BY <1>3, <2>1
  <2>3. render[x].doc = d
    BY <2>2
  <2> QED
    BY <1>2, <1>6, <2>2, <2>3
<1>7. ASSUME NEW z \in Exporter, FinishExport(z)
      PROVE  artifact'[d] = "pending" /\ \A y \in Exporter : Renders(y, d)' => y = x
  <2>1. PICK e \in Doc : Renders(z, e) /\ artifact' = [artifact EXCEPT ![e] = "exported"]
    BY <1>7 DEF FinishExport
  <2>2. render'[z].doc = 0 /\ \A y \in Exporter \ {z} : render'[y] = render[y]
    BY <1>7 DEF FinishExport, NoRender, TypeOK
  <2>3. x # z /\ render[x].doc = d
    BY <1>3, <2>2
  <2>4. d # e
    BY <1>2, <2>1, <2>3
  <2>5. artifact'[d] = artifact[d]
    BY <2>1, <2>4 DEF TypeOK
  <2>6. \A y \in Exporter : render'[y].doc = d => render[y].doc = d
    BY <1>3, <2>2
  <2> QED
    BY <1>2, <2>3, <2>5, <2>6
<1> QED
  BY <1>4, <1>5, <1>6, <1>7 DEF ExportShape

LEMMA FrozenStep ==
  ASSUME TypeOK, ExportsAreWhole, AloneOnPending, ~overlapped, Shape
  PROVE  \A d \in Doc : artifact[d] = "exported" =>
             artifact'[d] = "exported" /\ content'[d] = content[d]
<1>1. CASE UNCHANGED Published
  BY <1>1 DEF Published
<1>2. CASE GenerateDesignDocument
  BY <1>2 DEF GenerateDesignDocument, NewCycle, ExportsAreWhole, TypeOK, Doc
<1>3. CASE CompleteProject
  BY <1>3 DEF CompleteProject, texts
<1>4. ASSUME NEW d \in Doc, RequestDesignDocumentRevision(d) \/ ApproveDesignDocument(d)
      PROVE  UNCHANGED <<artifact, content>>
  BY <1>4 DEF RequestDesignDocumentRevision, ApproveDesignDocument, texts
<1>5. ASSUME NEW x \in Exporter, FinishExport(x)
      PROVE  \A e \in Doc : artifact[e] = "exported" =>
                 artifact'[e] = "exported" /\ content'[e] = content[e]
  <2>1. PICK d \in Doc : /\ Renders(x, d)
                         /\ artifact' = [artifact EXCEPT ![d] = "exported"]
                         /\ content' = [content EXCEPT ![d] = render[x].text]
    BY <1>5 DEF FinishExport
  <2>2. artifact[d] = "pending"
    BY <2>1 DEF AloneOnPending
  <2> QED
    BY <2>1, <2>2 DEF TypeOK
<1> QED
  BY <1>1, <1>2, <1>3, <1>4, <1>5 DEF Shape

\* What was exported stays as it was, unless two exports of an artifact, under
\* different keys, were under way at once.
THEOREM ExportsAreFrozen == Spec => PublishedIsFrozen
<1>1. Init => AloneOnPending
  BY DEF Init, AloneOnPending, Renders, NoRender, Doc
<1>2. TypeOK /\ TargetsKnown /\ ArtifactInv /\ AloneOnPending /\ [Next]_vars
        => AloneOnPending'
  BY ExportShapes, AloneStep DEF ArtifactInv
<1>3. TypeOK /\ TargetsKnown /\ ArtifactInv /\ AloneOnPending /\ [Next]_vars
        => [~overlapped => \A d \in Doc : artifact[d] = "exported" =>
               artifact'[d] = "exported" /\ content'[d] = content[d]]_vars
  BY Shapes, FrozenStep DEF ArtifactInv
<1> QED
  BY <1>1, <1>2, <1>3, ArtifactInvariant, PTL DEF Spec, PublishedIsFrozen

-----------------------------------------------------------------------------
(* One run at a time: what the lease is for.                               *)

\* Who is at work holds the lease.
LeaseHeld == \A r \in Run : AtWork(r) => lock.live /\ lock.run = r

\* The document a run works on is the one the project waits for ...
OnLatest ==
    \A r \in Run : pc[r] \in Body \ {"reading"} =>
        project = "generating" /\ target[r].doc = latest

\* ... and is not exported before the run exports it.
WritesBeforeExport ==
    \A r \in Run : pc[r] \in {"drafting", "writing", "exporting"} =>
        artifact[latest] = "pending"

ExportsAreCurrent ==
    \A d \in Doc : artifact[d] = "exported" => sections[d] = content[d]

\* A run renders between its export's first step and its last, ...
RunsRender == \A r \in Run : render[r].doc # 0 => pc[r] = "rendering"

\* ... no export is replayed by hand beside a run at work, ...
ByHandAlone == ByHand => \A r \in Run : ~AtWork(r)

\* ... and what an export has read is what the sections hold.
ReadsAreCurrent ==
    \A x \in Exporter, d \in Doc :
        Renders(x, d) /\ render[x].text # Empty => render[x].text = sections[d]

Rendering == RunsRender /\ ByHandAlone /\ ReadsAreCurrent

OneAtATime ==
    LeaseHeld /\ OnLatest /\ WritesBeforeExport /\ ExportsAreCurrent /\ Rendering

LEMMA AloneAtWork ==
  ASSUME LeaseHeld, NEW r \in Run, NEW q \in Run, AtWork(r), AtWork(q)
  PROVE  q = r
  BY DEF LeaseHeld

\* Once disturbed, always disturbed.
LEMMA DisturbedStays == TypeOK /\ [Next]_vars /\ ~disturbed' => ~disturbed
<1> SUFFICES ASSUME TypeOK, [Next]_vars, disturbed
             PROVE  disturbed'
  BY DEF TypeOK
<1>1. CASE Command
  BY <1>1 DEF Command, GenerateDesignDocument, NewCycle, CompleteProject,
              RequestDesignDocumentRevision, ApproveDesignDocument, ReplayExport,
              ReplayRecord
<1>2. CASE Expire \/ UNCHANGED vars
  BY <1>2 DEF Expire, vars
<1>3. ASSUME NEW r \in Run, Task(r) PROVE disturbed'
  BY <1>3 DEF Task, Start, Acquire, Take, Conflict, ReadDocument, ReadArtifact, Draft,
              WriteSection, EndWriting, Export, AlreadyExported, Render, Exported,
              CheckProject, Record, Throw, Release, Crash
<1>4. ASSUME NEW h \in Hand, ByHandSteps(h) PROVE disturbed'
  BY <1>4 DEF ByHandSteps, RenderByHand, ExportedByHand, DroppedByHand
<1> QED
  BY <1>1, <1>2, <1>3, <1>4 DEF Next

\* A run that stops working, or was not, disturbs no other.
LEMMA Leaves ==
  ASSUME TypeOK, OneAtATime, NEW r \in Run, NEW where,
         pc' = [pc EXCEPT ![r] = where], where \notin Body,
         \A q \in Run \ {r} : target'[q] = target[q],
         UNCHANGED <<project, latest, artifact, sections, content>>,
         DropExport(r) \/ (UNCHANGED render /\ pc[r] # "rendering"),
         lock'.run = lock.run, lock.run # r => lock'.live = lock.live
  PROVE  OneAtATime'
<1>1. pc'[r] \notin Body /\ \A q \in Run \ {r} : pc'[q] = pc[q]
  BY DEF TypeOK
<1>2. \A q \in Run : pc'[q] \in Body => q # r
  BY <1>1
<1>3. LeaseHeld'
  BY <1>1, <1>2 DEF OneAtATime, LeaseHeld, AtWork
<1>4. OnLatest'
  BY <1>1, <1>2 DEF OneAtATime, OnLatest
<1>5. WritesBeforeExport'
  BY <1>1, <1>2 DEF OneAtATime, WritesBeforeExport, Body
<1>6. ExportsAreCurrent'
  BY DEF OneAtATime, ExportsAreCurrent
<1>7. /\ \A x \in Exporter : render'[x] = render[x] \/ render'[x] = NoRender
      /\ render'[r].doc = 0
  <2>1. CASE DropExport(r)
    BY <2>1 DEF DropExport, NoRender, TypeOK, Exporter
  <2>2. CASE UNCHANGED render /\ pc[r] # "rendering"
    BY <2>2 DEF OneAtATime, Rendering, RunsRender
  <2> QED
    BY <2>1, <2>2
<1>8. NoRender.doc = 0 /\ \A d \in Doc : d # 0
  BY DEF NoRender, Doc
<1>9. RunsRender'
  BY <1>1, <1>7, <1>8 DEF OneAtATime, Rendering, RunsRender, Exporter
<1>10. ByHandAlone'
  <2>1. \A q \in Run : AtWork(q)' => AtWork(q)
    BY <1>1, <1>2 DEF AtWork
  <2>2. ByHand' => ByHand
    BY <1>7 DEF ByHand, Exporter
  <2> QED
    BY <2>1, <2>2 DEF OneAtATime, Rendering, ByHandAlone
<1>11. ReadsAreCurrent'
  BY <1>7, <1>8 DEF OneAtATime, Rendering, ReadsAreCurrent, Renders
<1> QED
  BY <1>3, <1>4, <1>5, <1>6, <1>9, <1>10, <1>11 DEF OneAtATime, Rendering

\* While a run is at work no other renders, by hand or not.
LEMMA AloneAtRender ==
  ASSUME OneAtATime, NEW r \in Run, AtWork(r)
  PROVE  /\ \A h \in Hand : render[h] = NoRender
         /\ \A q \in Run : render[q].doc # 0 => q = r /\ pc[r] = "rendering"
<1>1. \A h \in Hand : render[h] = NoRender
  BY DEF OneAtATime, Rendering, ByHandAlone, ByHand
<1>2. ASSUME NEW q \in Run, render[q].doc # 0
      PROVE  q = r /\ pc[r] = "rendering"
  <2>1. pc[q] = "rendering"
    BY <1>2 DEF OneAtATime, Rendering, RunsRender
  <2>2. AtWork(q)
    BY <2>1 DEF AtWork, Body
  <2> QED
    BY <2>1, <2>2, AloneAtWork DEF OneAtATime
<1> QED
  BY <1>1, <1>2

\* A run that goes on keeps its lease, and is the only one to be looked at.
LEMMA WorksOn ==
  ASSUME TypeOK, OneAtATime, NEW r \in Run, NEW where \in Body, AtWork(r),
         pc' = [pc EXCEPT ![r] = where], UNCHANGED lock
  PROVE  LeaseHeld' /\ pc'[r] = where /\ \A q \in Run \ {r} : pc'[q] \notin Body
<1>1. pc'[r] = where /\ \A q \in Run \ {r} : pc'[q] = pc[q]
  BY DEF TypeOK
<1>2. \A q \in Run \ {r} : pc[q] \notin Body
  BY AloneAtWork DEF OneAtATime, AtWork
<1> QED
  BY <1>1, <1>2 DEF LeaseHeld, AtWork, OneAtATime

\* The steps of a run that has read its document.
LEMMA WorkerStep ==
  ASSUME TypeOK, TargetsKnown, ProjectFollowsDocument, ArtifactInv, OneAtATime,
         NEW r \in Run,
         \/ ReadDocument(r) \/ ReadArtifact(r) \/ Draft(r) \/ WriteSection(r)
         \/ EndWriting(r) \/ Export(r) \/ AlreadyExported(r) \/ Render(r) \/ Exported(r)
         \/ CheckProject(r)
  PROVE  OneAtATime'
<1> USE DEF states, texts
<1>1. AtWork(r) /\ UNCHANGED <<project, latest, lock>>
  BY DEF AtWork, Body, ReadDocument, ReadArtifact, Draft, WriteSection, EndWriting,
         Export, AlreadyExported, Render, Exported, CheckProject
<1>2. ASSUME pc' = [pc EXCEPT ![r] = "releasing"], UNCHANGED <<artifact, sections, content>>,
             UNCHANGED render, pc[r] # "rendering", \A q \in Run \ {r} : target'[q] = target[q]
      PROVE  OneAtATime'
  BY <1>1, <1>2, Leaves DEF Body
<1>3. ASSUME NEW where \in Body, pc' = [pc EXCEPT ![r] = where],
             where # "reading" => project = "generating" /\ target'[r].doc = latest,
             where \in {"drafting", "writing", "exporting"} => artifact'[latest] = "pending",
             ExportsAreCurrent', ReadsAreCurrent', \A h \in Hand : render'[h] = render[h],
             \A q \in Run : render'[q].doc # 0 => q = r /\ where = "rendering"
      PROVE  OneAtATime'
  <2>1. LeaseHeld' /\ pc'[r] = where /\ \A q \in Run \ {r} : pc'[q] \notin Body
    BY <1>1, <1>3, WorksOn
  <2>2. OnLatest'
    BY <1>1, <1>3, <2>1 DEF OnLatest
  <2>3. WritesBeforeExport'
    BY <1>1, <1>3, <2>1 DEF WritesBeforeExport, Body
  <2>4. RunsRender'
    BY <1>3, <2>1 DEF RunsRender
  <2>5. ByHandAlone'
    BY <1>1, <1>3, AloneAtRender DEF ByHandAlone, ByHand
  <2> QED
    BY <1>3, <2>1, <2>2, <2>3, <2>4, <2>5 DEF OneAtATime, Rendering
<1>4. pc[r] # "reading" => project = "generating" /\ target[r].doc = latest
  BY <1>1 DEF OneAtATime, OnLatest, AtWork
<1>5. UNCHANGED <<artifact, sections, content>> => ExportsAreCurrent'
  BY DEF OneAtATime, ExportsAreCurrent
<1>13. ASSUME UNCHANGED render, pc[r] # "rendering"
       PROVE  /\ ReadsAreCurrent' /\ \A h \in Hand : render'[h] = render[h]
              /\ \A q \in Run : render'[q].doc = 0
  <2>1. \A x \in Exporter : render[x].doc = 0
    BY <1>1, <1>13, AloneAtRender DEF NoRender, Exporter
  <2> QED
    BY <1>13, <2>1 DEF ReadsAreCurrent, Renders, Doc, Exporter
<1>14. ASSUME ReadDocument(r) \/ ReadArtifact(r) \/ Draft(r) \/ WriteSection(r)
              \/ EndWriting(r) \/ AlreadyExported(r) \/ CheckProject(r)
       PROVE  UNCHANGED render /\ pc[r] # "rendering"
  BY <1>14 DEF ReadDocument, ReadArtifact, Draft, WriteSection, EndWriting,
               AlreadyExported, CheckProject, exports
<1>6. CASE ReadDocument(r)
  <2>1. CASE project = "generating" /\ latest > 0
    <3>1. target'[r].doc = latest
      BY <1>6, <2>1 DEF ReadDocument, TypeOK
    <3> QED
      BY <1>3, <1>13, <1>14, <1>5, <1>6, <2>1, <3>1 DEF ReadDocument, Goto, Body
  <2>2. CASE ~(project = "generating" /\ latest > 0)
    BY <1>2, <1>14, <1>6, <2>2 DEF ReadDocument, Goto
  <2> QED
    BY <2>1, <2>2
<1>7. CASE ReadArtifact(r)
  <2>1. CASE Pending = {}
    BY <1>2, <1>14, <1>7, <2>1 DEF ReadArtifact, Goto
  <2>2. ASSUME NEW a \in Pending, Goto(r, "drafting"),
               target' = [target EXCEPT ![r].art = a]
        PROVE  OneAtATime'
    <3>1. a \in Doc /\ artifact[a] = "pending" /\ a \in Nat /\ latest \in Nat
      BY <2>2 DEF Pending, Doc, TypeOK
    <3>2. a <= latest
      BY <3>1 DEF ArtifactInv, ExportsAreWhole
    <3>3. document[a] # "revision_requested"
      BY <3>1 DEF ArtifactInv, JudgedIsWhole, Released
    <3>4. a = latest
      BY <3>1, <3>2, <3>3 DEF ProjectFollowsDocument
    <3>5. target'[r].doc = target[r].doc
      BY <2>2 DEF TypeOK
    <3>6. pc[r] = "read" /\ UNCHANGED <<artifact, sections, content>>
      BY <1>7 DEF ReadArtifact
    <3> QED
      BY <1>3, <1>13, <1>14, <1>7, <1>4, <1>5, <2>2, <3>1, <3>4, <3>5, <3>6 DEF Goto, Body
  <2> QED
    BY <1>7, <2>1, <2>2 DEF ReadArtifact
<1>8. CASE Draft(r)
  <2>1. artifact[latest] = "pending"
    BY <1>8 DEF Draft, OneAtATime, WritesBeforeExport
  <2>2. UNCHANGED <<artifact, sections, content, target>> /\ Goto(r, "writing")
        /\ pc[r] = "drafting"
    BY <1>8 DEF Draft
  <2> QED
    BY <1>3, <1>13, <1>14, <1>8, <1>4, <1>5, <2>1, <2>2 DEF Goto, Body
<1>9. CASE WriteSection(r)
  <2>1. /\ pc[r] = "writing" /\ UNCHANGED <<artifact, content, pc, target>>
        /\ sections' = [sections EXCEPT ![target[r].doc][next[r]] = Drafted(r, next[r])]
    BY <1>9 DEF WriteSection
  <2>2. artifact[latest] = "pending" /\ target[r].doc = latest
    BY <1>4, <2>1 DEF OneAtATime, WritesBeforeExport
  <2>3. \A d \in Doc : artifact[d] = "exported" => sections'[d] = sections[d]
    BY <2>1, <2>2 DEF TypeOK
  <2>4. ExportsAreCurrent'
    BY <2>1, <2>3 DEF OneAtATime, ExportsAreCurrent
  <2>5. pc' = [pc EXCEPT ![r] = "writing"]
    BY <2>1 DEF TypeOK
  <2> QED
    BY <1>3, <1>13, <1>14, <1>9, <1>4, <2>1, <2>2, <2>4, <2>5 DEF Body
<1>10. CASE EndWriting(r)
  <2>1. /\ artifact[latest] = "pending" /\ UNCHANGED <<artifact, sections, content, target>>
        /\ pc[r] = "writing"
    BY <1>10 DEF EndWriting, OneAtATime, WritesBeforeExport, locals
  <2>2. Goto(r, "releasing") \/ Goto(r, "exporting")
    BY <1>10 DEF EndWriting
  <2> QED
    BY <1>2, <1>3, <1>13, <1>14, <1>10, <1>4, <1>5, <2>1, <2>2 DEF Goto, Body
<1>11. CASE Export(r)
  <2>1. /\ pc[r] = "exporting" /\ Goto(r, "rendering") /\ BeginExport(r, target[r].art)
        /\ UNCHANGED <<artifact, sections, content, target>>
    BY <1>11 DEF Export, locals
  <2>2. render' = [render EXCEPT ![r] = [doc |-> target[r].art, text |-> Empty]]
    BY <2>1 DEF BeginExport
  <2>3. /\ render'[r].text = Empty
        /\ \A x \in Exporter \ {r} : render'[x] = render[x] /\ render[x].doc = 0
    BY <1>1, <2>1, <2>2, AloneAtRender DEF TypeOK, Exporter, NoRender
  <2>4. ReadsAreCurrent'
    BY <2>3 DEF ReadsAreCurrent, Renders, Doc
  <2>5. \A h \in Hand : render'[h] = render[h]
    BY <2>3, DesignDocumentAssumption DEF Exporter
  <2>6. \A q \in Run : render'[q].doc # 0 => q = r
    BY <2>3 DEF Exporter
  <2> QED
    BY <1>3, <1>4, <1>5, <2>1, <2>4, <2>5, <2>6 DEF Goto, Body
<1>15. CASE AlreadyExported(r)
  <2>1. /\ pc[r] = "exporting" /\ Goto(r, "checking")
        /\ UNCHANGED <<artifact, sections, content, target>>
    BY <1>15 DEF AlreadyExported, locals
  <2> QED
    BY <1>3, <1>13, <1>14, <1>15, <1>4, <1>5, <2>1 DEF Goto, Body
<1>16. CASE Render(r)
  <2>1. /\ pc[r] = "rendering" /\ ReadSections(r)
        /\ UNCHANGED <<artifact, sections, content, target, pc>>
    BY <1>16 DEF Render, locals
  <2>2. PICK d \in Doc : /\ Renders(r, d)
                         /\ render' = [render EXCEPT ![r].text = sections[d]]
    BY <2>1 DEF ReadSections
  <2>3. /\ render'[r].doc = d /\ render'[r].text = sections[d]
        /\ \A x \in Exporter \ {r} : render'[x] = render[x] /\ render[x].doc = 0
    BY <1>1, <2>2, AloneAtRender DEF TypeOK, Exporter, NoRender, Renders
  <2>4. ReadsAreCurrent'
    BY <2>1, <2>3 DEF ReadsAreCurrent, Renders, Doc
  <2>5. \A h \in Hand : render'[h] = render[h]
    BY <2>3, DesignDocumentAssumption DEF Exporter
  <2>6. \A q \in Run : render'[q].doc # 0 => q = r
    BY <2>3 DEF Exporter
  <2>7. pc' = [pc EXCEPT ![r] = "rendering"]
    BY <2>1 DEF TypeOK
  <2> QED
    BY <1>3, <1>4, <1>5, <2>1, <2>4, <2>5, <2>6, <2>7 DEF Body
<1>17. CASE Exported(r)
  <2>1. /\ pc[r] = "rendering" /\ Goto(r, "checking") /\ FinishExport(r)
        /\ UNCHANGED <<sections, target>>
    BY <1>17 DEF Exported, locals
  <2>2. PICK d \in Doc : /\ Renders(r, d)
                         /\ artifact' = [artifact EXCEPT ![d] = "exported"]
                         /\ content' = [content EXCEPT ![d] = render[r].text]
    BY <2>1 DEF FinishExport
  <2>3. render[r].text = sections[d]
    BY <2>1, <2>2 DEF FinishExport, OneAtATime, Rendering, ReadsAreCurrent, Exporter
  <2>4. ExportsAreCurrent'
    BY <2>1, <2>2, <2>3 DEF OneAtATime, ExportsAreCurrent, TypeOK
  <2>5. \A x \in Exporter : render'[x].doc = 0 /\ (x # r => render'[x] = render[x])
    BY <1>1, <2>1, AloneAtRender DEF FinishExport, NoRender, TypeOK, Exporter
  <2>6. ReadsAreCurrent'
    BY <2>5 DEF ReadsAreCurrent, Renders, Doc
  <2>7. \A h \in Hand : render'[h] = render[h]
    BY <2>5, DesignDocumentAssumption DEF Exporter
  <2>8. \A q \in Run : render'[q].doc = 0
    BY <2>5 DEF Exporter
  <2> QED
    BY <1>3, <1>4, <2>1, <2>4, <2>6, <2>7, <2>8 DEF Goto, Body
<1>12. CASE CheckProject(r)
  <2>1. pc[r] = "checking" /\ UNCHANGED <<artifact, sections, content, target>>
    BY <1>12 DEF CheckProject
  <2>2. Goto(r, "releasing") \/ Goto(r, "recording")
    BY <1>12 DEF CheckProject
  <2> QED
    BY <1>2, <1>3, <1>13, <1>14, <1>12, <1>4, <1>5, <2>1, <2>2 DEF Goto, Body
<1> QED
  BY <1>6, <1>7, <1>8, <1>9, <1>10, <1>11, <1>12, <1>15, <1>16, <1>17

\* The steps by which a run comes to its work, or ends it.
LEMMA OtherStep ==
  ASSUME TypeOK, OneAtATime, ~disturbed', NEW r \in Run,
         \/ \E h \in Row : Start(r, h)
         \/ Acquire(r) \/ Conflict(r) \/ Record(r) \/ Throw(r) \/ Release(r) \/ Crash(r)
  PROVE  OneAtATime'
<1> USE DEF states, texts, locals
<1>1. ASSUME Forget(r) \/ UNCHANGED target
      PROVE  \A q \in Run \ {r} : target'[q] = target[q]
  BY <1>1 DEF Forget, TypeOK
<1>2. CASE (\E h \in Row : Start(r, h)) \/ Conflict(r) \/ Throw(r) \/ Crash(r)
  <2>1. /\ UNCHANGED <<project, latest, artifact, sections, content, lock>>
        /\ DropExport(r) \/ (UNCHANGED render /\ pc[r] # "rendering")
        /\ Forget(r) \/ UNCHANGED target
        /\ \E where \in {"acquiring", "idle", "releasing"} : pc' = [pc EXCEPT ![r] = where]
    BY <1>2 DEF Start, Conflict, Throw, Crash, Goto, exports
  <2> QED
    BY <1>1, <2>1, Leaves DEF Body
<1>3. CASE Release(r)
  <2>1. /\ UNCHANGED <<project, latest, artifact, sections, content>>
        /\ Forget(r) /\ pc' = [pc EXCEPT ![r] = "idle"]
        /\ lock' = [lock EXCEPT !.live = @ /\ lock.run # r]
        /\ UNCHANGED render /\ pc[r] # "rendering"
    BY <1>3 DEF Release, Goto, exports
  <2>2. lock'.run = lock.run /\ (lock.run # r => lock'.live = lock.live)
    BY <2>1 DEF TypeOK
  <2> QED
    BY <1>1, <2>1, <2>2, Leaves DEF Body
<1>4. CASE Acquire(r)
  <2>1. /\ pc' = [pc EXCEPT ![r] = "reading"] /\ pc[r] = "acquiring"
        /\ lock' = [run |-> r, row |-> row[r], live |-> TRUE]
        /\ UNCHANGED <<project, latest, artifact, sections, content, target, render>>
        /\ ~ByHand
    BY <1>4 DEF Acquire, Take, Goto, exports
  <2>2. \A q \in Run : ~AtWork(q)
    <3> SUFFICES ASSUME NEW q \in Run, AtWork(q)
                 PROVE  FALSE
      OBVIOUS
    <3>1. lock.live /\ lock.run = q
      BY DEF OneAtATime, LeaseHeld
    <3>2. q # r /\ q # None
      BY <2>1, DesignDocumentAssumption DEF AtWork, Body
    <3>3. disturbed'
      BY <1>4, <3>1, <3>2 DEF Acquire, Free, Take
    <3> QED
      BY <3>3
  <2>3. \A q \in Run : q # r => pc'[q] \notin Body
    BY <2>1, <2>2 DEF AtWork, TypeOK
  <2>4. pc'[r] = "reading"
    BY <2>1 DEF TypeOK
  <2>5. LeaseHeld'
    BY <2>1, <2>3 DEF LeaseHeld, AtWork
  <2>6. OnLatest' /\ WritesBeforeExport'
    BY <2>3, <2>4 DEF OnLatest, WritesBeforeExport, Body
  <2>7. ExportsAreCurrent'
    BY <2>1 DEF OneAtATime, ExportsAreCurrent
  <2>8. RunsRender'
    BY <2>1, <2>2 DEF OneAtATime, Rendering, RunsRender, AtWork, Body, TypeOK
  <2>9. ByHandAlone' /\ ReadsAreCurrent'
    BY <2>1 DEF OneAtATime, Rendering, ByHandAlone, ByHand, ReadsAreCurrent, Renders
  <2> QED
    BY <2>5, <2>6, <2>7, <2>8, <2>9 DEF OneAtATime, Rendering
<1>5. CASE Record(r)
  <2>1. /\ pc' = [pc EXCEPT ![r] = "releasing"] /\ pc[r] = "recording"
        /\ UNCHANGED <<latest, artifact, sections, content, target, lock, render>>
    BY <1>5 DEF Record, Goto, exports
  <2>2. \A q \in Run : pc'[q] \notin Body
    <3>1. AtWork(r)
      BY <2>1 DEF AtWork, Body
    <3>2. \A q \in Run \ {r} : pc[q] \notin Body
      BY <3>1, AloneAtWork DEF OneAtATime, AtWork
    <3> QED
      BY <2>1, <3>2 DEF Body, TypeOK
  <2>3. LeaseHeld' /\ OnLatest' /\ WritesBeforeExport'
    BY <2>2 DEF LeaseHeld, OnLatest, WritesBeforeExport, AtWork, Body
  <2>4. ExportsAreCurrent'
    BY <2>1 DEF OneAtATime, ExportsAreCurrent
  <2>5. RunsRender'
    BY <2>1 DEF OneAtATime, Rendering, RunsRender, TypeOK
  <2>6. ByHandAlone' /\ ReadsAreCurrent'
    BY <2>1, <2>2 DEF OneAtATime, Rendering, ByHandAlone, AtWork, ReadsAreCurrent, Renders
  <2> QED
    BY <2>3, <2>4, <2>5, <2>6 DEF OneAtATime, Rendering
<1> QED
  BY <1>2, <1>3, <1>4, <1>5

\* A command is given when no run is past its first look, or beside one.
LEMMA CommandsApart ==
  ASSUME TypeOK, OneAtATime, ~disturbed', Command
  PROVE  OneAtATime'
<1> USE DEF texts, locals
<1>1. UNCHANGED <<pc, target, lock, sections>>
  BY DEF Command, GenerateDesignDocument, NewCycle, CompleteProject,
         RequestDesignDocumentRevision, ApproveDesignDocument, ReplayExport, ReplayRecord
<1>2. LeaseHeld'
  BY <1>1 DEF OneAtATime, LeaseHeld, AtWork
<1>3. ASSUME \A q \in Run : pc[q] \notin Body \ {"reading"}, ExportsAreCurrent', Rendering'
      PROVE  OneAtATime'
  <2>1. OnLatest' /\ WritesBeforeExport'
    BY <1>1, <1>3 DEF OnLatest, WritesBeforeExport, Body
  <2> QED
    BY <1>2, <1>3, <2>1 DEF OneAtATime
<1>9. UNCHANGED render => Rendering'
  BY <1>1 DEF OneAtATime, Rendering, RunsRender, ByHandAlone, ByHand, AtWork,
              ReadsAreCurrent, Renders
<1>4. ASSUME project # "generating"
      PROVE  \A q \in Run : pc[q] \notin Body \ {"reading"}
  BY <1>4 DEF OneAtATime, OnLatest
<1>5. UNCHANGED <<artifact, content>> => ExportsAreCurrent'
  BY <1>1 DEF OneAtATime, ExportsAreCurrent
<1>6. CASE GenerateDesignDocument
  <2>1. project # "generating"
    BY <1>6 DEF GenerateDesignDocument, Move
  <2>2. artifact' = [artifact EXCEPT ![latest + 1] = "pending"] /\ UNCHANGED content
    BY <1>6 DEF GenerateDesignDocument, NewCycle
  <2>3. \A d \in Doc : artifact'[d] = "exported" => artifact[d] = "exported"
    BY <2>2 DEF TypeOK
  <2>4. ExportsAreCurrent'
    BY <1>1, <2>2, <2>3 DEF OneAtATime, ExportsAreCurrent
  <2>5. UNCHANGED render
    BY <1>6 DEF GenerateDesignDocument, NewCycle, exports
  <2> QED
    BY <1>3, <1>4, <1>9, <2>1, <2>4, <2>5
<1>7. CASE CompleteProject \/ \E d \in Doc : \/ RequestDesignDocumentRevision(d)
                                             \/ ApproveDesignDocument(d)
  <2>1. project # "generating" /\ UNCHANGED <<artifact, content, render>>
    BY <1>7 DEF CompleteProject, RequestDesignDocumentRevision, ApproveDesignDocument, Move,
                exports
  <2> QED
    BY <1>3, <1>4, <1>5, <1>9, <2>1
<1>8. ASSUME NEW d \in Doc, ReplayRecord(d)
      PROVE  OneAtATime'
  <2>1. \A q \in Run : pc[q] \notin Body
    BY <1>8 DEF ReplayRecord, Beside, AtWork
  <2>2. UNCHANGED <<artifact, content, render>>
    BY <1>8 DEF ReplayRecord, exports
  <2> QED
    BY <1>3, <1>5, <1>9, <2>1, <2>2
<1>10. ASSUME NEW h \in Hand, NEW d \in Doc, ReplayExport(h, d)
       PROVE  OneAtATime'
  <2>1. \A q \in Run : pc[q] \notin Body
    BY <1>10 DEF ReplayExport, Beside, AtWork
  <2>2. UNCHANGED <<artifact, content>>
        /\ render' = [render EXCEPT ![h] = [doc |-> d, text |-> Empty]]
    BY <1>10 DEF ReplayExport, BeginExport
  <2>3. /\ render'[h].text = Empty
        /\ \A x \in Exporter \ {h} : render'[x] = render[x]
    BY <2>2 DEF TypeOK, Exporter
  <2>4. RunsRender'
    BY <1>1, <2>3, DesignDocumentAssumption DEF OneAtATime, Rendering, RunsRender, Exporter
  <2>5. ByHandAlone'
    BY <1>1, <2>1 DEF ByHandAlone, AtWork
  <2>6. ReadsAreCurrent'
    BY <1>1, <2>3 DEF OneAtATime, Rendering, ReadsAreCurrent, Renders
  <2> QED
    BY <1>3, <1>5, <2>1, <2>2, <2>4, <2>5, <2>6 DEF Rendering
<1> QED
  BY <1>6, <1>7, <1>8, <1>10 DEF Command

\* An export that is replayed by hand is alone until a run disturbs it.
LEMMA ByHandStep ==
  ASSUME TypeOK, OneAtATime, NEW h \in Hand, ByHandSteps(h)
  PROVE  OneAtATime'
<1> USE DEF texts, locals
<1>1. /\ UNCHANGED <<pc, target, lock, sections, project, latest>>
      /\ \/ ReadSections(h) /\ UNCHANGED <<artifact, content>>
         \/ FinishExport(h)
         \/ DropExport(h) /\ UNCHANGED <<artifact, content>>
  <2>1. CASE RenderByHand(h)
    BY <2>1 DEF RenderByHand, states
  <2>2. CASE ExportedByHand(h)
    BY <2>2 DEF ExportedByHand, states
  <2>3. CASE DroppedByHand(h)
    BY <2>3 DEF DroppedByHand, states
  <2> QED
    BY <2>1, <2>2, <2>3 DEF ByHandSteps
<1>2. \A q \in Run : ~AtWork(q)
  <2>1. render[h] # NoRender
    BY DEF ByHandSteps, RenderByHand, ExportedByHand, DroppedByHand, ReadSections,
           FinishExport, Renders, Doc, NoRender
  <2> QED
    BY <2>1 DEF OneAtATime, Rendering, ByHandAlone, ByHand
<1>3. LeaseHeld' /\ OnLatest' /\ WritesBeforeExport' /\ ByHandAlone'
  BY <1>1, <1>2 DEF LeaseHeld, OnLatest, WritesBeforeExport, ByHandAlone, AtWork, Body
<1>4. h \in Exporter /\ h \notin Run
  BY DesignDocumentAssumption DEF Exporter
<1>5. \A x \in Exporter \ {h} : render'[x] = render[x]
  BY <1>1 DEF ReadSections, FinishExport, DropExport, TypeOK
<1>6. RunsRender'
  BY <1>1, <1>4, <1>5 DEF OneAtATime, Rendering, RunsRender, Exporter
<1>7. ASSUME NEW d \in Doc, Renders(h, d)', render'[h].text # Empty
      PROVE  render'[h].text = sections[d]
  <2>1. CASE ReadSections(h)
    BY <1>4, <1>7, <2>1 DEF ReadSections, Renders, TypeOK
  <2>2. CASE FinishExport(h) \/ DropExport(h)
    BY <1>4, <1>7, <2>2 DEF FinishExport, DropExport, NoRender, TypeOK
  <2> QED
    BY <1>1, <2>1, <2>2
<1>8. ReadsAreCurrent'
  BY <1>1, <1>5, <1>7 DEF OneAtATime, Rendering, ReadsAreCurrent, Renders
<1>9. ExportsAreCurrent'
  <2>1. CASE UNCHANGED <<artifact, content>>
    BY <1>1, <2>1 DEF OneAtATime, ExportsAreCurrent
  <2>2. CASE FinishExport(h)
    <3>1. PICK d \in Doc : /\ Renders(h, d)
                           /\ artifact' = [artifact EXCEPT ![d] = "exported"]
                           /\ content' = [content EXCEPT ![d] = render[h].text]
      BY <2>2 DEF FinishExport
    <3>2. render[h].text = sections[d]
      BY <1>4, <2>2, <3>1 DEF FinishExport, OneAtATime, Rendering, ReadsAreCurrent
    <3> QED
      BY <1>1, <3>1, <3>2 DEF OneAtATime, ExportsAreCurrent, TypeOK
  <2> QED
    BY <1>1, <2>1, <2>2
<1> QED
  BY <1>3, <1>6, <1>8, <1>9 DEF OneAtATime, Rendering

LEMMA OneAtATimeStep ==
  ASSUME TypeOK, TargetsKnown, ProjectFollowsDocument, ArtifactInv, OneAtATime,
         ~disturbed', [Next]_vars
  PROVE  OneAtATime'
<1>1. CASE Command
  BY <1>1, CommandsApart
<1>2. CASE Expire
  <2>1. \A q \in Run : pc[q] \notin Body
    BY <1>2 DEF Expire, OneAtATime, LeaseHeld, AtWork
  <2>2. UNCHANGED <<pc, sections, artifact, content, render>>
    BY <1>2 DEF Expire, texts, exports
  <2>3. LeaseHeld' /\ OnLatest' /\ WritesBeforeExport' /\ ExportsAreCurrent'
    BY <2>1, <2>2 DEF OneAtATime, LeaseHeld, OnLatest, WritesBeforeExport,
                      ExportsAreCurrent, AtWork, Body
  <2>4. Rendering'
    BY <2>2 DEF OneAtATime, Rendering, RunsRender, ByHandAlone, ByHand, AtWork,
                ReadsAreCurrent, Renders
  <2> QED
    BY <2>3, <2>4 DEF OneAtATime
<1>3. ASSUME NEW r \in Run, Task(r) PROVE OneAtATime'
  BY <1>3, WorkerStep, OtherStep DEF Task
<1>4. CASE UNCHANGED vars
  BY <1>4 DEF vars, states, texts, locals, exports, OneAtATime, LeaseHeld, OnLatest,
              WritesBeforeExport, ExportsAreCurrent, AtWork, Rendering, RunsRender,
              ByHandAlone, ByHand, ReadsAreCurrent, Renders
<1>5. ASSUME NEW h \in Hand, ByHandSteps(h) PROVE OneAtATime'
  BY <1>5, ByHandStep
<1> QED
  BY <1>1, <1>2, <1>3, <1>4, <1>5 DEF Next

\* Unless a lease ran out under its run, or a command was replayed beside one,
\* what an approver judges is what the artifact holds: no run has written over
\* the sections of a document that another had exported or recorded.
THEOREM ApproversSeeWhatIsExported == Spec => []JudgedIsExported
<1> DEFINE IInv == ~disturbed => OneAtATime
<1>1. Init => IInv
  BY DEF Init, OneAtATime, LeaseHeld, OnLatest, WritesBeforeExport, ExportsAreCurrent,
         AtWork, Body, Rendering, RunsRender, ByHandAlone, ByHand, ReadsAreCurrent,
         Renders, NoRender, Exporter, Doc
<1>2. TypeOK /\ TargetsKnown /\ ProjectFollowsDocument /\ ArtifactInv /\ IInv /\ [Next]_vars
        => IInv'
  BY OneAtATimeStep, DisturbedStays
<1>3. ArtifactInv /\ IInv => JudgedIsExported
  BY DEF ArtifactInv, JudgedIsWhole, JudgedIsExported, OneAtATime, ExportsAreCurrent
<1> HIDE DEF IInv
<1> QED
  BY <1>1, <1>2, <1>3, TypesAndTargets, ArtifactInvariant, ProjectAndDocumentsAgree, PTL
     DEF Spec
=============================================================================
