------------------------ MODULE Reconciliation_proofs ------------------------
(***************************************************************************)
(* Proofs about the passes, for any number of workers, runs and commits    *)
(* and every setting.  A pass carries what it saw (SeenInv) and what it    *)
(* believes (BeliefInv) from step to step: both survive whatever others    *)
(* do in between, and the properties follow from them.                     *)
(***************************************************************************)
EXTENDS Reconciliation, SequenceTheorems, FiniteSetTheorems, TLAPS

\* Whatever starts it, a pass begins with what the first request shows.
LEMMA StartCases ==
    ASSUME NEW w \in Worker, NEW f \in Feature, Start(w, f)
    PROVE  \E step \in {"discover", "task", "event"}, lane \in BOOLEAN :
              Begin(w, Begun(step, f, lane))
<1>1. (state[f] \in Gated) \in BOOLEAN
  OBVIOUS
<1> QED
  BY <1>1, Zenon DEF Start, HandleGithubEvent, HandleGitlabEvent, HandleGiteaEvent,
                     Handle, ReconcileRun, DiscoverPull

LEMMA PassRuns ==
    ASSUME TypeOK, NEW w \in Worker, pass[w] # Idle
    PROVE  pass[w] \in Pass /\ pass[w].run \in Feature
  BY DEF TypeOK, Pass

\* A pass that is told of a move stays a pass and keeps what it saw.
LEMMA AgedTyped ==
    ASSUME TypeOK, state' \in [Feature -> State], NEW w \in Worker
    PROVE  Aged(w) \in Pass \cup {Idle}
<1> DEFINE p == pass[w]
<1>1. CASE p = Idle
  BY <1>1 DEF Aged
<1>2. CASE p # Idle /\ p.ahead > 0
  <2>1. p \in Pass /\ p.ahead - 1 \in Nat
    BY <1>2, PassRuns DEF Pass
  <2> QED
    BY <1>2, <2>1 DEF Aged, Pass
<1>3. CASE p # Idle /\ ~(p.ahead > 0)
  <2>1. p \in Pass /\ state'[p.run] \in State
    BY <1>3, PassRuns
  <2>2. Append(p.missed, state'[p.run]) \in Seq(State)
    BY <2>1 DEF Pass
  <2> QED
    BY <1>3, <2>1, <2>2 DEF Aged, Pass
<1> QED
  BY <1>1, <1>2, <1>3

LEMMA ContinueTyped ==
    ASSUME TypeOK, state' \in [Feature -> State], NEW w \in Worker,
           NEW p \in Pass \cup {Idle}, Continue(w, p)
    PROVE  pass' \in [Worker -> Pass \cup {Idle}]
<1>1. \A v \in Worker : Aged(v) \in Pass \cup {Idle}
  BY AgedTyped
<1> HIDE DEF Aged
<1> QED
  BY <1>1 DEF Continue

LEMMA OthersTyped ==
    ASSUME TypeOK, state' \in [Feature -> State], Others
    PROVE  pass' \in [Worker -> Pass \cup {Idle}]
  BY AgedTyped DEF Others

LEMMA SetTyped ==
    ASSUME TypeOK, NEW w \in Worker, NEW p \in Pass \cup {Idle},
           pass' = [pass EXCEPT ![w] = p]
    PROVE  pass' \in [Worker -> Pass \cup {Idle}]
  BY DEF TypeOK

LEMMA BegunTyped ==
    ASSUME TypeOK, NEW f \in Feature, NEW step \in {"discover", "task", "event"},
           NEW lane \in BOOLEAN
    PROVE  Begun(step, f, lane) \in Pass
<1>1. head[f] \in 0 .. MaxCommits /\ (pull[f] = "closed") \in BOOLEAN 
  BY DEF TypeOK
<1>2. "merged" \in State /\ <<>> \in Seq(State) /\ "pending" \in CiStatus
  BY DEF State, CiStatus
<1> QED
  BY <1>1, <1>2 DEF Begun, Pass

\* What a command that goes through, or is replayed, leaves behind.
LEMMA DoneTyped ==
    ASSUME TypeOK, state' \in [Feature -> State], NEW w \in Worker, pass[w] # Idle,
           NEW to \in State, Done(w, to)
    PROVE  pass' \in [Worker -> Pass \cup {Idle}]
<1>1. [pass[w] EXCEPT !.believed = to] \in Pass
  BY PassRuns DEF Pass
<1> QED
  BY <1>1, ContinueTyped DEF Done

LEMMA ReplayTyped ==
    ASSUME TypeOK, NEW w \in Worker, pass[w] # Idle, NEW to \in State, Replay(w, to)
    PROVE  pass' \in [Worker -> Pass \cup {Idle}]
<1> DEFINE p == pass[w]
           q == [p EXCEPT !.believed = to, !.sure = FALSE,
                          !.ahead = IF p.missed = <<>> THEN @ + 1 ELSE @,
                          !.missed = IF @ = <<>> THEN @ ELSE Tail(@)]
<1>1. p \in Pass /\ p.missed \in Seq(State) /\ p.ahead \in Nat
  BY PassRuns DEF Pass
<1>2. (IF p.missed = <<>> THEN p.missed ELSE Tail(p.missed)) \in Seq(State)
  BY <1>1, HeadTailProperties
<1>3. (IF p.missed = <<>> THEN p.ahead + 1 ELSE p.ahead) \in Nat
  BY <1>1
<1>4. q \in Pass
  BY <1>1, <1>2, <1>3 DEF Pass
<1>5. pass' = [pass EXCEPT ![w] = q]
  BY DEF Replay, TypeOK
<1> QED
  BY <1>4, <1>5, SetTyped

\* The commands keep the runs typed.
LEMMA MoveTyped ==
    ASSUME TypeOK, NEW f \in Feature, NEW to \in State
    PROVE  /\ Transit(f, to) => /\ state' \in [Feature -> State]
                               /\ UNCHANGED <<fixes, tracked>>
           /\ CountFix(f) => /\ state' \in [Feature -> State]
                             /\ fixes' \in [Feature -> 0 .. FixThreshold]
                             /\ UNCHANGED tracked
<1>1. "changes_requested" \in State
  BY DEF State, Working
<1>2. CountFix(f) => fixes[f] + 1 \in 0 .. FixThreshold
  BY ReconciliationAssumption DEF CountFix, TypeOK
<1>3. Move(f, to) => state' \in [Feature -> State]
  BY DEF Move, TypeOK
<1>4. Move(f, "changes_requested") => state' \in [Feature -> State]
  BY <1>1 DEF Move, TypeOK
<1>5. CountFix(f) => fixes' \in [Feature -> 0 .. FixThreshold]
  BY <1>2 DEF CountFix, TypeOK
<1> QED
  BY <1>3, <1>4, <1>5 DEF Transit, CountFix

LEMMA OpenedTyped ==
    ASSUME TypeOK, NEW f \in Feature, NEW n \in 0 .. MaxCommits, RecordPrOpened(f, n)
    PROVE  /\ state' \in [Feature -> State]
           /\ tracked' \in [Feature -> BOOLEAN]
           /\ mirror' \in [Feature -> [head : 0 .. MaxCommits, ci : CiStatus]]
           /\ UNCHANGED fixes
  BY DEF RecordPrOpened, Move, NewRow, TypeOK, State, Working, CiStatus

-----------------------------------------------------------------------------
\* A step of a pass gives one command, which moves the run it expects, or is
\* answered by an old result and changes nothing but the pass.
LEMMA CommandCases ==
    ASSUME NEW w \in Worker, RunStep(w)
    PROVE  /\ At(w, "step") /\ UNCHANGED forge
           /\ \E to \in State :
                 \/ Replay(w, to) /\ UNCHANGED mirror
                 \/ /\ Fresh(w) /\ Done(w, to)
                    /\ \/ /\ \/ Transit(pass[w].run, to)
                             \/ CountFix(pass[w].run) /\ to = "changes_requested"
                          /\ UNCHANGED mirror
                       \/ /\ RecordPrOpened(pass[w].run, pass[w].seen)
                          /\ to = "pr_opened"
<1> USE DEF State, Working
<1>1. CASE EscalateClosed(w) \/ EscalateFailures(w) \/ EscalateReviews(w)
  BY <1>1 DEF EscalateClosed, EscalateFailures, EscalateReviews, Escalate, Once, In
<1>2. CASE OpenPr(w)
  <2> DEFINE f == pass[w].run
             key == <<"opened", f, pass[w].seen>>
  <2>1. At(w, "step") /\ UNCHANGED forge /\ (Recorded(key) => UNCHANGED mirror)
    BY <1>2 DEF OpenPr, In
  <2>2. Once(w, key, RecordPrOpened(f, pass[w].seen), "pr_opened")
    BY <1>2 DEF OpenPr
  <2> HIDE DEF key
  <2>3. CASE Recorded(key)
    BY <2>1, <2>2, <2>3 DEF Once
  <2>4. CASE ~Recorded(key)
    BY <2>1, <2>2, <2>4 DEF Once
  <2> QED
    BY <2>3, <2>4
<1>3. CASE RecordCiRunning(w) \/ RecordCiPassed(w) \/ RecordCiFailed(w)
  BY <1>3 DEF RecordCiRunning, RecordCiPassed, RecordCiFailed, Record, Once, In
<1>4. CASE RequestChangesAfterCiFail(w) \/ StartFixing(w)
  BY <1>4 DEF RequestChangesAfterCiFail, StartFixing, OncePerVersion, In
<1>5. CASE RecordChangesRequested(w)
  BY <1>5 DEF RecordChangesRequested, Once, In
<1> QED
  BY <1>1, <1>2, <1>3, <1>4, <1>5 DEF RunStep

LEMMA CiTyped ==
    ASSUME TypeOK, NEW f \in Feature, NEW n \in 0 .. MaxCommits
    PROVE  Reported(f, n) \in CiStatus
<1>1. n > 0 => ci[f][n] \in CiState
  BY ReconciliationAssumption DEF TypeOK
<1>2. GitlabCi(f) \in CiStatus
  <2>0. \A m \in 1 .. MaxCommits : ci[f][m] \in CiState
    BY DEF TypeOK
  <2> DEFINE Last(n1) == ci[f][n1] # "none" /\ \A m \in n1 + 1 .. head[f] : ci[f][m] = "none"
             last == CHOOSE n1 \in 1 .. head[f] : Last(n1)
  <2>1. CASE ~ \E n1 \in 1 .. head[f] : Last(n1)
    BY <2>1 DEF GitlabCi, CiStatus
  <2>2. CASE \E n1 \in 1 .. head[f] : Last(n1)
    <3>1. last \in 1 .. head[f] /\ ci[f][last] # "none"
      BY <2>2
    <3>2. last \in 1 .. MaxCommits
      BY <3>1, ReconciliationAssumption DEF TypeOK
    <3> HIDE DEF last
    <3>3. ci[f][last] \in CiState
      BY <2>0, <3>2
    <3>4. GitlabCi(f) = ci[f][last]
      BY <2>2 DEF GitlabCi, last
    <3> QED
      BY <3>1, <3>3, <3>4 DEF CiState, CiStatus
  <2> QED
    BY <2>1, <2>2
<1>3. provider \in {"github", "gitlab", "gitea"}
  BY ReconciliationAssumption DEF TypeOK, provider
<1>4. CASE n = 0
  BY <1>4 DEF Reported, CiStatus
<1>5. CASE n > 0
  <2>1. GithubCi(f, n) \in CiStatus /\ GiteaCi(f, n) \in CiStatus
    BY <1>1, <1>5 DEF GithubCi, GiteaCi, CiState, CiStatus
  <2> HIDE DEF provider
  <2> QED
    BY <1>2, <1>3, <1>5, <2>1 DEF Reported
<1> QED
  BY <1>4, <1>5

-----------------------------------------------------------------------------
\* What the steps that read leave behind.
LEMMA FetchedTyped ==
    ASSUME TypeOK, NEW w \in Worker, FetchChecks(w)
    PROVE  pass' \in [Worker -> Pass \cup {Idle}]
<1> DEFINE f == pass[w].run
           p == [pass[w] EXCEPT
                    !.at = "read", !.ci = Reported(f, pass[w].seen),
                    !.objected = Blocked(f),
                    !.lane = IF At(w, "event") THEN state[f] \in Gated ELSE @]
<1>1. pass[w] \in Pass /\ f \in Feature /\ pass[w].seen \in 0 .. MaxCommits
  BY PassRuns DEF FetchChecks, At, Pass
<1>2. Reported(f, pass[w].seen) \in CiStatus /\ Blocked(f) \in BOOLEAN
  BY <1>1, CiTyped DEF TypeOK, Blocked
<1>3. p \in Pass
  <2>1. \A q \in Pass, c \in CiStatus, o \in BOOLEAN, lane \in BOOLEAN :
            [q EXCEPT !.at = "read", !.ci = c, !.objected = o, !.lane = lane] \in Pass
    BY DEF Pass
  <2>2. (IF At(w, "event") THEN state[f] \in Gated ELSE pass[w].lane) \in BOOLEAN
    <3>1. pass[w].lane \in BOOLEAN
      BY <1>1 DEF Pass
    <3>2. (state[f] \in Gated) \in BOOLEAN
      OBVIOUS
    <3> QED
      BY <3>1, <3>2, Zenon
  <2> QED
    BY <1>1, <1>2, <2>1, <2>2
<1>4. Continue(w, p) /\ state' \in [Feature -> State]
  BY DEF FetchChecks, runs, TypeOK
<1> QED
  BY <1>3, <1>4, ContinueTyped

LEMMA ReadTyped ==
    ASSUME TypeOK, NEW w \in Worker, ReadRun(w)
    PROVE  pass' \in [Worker -> Pass \cup {Idle}]
<1>1. pass[w] \in Pass /\ state[pass[w].run] \in State
  BY PassRuns DEF ReadRun, At, TypeOK
<1>2. [pass[w] EXCEPT !.at = "step", !.believed = state[pass[w].run]] \in Pass
  BY <1>1 DEF Pass
<1>3. state' \in [Feature -> State]
  BY DEF ReadRun, runs, TypeOK
<1> QED
  BY <1>2, <1>3, ContinueTyped DEF ReadRun

LEMMA FinishTyped ==
    ASSUME TypeOK, NEW w \in Worker, Finish(w)
    PROVE  pass' \in [Worker -> Pass \cup {Idle}]
<1>1. pass[w] \in Pass /\ "merged" \in State /\ <<>> \in Seq(State)
  BY PassRuns DEF Finish, At, State
<1>2. [pass[w] EXCEPT !.at = "read", !.lane = TRUE, !.believed = "merged",
                      !.ahead = 0, !.missed = <<>>, !.sure = TRUE] \in Pass
  BY <1>1 DEF Pass
<1>3. state' \in [Feature -> State]
  BY DEF Finish, runs, TypeOK
<1> QED
  BY <1>2, <1>3, ContinueTyped DEF Finish

LEMMA SyncTyped ==
    ASSUME TypeOK, NEW w \in Worker, pass[w] # Idle, SyncRow(w)
    PROVE  mirror' \in [Feature -> [head : 0 .. MaxCommits, ci : CiStatus]]
<1>1. pass[w].seen \in 0 .. MaxCommits /\ pass[w].ci \in CiStatus
  BY PassRuns DEF Pass
<1> QED
  BY <1>1 DEF SyncRow, TypeOK

LEMMA TypeInit == Init => TypeOK
<1>1. "coding" \in State /\ "pending" \in CiStatus /\ "none" \in CiState
  BY DEF State, Working, CiStatus, CiState
<1> QED
  BY <1>1, ReconciliationAssumption DEF Init, TypeOK

LEMMA TypeNext ==
    ASSUME TypeOK, [Next]_vars
    PROVE  TypeOK'
<1>1. ASSUME NEW w \in Worker, NEW f \in Feature, Start(w, f)
      PROVE  TypeOK'
  <2>2. PICK step \in {"discover", "task", "event"}, lane \in BOOLEAN :
            Begin(w, Begun(step, f, lane))
    BY <1>1, StartCases
  <2>3. pass' \in [Worker -> Pass \cup {Idle}]
    BY <2>2, BegunTyped, SetTyped DEF Begin
  <2> QED
    BY <2>2, <2>3 DEF Begin, runs, forge, TypeOK
<1>2. ASSUME NEW w \in Worker, RecordDiscovery(w)
      PROVE  TypeOK'
  <2> DEFINE f == pass[w].run
  <2>1. pass[w] \in Pass /\ f \in Feature /\ pass[w].seen \in 0 .. MaxCommits
    BY <1>2, PassRuns DEF RecordDiscovery, At, Pass
  <2>2. CASE RecordPrOpened(f, pass[w].seen)
    <3>1. /\ state' \in [Feature -> State] /\ tracked' \in [Feature -> BOOLEAN]
          /\ mirror' \in [Feature -> [head : 0 .. MaxCommits, ci : CiStatus]]
          /\ UNCHANGED fixes
      BY <2>1, <2>2, OpenedTyped
    <3>2. pass' \in [Worker -> Pass \cup {Idle}]
      BY <1>2, <3>1, ContinueTyped DEF RecordDiscovery
    <3> QED
      BY <1>2, <3>1, <3>2 DEF RecordDiscovery, forge, TypeOK
  <2>3. CASE UNCHANGED <<runs, mirror>>
    <3>1. state' \in [Feature -> State]
      BY <2>3 DEF runs, TypeOK
    <3>2. pass' \in [Worker -> Pass \cup {Idle}]
      BY <1>2, <3>1, ContinueTyped DEF RecordDiscovery
    <3> QED
      BY <1>2, <2>3, <3>2 DEF RecordDiscovery, runs, forge, TypeOK
  <2> QED
    BY <1>2, <2>2, <2>3 DEF RecordDiscovery
<1>3. ASSUME NEW w \in Worker, FetchChecks(w)
      PROVE  TypeOK'
  <2>1. pass' \in [Worker -> Pass \cup {Idle}]
    BY <1>3, FetchedTyped
  <2> QED
    BY <1>3, <2>1 DEF FetchChecks, runs, forge, TypeOK
<1>4. ASSUME NEW w \in Worker, ReadRun(w) \/ Finish(w)
      PROVE  TypeOK'
  <2>1. pass[w] # Idle /\ SyncRow(w) /\ UNCHANGED <<runs, keys, forge>>
    BY <1>4 DEF ReadRun, Finish, At
  <2>2. pass' \in [Worker -> Pass \cup {Idle}]
    BY <1>4, ReadTyped, FinishTyped
  <2>3. mirror' \in [Feature -> [head : 0 .. MaxCommits, ci : CiStatus]]
    BY <2>1, SyncTyped
  <2> QED
    BY <2>1, <2>2, <2>3 DEF runs, forge, TypeOK
<1>5. ASSUME NEW w \in Worker, RunStep(w)
      PROVE  TypeOK'
  <2> DEFINE f == pass[w].run
  <2>1. pass[w] # Idle /\ f \in Feature /\ pass[w].seen \in 0 .. MaxCommits /\ UNCHANGED forge
    BY <1>5, CommandCases, PassRuns DEF At, Pass
  <2>2. PICK to \in State :
            \/ Replay(w, to) /\ UNCHANGED mirror
            \/ /\ Fresh(w) /\ Done(w, to)
               /\ \/ (Transit(f, to) \/ CountFix(f)) /\ UNCHANGED mirror
                  \/ RecordPrOpened(f, pass[w].seen)
    BY <1>5, CommandCases
  <2>3. CASE Replay(w, to) /\ UNCHANGED mirror
    <3>1. pass' \in [Worker -> Pass \cup {Idle}]
      BY <2>1, <2>3, ReplayTyped
    <3> QED
      BY <2>1, <2>3, <3>1 DEF Replay, runs, forge, TypeOK
  <2>4. CASE Done(w, to) /\ (Transit(f, to) \/ CountFix(f)) /\ UNCHANGED mirror
    <3>1. /\ state' \in [Feature -> State] /\ fixes' \in [Feature -> 0 .. FixThreshold]
          /\ UNCHANGED tracked
      BY <2>1, <2>4, MoveTyped DEF TypeOK
    <3>2. pass' \in [Worker -> Pass \cup {Idle}]
      BY <2>1, <2>4, <3>1, DoneTyped
    <3> QED
      BY <2>1, <2>4, <3>1, <3>2 DEF forge, TypeOK
  <2>5. CASE Done(w, to) /\ RecordPrOpened(f, pass[w].seen)
    <3>1. /\ state' \in [Feature -> State] /\ tracked' \in [Feature -> BOOLEAN]
          /\ mirror' \in [Feature -> [head : 0 .. MaxCommits, ci : CiStatus]]
          /\ UNCHANGED fixes
      BY <2>1, <2>5, OpenedTyped
    <3>2. pass' \in [Worker -> Pass \cup {Idle}]
      BY <2>1, <2>5, <3>1, DoneTyped
    <3> QED
      BY <2>1, <3>1, <3>2 DEF forge, TypeOK
  <2> QED
    BY <2>2, <2>3, <2>4, <2>5
<1>6. ASSUME NEW w \in Worker, Quit(w)
      PROVE  TypeOK'
  <2>1. pass' \in [Worker -> Pass \cup {Idle}]
    BY <1>6, SetTyped DEF Quit
  <2> QED
    BY <1>6, <2>1 DEF Quit, runs, forge, TypeOK
<1>7. ASSUME NEW f \in Feature, CoderPushes(f) \/ HumanPushes(f)
      PROVE  TypeOK'
  <2>0. Push(f)
    BY <1>7 DEF CoderPushes, HumanPushes
  <2>1. head' \in [Feature -> 0 .. MaxCommits]
    <3>1. head[f] + 1 \in 0 .. MaxCommits
      BY <2>0, ReconciliationAssumption DEF Push, TypeOK
    <3> QED
      BY <2>0, <3>1 DEF Push, TypeOK
  <2>2. "code_pushed" \in State
    BY DEF State, Working
  <2>3. state' \in [Feature -> State] /\ UNCHANGED <<fixes, tracked>>
    BY <1>7, <2>2, MoveTyped DEF CoderPushes, HumanPushes, runs, TypeOK
  <2>4. pass' \in [Worker -> Pass \cup {Idle}]
    BY <1>7, <2>3, OthersTyped DEF CoderPushes, HumanPushes, TypeOK
  <2> QED
    BY <2>0, <2>1, <2>3, <2>4 DEF Push, TypeOK
<1>8. ASSUME NEW f \in Feature, PullChanges(f) \/ ReviewerSays(f)
      PROVE  TypeOK'
  BY <1>8 DEF PullChanges, ReviewerSays, runs, TypeOK
<1>9. ASSUME NEW f \in Feature, NEW n \in 1 .. MaxCommits, RunCi(f, n)
      PROVE  TypeOK'
  <2>1. ci' \in [Feature -> [1 .. MaxCommits -> CiState]]
    BY <1>9 DEF RunCi, TypeOK
  <2> QED
    BY <1>9, <2>1 DEF RunCi, runs, TypeOK
<1>10. ASSUME NEW f \in Feature, Intervene(f)
       PROVE  TypeOK'
  <2>1. state' \in [Feature -> State] /\ UNCHANGED <<fixes, tracked>>
    BY <1>10, MoveTyped DEF Intervene
  <2>2. pass' \in [Worker -> Pass \cup {Idle}]
    BY <1>10, <2>1, OthersTyped DEF Intervene
  <2> QED
    BY <1>10, <2>1, <2>2 DEF Intervene, forge, TypeOK
<1>11. CASE UNCHANGED vars
  BY <1>11 DEF vars, runs, forge, TypeOK
<1> QED
  BY <1>1, <1>2, <1>3, <1>4, <1>5, <1>6, <1>7, <1>8, <1>9, <1>10, <1>11
     DEF Next, Observe, Outside

\* TypeOK: the rows, the keys and what the passes carry keep their form,
\* whatever passes run beside each other, on any number of runs and commits.
THEOREM TypeCorrect == Spec => []TypeOK
<1>1. Init => TypeOK
  BY TypeInit
<1>2. TypeOK /\ [Next]_vars => TypeOK'
  BY TypeNext
<1> QED
  BY <1>1, <1>2, PTL DEF Spec

-----------------------------------------------------------------------------
\* What a pass goes on believing when others move its run.
LEMMA AgedKeeps ==
    ASSUME TypeOK, NEW w \in Worker, pass[w] # Idle
    PROVE  /\ Aged(w) # Idle /\ Aged(w).at = pass[w].at
           /\ Aged(w).run = pass[w].run /\ Aged(w).seen = pass[w].seen
           /\ Aged(w).ci = pass[w].ci /\ Aged(w).sure = pass[w].sure
           /\ Aged(w).believed = pass[w].believed
<1>1. pass[w] \in Pass
  BY PassRuns
<1>2. pass[w].at # "idle"
  BY <1>1 DEF Pass
<1> QED
  BY <1>1, <1>2 DEF Aged, Pass, Idle

LEMMA AgedIdle == ASSUME NEW w \in Worker, pass[w] = Idle PROVE Aged(w) = Idle
  BY DEF Aged

\* CI that passed stays so.
LEMMA PassedIsKept ==
    ASSUME TypeOK, [Next]_vars, NEW f \in Feature, NEW n \in 1 .. MaxCommits,
           ci[f][n] = "passed"
    PROVE  ci'[f][n] = "passed"
<1>1. CASE UNCHANGED ci
  BY <1>1
<1>2. CASE \E g \in Feature, m \in 1 .. MaxCommits : RunCi(g, m)
  <2>1. PICK g \in Feature, m \in 1 .. MaxCommits : RunCi(g, m)
    BY <1>2
  <2>2. PICK r \in CiState :
            /\ \/ <<ci[g][m], r>> \in {<<"none", "running">>,
                                      <<"running", "passed">>, <<"running", "failed">>}
               \/ <<ci[g][m], r>> = <<"failed", "running">>
            /\ ci' = [ci EXCEPT ![g][m] = r]
    BY <2>1 DEF RunCi
  <2>3. ci[g][m] # "passed"
    BY <2>2
  <2> QED
    BY <2>2, <2>3 DEF TypeOK
<1>3. \/ UNCHANGED ci
      \/ \E g \in Feature, m \in 1 .. MaxCommits : RunCi(g, m)
  <2>1. ASSUME NEW w \in Worker, NEW g \in Feature, Start(w, g)
        PROVE  UNCHANGED ci
    BY <2>1, StartCases DEF Begin, forge
  <2>2. ASSUME NEW w \in Worker, Observe(w) \/ Finish(w) \/ Quit(w)
        PROVE  UNCHANGED ci
    BY <2>2 DEF Observe, RecordDiscovery, FetchChecks, ReadRun, Finish, Quit, forge
  <2>3. ASSUME NEW w \in Worker, RunStep(w)
        PROVE  UNCHANGED ci
    BY <2>3, CommandCases DEF forge
  <2>4. ASSUME NEW g \in Feature,
               \/ CoderPushes(g) \/ HumanPushes(g) \/ PullChanges(g) \/ ReviewerSays(g)
               \/ Intervene(g)
        PROVE  UNCHANGED ci
    BY <2>4 DEF CoderPushes, HumanPushes, Push, PullChanges, ReviewerSays, Intervene, forge
  <2>5. CASE UNCHANGED vars
    BY <2>5 DEF vars, forge
  <2> QED
    BY <2>1, <2>2, <2>3, <2>4, <2>5 DEF Next, Outside
<1> QED
  BY <1>1, <1>2, <1>3

\* What was seen as passed was a commit of the run's, and passed.
Seen(f, n, status) == status = "passed" => n \in 1 .. MaxCommits /\ ci[f][n] = "passed"

SeenInv ==
    provider # "gitlab" =>
        /\ \A w \in Worker : pass[w] # Idle => Seen(pass[w].run, pass[w].seen, pass[w].ci)
        /\ \A f \in Feature : Seen(f, mirror[f].head, mirror[f].ci)

LEMMA SeenIsKept ==
    ASSUME TypeOK, [Next]_vars
    PROVE  \A f \in Feature : \A n, status :
              Seen(f, n, status) /\ status = "passed"
                => n \in 1 .. MaxCommits /\ ci'[f][n] = "passed"
  BY PassedIsKept DEF Seen

\* A pass still carries what was seen if it goes on with it, if it carries no
\* verdict, or if it has just seen the commit pass.
Carries(v) ==
    \/ pass'[v] = Aged(v) \/ pass'[v] = Idle \/ pass'[v].ci # "passed"
    \/ pass[v] # Idle /\ /\ pass'[v].run = pass[v].run /\ pass'[v].seen = pass[v].seen
                         /\ pass'[v].ci = pass[v].ci
    \/ pass'[v].run \in Feature /\ Seen(pass'[v].run, pass'[v].seen, pass'[v].ci)

LEMMA PassesSeen ==
    ASSUME TypeOK, SeenInv, [Next]_vars, provider # "gitlab",
           \A v \in Worker : pass'[v] = pass[v] \/ Carries(v)
    PROVE  \A v \in Worker : (pass[v] # Idle => Seen(pass[v].run, pass[v].seen, pass[v].ci))'
<1> SUFFICES ASSUME NEW v \in Worker, pass'[v] # Idle
             PROVE  pass'[v].ci = "passed" => /\ pass'[v].seen \in 1 .. MaxCommits
                                              /\ ci'[pass'[v].run][pass'[v].seen] = "passed"
  BY DEF Seen
<1>1. CASE pass'[v] = pass[v] \/ pass'[v] = Aged(v)
  <2>1. pass[v] # Idle
    BY <1>1, AgedIdle
  <2>2. /\ pass'[v].run = pass[v].run /\ pass'[v].seen = pass[v].seen
        /\ pass'[v].ci = pass[v].ci
    BY <1>1, <2>1, AgedKeeps
  <2>3. Seen(pass[v].run, pass[v].seen, pass[v].ci) /\ pass[v].run \in Feature
    BY <2>1, PassRuns DEF SeenInv
  <2> QED
    BY <2>2, <2>3, SeenIsKept
<1>2. CASE pass'[v].ci # "passed"
  BY <1>2
<1>3. CASE pass[v] # Idle /\ /\ pass'[v].run = pass[v].run /\ pass'[v].seen = pass[v].seen
                             /\ pass'[v].ci = pass[v].ci
  <2>1. Seen(pass[v].run, pass[v].seen, pass[v].ci) /\ pass[v].run \in Feature
    BY <1>3, PassRuns DEF SeenInv
  <2> QED
    BY <1>3, <2>1, SeenIsKept
<1>4. CASE pass'[v].run \in Feature /\ Seen(pass'[v].run, pass'[v].seen, pass'[v].ci)
  BY <1>4, SeenIsKept
<1> QED
  BY <1>1, <1>2, <1>3, <1>4 DEF Carries

LEMMA RowsSeen ==
    ASSUME TypeOK, SeenInv, [Next]_vars, provider # "gitlab",
           \A f \in Feature : \/ mirror'[f] = mirror[f]
                             \/ mirror'[f].ci # "passed"
                             \/ Seen(f, mirror'[f].head, mirror'[f].ci)
    PROVE  \A f \in Feature : Seen(f, mirror[f].head, mirror[f].ci)'
<1> SUFFICES ASSUME NEW f \in Feature
             PROVE  mirror'[f].ci = "passed" => /\ mirror'[f].head \in 1 .. MaxCommits
                                                /\ ci'[f][mirror'[f].head] = "passed"
  BY DEF Seen
<1>1. Seen(f, mirror[f].head, mirror[f].ci)
  BY DEF SeenInv
<1> QED
  BY <1>1, SeenIsKept

\* Every worker but w carries what it saw when w goes on as p.
LEMMA ContinueCarries ==
    ASSUME TypeOK, NEW w \in Worker, pass[w] # Idle, NEW p, Continue(w, p),
           p = Idle \/ (p.run = pass[w].run /\ p.seen = pass[w].seen /\ p.ci = pass[w].ci)
    PROVE  \A v \in Worker : Carries(v)
  BY DEF Continue, Carries

LEMMA FetchCarries ==
    ASSUME TypeOK, provider # "gitlab", NEW w \in Worker, FetchChecks(w)
    PROVE  \A v \in Worker : Carries(v)
<1> DEFINE f == pass[w].run
           n == pass[w].seen
<1>1. pass[w] \in Pass /\ f \in Feature /\ n \in 0 .. MaxCommits
  BY PassRuns DEF FetchChecks, At, Pass
<1>2. ASSUME NEW v \in Worker, v # w PROVE Carries(v)
  BY <1>2 DEF FetchChecks, Continue, Carries
<1>3. pass'[w].run = f /\ pass'[w].seen = n /\ pass'[w].ci = Reported(f, n)
  BY <1>1 DEF FetchChecks, Continue, Pass
<1>4. provider = "github" \/ provider = "gitea"
  BY ReconciliationAssumption DEF TypeOK, provider
<1>5. Seen(f, n, Reported(f, n))
  <2>1. CASE n = 0
    BY <2>1 DEF Reported, Seen
  <2>2. CASE n > 0
    <3>1. n \in 1 .. MaxCommits
      BY <1>1, <2>2, ReconciliationAssumption
    <3>2. \/ Reported(f, n) = GithubCi(f, n)
          \/ Reported(f, n) = GiteaCi(f, n)
      <4> HIDE DEF provider
      <4> QED
        BY <1>4, <2>2 DEF Reported
    <3> QED
      BY <3>1, <3>2 DEF GithubCi, GiteaCi, Seen
  <2> QED
    BY <1>1, <2>1, <2>2, ReconciliationAssumption
<1>6. Carries(w)
  BY <1>1, <1>3, <1>5 DEF Carries
<1> QED
  BY <1>2, <1>6

\* The row is as it was, or shows no verdict, or what a pass saw.
LEMMA SyncSeen ==
    ASSUME TypeOK, SeenInv, provider # "gitlab", NEW w \in Worker, pass[w] # Idle, SyncRow(w)
    PROVE  \A f \in Feature : \/ mirror'[f] = mirror[f]
                             \/ Seen(f, mirror'[f].head, mirror'[f].ci)
  BY PassRuns DEF SyncRow, SeenInv, TypeOK

LEMMA OpenedSeen ==
    ASSUME TypeOK, NEW g \in Feature, NEW n, RecordPrOpened(g, n)
    PROVE  \A f \in Feature : mirror'[f] = mirror[f] \/ mirror'[f].ci # "passed"
  BY DEF RecordPrOpened, NewRow, TypeOK

LEMMA SeenNext ==
    ASSUME TypeOK, SeenInv, [Next]_vars
    PROVE  SeenInv'
<1> SUFFICES ASSUME provider # "gitlab", UNCHANGED setting
             PROVE  SeenInv'
  <2>1. ASSUME NEW w \in Worker, RunStep(w) PROVE UNCHANGED setting
    BY <2>1, CommandCases DEF forge
  <2>2. ASSUME NEW w \in Worker, NEW f \in Feature, Start(w, f) PROVE UNCHANGED setting
    BY <2>2, StartCases DEF Begin, forge
  <2>3. UNCHANGED setting
    BY <2>1, <2>2 DEF Next, Observe, Outside, RecordDiscovery, FetchChecks,
          ReadRun, Finish, Quit, CoderPushes, HumanPushes, Push,
          PullChanges, ReviewerSays, RunCi, Intervene, forge, vars
  <2> QED
    BY <2>3 DEF SeenInv, provider
<1> SUFFICES /\ \A v \in Worker : pass'[v] = pass[v] \/ Carries(v)
             /\ \A f \in Feature : \/ mirror'[f] = mirror[f]
                                   \/ mirror'[f].ci # "passed"
                                   \/ Seen(f, mirror'[f].head, mirror'[f].ci)
  BY PassesSeen, RowsSeen DEF SeenInv
<1> DEFINE Goal == /\ \A v \in Worker : pass'[v] = pass[v] \/ Carries(v)
                   /\ \A f \in Feature : \/ mirror'[f] = mirror[f]
                                         \/ mirror'[f].ci # "passed"
                                         \/ Seen(f, mirror'[f].head, mirror'[f].ci)
<1>1. ASSUME NEW w \in Worker, NEW f \in Feature, Start(w, f)
      PROVE  Goal
  <2>1. PICK step \in {"discover", "task", "event"}, lane \in BOOLEAN :
            Begin(w, Begun(step, f, lane))
    BY <1>1, StartCases
  <2> QED
    BY <2>1 DEF Begin, Begun, Carries, TypeOK
<1>2. ASSUME NEW w \in Worker, RecordDiscovery(w)
      PROVE  Goal
  <2>1. pass[w] # Idle /\ pass[w].run \in Feature
    BY <1>2, PassRuns DEF RecordDiscovery, At
  <2>2. \A v \in Worker : Carries(v)
    BY <1>2 DEF RecordDiscovery, Continue, Carries
  <2>3. \A f \in Feature : mirror'[f] = mirror[f] \/ mirror'[f].ci # "passed"
    BY <1>2, <2>1, OpenedSeen DEF RecordDiscovery
  <2> QED
    BY <2>2, <2>3
<1>3. ASSUME NEW w \in Worker, FetchChecks(w)
      PROVE  Goal
  BY <1>3, FetchCarries DEF FetchChecks
<1>4. ASSUME NEW w \in Worker, ReadRun(w) \/ Finish(w)
      PROVE  Goal
  <2>1. pass[w] \in Pass /\ pass[w] # Idle /\ SyncRow(w)
    BY <1>4, PassRuns DEF ReadRun, Finish, At
  <2>2. PICK p : /\ Continue(w, p)
                 /\ \/ p = Idle
                    \/ /\ p.run = pass[w].run /\ p.seen = pass[w].seen
                       /\ p.ci = pass[w].ci
    <3>1. CASE ReadRun(w)
      <4> DEFINE q == [pass[w] EXCEPT !.at = "step", !.believed = state[pass[w].run]]
      <4>1. Continue(w, q)
        BY <3>1 DEF ReadRun
      <4>2. q.run = pass[w].run /\ q.seen = pass[w].seen /\ q.ci = pass[w].ci
        BY <2>1 DEF Pass
      <4> QED
        BY <4>1, <4>2
    <3>2. CASE Finish(w)
      <4> DEFINE q == [pass[w] EXCEPT !.at = "read", !.lane = TRUE, !.believed = "merged",
                                      !.ahead = 0, !.missed = <<>>, !.sure = TRUE]
      <4>1. Continue(w, Idle) \/ Continue(w, q)
        BY <3>2 DEF Finish
      <4>2. q.run = pass[w].run /\ q.seen = pass[w].seen /\ q.ci = pass[w].ci
        BY <2>1 DEF Pass
      <4> QED
        BY <4>1, <4>2
    <3> QED
      BY <1>4, <3>1, <3>2
  <2>3. \A v \in Worker : Carries(v)
    BY <2>1, <2>2, ContinueCarries
  <2> QED
    BY <2>1, <2>3, SyncSeen
<1>5. ASSUME NEW w \in Worker, RunStep(w)
      PROVE  Goal
  <2>1. pass[w] \in Pass /\ pass[w] # Idle /\ pass[w].run \in Feature
    BY <1>5, CommandCases, PassRuns DEF At
  <2>2. PICK to \in State :
            \/ Replay(w, to) /\ UNCHANGED mirror
            \/ /\ Done(w, to)
               /\ UNCHANGED mirror \/ RecordPrOpened(pass[w].run, pass[w].seen)
    BY <1>5, CommandCases
  <2>3. CASE Replay(w, to) /\ UNCHANGED mirror
    BY <2>1, <2>3 DEF Replay, Carries, TypeOK, Pass
  <2>4. CASE /\ Done(w, to)
             /\ UNCHANGED mirror \/ RecordPrOpened(pass[w].run, pass[w].seen)
    <3>1. \A v \in Worker : Carries(v)
      BY <2>1, <2>4, ContinueCarries DEF Done, Pass
    <3>2. \A f \in Feature : mirror'[f] = mirror[f] \/ mirror'[f].ci # "passed"
      BY <2>1, <2>4, OpenedSeen
    <3> QED
      BY <3>1, <3>2
  <2> QED
    BY <2>2, <2>3, <2>4
<1>6. ASSUME NEW w \in Worker, Quit(w)
      PROVE  Goal
  BY <1>6 DEF Quit, Carries, TypeOK
<1>7. ASSUME NEW f \in Feature, Outside(f)
      PROVE  Goal
  <2>1. UNCHANGED mirror
    BY <1>7 DEF Outside, CoderPushes, HumanPushes, Push, PullChanges, ReviewerSays, RunCi,
                Intervene
  <2>2. Others \/ UNCHANGED pass
    BY <1>7 DEF Outside, CoderPushes, HumanPushes, Push, PullChanges, ReviewerSays, RunCi,
                Intervene
  <2> QED
    BY <2>1, <2>2 DEF Others, Carries
<1>8. CASE UNCHANGED vars
  BY <1>8 DEF vars
<1> QED
  BY <1>1, <1>2, <1>3, <1>4, <1>5, <1>6, <1>7, <1>8 DEF Next, Observe

\* CiVerdictIsOfTheHead: GitHub and Gitea are asked for the verdict on the very
\* commit they named before, and a verdict that CI passed is never taken back,
\* so the row never pairs a commit with the verdict on another.
THEOREM VerdictsAreOfTheHead == Spec => []CiVerdictIsOfTheHead
<1>1. Init => TypeOK /\ SeenInv
  BY TypeInit DEF Init, SeenInv, Seen
<1>2. TypeOK /\ SeenInv /\ [Next]_vars => TypeOK' /\ SeenInv'
  BY TypeNext, SeenNext
<1>3. SeenInv => CiVerdictIsOfTheHead
  BY DEF SeenInv, Seen, CiVerdictIsOfTheHead
<1> QED
  BY <1>1, <1>2, <1>3, PTL DEF Spec

-----------------------------------------------------------------------------
\* Before it gives a command, a pass expects no version.  From then on, unless it
\* had a replay, it believes what is so or knows that the run has moved.
Right(p, at) ==
    p # Idle =>
        /\ p.at \in {"event", "task", "read"} => p.sure /\ p.ahead = 0 /\ p.missed = <<>>
        /\ p.at = "step" /\ p.sure =>
              p.ahead = 0 /\ (p.missed = <<>> => p.believed = at[p.run])

BeliefInv == \A w \in Worker : Right(pass[w], state)

\* A pass learns of every move of its run.
LEMMA AgedRight ==
    ASSUME TypeOK, TypeOK', BeliefInv, NEW v \in Worker
    PROVE  Right(Aged(v), state')
<1> DEFINE p == pass[v]
<1>1. CASE p = Idle
  BY <1>1 DEF Aged, Right
<1>2. CASE p # Idle /\ (p.at \notin {"discover", "step"} \/ ~Moved(p.run))
  BY <1>2 DEF Aged, Right, BeliefInv, Moved
<1>3. CASE p # Idle /\ p.at = "discover"
  BY <1>3, AgedKeeps DEF Right
<1>4. CASE p # Idle /\ p.at = "step" /\ Moved(p.run)
  <2>1. p \in Pass /\ state'[p.run] \in State
    BY <1>4, PassRuns DEF TypeOK
  <2>2. CASE ~p.sure
    BY <1>4, <2>2, AgedKeeps DEF Right
  <2>3. CASE p.sure
    <3>1. p.ahead = 0 /\ p.missed \in Seq(State)
      BY <1>4, <2>1, <2>3 DEF BeliefInv, Right, Pass
    <3>2. Append(p.missed, state'[p.run]) # <<>>
      BY <2>1, <3>1, AppendProperties
    <3>3. CASE Len(p.missed) < MaxSteps
      <4> DEFINE q == [p EXCEPT !.missed = Append(@, state'[p.run])]
      <4>1. Aged(v) = q
        BY <1>4, <3>1, <3>3 DEF Aged
      <4>2. q.at = "step" /\ q.ahead = 0 /\ q.missed # <<>>
        BY <1>4, <2>1, <3>1, <3>2 DEF Pass
      <4> QED
        BY <4>1, <4>2 DEF Right
    <3>4. CASE ~(Len(p.missed) < MaxSteps)
      <4>1. Aged(v) = p /\ p.missed # <<>>
        BY <1>4, <3>1, <3>4 DEF Aged, MaxSteps
      <4> QED
        BY <1>4, <3>1, <4>1 DEF Right
    <3> QED
      BY <3>3, <3>4
  <2> QED
    BY <2>1, <2>2, <2>3 DEF Pass
<1> QED
  BY <1>1, <1>2, <1>3, <1>4

LEMMA ContinueRight ==
    ASSUME TypeOK, TypeOK', BeliefInv, NEW w \in Worker, NEW p, Continue(w, p),
           Right(p, state')
    PROVE  BeliefInv'
<1>1. \A v \in Worker : pass'[v] = p \/ pass'[v] = Aged(v)
  BY DEF Continue
<1> QED
  BY <1>1, AgedRight DEF BeliefInv

\* A worker changes its pass alone, and no run moves.
LEMMA SetRight ==
    ASSUME TypeOK, BeliefInv, NEW w \in Worker, NEW p, pass' = [pass EXCEPT ![w] = p],
           UNCHANGED state, Right(p, state)
    PROVE  BeliefInv'
  BY DEF TypeOK, BeliefInv

LEMMA BeliefNext ==
    ASSUME TypeOK, BeliefInv, [Next]_vars
    PROVE  BeliefInv'
<1>0. TypeOK'
  BY TypeNext
<1>1. ASSUME NEW w \in Worker, NEW f \in Feature, Start(w, f)
      PROVE  BeliefInv'
  <2>2. PICK step \in {"discover", "task", "event"}, lane \in BOOLEAN :
            Begin(w, Begun(step, f, lane))
    BY <1>1, StartCases
  <2>3. Right(Begun(step, f, lane), state)
    BY DEF Right, Begun
  <2> QED
    BY <2>2, <2>3, SetRight DEF Begin, runs
<1>2. ASSUME NEW w \in Worker, RecordDiscovery(w)
      PROVE  BeliefInv'
  BY <1>0, <1>2, ContinueRight DEF RecordDiscovery, Right
<1>3. ASSUME NEW w \in Worker, FetchChecks(w)
      PROVE  BeliefInv'
  <2> DEFINE p == [pass[w] EXCEPT
                     !.at = "read", !.ci = Reported(pass[w].run, pass[w].seen),
                     !.objected = Blocked(pass[w].run),
                     !.lane = IF At(w, "event") THEN state[pass[w].run] \in Gated ELSE @]
  <2>1. Continue(w, p) /\ pass[w] \in Pass /\ pass[w].at \in {"event", "task"}
    BY <1>3, PassRuns DEF FetchChecks, At
  <2>2. /\ p.at = "read" /\ p.sure = pass[w].sure /\ p.ahead = pass[w].ahead
        /\ p.missed = pass[w].missed
    BY <2>1 DEF Pass
  <2>3. pass[w].sure /\ pass[w].ahead = 0 /\ pass[w].missed = <<>>
    BY <1>3, <2>1 DEF BeliefInv, Right, FetchChecks, At
  <2> HIDE DEF p
  <2> QED
    BY <1>0, <2>1, <2>2, <2>3, ContinueRight DEF Right
<1>4. ASSUME NEW w \in Worker, ReadRun(w)
      PROVE  BeliefInv'
  <2> DEFINE p == [pass[w] EXCEPT !.at = "step", !.believed = state[pass[w].run]]
  <2>1. Continue(w, p) /\ UNCHANGED state /\ pass[w] \in Pass /\ At(w, "read")
    BY <1>4, PassRuns DEF ReadRun, At, runs
  <2>2. p.run = pass[w].run /\ p.ahead = pass[w].ahead /\ p.believed = state[pass[w].run]
    BY <2>1 DEF Pass
  <2>3. p.at = "step" /\ p.ahead = 0 /\ p.believed = state'[p.run]
    BY <2>1, <2>2 DEF BeliefInv, Right, At, Pass
  <2> HIDE DEF p
  <2> QED
    BY <1>0, <2>1, <2>3, ContinueRight DEF Right
<1>5. ASSUME NEW w \in Worker, Finish(w)
      PROVE  BeliefInv'
  <2> DEFINE p == [pass[w] EXCEPT !.at = "read", !.lane = TRUE, !.believed = "merged",
                                  !.ahead = 0, !.missed = <<>>, !.sure = TRUE]
  <2>1. (Continue(w, Idle) \/ Continue(w, p)) /\ pass[w] \in Pass
    BY <1>5, PassRuns DEF Finish, At
  <2>2. p.at = "read" /\ p.sure /\ p.ahead = 0 /\ p.missed = <<>>
    BY <2>1 DEF Pass
  <2> HIDE DEF p
  <2>3. Right(Idle, state') /\ Right(p, state')
    BY <2>2 DEF Right
  <2> QED
    BY <1>0, <2>1, <2>3, ContinueRight
<1>6. ASSUME NEW w \in Worker, RunStep(w)
      PROVE  BeliefInv'
  <2> DEFINE f == pass[w].run
  <2>1. pass[w] \in Pass /\ At(w, "step") /\ f \in Feature
    BY <1>6, CommandCases, PassRuns DEF At
  <2>2. PICK to \in State :
            \/ Replay(w, to)
            \/ /\ Fresh(w) /\ Done(w, to)
               /\ \/ Transit(f, to)
                  \/ CountFix(f) /\ to = "changes_requested"
                  \/ RecordPrOpened(f, pass[w].seen) /\ to = "pr_opened"
    BY <1>6, CommandCases
  <2>3. CASE Replay(w, to)
    <3> DEFINE p == [pass[w] EXCEPT !.believed = to, !.sure = FALSE,
                         !.ahead = IF pass[w].missed = <<>> THEN @ + 1 ELSE @,
                         !.missed = IF @ = <<>> THEN @ ELSE Tail(@)]
    <3>1. pass' = [pass EXCEPT ![w] = p] /\ UNCHANGED state
      BY <2>3 DEF Replay, runs, TypeOK
    <3>2. p.at = "step" /\ ~p.sure
      BY <2>1 DEF Pass, At
    <3> HIDE DEF p
    <3> QED
      BY <3>1, <3>2, SetRight DEF Right
  <2>4. CASE /\ Fresh(w) /\ Done(w, to)
             /\ \/ Transit(f, to)
                \/ CountFix(f) /\ to = "changes_requested"
                \/ RecordPrOpened(f, pass[w].seen) /\ to = "pr_opened"
    <3> DEFINE p == [pass[w] EXCEPT !.believed = to]
    <3>1. Continue(w, p) /\ p.at = "step" /\ p.run = f /\ p.believed = to /\ p.ahead = 0
      BY <2>1, <2>4 DEF Done, Fresh, Pass, At
    <3>2. state'[f] = to
      BY <2>1, <2>4 DEF Transit, CountFix, RecordPrOpened, Move, TypeOK
    <3> HIDE DEF p
    <3> QED
      BY <1>0, <3>1, <3>2, ContinueRight DEF Right
  <2> QED
    BY <2>2, <2>3, <2>4
<1>7. ASSUME NEW w \in Worker, Quit(w)
      PROVE  BeliefInv'
  BY <1>7, SetRight DEF Quit, Right, runs
<1>8. ASSUME NEW f \in Feature, Outside(f)
      PROVE  BeliefInv'
  <2>1. Others \/ UNCHANGED <<state, pass>>
    BY <1>8 DEF Outside, CoderPushes, HumanPushes, Push, PullChanges, ReviewerSays, RunCi,
                Intervene, runs
  <2> QED
    BY <1>0, <2>1, AgedRight DEF Others, BeliefInv
<1>9. CASE UNCHANGED vars
  BY <1>9 DEF vars, runs, BeliefInv
<1> QED
  BY <1>1, <1>2, <1>3, <1>4, <1>5, <1>6, <1>7, <1>8, <1>9 DEF Next, Observe

\* One step of KnowsWhatItMoves, for the pass of one worker.
Knows(v) ==
    At(v, "step") /\ At(v, "step")' /\ pass'[v].believed # pass[v].believed
        => ~pass'[v].sure \/ state[pass[v].run] = pass[v].believed

LEMMA AgedKnows ==
    ASSUME TypeOK, NEW v \in Worker, pass'[v] \in {pass[v], Aged(v), Idle}
    PROVE  Knows(v)
  BY AgedKeeps DEF Knows, At

LEMMA KnowsNext ==
    ASSUME TypeOK, BeliefInv, Next
    PROVE  \A v \in Worker : Knows(v)
<1>1. ASSUME NEW w \in Worker, NEW f \in Feature, Start(w, f), NEW v \in Worker
      PROVE  Knows(v)
  <2>1. pass[w] = Idle /\ (v # w => pass'[v] = pass[v])
    BY <1>1, StartCases DEF Begin, TypeOK
  <2> QED
    BY <2>1, AgedKnows DEF Knows, At
<1>2. ASSUME NEW w \in Worker, Observe(w) \/ Finish(w), NEW v \in Worker
      PROVE  Knows(v)
  <2>1. CASE RecordDiscovery(w)
    BY <2>1, AgedKnows DEF RecordDiscovery, Continue
  <2>2. CASE FetchChecks(w) \/ ReadRun(w)
    <3>1. v # w => pass'[v] = Aged(v)
      BY <2>2 DEF FetchChecks, ReadRun, Continue
    <3>2. ~At(w, "step")
      BY <2>2 DEF FetchChecks, ReadRun, At
    <3> QED
      BY <3>1, <3>2, AgedKnows DEF Knows
  <2>3. CASE Finish(w)
    <3> DEFINE p == [pass[w] EXCEPT !.at = "read", !.lane = TRUE, !.believed = "merged",
                                    !.ahead = 0, !.missed = <<>>, !.sure = TRUE]
    <3>1. (Continue(w, Idle) \/ Continue(w, p)) /\ pass[w] \in Pass
      BY <2>3, PassRuns DEF Finish, At
    <3>2. p.at = "read"
      BY <3>1 DEF Pass
    <3> HIDE DEF p
    <3>3. pass'[v] \in {Aged(v), Idle, p}
      BY <3>1 DEF Continue
    <3> QED
      BY <3>2, <3>3, AgedKnows DEF Knows, At
  <2> QED
    BY <1>2, <2>1, <2>2, <2>3 DEF Observe
<1>3. ASSUME NEW w \in Worker, RunStep(w), NEW v \in Worker
      PROVE  Knows(v)
  <2>1. pass[w] \in Pass /\ At(w, "step")
    BY <1>3, CommandCases, PassRuns DEF At
  <2>2. PICK to \in State : Replay(w, to) \/ (Fresh(w) /\ Done(w, to))
    BY <1>3, CommandCases
  <2>3. CASE Replay(w, to)
    <3>1. v # w => pass'[v] = pass[v]
      BY <2>3 DEF Replay, TypeOK
    <3>2. ~pass'[w].sure
      BY <2>1, <2>3 DEF Replay, TypeOK, Pass
    <3> QED
      BY <3>1, <3>2, AgedKnows DEF Knows
  <2>4. CASE Fresh(w) /\ Done(w, to)
    <3>1. v # w => pass'[v] = Aged(v)
      BY <2>4 DEF Done, Continue
    <3>2. pass'[w].sure = pass[w].sure
      BY <2>1, <2>4 DEF Done, Continue, Pass
    <3>3. pass[w].sure => state[pass[w].run] = pass[w].believed
      BY <2>1, <2>4 DEF BeliefInv, Right, Fresh, At
    <3>4. pass[w].sure \in BOOLEAN
      BY <2>1 DEF Pass
    <3> QED
      BY <3>1, <3>2, <3>3, <3>4, AgedKnows DEF Knows
  <2> QED
    BY <2>2, <2>3, <2>4
<1>4. ASSUME NEW w \in Worker, Quit(w), NEW v \in Worker
      PROVE  Knows(v)
  BY <1>4, AgedKnows DEF Quit, TypeOK
<1>5. ASSUME NEW f \in Feature, Outside(f), NEW v \in Worker
      PROVE  Knows(v)
  <2>1. Others \/ UNCHANGED pass
    BY <1>5 DEF Outside, CoderPushes, HumanPushes, Push, PullChanges, ReviewerSays, RunCi,
                Intervene
  <2> QED
    BY <2>1, AgedKnows DEF Others
<1> QED
  BY <1>1, <1>2, <1>3, <1>4, <1>5 DEF Next

\* KnowsWhatItMoves: the version a pass expects is the run's only if the pass has
\* missed no move, and then it believes what is so.  Only an old result, which
\* lets it expect more versions than the run has, can break this.
THEOREM PassesKnowWhatTheyMove == Spec => KnowsWhatItMoves
<1>1. Init => TypeOK /\ BeliefInv
  BY TypeInit DEF Init, BeliefInv, Right
<1>2. TypeOK /\ BeliefInv /\ [Next]_vars => TypeOK' /\ BeliefInv'
  BY TypeNext, BeliefNext
<1>3. TypeOK /\ BeliefInv /\ [Next]_vars
        => [\A w \in Worker :
              At(w, "step") /\ At(w, "step")' /\ pass'[w].believed # pass[w].believed
                 => ~pass'[w].sure \/ state[pass[w].run] = pass[w].believed]_vars
  BY KnowsNext DEF Knows
<1> QED
  BY <1>1, <1>2, <1>3, PTL DEF Spec, KnowsWhatItMoves
====
