--------------------------- MODULE DesignDocument ---------------------------
(***************************************************************************)
(* From implementation_complete to project_complete: the commands on the   *)
(* project and its design documents (core/src/commands/handlers/project)   *)
(* and the runs of the run-design-doc task, which draft, write, export and *)
(* record a document under a lease nobody renews.                          *)
(*                                                                         *)
(* Document d and its artifact are created together and numbered in the    *)
(* order of created_at.  A draft is a number; what a section holds is the  *)
(* draft it comes from, or that it is missing or a placeholder.            *)
(*                                                                         *)
(* An export reads the artifact, then the sections, and writes at its      *)
(* commit: PostgreSQL (READ COMMITTED) lets other transactions commit in   *)
(* between.  On SQLite nothing does, which is one of these behaviours.     *)
(***************************************************************************)
EXTENDS Integers

CONSTANTS
    Run,        \* executions of the task
    Row,        \* rows of task_queue; executions of a row share a holder id
    Hand,       \* exports replayed by hand, each under a key of its own
    None,
    Sections,   \* number of sections of a document
    MaxDocs,    \* bound on generation cycles
    MaxDrafts   \* bound on answers of the documentation adapter

ASSUME DesignDocumentAssumption ==
    /\ None \notin Run /\ Run \cap Hand = {}
    /\ Sections \in Nat \ {0} /\ MaxDocs \in Nat \ {0} /\ MaxDrafts \in Nat

VARIABLES
    project,    \* projects.state
    version,    \* projects.version
    latest,     \* documents created so far
    document,   \* design_documents.state
    artifact,   \* artifact_exports.state
    sections,   \* design_document_sections
    content,    \* artifact_exports.content, as the sections it was made from
    pc,         \* where each run is
    row,        \* the row it executes
    target,     \* the document and artifact it has read
    next,       \* the section it writes next
    draft,      \* its draft: number, sections left out, requiresRevision
    seen,       \* projects.version, read before the document is recorded
    lock,       \* the lease: its run, its row, whether it still stands
    drafts,     \* drafts made so far
    render,     \* exports under way: their document, the sections they have read
    disturbed,  \* two runs at once though each has the lease, or a replayed
                \* command beside a run
    overlapped  \* two exports of an artifact were under way at once

states == <<project, version, latest, document>>
texts == <<sections, artifact, content>>
locals == <<row, target, next, draft, seen>>
exports == <<render, overlapped>>
vars == <<states, texts, pc, locals, lock, drafts, exports, disturbed>>

Doc == 1 .. MaxDocs
Section == 1 .. Sections

Missing == 0
Blank == -1    \* "(no content generated for ...)"
Text == {Missing, Blank} \cup 1 .. MaxDrafts
Empty == [s \in Section |-> Missing]

NoDraft == [number |-> 0, holes |-> {}, revise |-> FALSE]
NoTarget == [doc |-> 0, art |-> 0]
NoRender == [doc |-> 0, text |-> Empty]
Exporter == Run \cup Hand
Body == {"reading", "read", "drafting", "writing", "exporting", "rendering",
         "checking", "recording"}

TypeOK ==
    /\ project \in {"implementation_complete", "generating", "ready_for_review",
                    "revision_requested", "approved", "complete"}
    /\ version \in Nat
    /\ latest \in 0 .. MaxDocs
    /\ document \in [Doc -> {"none", "draft", "ready_for_review",
                             "revision_requested", "approved"}]
    /\ artifact \in [Doc -> {"none", "pending", "exported"}]
    /\ sections \in [Doc -> [Section -> Text]]
    /\ content \in [Doc -> [Section -> Text]]
    /\ pc \in [Run -> Body \cup {"idle", "acquiring", "releasing"}]
    /\ row \in [Run -> Row \cup {None}]
    /\ target \in [Run -> [doc : 0 .. MaxDocs, art : 0 .. MaxDocs]]
    /\ next \in [Run -> 1 .. Sections + 1]
    /\ draft \in [Run -> [number : 0 .. MaxDrafts, holes : SUBSET Section,
                          revise : BOOLEAN]]
    /\ seen \in [Run -> Nat]
    /\ lock \in [run : Run \cup {None}, row : Row \cup {None}, live : BOOLEAN]
    /\ drafts \in 0 .. MaxDrafts
    /\ render \in [Exporter -> [doc : 0 .. MaxDocs, text : [Section -> Text]]]
    /\ disturbed \in BOOLEAN
    /\ overlapped \in BOOLEAN

Init ==
    /\ project = "implementation_complete"
    /\ version = 1
    /\ latest = 0
    /\ document = [d \in Doc |-> "none"]
    /\ artifact = [d \in Doc |-> "none"]
    /\ sections = [d \in Doc |-> Empty]
    /\ content = [d \in Doc |-> Empty]
    /\ pc = [r \in Run |-> "idle"]
    /\ row = [r \in Run |-> None]
    /\ target = [r \in Run |-> NoTarget]
    /\ next = [r \in Run |-> 1]
    /\ draft = [r \in Run |-> NoDraft]
    /\ seen = [r \in Run |-> 0]
    /\ lock = [run |-> None, row |-> None, live |-> FALSE]
    /\ drafts = 0
    /\ render = [x \in Exporter |-> NoRender]
    /\ disturbed = FALSE
    /\ overlapped = FALSE

-----------------------------------------------------------------------------
(* Commands.  Each is one transaction that compares projects.version, the  *)
(* export excepted: it compares nothing that another export changes.       *)

Move(from, to) ==
    /\ project = from
    /\ project' = to
    /\ version' = version + 1

\* A new document and its artifact.
NewCycle ==
    /\ latest < MaxDocs
    /\ latest' = latest + 1
    /\ document' = [document EXCEPT ![latest + 1] = "draft"]
    /\ artifact' = [artifact EXCEPT ![latest + 1] = "pending"]
    /\ UNCHANGED <<sections, content, pc, locals, lock, drafts, exports, disturbed>>

\* GenerateDesignDocument and RegenerateDesignDocument are one operation: the
\* transition is validated by its states, not by the command.
GenerateDesignDocument ==
    /\ \E from \in {"implementation_complete", "revision_requested"} :
           Move(from, "generating")
    /\ NewCycle

\* Mutant of Judged: the decision moves the project and not the document.
Unjudged(d, verdict) ==
    /\ document[d] = "ready_for_review"
    /\ UNCHANGED document

\* An approver decides about the document that is ready for review.
Judged(d, verdict) ==
    /\ document[d] = "ready_for_review"
    /\ document' = [document EXCEPT ![d] = verdict]

RequestDesignDocumentRevision(d) ==
    /\ Move("ready_for_review", "revision_requested")
    /\ Judged(d, "revision_requested")
    /\ UNCHANGED <<latest, texts, pc, locals, lock, drafts, exports, disturbed>>

ApproveDesignDocument(d) ==
    /\ Move("ready_for_review", "approved")
    /\ Judged(d, "approved")
    /\ UNCHANGED <<latest, texts, pc, locals, lock, drafts, exports, disturbed>>

CompleteProject ==
    /\ Move("approved", "complete")
    /\ UNCHANGED <<latest, document, texts, pc, locals, lock, drafts, exports, disturbed>>

\* Mutant of Whole: placeholders pass for content.
WholeOrBlank(text) == \A s \in Section : text[s] # Missing

\* No section is missing, blank or a placeholder.
Whole(text) == \A s \in Section : text[s] \notin {Missing, Blank}

\* Mutant of Exportable: an exported artifact is rendered anew.
ExportableAgain(d) == artifact[d] # "none"

\* The artifact is there and not exported yet.
Exportable(d) == artifact[d] = "pending"

Renders(x, d) == render[x].doc = d

\* The transaction has claimed its key and reads the artifact ...
BeginExport(x, d) ==
    /\ Exportable(d)
    /\ render' = [render EXCEPT ![x] = [doc |-> d, text |-> Empty]]
    /\ overlapped' = (overlapped \/ \E y \in Exporter : Renders(y, d))

\* ... then the sections, which must be whole ...
ReadSections(x) ==
    /\ \E d \in Doc : /\ Renders(x, d) /\ Whole(sections[d])
                       /\ render' = [render EXCEPT ![x].text = sections[d]]
    /\ render[x].text = Empty
    /\ UNCHANGED overlapped

\* ... and writes what it made of them: pending -> generating, which looks at no
\* state, then generating -> exported, which sees its own update.
FinishExport(x) ==
    /\ render[x].text # Empty
    /\ \E d \in Doc : /\ Renders(x, d)
                       /\ artifact' = [artifact EXCEPT ![d] = "exported"]
                       /\ content' = [content EXCEPT ![d] = render[x].text]
    /\ render' = [render EXCEPT ![x] = NoRender]
    /\ UNCHANGED overlapped

\* The transaction is rolled back.
DropExport(x) ==
    /\ render' = [render EXCEPT ![x] = NoRender]
    /\ UNCHANGED overlapped

Recordable(d) == artifact[d] = "exported" /\ document[d] = "draft"

RecordDesignDocumentReady(d) ==
    /\ Recordable(d)
    /\ Move("generating", "ready_for_review")
    /\ document' = [document EXCEPT ![d] = "ready_for_review"]

-----------------------------------------------------------------------------
(* The lease design-doc-generation:{projectId}                             *)

AtWork(r) == pc[r] \in Body

\* An export is being replayed by hand.
ByHand == \E h \in Hand : render[h] # NoRender

\* Mutant of Free: the task runs without the lease.
NotNeeded(h) == TRUE

\* acquire() succeeds: no lease, one that ran out, or one of the same holder.
Free(h) == ~lock.live \/ lock.row = h

Take(r) ==
    /\ lock' = [run |-> r, row |-> row[r], live |-> TRUE]
    /\ disturbed' = (disturbed \/ (lock.live /\ lock.row = row[r] /\ lock.run # r
                                   /\ lock.run # None /\ AtWork(lock.run))
                               \/ ByHand)

\* Ten minutes pass; the task does not renew the lease.
Expire ==
    /\ lock.live
    /\ lock' = [lock EXCEPT !.live = FALSE]
    /\ disturbed' = (disturbed \/ AtWork(lock.run))
    /\ UNCHANGED <<states, texts, pc, locals, drafts, exports>>

-----------------------------------------------------------------------------
(* A run                                                                   *)

Goto(r, where) == pc' = [pc EXCEPT ![r] = where]

Pending == {d \in Doc : artifact[d] = "pending"}

\* readGenerationTargets finds nothing to do unless this holds.
IsPending == project = "generating" /\ Pending # {}

\* A worker starts to execute a row; the first look finds work.
Start(r, h) ==
    /\ pc[r] = "idle" /\ IsPending
    /\ Goto(r, "acquiring")
    /\ row' = [row EXCEPT ![r] = h]
    /\ UNCHANGED <<states, texts, target, next, draft, seen, lock, drafts, exports, disturbed>>

Acquire(r) ==
    /\ pc[r] = "acquiring" /\ Free(row[r])
    /\ Take(r)
    /\ Goto(r, "reading")
    /\ UNCHANGED <<states, texts, locals, drafts, exports>>

\* The process or the task forgets what it had read.
Forget(r) ==
    /\ row' = [row EXCEPT ![r] = None]
    /\ target' = [target EXCEPT ![r] = NoTarget]
    /\ next' = [next EXCEPT ![r] = 1]
    /\ draft' = [draft EXCEPT ![r] = NoDraft]
    /\ seen' = [seen EXCEPT ![r] = 0]

\* LockConflictError is a clean no-op.
Conflict(r) ==
    /\ pc[r] = "acquiring" /\ lock.live /\ lock.row # row[r]
    /\ Goto(r, "idle")
    /\ Forget(r)
    /\ UNCHANGED <<states, texts, lock, drafts, exports, disturbed>>

\* The second look, now with the lease: the latest document ...
ReadDocument(r) ==
    /\ pc[r] = "reading"
    /\ IF project = "generating" /\ latest > 0
       THEN /\ Goto(r, "read")
            /\ target' = [target EXCEPT ![r].doc = latest]
       ELSE /\ Goto(r, "releasing")
            /\ UNCHANGED target
    /\ UNCHANGED <<states, texts, row, next, draft, seen, lock, drafts, exports, disturbed>>

\* ... and the latest artifact that is pending.
ReadArtifact(r) ==
    /\ pc[r] = "read"
    /\ \/ /\ Pending = {}
          /\ Goto(r, "releasing")
          /\ UNCHANGED target
       \/ \E a \in Pending :
              /\ \A d \in Pending : d <= a
              /\ Goto(r, "drafting")
              /\ target' = [target EXCEPT ![r].art = a]
    /\ UNCHANGED <<states, texts, row, next, draft, seen, lock, drafts, exports, disturbed>>

\* The adapter answers.  A section it left out becomes a placeholder, and then
\* the draft requires revision; it may say so by itself, or write placeholders
\* of its own and say nothing.
Draft(r) ==
    /\ pc[r] = "drafting" /\ drafts < MaxDrafts
    /\ drafts' = drafts + 1
    /\ \E left, marked \in SUBSET Section, asked \in BOOLEAN :
           draft' = [draft EXCEPT ![r] = [number |-> drafts + 1,
                                          holes |-> left \cup marked,
                                          revise |-> asked \/ left # {}]]
    /\ Goto(r, "writing")
    /\ UNCHANGED <<states, texts, row, target, next, seen, lock, exports, disturbed>>

Drafted(r, s) == IF s \in draft[r].holes THEN Blank ELSE draft[r].number

AllWritten(r) == next[r] > Sections

\* Sections are upserted one statement at a time.
WriteSection(r) ==
    /\ pc[r] = "writing" /\ ~AllWritten(r)
    /\ sections' = [sections EXCEPT ![target[r].doc][next[r]] = Drafted(r, next[r])]
    /\ next' = [next EXCEPT ![r] = @ + 1]
    /\ UNCHANGED <<states, artifact, content, pc, row, target, draft, seen, lock,
                   drafts, exports, disturbed>>

\* A draft that requires revision is neither exported nor recorded.
EndWriting(r) ==
    /\ pc[r] = "writing" /\ AllWritten(r)
    /\ Goto(r, IF draft[r].revise THEN "releasing" ELSE "exporting")
    /\ UNCHANGED <<states, texts, locals, lock, drafts, exports, disturbed>>

\* The runs that export an artifact share a key: one waits while another's
\* transaction is open.
Export(r) ==
    /\ pc[r] = "exporting" /\ target[r].art = target[r].doc
    /\ \A q \in Run : ~Renders(q, target[r].art)
    /\ BeginExport(r, target[r].art)
    /\ Goto(r, "rendering")
    /\ UNCHANGED <<states, texts, locals, lock, drafts, disturbed>>

\* An earlier success is replayed, or the artifact found exported.
AlreadyExported(r) ==
    /\ pc[r] = "exporting" /\ target[r].art = target[r].doc
    /\ artifact[target[r].art] = "exported"
    /\ Goto(r, "checking")
    /\ UNCHANGED <<states, texts, locals, lock, drafts, exports, disturbed>>

Render(r) ==
    /\ pc[r] = "rendering"
    /\ ReadSections(r)
    /\ UNCHANGED <<states, texts, pc, locals, lock, drafts, disturbed>>

Exported(r) ==
    /\ pc[r] = "rendering"
    /\ FinishExport(r)
    /\ Goto(r, "checking")
    /\ UNCHANGED <<states, sections, locals, lock, drafts, disturbed>>

CheckProject(r) ==
    /\ pc[r] = "checking"
    /\ IF project = "generating"
       THEN /\ Goto(r, "recording")
            /\ seen' = [seen EXCEPT ![r] = version]
       ELSE /\ Goto(r, "releasing")
            /\ UNCHANGED seen
    /\ UNCHANGED <<states, texts, row, target, next, draft, lock, drafts, exports, disturbed>>

Record(r) ==
    /\ pc[r] = "recording" /\ seen[r] = version
    /\ RecordDesignDocumentReady(target[r].doc)
    /\ Goto(r, "releasing")
    /\ UNCHANGED <<latest, texts, locals, lock, drafts, exports, disturbed>>

\* An adapter, a database call or a command fails; finally, the lease goes.
Throw(r) ==
    /\ AtWork(r)
    /\ Goto(r, "releasing")
    /\ DropExport(r)
    /\ UNCHANGED <<states, texts, locals, lock, drafts, disturbed>>

Release(r) ==
    /\ pc[r] = "releasing"
    /\ Goto(r, "idle")
    /\ lock' = [lock EXCEPT !.live = @ /\ lock.run # r]
    /\ Forget(r)
    /\ UNCHANGED <<states, texts, drafts, exports, disturbed>>

Crash(r) ==
    /\ pc[r] # "idle"
    /\ Goto(r, "idle")
    /\ Forget(r)
    /\ DropExport(r)
    /\ UNCHANGED <<states, texts, lock, drafts, disturbed>>

-----------------------------------------------------------------------------
(* A system key may replay the two commands by hand.                       *)

Beside == \E r \in Run : AtWork(r)

ReplayExport(h, d) ==
    /\ render[h] = NoRender
    /\ BeginExport(h, d)
    /\ disturbed' = (disturbed \/ Beside)
    /\ UNCHANGED <<states, texts, pc, locals, lock, drafts>>

RenderByHand(h) ==
    /\ ReadSections(h)
    /\ UNCHANGED <<states, texts, pc, locals, lock, drafts, disturbed>>

ExportedByHand(h) ==
    /\ FinishExport(h)
    /\ UNCHANGED <<states, sections, pc, locals, lock, drafts, disturbed>>

DroppedByHand(h) ==
    /\ render[h] # NoRender
    /\ DropExport(h)
    /\ UNCHANGED <<states, texts, pc, locals, lock, drafts, disturbed>>

ReplayRecord(d) ==
    /\ RecordDesignDocumentReady(d)
    /\ disturbed' = (disturbed \/ Beside)
    /\ UNCHANGED <<latest, texts, pc, locals, lock, drafts, exports>>

-----------------------------------------------------------------------------
Command ==
    \/ GenerateDesignDocument \/ CompleteProject
    \/ \E d \in Doc : \/ RequestDesignDocumentRevision(d) \/ ApproveDesignDocument(d)
                      \/ ReplayRecord(d) \/ \E h \in Hand : ReplayExport(h, d)

ByHandSteps(h) == RenderByHand(h) \/ ExportedByHand(h) \/ DroppedByHand(h)

Task(r) ==
    \/ \E h \in Row : Start(r, h)
    \/ Acquire(r) \/ Conflict(r) \/ ReadDocument(r) \/ ReadArtifact(r)
    \/ Draft(r) \/ WriteSection(r) \/ EndWriting(r) \/ Export(r)
    \/ AlreadyExported(r) \/ Render(r) \/ Exported(r) \/ CheckProject(r)
    \/ Record(r) \/ Throw(r) \/ Release(r) \/ Crash(r)

Next ==
    \/ Command \/ Expire
    \/ \E h \in Hand : ByHandSteps(h)
    \/ \E r \in Run : Task(r)

Spec == Init /\ [][Next]_vars

-----------------------------------------------------------------------------
(* Properties                                                              *)

Released(d) == document[d] \in {"ready_for_review", "revision_requested", "approved"}

\* The project is where its documents are, through any number of revisions,
\* crashes and replays: at most one document is drafted or judged at a time, it
\* is the latest, and a project is approved with exactly that document.
ProjectFollowsDocument ==
    /\ \A d \in Doc : document[d] = "none" <=> d > latest
    /\ \A d \in Doc : d < latest => document[d] = "revision_requested"
    /\ latest > 0 =>
           \/ project = "generating" /\ document[latest] = "draft"
           \/ project \in {"approved", "complete"} /\ document[latest] = "approved"
           \/ /\ project \in {"ready_for_review", "revision_requested"}
              /\ document[latest] = project

\* What an approver judges was exported, and every section of the export has
\* content, whatever drafts were left half written, cut short or overwritten
\* before.
JudgedIsWhole ==
    \A d \in Doc : Released(d) =>
        /\ artifact[d] = "exported"
        /\ \A s \in Section : content[d][s] \notin {Missing, Blank}

\* run-design-doc.ts: the lock closes the race in which the slower of two runs
\* overwrites sections after the faster has recorded the document.  Unless a
\* lease ran out under its run, the sections of a released document are the ones
\* in its artifact.
JudgedIsExported ==
    ~disturbed => \A d \in Doc : Released(d) => sections[d] = content[d]

\* What was exported is not rendered again: retries, late runs and replays find
\* it exported and leave it, unless two exports of it, under different keys, were
\* under way at once.  Then both have read it pending; on PostgreSQL the second
\* writes over the first, since the handler compares no version and the update
\* to generating looks at no state.
PublishedIsFrozen ==
    [][~overlapped => \A d \in Doc : artifact[d] = "exported" =>
           artifact'[d] = "exported" /\ content'[d] = content[d]]_vars
=============================================================================
