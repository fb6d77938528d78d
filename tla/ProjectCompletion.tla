-------------------------- MODULE ProjectCompletion --------------------------
(***************************************************************************)
(* The end of a project's execution: MarkImplementationComplete beside the *)
(* commands on its feature runs (core/src/commands/handlers/project,       *)
(* core/src/project/acceptance.ts).                                        *)
(*                                                                         *)
(* The command asks for SERIALIZABLE: in PostgreSQL all it reads, the NOT  *)
(* EXISTS guards of its UPDATE included, is of one snapshot, while the     *)
(* other commands run at READ COMMITTED and take no part in conflict       *)
(* detection.  So it takes two steps here, with any commands in between;   *)
(* in SQLite nothing comes in between.                                     *)
(***************************************************************************)
EXTENDS FeatureExecution

VARIABLES
    delivery,  \* projects.state, until the design document begins
    passed,    \* the snapshot of an open transaction passes acceptance
    late       \* the project has a feature request beyond Feature whose run is
               \* missing or not done: an extended backlog, or a second plan

completion == <<delivery, passed, late>>

CompletionInit ==
    /\ Init
    /\ delivery = "active"
    /\ passed = FALSE
    /\ late = FALSE

\* Mutant of Accepted: it starts from the runs, and skips those not started.
AcceptedAmongStarted ==
    /\ ~late
    /\ \A f \in Feature : \/ state[f] \in {"skipped", "approved_pending_execution"}
                          \/ state[f] = "merged" /\ ~unresolved[f]

\* evaluateProjectAcceptance.  A skipped run passes if none of its unresolved
\* findings is blocking; unresolved also counts the requires-human ones, so
\* for a skipped run the verdict is open here.  Queue rows with used-up
\* attempts are EventQueue's; no command leaves an artifact export failed.
Accepted ==
    /\ ~late
    /\ \A f \in Feature : \/ state[f] = "skipped"
                          \/ state[f] = "merged" /\ ~unresolved[f]

\* The transaction begins; one that sees acceptance fail changes nothing.
EvaluateAcceptance ==
    /\ delivery = "active" /\ ~passed
    /\ Accepted
    /\ passed' = TRUE
    /\ UNCHANGED <<vars, delivery, late>>

\* The guarded UPDATE, which finds in the snapshot what the evaluation found,
\* and the commit.
MarkImplementationComplete ==
    /\ passed
    /\ delivery' = "implementation_complete"
    /\ passed' = FALSE
    /\ UNCHANGED <<vars, late>>

\* A serialization failure against another call of the command, or an error:
\* what is tried again starts from a new snapshot, at most three times.
RollBack ==
    /\ passed
    /\ passed' = FALSE
    /\ UNCHANGED <<vars, delivery, late>>

\* GenerateFeatureBacklog asks for the state of neither plan nor project.
ExtendBacklog ==
    /\ ~late
    /\ late' = TRUE
    /\ UNCHANGED <<vars, delivery, passed>>

Complete ==
    \/ EvaluateAcceptance \/ MarkImplementationComplete \/ RollBack
    \/ ExtendBacklog

CompletionNext ==
    \/ Next /\ UNCHANGED completion
    \/ Complete

CompletionSpec == CompletionInit /\ [][CompletionNext]_<<vars, completion>>

-----------------------------------------------------------------------------
(* Properties                                                              *)

\* The doctor's project_acceptance_violated.
AcceptanceViolated == delivery = "implementation_complete" /\ ~Accepted

\* mark-implementation-complete.ts accepts as a risk that a writer outside its
\* isolation invalidates the acceptance before the commit, and the doctor looks
\* for it.  No command on a feature run can: the doctor finds a completed
\* project in violation only if its backlog grew.
OnlyLateWorkViolates == AcceptanceViolated => late
=============================================================================
