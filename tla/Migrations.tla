------------------------------ MODULE Migrations ------------------------------
(***************************************************************************)
(* The schema of the database and the record of it                         *)
(* (packages/migrations/src/runner.ts): migrate, rollback and reset, each a *)
(* process of its own, for both dialects.  A migration and its row in      *)
(* _migrations are written in one transaction, but what is applied is read *)
(* once, before, and nothing keeps a second process away.  A reset drops   *)
(* the tables of EXPECTED_TABLES and then _migrations; in PostgreSQL this  *)
(* is one transaction, in SQLite every DROP is one of its own.             *)
(*                                                                         *)
(* Any number of processes may migrate at a time, as when several          *)
(* installations start, and any number may roll back.  That the two do not *)
(* overlap, and that a reset has its database for itself, is up to the     *)
(* operator (Only): the code does not see to it.  A process may die, or a  *)
(* statement may fail, at any step.                                        *)
(***************************************************************************)
EXTENDS Integers, Sequences, FiniteSets

CONSTANTS
    Process,
    Target,       \* databases
    Postgres,     \* the PostgreSQL databases; the others are SQLite files
    Table,        \* tables of any version of the schema
    Last,         \* the number of migrations
    Creates,      \* Creates[m]: the tables that migration m adds
    Removes,      \* Removes[m]: the tables that it renames to others
    DropOrder,    \* OWNED_TABLES_DROP_ORDER
    MaxPreviews   \* bound: dry runs of a reset

Nothing == 0
NoFile == [token |-> Nothing, fresh |-> FALSE]
Migration == 1 .. Last
Expected == {DropOrder[i] : i \in 1 .. Len(DropOrder)}

\* The tables that a database with just these migrations has.
Made(R) == (UNION {Creates[m] : m \in R}) \ (UNION {Removes[m] : m \in R})

ASSUME MigrationsAssumption ==
    /\ Postgres \subseteq Target
    /\ Last \in Nat /\ MaxPreviews \in Nat
    /\ Creates \in [Migration -> SUBSET Table]
    /\ Removes \in [Migration -> SUBSET Table]
    /\ DropOrder \in Seq(Table)

\* What the files in packages/migrations/migrations see to: no two migrations create the
\* same table, and one that renames a table finds it, and gives it a name that
\* EXPECTED_TABLES knows.
ASSUME MigrationFilesAssumption ==
    /\ \A m, n \in Migration : m # n => Creates[m] \cap Creates[n] = {}
    /\ \A m \in Migration :
          /\ Removes[m] \subseteq Made(1 .. m - 1)
          /\ Removes[m] # {} => Creates[m] \cap Expected # {}

VARIABLES
    tables,    \* tables[t]: the tables of MiniCoder in database t
    journal,   \* the databases with a table _migrations
    recorded,  \* recorded[t]: its rows
    pending,   \* pending-reset-token.json: the number of the dry run, and whether it is fresh
    previews,  \* previews[k]: the database that dry run k looked at
    torn,      \* the databases in which a reset has begun to drop tables and not ended
    proc       \* proc[p]: the command that p runs

schema == <<tables, journal, recorded, torn>>
tokens == <<pending, previews>>
schemaVars == <<schema, tokens, proc>>

NoCommand == [at |-> "idle"]

\* known: what List read; token: the dry run that --confirmation names;
\* dropped: how far a reset in SQLite is.
Command == [at : {"ensure", "list", "apply", "undo", "consume", "drop"},
            cmd : {"migrate", "rollback", "reset"}, on : Target,
            known : SUBSET Migration, token : Nat, dropped : Nat]

SchemaTypeOK ==
    /\ tables \in [Target -> SUBSET Table]
    /\ journal \subseteq Target /\ torn \subseteq Target
    /\ recorded \in [Target -> SUBSET Migration]
    /\ pending \in [token : 0 .. MaxPreviews, fresh : BOOLEAN]
    /\ previews \in Seq(Target)
    /\ proc \in [Process -> Command \cup {NoCommand}]

SchemaInit ==
    /\ tables = [t \in Target |-> {}] /\ journal = {} /\ torn = {}
    /\ recorded = [t \in Target |-> {}]
    /\ pending = NoFile /\ previews = <<>>
    /\ proc = [p \in Process |-> NoCommand]

Least(S) == CHOOSE m \in S : \A n \in S : m <= n
Newest(S) == CHOOSE m \in S : \A n \in S : n <= m

InStep(p, step) == proc[p] # NoCommand /\ proc[p].at = step
Proceed(p, c) == proc' = [proc EXCEPT ![p] = c]
GoTo(p, step) == Proceed(p, [proc[p] EXCEPT !.at = step])

On(t) == {p \in Process : proc[p] # NoCommand /\ proc[p].on = t}

\* What the operator sees to: only commands cs run on t.
Only(cs, t) == \A p \in On(t) : proc[p].cmd \in cs

BeginCommand(p, t, c, step, k) ==
    /\ proc[p] = NoCommand
    /\ Proceed(p, [at |-> step, cmd |-> c, on |-> t, known |-> {}, token |-> k, dropped |-> 0])

-----------------------------------------------------------------------------
(* migrate                                                                 *)
Migrate(p, t) ==
    /\ Only({"migrate"}, t)
    /\ BeginCommand(p, t, "migrate", "ensure", 0)
    /\ UNCHANGED <<schema, tokens>>

EnsureMigrationsTable(p) ==
    /\ InStep(p, "ensure")
    /\ journal' = journal \cup {proc[p].on}
    /\ GoTo(p, "list")
    /\ UNCHANGED <<tables, recorded, torn, tokens>>

\* A reset goes on as a migrate does.
GetApplied(p) ==
    /\ InStep(p, "list") /\ proc[p].on \in journal
    /\ LET applied == recorded[proc[p].on]
       IN  \/ /\ proc[p].cmd # "rollback"
              /\ Proceed(p, [proc[p] EXCEPT !.at = "apply", !.known = applied])
           \/ /\ proc[p].cmd = "rollback" /\ applied # {}
              /\ Proceed(p, [proc[p] EXCEPT !.at = "undo", !.known = applied])
           \/ proc[p].cmd = "rollback" /\ applied = {} /\ Proceed(p, NoCommand)
    /\ UNCHANGED <<schema, tokens>>

\* The statements of migration m find what they are about.
CanApply(m, t) == Creates[m] \cap tables[t] = {} /\ Removes[m] \subseteq tables[t]

\* One transaction.  A second INSERT of the row breaks its key; any failure ends the
\* process (EndCommand).
Apply(p) ==
    /\ InStep(p, "apply")
    /\ LET t == proc[p].on
           todo == Migration \ proc[p].known
           m == Least(todo)
       IN  IF todo = {}
           THEN Proceed(p, NoCommand) /\ UNCHANGED schema
           ELSE /\ t \in journal /\ m \notin recorded[t] /\ CanApply(m, t)
                /\ tables' = [tables EXCEPT ![t] = (@ \ Removes[m]) \cup Creates[m]]
                /\ recorded' = [recorded EXCEPT ![t] = @ \cup {m}]
                /\ Proceed(p, [proc[p] EXCEPT !.known = @ \cup {m}])
                /\ UNCHANGED <<journal, torn>>
    /\ UNCHANGED tokens

-----------------------------------------------------------------------------
(* rollback                                                                *)
Rollback(p, t) ==
    /\ Only({"rollback"}, t)
    /\ BeginCommand(p, t, "rollback", "ensure", 0)
    /\ UNCHANGED <<schema, tokens>>

\* The down scripts drop tables IF EXISTS; only renaming back needs them.
CanUndo(m, t) ==
    Removes[m] # {} => Creates[m] \subseteq tables[t] /\ Removes[m] \cap tables[t] = {}

Undo(p) ==
    /\ InStep(p, "undo")
    /\ LET t == proc[p].on
           m == Newest(proc[p].known)
       IN  /\ t \in journal /\ CanUndo(m, t)
           /\ tables' = [tables EXCEPT ![t] = (@ \ Creates[m]) \cup Removes[m]]
           /\ recorded' = [recorded EXCEPT ![t] = @ \ {m}]
    /\ Proceed(p, NoCommand)
    /\ UNCHANGED <<journal, torn, tokens>>

-----------------------------------------------------------------------------
(* reset: a dry run, then the reset that names it                          *)

\* The file has one place: a dry run takes that of the last one.
DryRun(t) ==
    /\ Len(previews) < MaxPreviews
    /\ previews' = Append(previews, t)
    /\ pending' = [token |-> Len(previews) + 1, fresh |-> TRUE]
    /\ UNCHANGED <<schema, proc>>

Expire ==
    /\ pending.fresh
    /\ pending' = [pending EXCEPT !.fresh = FALSE]
    /\ UNCHANGED <<schema, previews, proc>>

Confirmed(t, k) ==
    pending.token = k /\ pending.fresh /\ previews[k] = t

ApplyReset(p, t, k) ==
    /\ Only({}, t) /\ Confirmed(t, k)
    /\ BeginCommand(p, t, "reset", "consume", k)
    /\ UNCHANGED <<schema, tokens>>

\* Whatever the file holds by now; without a file the command fails.
ConsumeToken(p) ==
    /\ InStep(p, "consume") /\ pending # NoFile
    /\ pending' = NoFile
    /\ GoTo(p, "drop")
    /\ UNCHANGED <<schema, previews>>

\* DROP without CASCADE fails for a table that another one refers to, and a table that
\* is not in EXPECTED_TABLES refers to projects.
Referred(t) == tables[t] \ Expected # {}

PgReset(p) ==
    /\ InStep(p, "drop") /\ proc[p].on \in Postgres
    /\ LET t == proc[p].on
       IN  /\ ~Referred(t)
           /\ tables' = [tables EXCEPT ![t] = @ \ Expected]
           /\ recorded' = [recorded EXCEPT ![t] = {}]
           /\ journal' = journal \ {t}
    /\ GoTo(p, "ensure")
    /\ UNCHANGED <<torn, tokens>>

\* The table that a reset in SQLite drops after n others, or Nothing for _migrations,
\* when that is the first and when it is the last.
JournalFirst(n) == IF n = 0 THEN Nothing ELSE n
NextDrop(n) == IF n < Len(DropOrder) THEN n + 1 ELSE Nothing

SqliteReset(p) ==
    /\ InStep(p, "drop") /\ proc[p].on \notin Postgres
    /\ LET t == proc[p].on
           n == proc[p].dropped
           i == NextDrop(n)
       IN  /\ IF i # Nothing
              THEN /\ tables' = [tables EXCEPT ![t] = @ \ {DropOrder[i]}]
                   /\ UNCHANGED <<recorded, journal>>
              ELSE /\ recorded' = [recorded EXCEPT ![t] = {}]
                   /\ journal' = journal \ {t}
                   /\ UNCHANGED tables
           /\ IF n = Len(DropOrder)
              THEN torn' = torn \ {t} /\ GoTo(p, "ensure")
              ELSE torn' = torn \cup {t} /\ Proceed(p, [proc[p] EXCEPT !.dropped = n + 1])
    /\ UNCHANGED tokens

-----------------------------------------------------------------------------
\* The process dies or ends with an error.
EndCommand(p) ==
    /\ proc[p] # NoCommand /\ Proceed(p, NoCommand)
    /\ UNCHANGED <<schema, tokens>>

CommandStep(p) ==
    \/ EnsureMigrationsTable(p) \/ GetApplied(p) \/ Apply(p) \/ Undo(p)
    \/ ConsumeToken(p) \/ PgReset(p) \/ SqliteReset(p) \/ EndCommand(p)

SchemaNext ==
    \/ \E p \in Process : CommandStep(p)
    \/ \E p \in Process, t \in Target :
          \/ Migrate(p, t) \/ Rollback(p, t)
          \/ \E k \in 1 .. Len(previews) : ApplyReset(p, t, k)
    \/ \E t \in Target : DryRun(t)
    \/ Expire

SchemaSpec == SchemaInit /\ [][SchemaNext]_schemaVars

-----------------------------------------------------------------------------
(* What follows from this                                                  *)

\* Whichever processes migrate beside each other and wherever a command dies, a table
\* of the present schema is there only if its migration is recorded, and then it is
\* there, unless a reset in SQLite died between two drops: such a database claims
\* migrations whose tables are gone, and migrate finds nothing to do in it.
SchemaIsRecorded ==
    \A t \in Target :
        LET owned == tables[t] \cap Expected
            made == Made(recorded[t]) \cap Expected
        IN  owned \subseteq made /\ (t \notin torn => owned = made)

\* In PostgreSQL the oldest migration that is not recorded always finds what it needs
\* and nothing it would create: no command leaves a schema that cannot be migrated.
\* (In SQLite a reset of a database that was rolled back behind a rename does.)
NextCanApply ==
    \A t \in Postgres :
        recorded[t] # Migration => CanApply(Least(Migration \ recorded[t]), t)

\* The schema is what _migrations says, and it can be brought to the present.
SchemaHolds == SchemaIsRecorded /\ NextCanApply
=============================================================================
