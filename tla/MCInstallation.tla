---------------------------- MODULE MCInstallation ----------------------------
(***************************************************************************)
(* Five parts of an installation that share no variable, checked by one    *)
(* run.  The initial states choose a part; the others stay in some initial *)
(* state.  So the states of the run are the union of those of the parts,   *)
(* not their product, and each part behaves as its own specification says. *)
(***************************************************************************)
EXTENDS WorkflowLocks, Migrations, RepositoryLink, Webhooks, FeatureWatch, TLC

CONSTANTS w1, w2, w3, startTask, coderTask, pg, lite, p1, p2, c1, c2, t1, i1

VARIABLE part  \* the one that runs

\* Three invocations, two of them of the same task.
TaskOf == (w1 :> startTask) @@ (w2 :> coderTask) @@ (w3 :> coderTask)

\* As 0001_initial_schema, 0009_pull_requests and 0018_scm_provider.
CreatesOf ==
    <<{"projects", "github_links"}, {"pull_requests"}, {"scm_links"}>>
RemovesOf == <<{}, {}, {"github_links"}>>
Order == <<"pull_requests", "scm_links", "projects">>

Connections == {<<"github", "sqlite">>, <<"gitea", "sqlite">>, <<"gitlab", "postgres">>}

Settings ==
    {<<"github", {}, 3>>,
     <<"github", {"close", "link", "lose", "review", "simulate"}, 2>>,
     <<"gitea", {"abort", "stop"}, 2>>, <<"gitea", {"link", "review", "simulate"}, 2>>,
     <<"gitlab", {"close"}, 3>>, <<"gitlab", {"link", "review", "simulate"}, 2>>}

-----------------------------------------------------------------------------
(* A part that does not run: one of its initial states.                    *)
LocksRest ==
    /\ clock = 0 /\ written = 0
    /\ row = [fence |-> 0, holder |-> startTask, expires |-> 0]
    /\ pc = [w \in Worker |-> "idle"]
    /\ now = [w \in Worker |-> 0] /\ fence = [w \in Worker |-> 0]

LinkRest ==
    /\ connection = <<"github", "sqlite">> /\ link = <<>>
    /\ repository = [r \in Repository |-> Absent]
    /\ attempt = [c \in Connector |->
           [asked |-> [name |-> "r1", branch |-> "main", create |-> FALSE, verify |-> FALSE,
                       force |-> FALSE],
            read |-> <<>>, at |-> "verify"]]

HooksRest == HookInit /\ setting = <<"github", {}, 3>>
WatchRest == WatchInit /\ driver.known

InstallationInit ==
    /\ part \in {"locks", "schema", "link", "hooks", "watch"}
    /\ IF part = "locks" THEN Init ELSE LocksRest
    /\ SchemaInit
    /\ IF part = "link" THEN LinkInit ELSE LinkRest
    /\ IF part = "hooks" THEN HookInit ELSE HooksRest
    /\ IF part = "watch" THEN WatchInit ELSE WatchRest

Keeps(p, variables) == IF part = p THEN TRUE ELSE UNCHANGED variables

InstallationNext ==
    /\ UNCHANGED part
    /\ \/ part = "locks" /\ Next
       \/ part = "schema" /\ SchemaNext
       \/ part = "link" /\ LinkNext
       \/ part = "hooks" /\ HookNext
       \/ part = "watch" /\ WatchNext
    /\ Keeps("locks", vars) /\ Keeps("schema", schemaVars) /\ Keeps("link", linkVars)
    /\ Keeps("hooks", hookVars) /\ Keeps("watch", watchVars)

everything == <<vars, schemaVars, linkVars, hookVars, watchVars, part>>

\* Only the watch has fairness.
InstallationSpec ==
    InstallationInit /\ [][InstallationNext]_everything /\ WatchFairness
=============================================================================
