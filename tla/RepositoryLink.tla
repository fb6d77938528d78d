---------------------------- MODULE RepositoryLink ----------------------------
(***************************************************************************)
(* Connecting a project to its repository: `minicoder repo connect' with   *)
(* --create, --verify and --force (cli/src/commands/repo.ts and            *)
(* repo-create.ts).  A process looks the repository up at the forge, makes *)
(* it or gives it a first commit, asks the forge once more, and writes the *)
(* project's repositories row in a transaction.  Processes run beside each *)
(* other, and people make repositories and push to them as well.           *)
(*                                                                         *)
(* Everything else takes some row of the project for its repository        *)
(* (LIMIT 1).  No constraint keeps a project from having two: only the     *)
(* transaction does, so how far it is isolated matters.                    *)
(***************************************************************************)
EXTENDS Naturals, Sequences

CONSTANTS
    Connector,    \* processes that connect the project
    Repository,   \* names at the forge
    Branch,       \* names of branches
    ForgeBranch,  \* what GitHub calls the first branch of a repository
    Connection    \* bound: pairs of a provider and a database

ASSUME RepositoryLinkAssumption ==
    /\ ForgeBranch \in Branch
    /\ Connection \subseteq {"github", "gitea", "gitlab"} \X {"sqlite", "postgres"}

VARIABLES
    connection,  \* the provider and the database
    repository,  \* the forge's repositories
    attempt,     \* attempt[p]: what it was asked for and where it is
    link         \* the project's rows of repositories

linkVars == <<connection, repository, attempt, link>>

kind == connection[1]
database == connection[2]

Absent == [commits |-> FALSE]
Repo(b, commits) == [branch |-> b, commits |-> commits]
Repos == [branch : Branch, commits : BOOLEAN]
Exists(r) == repository[r] # Absent

\* created: a history of how the row was last written.
LinkRow == [name : Repository, branch : Branch, version : Nat \ {0}, created : BOOLEAN]

ConnectOptions ==
    [name : Repository, branch : Branch, create : BOOLEAN, verify : BOOLEAN, force : BOOLEAN]
Stage(p, step) == attempt[p].at = step
Asked(p) == attempt[p].asked

LinkTypeOK ==
    /\ connection \in Connection
    /\ repository \in [Repository -> Repos \cup {Absent}]
    /\ attempt \in [Connector -> [asked : ConnectOptions, read : Seq(LinkRow),
            at : {"look", "make", "seed", "verify", "begin", "write", "ended"}]]
    /\ link \in Seq(LinkRow)

LinkInit ==
    /\ connection \in Connection
    /\ repository = [r \in Repository |-> Absent]
    /\ attempt \in [Connector ->
           {[asked |-> o, read |-> <<>>, at |-> IF o.create THEN "look" ELSE "verify"] :
               o \in ConnectOptions}]
    /\ link = <<>>

-----------------------------------------------------------------------------
(* --create (repo-create.ts)                                               *)
Goto(p, step) == attempt' = [attempt EXCEPT ![p].at = step]

\* Mutant of Ensured: what was asked for is recorded.
AskedBranch(p, b) == Goto(p, "verify")

\* The forge's answer tells the branch that is recorded from here on.
Ensured(p, b) ==
    attempt' = [attempt EXCEPT ![p].at = "verify", ![p].asked.branch = b]

\* A repository that exists is left as it is, but Gitea's is given a commit if it
\* has none.
LookUp(p) ==
    /\ Stage(p, "look")
    /\ LET r == repository[Asked(p).name]
       IN  \/ r = Absent /\ Goto(p, "make")
           \/ r # Absent /\ kind = "gitea" /\ ~r.commits /\ Goto(p, "seed")
           \/ r # Absent /\ (kind # "gitea" \/ r.commits) /\ Ensured(p, r.branch)
    /\ UNCHANGED <<connection, repository, link>>

Make(p, b) ==
    /\ Stage(p, "make")
    /\ \/ /\ ~Exists(Asked(p).name)
          /\ repository' = [repository EXCEPT ![Asked(p).name] = Repo(b, TRUE)]
          /\ Ensured(p, b)
       \/ /\ Exists(Asked(p).name)  \* somebody else was faster: the forge refuses
          /\ Goto(p, "ended")
          /\ UNCHANGED repository
    /\ UNCHANGED <<connection, link>>

\* GitHub takes no name for the first branch.
MakeOnGithub(p) == kind = "github" /\ Make(p, ForgeBranch)
MakeOnGitea(p) == kind = "gitea" /\ Make(p, Asked(p).branch)
MakeOnGitlab(p) == kind = "gitlab" /\ Make(p, Asked(p).branch)

\* initializeEmptyGiteaRepository: a commit that adds README.md to the branch asked
\* for.  Once there are commits, that branch has to exist and to have no such file.
Seed(p) ==
    /\ Stage(p, "seed")
    /\ LET r == repository[Asked(p).name]
           b == Asked(p).branch
       IN  \/ /\ ~r.commits \/ r.branch = b
              /\ repository' = [repository EXCEPT ![Asked(p).name] = Repo(b, TRUE)]
              /\ Ensured(p, b)
           \/ r.commits /\ Goto(p, "ended") /\ UNCHANGED repository
    /\ UNCHANGED <<connection, link>>

-----------------------------------------------------------------------------
(* --verify and the transaction (repo.ts)                                  *)

\* verifyReachable lists the pull requests of a branch nobody has: Gitea answers
\* that of a repository with commits only.
Reachable(r) == Exists(r) /\ (kind = "gitea" => repository[r].commits)

Verify(p) ==
    /\ Stage(p, "verify")
    /\ Goto(p, IF Asked(p).verify /\ ~Reachable(Asked(p).name) THEN "ended" ELSE "begin")
    /\ UNCHANGED <<connection, repository, link>>

ReadLink(p) ==
    /\ Stage(p, "begin")
    /\ attempt' = [attempt EXCEPT
           ![p].read = link,
           ![p].at = IF link # <<>> /\ ~Asked(p).force THEN "ended" ELSE "write"]
    /\ UNCHANGED <<connection, repository, link>>

\* SQLite does not let a transaction write once another has written since it read.
\* PostgreSQL's READ COMMITTED does.
MayWrite(p) == database = "sqlite" => link = attempt[p].read

Written(p, version) ==
    [name |-> Asked(p).name, branch |-> Asked(p).branch, version |-> version,
     created |-> Asked(p).create]

Connect(p) ==
    /\ attempt[p].read = <<>>
    /\ link' = Append(link, Written(p, 1))

Reconnect(p) ==
    \E i \in DOMAIN attempt[p].read :
        link' = [link EXCEPT ![i] = Written(p, @.version + 1)]

WriteLink(p) ==
    /\ Stage(p, "write")
    /\ \/ MayWrite(p) /\ (Connect(p) \/ Reconnect(p))
       \/ ~MayWrite(p) /\ UNCHANGED link
    /\ attempt' = [attempt EXCEPT ![p].at = "ended", ![p].read = <<>>]
    /\ UNCHANGED <<connection, repository>>

\* A request fails, or the process dies.
GiveUp(p) ==
    /\ ~Stage(p, "ended")
    /\ attempt' = [attempt EXCEPT ![p].at = "ended", ![p].read = <<>>]
    /\ UNCHANGED <<connection, repository, link>>

\* People keep the default branch once it is there.
PeopleMake(r, b, commits) ==
    /\ ~Exists(r)
    /\ repository' = [repository EXCEPT ![r] = Repo(b, commits)]
    /\ UNCHANGED <<connection, attempt, link>>

PeoplePush(r) ==
    /\ Exists(r) /\ ~repository[r].commits
    /\ repository' = [repository EXCEPT ![r].commits = TRUE]
    /\ UNCHANGED <<connection, attempt, link>>

LinkNext ==
    \/ \E p \in Connector :
          \/ LookUp(p) \/ MakeOnGithub(p) \/ MakeOnGitea(p) \/ MakeOnGitlab(p) \/ Seed(p)
          \/ Verify(p) \/ ReadLink(p) \/ WriteLink(p) \/ GiveUp(p)
    \/ \E r \in Repository :
          \/ \E b \in Branch, commits \in BOOLEAN : PeopleMake(r, b, commits)
          \/ PeoplePush(r)

LinkSpec == LinkInit /\ [][LinkNext]_linkVars

-----------------------------------------------------------------------------
(* What a connection promises                                              *)

\* However many processes connect a project beside each other, on SQLite it has one
\* repository; and a row that --create was given for names a repository that is
\* there, with the branch its forge opens pull requests against, whoever made it,
\* and at Gitea one whose pull requests can be listed.
ConnectionHolds ==
    /\ database = "sqlite" => Len(link) <= 1
    /\ \A i \in DOMAIN link : link[i].created =>
           LET r == repository[link[i].name]
           IN  r # Absent /\ r.branch = link[i].branch /\ (kind = "gitea" => r.commits)
=============================================================================
