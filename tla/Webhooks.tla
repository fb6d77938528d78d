------------------------------- MODULE Webhooks -------------------------------
(***************************************************************************)
(* From a change at the forge to the pull_requests row (the mirror).  The  *)
(* forge announces most changes.  The receiver (webhook-app.ts of each     *)
(* provider) makes an inbox row of a delivery it has not seen; a developer *)
(* may add rows by hand (`simulate-*').  An inbox worker (cli/src/commands *)
(* /inbox.ts) takes a row, finds the run it is about, fetches the pull     *)
(* request in several requests and overwrites the mirror with what they    *)
(* said.  The github-reconciliation task does the same without a row.      *)
(*                                                                         *)
(* An event only says that something happened: what is written is what the *)
(* fetch saw.  So events may come late and in any order, but one that is   *)
(* lost, given up, or thrown away because its run is not found leaves the  *)
(* mirror behind, and so does a change of the review that no event tells   *)
(* of, until the task comes round.  How a row is claimed and retried is in *)
(* EventQueue, what a pass does to the run in Reconciliation.              *)
(***************************************************************************)
EXTENDS Naturals, Sequences, FiniteSets

CONSTANTS
    Poller,      \* inbox workers
    Tasks,       \* workers that run the github-reconciliation task
    Setting,     \* bound: a provider, what may happen besides commits, CI and events
                 \* that arrive, and how many events are announced or simulated
    MaxCommits   \* bound: commits on the run's branch

Runner == Poller \cup Tasks

ASSUME WebhooksAssumption ==
    /\ Setting \subseteq {"github", "gitea", "gitlab"}
                 \X (SUBSET {"close", "review", "lose", "abort", "simulate", "link", "stop"})
                 \X Nat
    /\ MaxCommits \in Nat \ {0}

VARIABLES
    setting,   \* repositories.provider, and what may happen how often
    linked,    \* the project has a repositories row
    seen,      \* the forge: the pull request, as a complete fetch would show it
    events,    \* what was announced or simulated, with what became of it
    tracked,   \* the run has a pull_requests row
    mirror,    \* that row
    polling,   \* the inbox workers that run
    pass,      \* pass[w]: the pass that w is in
    behind     \* history: the mirror may have missed something, or shows what is old

hookVars == <<setting, linked, seen, events, tracked, mirror, polling, pass, behind>>

provider == setting[1]
happens == setting[2]
MaxEvents == setting[3]

Verdict == {"pending", "passed", "failed"}
Pull == [head : 1 .. MaxCommits, status : {"open", "closed", "merged"},
         review : {"none", "approved", "changes"}, ci : Verdict]
NoPull == [head |-> 0]

\* How an event names the run: by its pull request, by a commit, or by itself.
Event == [by : {"number", "commit", "run", "nothing"}, commit : 0 .. MaxCommits,
          row : {"sent", "pending", "taken", "done"}]
NoPass == [at |-> "idle"]

\* found: what was fetched so far.  newer: the passes that fetched after this one;
\* stale: one of them has written.  sure: nothing was lost since it fetched.
Pass == [at : {"discover", "fetch", "checks", "write", "rewrite"}, row : Nat,
         found : Pull \cup {NoPull}, newer : SUBSET Runner, stale : BOOLEAN, sure : BOOLEAN]

HookTypeOK ==
    /\ setting \in Setting
    /\ linked \in BOOLEAN /\ tracked \in BOOLEAN /\ behind \in BOOLEAN
    /\ seen \in Pull \cup {NoPull}
    /\ events \in Seq(Event)
    /\ mirror \in Pull \cup {NoPull}
    /\ polling \subseteq Poller
    /\ pass \in [Runner -> Pass \cup {NoPass}]

HookInit ==
    /\ setting \in Setting
    /\ linked = ("link" \notin happens)
    /\ seen = NoPull
    /\ events = <<>>
    /\ tracked = FALSE
    /\ mirror = NoPull
    /\ polling = {}
    /\ pass = [w \in Runner |-> NoPass]
    /\ behind = FALSE

-----------------------------------------------------------------------------
(* The forge and what it announces (normalize.ts of each provider)         *)
Number == [by |-> "number", commit |-> 0, row |-> "sent"]
Commit(n) == [by |-> "commit", commit |-> n, row |-> "sent"]

\* What a change makes the forge send, up to what the normaliser ignores.  A push
\* is told twice.  GitHub's checks name the pull request; its old statuses and the
\* CI of the other two name the commit.  Nobody tells that CI was started again.
\* For the changes of a review see Submit, Dismiss and ReviewUntold.
GithubSends(change, n) ==
    CASE change = "push" -> {<<Number, Commit(n)>>}
      [] change = "verdict" -> {<<Number>>, <<Commit(n)>>}
      [] change = "rerun" -> {<<>>}
      [] OTHER -> {<<Number>>}

OthersSend(change, n) ==
    CASE change = "push" -> {<<Number, Commit(n)>>}
      [] change = "verdict" -> {<<Commit(n)>>}
      [] change = "rerun" -> {<<>>}
      [] OTHER -> {<<Number>>}

Sends(change, n) ==
    IF provider = "github" THEN GithubSends(change, n) ELSE OthersSend(change, n)

Changes(change, to) ==
    /\ \E news \in Sends(change, to.head) :
          /\ Len(events) + Len(news) <= MaxEvents
          /\ events' = events \o news
    /\ seen' = to
    /\ UNCHANGED <<setting, linked, tracked, mirror, polling, pass, behind>>

Open == seen # NoPull /\ seen.status = "open"

PullChanges ==
    \/ /\ seen = NoPull
       /\ Changes("pull", [head |-> 1, status |-> "open", review |-> "none", ci |-> "pending"])
    \/ /\ Open /\ "close" \in happens
       /\ \E s \in {"closed", "merged"} : Changes("pull", [seen EXCEPT !.status = s])
    \/ /\ seen # NoPull /\ seen.status = "closed"
       /\ Changes("pull", [seen EXCEPT !.status = "open"])

\* CI starts over, and what GitLab shows meanwhile is another commit's (Reconciliation).
Push ==
    /\ Open /\ seen.head < MaxCommits
    /\ Changes("push", [seen EXCEPT !.head = @ + 1, !.ci = "pending"])

Ci ==
    /\ Open
    /\ \/ seen.ci = "pending" /\ \E r \in {"passed", "failed"} :
                                   Changes("verdict", [seen EXCEPT !.ci = r])
       \/ seen.ci # "pending" /\ Changes("rerun", [seen EXCEPT !.ci = "pending"])

\* A change went by that no event tells of (again).
Misses ==
    /\ behind' = TRUE
    /\ pass' = [w \in Runner |->
           IF pass[w] = NoPass THEN NoPass ELSE [pass[w] EXCEPT !.sure = FALSE]]

ReviewIs(r) == [seen EXCEPT !.review = r]

\* A reviewer submits.  GitLab has no verdict against a pull request: there it is an
\* unresolved discussion, told of by the note that begins it, and no approval shows
\* while it lasts.
Submit ==
    \E r \in {"approved", "changes"} \ {seen.review} :
        /\ provider = "gitlab" /\ r = "approved" => seen.review = "none"
        /\ Changes("review", ReviewIs(r))

\* GitHub tells that a review was dismissed; those of others may remain.
Dismiss ==
    /\ provider = "github" /\ seen.review # "none"
    /\ \E r \in {"none", "approved"} \ {seen.review} : Changes("dismiss", ReviewIs(r))

\* The other two do not tell: Gitea of a dismissal, GitLab of an approval withdrawn, a
\* discussion resolved or begun again, or a note it writes itself (where no approval is
\* required, any note makes the request approved).
ReviewUntold ==
    /\ provider # "github"
    /\ provider = "gitea" => seen.review # "none"
    /\ \E r \in {"none", "approved", "changes"} \ {seen.review} :
          (provider = "gitea" => r # "changes") /\ seen' = ReviewIs(r)
    /\ Misses
    /\ UNCHANGED <<setting, linked, events, tracked, mirror, polling>>

Review == Open /\ "review" \in happens /\ (Submit \/ Dismiss \/ ReviewUntold)

-----------------------------------------------------------------------------
(* The inbox                                                               *)
Mark(i, status) == events' = [events EXCEPT ![i].row = status]

\* What a row that is done was about is forgotten, which only makes states equal.
Close(i) == events' = [events EXCEPT ![i] = [by |-> "number", commit |-> 0, row |-> "done"]]

\* Mutant of DedupKey: of GitLab's, a hash of what the event is about.
HashOfSubject(i) == events[i].by

\* inbox_events.dedup_key: GitHub and Gitea number their deliveries.  GitLab does
\* not, and the hash of the body stands in: it holds the time of the change.
DedupKey(i) == i

Received(i) == events[i].row # "sent"

\* A delivery that comes again is answered and leaves no second row.
Receive(i) ==
    /\ ~Received(i)
    /\ IF linked
       THEN Mark(i, IF \E j \in DOMAIN events : Received(j) /\ DedupKey(j) = DedupKey(i)
                   THEN "done" ELSE "pending")
            /\ UNCHANGED <<pass, behind>>
       ELSE Close(i) /\ Misses  \* unlinked-repository
    /\ UNCHANGED <<setting, linked, seen, tracked, mirror, polling>>

ReceiveGithub(i) == provider = "github" /\ Receive(i)
ReceiveGitea(i) == provider = "gitea" /\ Receive(i)
ReceiveGitlab(i) == provider = "gitlab" /\ Receive(i)

\* The receiver is down or fails, and the forge gives up.
Lose(i) ==
    /\ ~Received(i) /\ "lose" \in happens
    /\ Close(i) /\ Misses
    /\ UNCHANGED <<setting, linked, seen, tracked, mirror, polling>>

\* simulate-*: a row with a key of its own.  All events name the pull request;
\* simulate-pr-opened may name the run as well, and nothing comes of the one about
\* branch protection.
SimulatedOnGithub ==
    {"opened", "closed", "merged", "passed", "failed", "approved", "changes", "branch"}
SimulatedOnGitea == SimulatedOnGithub \ {"branch"}
SimulatedOnGitlab == SimulatedOnGithub \ {"branch", "changes"}

Names(simulated) ==
    CASE simulated = "opened" -> {"number", "run"}
      [] simulated = "branch" -> {"nothing"}
      [] OTHER -> {"number"}

Simulate(simulated) ==
    /\ Len(events) < MaxEvents /\ "simulate" \in happens
    /\ \E by \in Names(simulated) :
          events' = Append(events, [by |-> by, commit |-> 0, row |-> "pending"])
    /\ UNCHANGED <<setting, linked, seen, tracked, mirror, polling, pass, behind>>

SimulateOnGithub == provider = "github" /\ \E k \in SimulatedOnGithub : Simulate(k)
SimulateOnGitea == provider = "gitea" /\ \E k \in SimulatedOnGitea : Simulate(k)
SimulateOnGitlab == provider = "gitlab" /\ \E k \in SimulatedOnGitlab : Simulate(k)

LinkRepository ==
    /\ ~linked /\ linked' = TRUE
    /\ UNCHANGED <<setting, seen, events, tracked, mirror, polling, pass, behind>>

-----------------------------------------------------------------------------
(* A pass (inbox-handlers.ts, github-reconciliation.ts)                    *)

\* Without --provider the worker serves the forge the project is linked to.
StartWorker(w) ==
    /\ w \notin polling /\ linked
    /\ polling' = polling \cup {w}
    /\ UNCHANGED <<setting, linked, seen, events, tracked, mirror, pass, behind>>

\* A signal: the worker finishes what it has begun.
StopWorker(w) ==
    /\ w \in polling /\ pass[w] = NoPass /\ "stop" \in happens
    /\ polling' = polling \ {w}
    /\ UNCHANGED <<setting, linked, seen, events, tracked, mirror, pass, behind>>

PassAt(step, i) ==
    [at |-> step, row |-> i, found |-> NoPull, newer |-> {}, stale |-> FALSE, sure |-> FALSE]

\* resolveFeatureRunId
Resolves(e) ==
    \/ e.by = "run"
    \/ e.by = "number" /\ tracked
    \/ e.by = "commit" /\ tracked /\ mirror.head = e.commit

\* Passes that have seen something and have yet to write it.
Late == {w \in Runner : pass[w] # NoPass /\ pass[w].found # NoPull}

Take(w, i) ==
    /\ w \in polling /\ pass[w] = NoPass
    /\ events[i].row = "pending"
    /\ \/ /\ Resolves(events[i]) /\ linked
          /\ Mark(i, "taken")
          /\ pass' = [pass EXCEPT ![w] = PassAt("fetch", i)]
          /\ UNCHANGED behind
       \/ /\ ~Resolves(events[i]) \/ ~linked
          /\ Close(i)
          /\ IF Late = {} THEN UNCHANGED <<pass, behind>> ELSE Misses
    /\ UNCHANGED <<setting, linked, seen, tracked, mirror, polling>>

\* A new row shows less than the forge has, until the task goes on to fetch it.
NewRow == [head |-> seen.head, status |-> "open", review |-> "none", ci |-> "pending"]

\* The task looks for the branch of a run without a row first.
StartTask(w) ==
    /\ w \in Tasks /\ pass[w] = NoPass /\ linked
    /\ \/ tracked /\ pass' = [pass EXCEPT ![w] = PassAt("fetch", 0)]
       \/ ~tracked /\ Open /\ pass' = [pass EXCEPT ![w] = PassAt("discover", 0)]
    /\ UNCHANGED <<setting, linked, seen, events, tracked, mirror, polling, behind>>

Discover(w) ==
    /\ pass[w] # NoPass /\ pass[w].at = "discover"
    /\ tracked' = TRUE
    /\ mirror' = IF tracked THEN mirror ELSE NewRow
    /\ behind' = (behind \/ ~tracked)
    /\ pass' = [pass EXCEPT ![w].at = "fetch"]
    /\ UNCHANGED <<setting, linked, seen, events, polling>>

\* getPullRequest: the pull request, then its reviews and the CI of its head.
Fetch(w) ==
    /\ pass[w] # NoPass /\ pass[w].at = "fetch" /\ seen # NoPull
    /\ pass' = [v \in Runner |->
           IF v = w THEN [pass[w] EXCEPT !.at = "checks", !.found = seen, !.sure = TRUE]
           ELSE IF pass[v] # NoPass /\ pass[v].found # NoPull
                THEN [pass[v] EXCEPT !.newer = @ \cup {w}] ELSE pass[v]]
    /\ UNCHANGED <<setting, linked, seen, events, tracked, mirror, polling, behind>>

FetchChecks(w) ==
    /\ pass[w] # NoPass /\ pass[w].at = "checks"
    /\ LET ofHead == seen.head = pass[w].found.head
       IN  pass' = [pass EXCEPT ![w].at = "write", ![w].found.review = seen.review,
                               ![w].found.ci = IF ofHead THEN seen.ci ELSE @]
    /\ UNCHANGED <<setting, linked, seen, events, tracked, mirror, polling, behind>>

\* syncPullRequestObservedState: all columns, and nothing without a row.
Sync(w) == mirror' = IF tracked' THEN pass[w].found ELSE mirror

Wrote(w, p) ==
    pass' = [v \in Runner |->
        IF v = w THEN p
        ELSE IF pass[v] # NoPass /\ w \in pass[v].newer THEN [pass[v] EXCEPT !.stale = TRUE]
        ELSE pass[v]]

WriteMirror(w) ==
    /\ pass[w] # NoPass /\ pass[w].at = "write"
    /\ UNCHANGED <<setting, linked, seen, events, tracked, polling>>
    /\ Sync(w)
    /\ behind' = (behind \/ pass[w].stale)
    /\ Wrote(w, [pass[w] EXCEPT !.at = "rewrite"])

\* After the commands it led to, of which one may have made the row, a pass writes
\* once more.  A whole pass of the task makes up for what was missed before it.
RewriteMirror(w) ==
    /\ pass[w] # NoPass /\ pass[w].at = "rewrite"
    /\ tracked' \in {tracked, TRUE}
    /\ Sync(w)
    /\ IF pass[w].row = 0
       THEN UNCHANGED events /\ behind' = (pass[w].stale \/ (behind /\ ~pass[w].sure))
       ELSE Close(pass[w].row) /\ behind' = (behind \/ pass[w].stale)
    /\ Wrote(w, NoPass)
    /\ UNCHANGED <<setting, linked, seen, polling>>

\* A request or a command fails, the lane is taken, or the process dies.  The row is
\* tried again, up to a number of times.
Abort(w) ==
    /\ pass[w] # NoPass /\ "abort" \in happens
    /\ \/ /\ pass[w].row # 0 => Mark(pass[w].row, "pending")
          /\ pass[w].row = 0 => UNCHANGED events
          /\ pass' = [pass EXCEPT ![w] = NoPass]
          /\ UNCHANGED behind
       \/ /\ pass[w].row # 0 /\ Close(pass[w].row)
          /\ behind' = TRUE
          /\ pass' = [v \in Runner |-> IF v = w \/ pass[v] = NoPass THEN NoPass
                                       ELSE [pass[v] EXCEPT !.sure = FALSE]]
    /\ UNCHANGED <<setting, linked, seen, tracked, mirror, polling>>

HookNext ==
    \/ PullChanges \/ Push \/ Ci \/ Review \/ LinkRepository
    \/ SimulateOnGithub \/ SimulateOnGitea \/ SimulateOnGitlab
    \/ \E i \in DOMAIN events :
          \/ ReceiveGithub(i) \/ ReceiveGitea(i) \/ ReceiveGitlab(i) \/ Lose(i)
          \/ \E w \in Poller : Take(w, i)
    \/ \E w \in Poller : StartWorker(w) \/ StopWorker(w)
    \/ \E w \in Runner :
          \/ StartTask(w) \/ Discover(w) \/ Fetch(w) \/ FetchChecks(w)
          \/ WriteMirror(w) \/ RewriteMirror(w) \/ Abort(w)

HookSpec == HookInit /\ [][HookNext]_hookVars

-----------------------------------------------------------------------------
(* What the inbox is for                                                   *)
Settled ==
    /\ \A i \in DOMAIN events : events[i].row = "done"
    /\ \A w \in Runner : pass[w] = NoPass

\* Once every event is dealt with, the mirror shows the pull request as the forge has
\* it, in whatever order the events came: its head, whether it is open, its review, and
\* the verdict of CI on that head.  Exempt is a mirror that is `behind', until a whole
\* pass of the task makes up for it: an event was lost, given up, or thrown away beside
\* a pass about to write; the review changed and no event told; or a pass that fetched
\* earlier wrote over what a later one had written.
MirrorCatchesUp ==
    tracked /\ ~behind /\ Settled =>
        /\ mirror.head = seen.head /\ mirror.status = seen.status
        /\ mirror.review = seen.review
        /\ seen.ci # "pending" => mirror.ci = seen.ci
=============================================================================
