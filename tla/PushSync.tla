------------------------------ MODULE PushSync ------------------------------
(***************************************************************************)
(* A branch on GitHub, its worktree, and handleGitHubPushEvent of          *)
(* src/packages/gateway/src/app.ts between them.                           *)
(*                                                                         *)
(* Every push to the branch is delivered to the gateway some time later,   *)
(* in any order.  Its handler runs git commands in the worktree one after  *)
(* the other (rev-parse HEAD, fetch, merge-base, reset --hard FETCH_HEAD)  *)
(* while the agent works there, other handlers run theirs, and others push.*)
(* HEAD and FETCH_HEAD are the worktree's and shared by all of them.  A    *)
(* commit is the sequence of the numbers of the commits up to it, so being *)
(* an ancestor is being a prefix.                                          *)
(***************************************************************************)
EXTENDS Naturals, Sequences, SequencesExt

CONSTANTS
    Gone,        \* no such branch at GitHub; the push of a deletion
    NoTree,      \* no worktree for the branch
    Trunk,       \* the tip of another branch
    MaxCommits,  \* bound: new commits
    MaxPushes,   \* bound: pushes
    MaxFailures    \* bound: commands that fail, crashes of the gateway

ASSUME PushAssumption == Trunk \in Seq(Nat)      \* a commit, as the others

VARIABLES
    default,     \* the branch is the repository's default branch
    engaged,     \* its key has a session
    remote,      \* the tip of the branch at GitHub
    head,        \* HEAD of the worktree
    dirty,       \* the worktree has changes that are not committed
    fetched,     \* FETCH_HEAD of the worktree
    disturbed,   \* the agent has pushed, or fetched another branch, at a bad moment
    commits,     \* the number of commits made
    pushes,      \* each push with its handler
    wakes,       \* the pushes that were enqueued, with their interrupt flag
    failures     \* commands that failed, and crashes

pushVars == <<default, engaged, remote, head, dirty, fetched, disturbed, commits,
          pushes, wakes, failures>>

kept == <<default, engaged, disturbed>>

PushInit ==
    /\ default \in BOOLEAN
    /\ engaged \in BOOLEAN
    /\ remote = <<0>>
    /\ head \in {<<0>>, NoTree}
    /\ dirty = FALSE
    /\ fetched = <<0>>
    /\ disturbed = FALSE
    /\ commits = 0
    /\ pushes = <<>>
    /\ wakes = {}
    /\ failures = 0

IsAncestor(a, b) == IsPrefix(a, b)

-----------------------------------------------------------------------------
(***************************************************************************)
(* The agent in its worktree, and others at GitHub                         *)
(***************************************************************************)

\* GitHub sends a push event: phase is where its handler is.
Deliver(after, own) ==
    /\ Len(pushes) < MaxPushes
    /\ pushes' = Append(pushes, [after |-> after, own |-> own, phase |-> "sent",
                                 ff |-> FALSE])

NewCommit == commits < MaxCommits /\ commits' = commits + 1

\* A handler is going to reset the worktree to what it has fetched.
BetweenFetchAndReset ==
    \E i \in DOMAIN pushes : pushes[i].phase \in {"fetched", "compared"}

AgentEdits ==
    /\ head # NoTree
    /\ dirty' = TRUE
    /\ UNCHANGED <<kept, remote, head, fetched, commits, pushes, wakes, failures>>

AgentCommits ==
    /\ head # NoTree
    /\ NewCommit
    /\ head' = Append(head, commits')
    /\ dirty' = FALSE
    /\ UNCHANGED <<kept, remote, fetched, pushes, wakes, failures>>

AgentPushes ==
    /\ head # NoTree
    /\ remote # head
    /\ remote # Gone => IsAncestor(remote, head)
    /\ remote' = head
    /\ Deliver(head, TRUE)
    /\ disturbed' = (disturbed \/ BetweenFetchAndReset)
    /\ UNCHANGED <<default, engaged, head, dirty, fetched, commits, wakes, failures>>

AgentFetches ==
    /\ head # NoTree
    /\ fetched' = Trunk
    /\ disturbed' = (disturbed \/ BetweenFetchAndReset)
    /\ UNCHANGED <<default, engaged, remote, head, dirty, commits, pushes, wakes, failures>>

OthersPush ==
    /\ remote # Gone
    /\ NewCommit
    /\ remote' = Append(remote, commits')
    /\ Deliver(remote', FALSE)
    /\ UNCHANGED <<kept, head, dirty, fetched, wakes, failures>>

\* A rewrite makes new commits; nobody pushes an old tip back.
OthersForcePush ==
    /\ remote # Gone
    /\ NewCommit
    /\ remote' = Append(Front(remote), commits')
    /\ Deliver(remote', FALSE)
    /\ UNCHANGED <<kept, head, dirty, fetched, wakes, failures>>

OthersDelete ==
    /\ remote # Gone
    /\ remote' = Gone
    /\ Deliver(Gone, FALSE)
    /\ UNCHANGED <<kept, head, dirty, fetched, commits, wakes, failures>>

-----------------------------------------------------------------------------
(***************************************************************************)
(* The handler of push i                                                   *)
(***************************************************************************)

At(i, phase) == pushes[i].phase = phase

Goto(i, phase) == pushes' = [pushes EXCEPT ![i].phase = phase]

\* rev-parse HEAD: nothing is done without a worktree, or when it is up to date.
CheckHead(i) ==
    /\ At(i, "sent")
    /\ pushes[i].after # Gone
    /\ Goto(i, IF head \in {NoTree, pushes[i].after} THEN "done" ELSE "stale")
    /\ UNCHANGED <<kept, remote, head, dirty, fetched, commits, wakes, failures>>

\* Mutant of Fetch: the commit of the event is fetched.
FetchAfter(i) ==
    /\ At(i, "stale")
    /\ head # NoTree
    /\ fetched' = pushes[i].after
    /\ Goto(i, "fetched")
    /\ UNCHANGED <<kept, remote, head, dirty, commits, wakes, failures>>

\* git fetch origin refs/heads/<branch>: what the branch is now
Fetch(i) ==
    /\ At(i, "stale")
    /\ head # NoTree
    /\ remote # Gone
    /\ fetched' = remote
    /\ Goto(i, "fetched")
    /\ UNCHANGED <<kept, remote, head, dirty, commits, wakes, failures>>

\* git merge-base --is-ancestor HEAD FETCH_HEAD
Compare(i) ==
    /\ At(i, "fetched")
    /\ head # NoTree
    /\ pushes' = [pushes EXCEPT ![i].phase = "compared",
                                ![i].ff = IsAncestor(head, fetched)]
    /\ UNCHANGED <<kept, remote, head, dirty, fetched, commits, wakes, failures>>

\* git reset --hard FETCH_HEAD
Reset(i) ==
    /\ At(i, "compared")
    /\ head # NoTree
    /\ head' = fetched
    /\ dirty' = FALSE
    /\ Goto(i, "reset")
    /\ UNCHANGED <<kept, remote, fetched, commits, wakes, failures>>

\* The session of a feature branch is woken, interrupting if history was rewritten.
Wake(i) ==
    /\ At(i, "reset")
    /\ wakes' = IF default \/ ~engaged THEN wakes
                ELSE wakes \cup {[push |-> i, interrupt |-> ~pushes[i].ff]}
    /\ Goto(i, "done")
    /\ UNCHANGED <<kept, remote, head, dirty, fetched, commits, failures>>

\* The branch was deleted: git status --porcelain in its worktree, unless it is
\* the default branch.
CheckClean(i) ==
    /\ At(i, "sent")
    /\ pushes[i].after = Gone
    /\ Goto(i, IF default \/ head = NoTree \/ dirty THEN "done" ELSE "clean")
    /\ UNCHANGED <<kept, remote, head, dirty, fetched, commits, wakes, failures>>

\* git worktree remove, which refuses a worktree with changes
RemoveTree(i) ==
    /\ At(i, "clean")
    /\ head' = IF dirty THEN head ELSE NoTree
    /\ Goto(i, "done")
    /\ UNCHANGED <<kept, remote, dirty, fetched, commits, wakes, failures>>

\* A command cannot be run, or exits with an error, as every one does when the
\* worktree is gone, and fetch when the branch is: the handler records it and
\* answers.
CommandFails(i) ==
    /\ ~At(i, "done")
    /\ \/ head = NoTree /\ UNCHANGED failures
       \/ At(i, "stale") /\ remote = Gone /\ UNCHANGED failures
       \/ ~At(i, "reset") /\ failures < MaxFailures /\ failures' = failures + 1
    /\ Goto(i, "done")
    /\ UNCHANGED <<kept, remote, head, dirty, fetched, commits, wakes>>

\* Handlers die with the gateway, and GitHub does not deliver again.
Crash ==
    /\ failures < MaxFailures
    /\ failures' = failures + 1
    /\ pushes' = [i \in DOMAIN pushes |->
                    IF At(i, "sent") THEN pushes[i] ELSE [pushes[i] EXCEPT !.phase = "done"]]
    /\ UNCHANGED <<kept, remote, head, dirty, fetched, commits, wakes>>

Handle(i) ==
    \/ CheckHead(i) \/ Fetch(i) \/ Compare(i) \/ Reset(i) \/ Wake(i)
    \/ CheckClean(i) \/ RemoveTree(i) \/ CommandFails(i)

PushNext ==
    \/ AgentEdits \/ AgentCommits \/ AgentPushes \/ AgentFetches
    \/ OthersPush \/ OthersForcePush \/ OthersDelete
    \/ \E i \in DOMAIN pushes : Handle(i)
    \/ Crash

PushSpec == PushInit /\ [][PushNext]_pushVars

-----------------------------------------------------------------------------
(***************************************************************************)
(* Properties                                                              *)
(***************************************************************************)

Quiet == \A i \in DOMAIN pushes : At(i, "done")

\* "push keeps local checkouts current" (docs/github-app-webhooks.md:71): when
\* all pushes have been handled, the worktree has the tip of the branch, whatever
\* the order of deliveries, and however handlers overlap with each other, with
\* pushes of others and with the agent's commits.  Three things leave it behind:
\* a command that fails; a push of the agent's, or a fetch of another branch, when
\* a handler has fetched and not yet reset (app.ts:846).
Aligned ==
    Quiet /\ failures = 0 /\ ~disturbed /\ remote # Gone /\ head # NoTree
        => IsAncestor(remote, head)

\* "your own push you just made ... no wake at all" (build.md:193): a session is
\* woken only for the pushes of others.  No run states it, because it is not so: the
\* handler knows the commits of a push and not who pushed them, and when the agent
\* has committed again since, its own push resets the worktree and wakes it.
OwnPushNeverWakes == \A w \in wakes : ~pushes[w.push].own

=============================================================================
