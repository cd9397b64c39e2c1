------------------------------ MODULE Sandbox ------------------------------
(***************************************************************************)
(* The sandboxes in which commands run (sandbox.ts and POST /exec/sandbox  *)
(* of remote-cli's index.ts): one Daytona machine per worktree, filled     *)
(* with the worktree's commit and its uncommitted files before a command   *)
(* runs, and read back after it.  A commit is known by its tree; a tree    *)
(* gives every file its content, 0 when there is no such file.  The steps  *)
(* of one request are apart wherever the code awaits Daytona or git, so    *)
(* that two requests, the agent's own edits, failing calls and a crash of  *)
(* remote-cli come in between.                                             *)
(***************************************************************************)
EXTENDS Integers, FiniteSets, Sequences, SequencesExt

CONSTANTS Request,      \* the requests made
          Forms,        \* what they may say: [mode, cwd, args]
          Roots,        \* the top levels of git's working trees, as paths
          File,         \* the files of a worktree
          DIRTY_FILE_LIMIT,
          MaxEdits, MaxFaults

\* Top levels and directories are paths.
ASSUME SandboxAssumption ==
    Roots \subseteq Seq(STRING) /\ \A form \in Forms : form.cwd \in Seq(STRING)

Trees == [File -> {0, 1}]
NoFiles == [f \in {} |-> 0]
EmptyTree == [f \in File |-> 0]

VARIABLES requests,     \* [Request -> what the handler of each knows]
          boxes,        \* the live sandboxes at Daytona, by their ids
          made,         \* how many Daytona ever made
          lock,         \* who holds a worktree's lock (cwdLocks)
          worktrees,    \* [root -> [head, files]], the agent's
          edits,        \* changes of a worktree or a sandbox so far
          faults
sandboxVars == <<requests, boxes, made, lock, worktrees, edits, faults>>

------------------------------------------------------------------------------
\* Paths lie below /workspace/worktrees; a malformed one is the empty path.
validateSandboxCwd(cwd) == cwd # <<>>

isValidWorktreeTopLevel(root) == Len(root) >= 2

resolvable(cwd) == \E x \in Roots : IsPrefix(x, cwd)

\* git rev-parse --show-toplevel in the deepest directory that exists.
topLevel(cwd) == CHOOSE x \in Roots : /\ IsPrefix(x, cwd)
                                      /\ \A y \in Roots : IsPrefix(y, cwd) => Len(y) <= Len(x)

findContainingWorktreeRoot(root) ==
    {x \in Roots \ {root} : isValidWorktreeTopLevel(x) /\ IsPrefix(x, root)}

resolveWorktreeRoot(cwd) ==
    IF /\ resolvable(cwd)
       /\ isValidWorktreeTopLevel(topLevel(cwd))
       /\ findContainingWorktreeRoot(topLevel(cwd)) = {}
    THEN topLevel(cwd) ELSE <<>>

\* The working trees that a request can be about.
Worktrees == {resolveWorktreeRoot(x) : x \in Roots} \ {<<>>}

parseSandboxMode(form) == form.mode \in {"exec", "create", "stop", "list"}

\* git would lose its work; a shell is unwrapped, and only in one form.
Runnable(args) ==
    /\ args # <<>>
    /\ args[1] # "git"
    /\ args[1] \in {"sh", "bash"} => Len(args) = 3 /\ args[2] \in {"-c", "-lc"}

Served(form) ==
    /\ parseSandboxMode(form)
    /\ form.mode # "list" => validateSandboxCwd(form.cwd) /\ resolveWorktreeRoot(form.cwd) # <<>>
    /\ form.mode = "exec" => Runnable(form.args)

\* git status --porcelain: what differs from the commit, to send or to remove.
changed(files, base) == {f \in File : files[f] # base[f]}
parseGitStatus(files, base) ==
    [uploads |-> {f \in changed(files, base) : files[f] # 0},
     deletes |-> {f \in changed(files, base) : files[f] = 0}]

\* git reset --hard: what neither commit tracks stays where it is.
resetHard(box, sha) ==
    [box EXCEPT !.base = sha,
                !.files = [f \in File |->
                    IF sha[f] = 0 /\ (box.base = NoFiles \/ box.base[f] = 0)
                    THEN box.files[f] ELSE sha[f]]]

findSandboxForCwd(root) == {i \in DOMAIN boxes : boxes[i].cwd = root}

------------------------------------------------------------------------------
Idle == [stage |-> "idle", mode |-> "", root |-> <<>>, sha |-> NoFiles, box |-> 0,
         list |-> {}, asOf |-> 0, exit |-> ""]

SandboxInit ==
    /\ requests = [r \in Request |-> Idle]
    /\ boxes = <<>>
    /\ made = 0
    /\ lock = [w \in Worktrees |-> {}]
    /\ worktrees = [w \in Worktrees |-> [head |-> [f \in File |-> 1], files |-> [f \in File |-> 1]]]
    /\ edits = 0
    /\ faults = 0

Closed(req, exit) == [Idle EXCEPT !.stage = "answered", !.exit = exit, !.mode = req.mode]

\* A lock is given back by the step that ends the critical section, however it ends.
released(r) == [w \in Worktrees |-> lock[w] \ {r}]

Go(r, stage) == requests' = [requests EXCEPT ![r].stage = stage]
End(r, exit) == /\ requests' = [requests EXCEPT ![r] = Closed(@, exit)]
                /\ lock' = released(r)

Fault == faults < MaxFaults /\ faults' = faults + 1

ReceiveSandbox(r, form) ==
    /\ requests[r].stage = "idle"
    /\ requests' = [requests EXCEPT ![r] =
           IF ~Served(form) THEN Closed([mode |-> form.mode], "refused")
           ELSE IF form.mode = "list" THEN Closed(form, "ok")
           ELSE [Idle EXCEPT !.stage = IF form.mode = "stop" THEN "stopping" ELSE "waiting",
                             !.mode = form.mode, !.root = resolveWorktreeRoot(form.cwd)]]
    /\ UNCHANGED <<boxes, made, lock, worktrees, edits, faults>>

\* Stopping looks and deletes without the lock; one that is gone is as good as deleted.
FindToStop(r) ==
    /\ requests[r].stage = "stopping"
    /\ LET found == findSandboxForCwd(requests[r].root)
       IN  requests' = [requests EXCEPT ![r] =
              IF found = {} THEN Closed(@, "ok")
              ELSE [@ EXCEPT !.stage = "deleting", !.box = CHOOSE i \in found : TRUE]]
    /\ UNCHANGED <<boxes, made, lock, worktrees, edits, faults>>

deleteSandbox(r) ==
    /\ requests[r].stage = "deleting"
    /\ boxes' = [i \in DOMAIN boxes \ {requests[r].box} |-> boxes[i]]
    /\ End(r, "ok")
    /\ UNCHANGED <<made, worktrees, edits, faults>>

\* Mutant of Lock: the sandbox is prepared without the worktree's lock.
Unlocked(r) ==
    /\ requests[r].stage = "waiting"
    /\ requests' = [requests EXCEPT ![r].stage = "finding", ![r].asOf = edits,
                                    ![r].sha = worktrees[requests[r].root].head]
    /\ UNCHANGED <<boxes, made, lock, worktrees, edits, faults>>

\* prepareSandbox takes the lock and resolveHead reads the commit.
Lock(r) ==
    /\ requests[r].stage = "waiting"
    /\ lock[requests[r].root] = {}
    /\ lock' = [lock EXCEPT ![requests[r].root] = {r}]
    /\ requests' = [requests EXCEPT ![r].stage = "finding", ![r].asOf = edits,
                                    ![r].sha = worktrees[requests[r].root].head]
    /\ UNCHANGED <<boxes, made, worktrees, edits, faults>>

\* A sandbox that was found is brought to the commit its label does not name.
AfterFound(req, label) ==
    IF req.mode = "create" THEN "done" ELSE IF label = req.sha THEN "inspecting" ELSE "syncing"

\* ensureSandbox looks for one; there it decides to make one.
Find(r) ==
    /\ requests[r].stage = "finding"
    /\ LET req == requests[r]
           found == findSandboxForCwd(req.root)
           i == CHOOSE x \in found : TRUE
       IN  IF found = {} THEN Go(r, "creating") /\ UNCHANGED lock
           ELSE IF req.mode = "create" THEN End(r, "ok")
           ELSE /\ requests' = [requests EXCEPT ![r].stage = AfterFound(req, boxes[i].label),
                                                ![r].box = i]
                /\ UNCHANGED lock
    /\ UNCHANGED <<boxes, made, worktrees, edits, faults>>

\* Daytona makes it, with the label of a commit it does not hold yet.
createSandbox(r) ==
    /\ requests[r].stage = "creating"
    /\ made' = made + 1
    /\ boxes' = [i \in DOMAIN boxes \cup {made'} |->
           IF i \in DOMAIN boxes THEN boxes[i]
           ELSE [cwd |-> requests[r].root, label |-> requests[r].sha, base |-> NoFiles, files |-> EmptyTree]]
    /\ requests' = [requests EXCEPT ![r].stage = "filling", ![r].box = made']
    /\ UNCHANGED <<lock, worktrees, edits, faults>>

Alive(r) == requests[r].box \in DOMAIN boxes

\* bundleAndUpload into a new sandbox, or the bundle of a sync (delta or whole).
bundleAndUpload(r) ==
    /\ requests[r].stage \in {"filling", "syncing"}
    /\ Alive(r)
    /\ boxes' = [boxes EXCEPT ![requests[r].box] = resetHard(@, requests[r].sha)]
    /\ CASE requests[r].stage = "syncing" -> Go(r, "labelling") /\ UNCHANGED lock
         [] requests[r].mode = "create" -> End(r, "ok")
         [] OTHER -> Go(r, "inspecting") /\ UNCHANGED lock
    /\ UNCHANGED <<made, worktrees, edits, faults>>

setLabels(r) ==
    /\ requests[r].stage = "labelling"
    /\ Alive(r)
    /\ boxes' = [boxes EXCEPT ![requests[r].box].label = requests[r].sha]
    /\ Go(r, "inspecting")
    /\ UNCHANGED <<made, lock, worktrees, edits, faults>>

\* overlayDirtyFiles: git status in the worktree, too many files are refused.
Inspect(r) ==
    /\ requests[r].stage = "inspecting"
    /\ LET wt == worktrees[requests[r].root]
           list == changed(wt.files, wt.head)
       IN  IF Cardinality(list) > DIRTY_FILE_LIMIT THEN End(r, "failed")
           ELSE /\ requests' = [requests EXCEPT ![r].stage = "overlaying", ![r].list = list]
                /\ UNCHANGED lock
    /\ UNCHANGED <<boxes, made, worktrees, edits, faults>>

\* The files that were dirty are sent as they are now, and the lock is given back.
overlayDirtyFiles(r) ==
    /\ requests[r].stage = "overlaying"
    /\ Alive(r)
    /\ boxes' = [boxes EXCEPT ![requests[r].box].files = [f \in File |->
           IF f \in requests[r].list THEN worktrees[requests[r].root].files[f] ELSE @[f]]]
    /\ Go(r, "running")
    /\ lock' = released(r)
    /\ UNCHANGED <<made, worktrees, edits, faults>>

\* The command leaves a file of its sandbox different, or none, and its exit code; in a
\* sandbox that was never filled there is no repository, and the request fails.
execInSandboxStream(r, f, c, exit) ==
    /\ requests[r].stage = "running"
    /\ Alive(r)
    /\ boxes[requests[r].box].base = NoFiles => exit # 0
    /\ boxes' = [boxes EXCEPT ![requests[r].box].files[f] = c]
    /\ edits' = edits + 1
    /\ requests' = [requests EXCEPT ![r] =
           IF exit = 0 THEN [@ EXCEPT !.stage = "pulling"] ELSE Closed(@, "failed")]
    /\ UNCHANGED <<made, lock, worktrees, faults>>

\* What the sandbox's git status lists overwrites the worktree; nothing else does.
pullSandboxChanges(r) ==
    /\ requests[r].stage = "pulling"
    /\ lock[requests[r].root] = {}
    /\ Alive(r)
    /\ LET box == boxes[requests[r].box]
           status == parseGitStatus(box.files, box.base)
           list == status.uploads \cup status.deletes
       IN  IF Cardinality(list) > DIRTY_FILE_LIMIT THEN End(r, "failed") /\ UNCHANGED worktrees
           ELSE /\ worktrees' = [worktrees EXCEPT ![requests[r].root].files =
                       [f \in File |-> IF f \in list THEN box.files[f] ELSE @[f]]]
                /\ End(r, "ok")
    /\ edits' = edits + 1
    /\ UNCHANGED <<boxes, made, faults>>

\* Any call to git or Daytona fails: a sandbox that was being filled is deleted, if that
\* works; the command's failure is the answer of a stream that was already open.
CallFails(r, cleaned) ==
    /\ requests[r].stage \notin {"idle", "answered", "waiting"}
    /\ requests[r].stage = "filling" \/ ~cleaned
    /\ Fault
    /\ boxes' = IF cleaned THEN [i \in DOMAIN boxes \ {requests[r].box} |-> boxes[i]] ELSE boxes
    /\ End(r, "failed")
    /\ UNCHANGED <<made, worktrees, edits>>

\* The sandbox was stopped in the meantime: no call on it works.
Vanished(r) ==
    /\ requests[r].stage \in {"filling", "syncing", "labelling", "overlaying", "running", "pulling"}
    /\ ~Alive(r)
    /\ End(r, "failed")
    /\ UNCHANGED <<boxes, made, worktrees, edits, faults>>

\* remote-cli restarts: its requests and its locks are gone, Daytona's sandboxes are not.
CrashCli ==
    /\ Fault
    /\ requests' = [r \in Request |->
           IF requests[r].stage \in {"idle", "answered"} THEN requests[r]
           ELSE Closed(requests[r], "cut")]
    /\ lock' = [w \in Worktrees |-> {}]
    /\ UNCHANGED <<boxes, made, worktrees, edits>>

\* Ephemeral: Daytona removes a sandbox nothing has used for a quarter of an hour.
Expire(i) ==
    /\ i \in DOMAIN boxes
    /\ \A r \in Request : requests[r].stage \in {"idle", "answered"}
    /\ boxes' = [x \in DOMAIN boxes \ {i} |-> boxes[x]]
    /\ UNCHANGED <<requests, made, lock, worktrees, edits, faults>>

\* The agent writes a file, commits everything, or puts everything back.
Work(w, files, head) ==
    /\ edits < MaxEdits
    /\ worktrees' = [worktrees EXCEPT ![w] = [head |-> head, files |-> files]]
    /\ worktrees' # worktrees
    /\ edits' = edits + 1
    /\ UNCHANGED <<requests, boxes, made, lock, faults>>

Edit(w, f, c) == Work(w, [worktrees[w].files EXCEPT ![f] = c], worktrees[w].head)
Commit(w) == Work(w, worktrees[w].files, worktrees[w].files)
Restore(w) == Work(w, worktrees[w].head, worktrees[w].head)

SandboxNext ==
    \/ \E r \in Request :
         \/ \E form \in Forms : ReceiveSandbox(r, form)
         \/ FindToStop(r) \/ deleteSandbox(r)
         \/ Lock(r) \/ Find(r) \/ createSandbox(r) \/ bundleAndUpload(r) \/ setLabels(r)
         \/ Inspect(r) \/ overlayDirtyFiles(r)
         \/ \E f \in File, c \in {0, 1}, exit \in {0, 1} : execInSandboxStream(r, f, c, exit)
         \/ pullSandboxChanges(r) \/ Vanished(r)
         \/ \E cleaned \in BOOLEAN : CallFails(r, cleaned)
    \/ CrashCli
    \/ \E i \in 1..made : Expire(i)
    \/ \E w \in Worktrees : \/ \E f \in File, c \in {0, 1} : Edit(w, f, c)
                        \/ Commit(w) \/ Restore(w)

SandboxSpec == SandboxInit /\ [][SandboxNext]_sandboxVars

------------------------------------------------------------------------------
\* Two requests that come together, or one that comes after a crash or a failed clean-up
\* of another, never give a worktree two sandboxes (the lock around ensureSandbox).
OneSandboxPerWorktree ==
    \A i, j \in DOMAIN boxes : boxes[i].cwd = boxes[j].cwd => i = j

\* A command starts on the files of its worktree ("to match the local worktree's uncommitted
\* state", sandbox.ts:172): no other request is about, nothing has changed since the lock was
\* taken, and no command has failed, for "failed commands may leave partial artifacts".
OverlayMatches ==
    \A r \in Request :
        (/\ requests[r].stage = "running"
         /\ Alive(r)
         /\ requests[r].asOf = edits
         /\ faults = 0
         /\ \A q \in Request \ {r} : requests[q].stage = "idle" \/ requests[q].exit = "ok")
        => boxes[requests[r].box].files = worktrees[requests[r].root].files
==============================================================================
