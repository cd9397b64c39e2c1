------------------------------ MODULE GitPolicy ------------------------------
(***************************************************************************)
(* Which git commands an agent may run (policy-git.ts).  Each validator is *)
(* a predicate on the arguments, args[1] being the subcommand; what a      *)
(* denial says, its guidance, is left out.                                 *)
(***************************************************************************)
EXTENDS CommandArgs, Rules

CONSTANT RealPath      \* what a path resolves to, of the paths that exist

WorktreeRoot == <<"", "workspace", "worktrees">>
IsPathWithin(root, path) == IsPrefix(root, path)
PathExists(a) == a.flag = "" /\ a.word \in DOMAIN RealPath
IsAbsolute(w) == Len(w) > 1 /\ w[1] = ""

ReadOnly == {"status", "log", "diff", "show", "shortlog", "ls-files", "show-ref",
             "blame", "reflog", "grep", "for-each-ref", "cat-file", "name-rev",
             "describe", "rev-parse", "revert"}
Validated == {"merge-base", "branch", "remote", "fetch", "ls-remote", "tag", "stash",
              "restore", "add", "commit", "worktree", "push", "merge"}
Protected == {<<"main">>, <<"master">>}

validateMergeBase(args) ==
    \/ Len(args) = 3 /\ ~Dashed(args[2]) /\ ~Dashed(args[3])
    \/ Len(args) = 4 /\ args[2] = Flag("--is-ancestor") /\ ~Dashed(args[3]) /\ ~Dashed(args[4])
    \/ /\ Len(args) \in {3, 4}
       /\ args[2] = Flag("--fork-point")
       /\ \A i \in 3..Len(args) : ~Dashed(args[i])

BranchFlags == Flags([all |-> {"-a", "--all"}, list |-> {"--list"}], NoFlags)
validateBranch(args) ==
    LET scan == scanPolicyArgs(args, 2, BranchFlags)
        Count(name) == booleanFlagCount(scan, name)
    IN  \/ args = <<Word(<<"branch">>), Flag("--show-current")>>
        \/ /\ scan.ok
           /\ Count("all") <= 1 /\ Count("list") <= 1 /\ Len(scan.words) <= 1
           /\ Count("list") = 0 => scan.words = <<>> /\ Count("all") = 1

validateRemote(args) ==
    Tail(args) \in {<<>>, <<Flag("-v")>>, <<Flag("--verbose")>>,
                    <<Word(<<"show">>), Word(<<"origin">>)>>,
                    <<Word(<<"get-url">>), Word(<<"origin">>)>>}

FetchFlags == Flags([prune |-> {"--prune", "-p"}, tags |-> {"--tags", "-t"},
                     no_tags |-> {"--no-tags"}, all |-> {"--all"}],
                    [depth |-> {"--depth"}])
validateFetch(args) ==
    LET scan   == scanPolicyArgs(args, 2, FetchFlags)
        depths == valueFlagValues(scan, "depth")
    IN  /\ Len(args) >= 2
        /\ scan.ok
        /\ booleanFlagCount(scan, "tags") = 0 \/ booleanFlagCount(scan, "no_tags") = 0
        /\ Len(depths) <= 1
        /\ \A i \in DOMAIN depths : IsNumber(depths[i]) /\ ~IsWord(depths[i], <<"0">>)
        /\ IF booleanFlagCount(scan, "all") > 0
           THEN scan.words = <<>>
           ELSE scan.words # <<>> /\ scan.words[1] = <<"origin">>

\* The flags before the separator: any --staged, at most one --source.
RestoreArg(seen, a) ==
    IF seen.past THEN [seen EXCEPT !.paths = @ + 1]
    ELSE IF seen.open THEN [seen EXCEPT !.open = FALSE, !.ok = @ /\ ~Empty(a)]
    ELSE CASE a = Flag("--") -> [seen EXCEPT !.past = TRUE]
           [] a \in {Flag("--staged"), Flag("-S")} -> seen
           [] a = Flag("--source") ->
                [seen EXCEPT !.open = TRUE, !.ok = @ /\ ~seen.source, !.source = TRUE]
           [] a.flag = "--source" /\ a.inline ->
                [seen EXCEPT !.ok = @ /\ ~seen.source /\ a.word # <<>>, !.source = TRUE]
           [] OTHER -> [seen EXCEPT !.ok = FALSE]
validateRestore(args) ==
    LET seen == FoldLeft(RestoreArg,
                         [ok |-> TRUE, past |-> FALSE, open |-> FALSE, source |-> FALSE, paths |-> 0],
                         Tail(args))
    IN  seen.ok /\ seen.past /\ seen.paths > 0

validateAdd(args) ==
    \/ args = <<Word(<<"add">>), Flag("-A")>>
    \/ Len(args) >= 2 /\ \A i \in 2..Len(args) : ~Dashed(args[i])

CommitFlags == Flags(NoFlags, [message |-> {"-m", "--message"}, file |-> {"-F", "--file"}])
validateCommit(args) ==
    LET scan  == scanPolicyArgs(args, 2, CommitFlags)
        Given(name) == Len(valueFlagValues(scan, name))
    IN  /\ scan.ok /\ scan.words = <<>>
        /\ \/ Given("message") > 0 /\ Given("file") = 0
           \/ Given("message") = 0 /\ Given("file") = 1

isValidWorktreeBranchPathPart(w) == w # <<>> /\ \A i \in DOMAIN w : w[i] \notin {"", ".."}

\* The branch a worktree path names: what follows /workspace/worktrees/<repo>/.
parseWorktreeAddBranchFromPath(w) ==
    LET branch == Rest(w, 5)
    IN  IF /\ IsPathWithin(WorktreeRoot, w) /\ Len(w) >= 5
           /\ \A i \in 4..Len(w) : w[i] \notin {"", ".", ".."}
        THEN branch ELSE <<>>

WorktreeAddFlags == Flags(NoFlags, [branch |-> {"-b"}])
validateWorktreeAdd(args) ==
    LET scan == scanPolicyArgs(args, 3, WorktreeAddFlags)
        new  == valueFlagValues(scan, "branch")
        Names(branch, path) ==
            /\ isValidWorktreeBranchPathPart(branch.word) /\ ~Dashed(branch)
            /\ parseWorktreeAddBranchFromPath(path) = branch.word
    IN  /\ Len(args) \in 4..6
        /\ scan.ok
        /\ \/ Len(new) = 1 /\ Len(scan.words) \in 1..2 /\ Names(new[1], scan.words[1])
           \/ Len(new) = 0 /\ Len(scan.words) = 2 /\ Names(Word(scan.words[2]), scan.words[1])

validateWorktree(args) ==
    /\ Len(args) >= 2
    /\ CASE IsWord(args[2], <<"add">>)  -> validateWorktreeAdd(args)
         [] IsWord(args[2], <<"list">>) ->
              Rest(args, 3) \in {<<>>, <<Flag("--porcelain")>>}
         [] IsWord(args[2], <<"remove">>) ->
              /\ Len(args) = 3 /\ IsAbsolute(args[3].word) /\ PathExists(args[3])
              /\ IsPathWithin(WorktreeRoot, RealPath[args[3].word])
              /\ RealPath[args[3].word] # WorktreeRoot
         [] IsWord(args[2], <<"prune">>) ->
              Rest(args, 3) \in {<<>>, <<Flag("--dry-run")>>, <<Flag("-n")>>}
         [] OTHER -> FALSE

RefspecPrefix == <<"HEAD:refs", "heads">>
WithColon == {"b:feat", "HEAD:feat"}
validatePushRefspec(w) ==
    LET branch == Rest(w, 3)
    IN  /\ IsPrefix(RefspecPrefix, w)
        /\ branch \notin Protected \cup {<<>>, <<"">>}
        /\ \A i \in DOMAIN branch : branch[i] \notin WithColon

PushFlags == Flags([dry_run |-> {"--dry-run"}, upstream |-> {"-u", "--set-upstream"}], NoFlags)
validatePush(args) ==
    LET scan == scanPolicyArgs(args, 2, PushFlags)
    IN  /\ scan.ok
        /\ booleanFlagCount(scan, "dry_run") <= 1 /\ booleanFlagCount(scan, "upstream") <= 1
        /\ Len(scan.words) = 2
        /\ scan.words[1] = <<"origin">>
        /\ validatePushRefspec(scan.words[2])

validateMerge(args) == Flag("--no-verify") \notin Range1(args)

validateLsRemote(args) ==
    LET names == Undashed(args, 2)
    IN  names # <<>> /\ names[1] = Word(<<"origin">>)

Lists == {Flag("-l"), Flag("--list")}
validateTag(args) ==
    \A i \in 2..Len(args) :
        IF Dashed(args[i]) THEN args[i] \in Lists \cup {Flag("-n"), Flag("-n5")}
                           ELSE Range1(args) \cap Lists # {}

validateStash(args) == Len(args) >= 2 /\ args[2] \in {Word(<<"list">>), Word(<<"show">>)}

\* Every subcommand that is not listed is denied, checkout, switch and pull too.
Subcommand(args) == IF Positional(args[1]) /\ Len(args[1].word) = 1 THEN args[1].word[1] ELSE ""
resolveGitArgs(args) ==
    /\ args # <<>>
    /\ \/ args = <<Flag("--version")>>
       \/ Subcommand(args) \in ReadOnly
       \/ /\ Subcommand(args) \in Validated
          /\ CASE Subcommand(args) = "merge-base" -> validateMergeBase(args)
               [] Subcommand(args) = "branch"     -> validateBranch(args)
               [] Subcommand(args) = "remote"     -> validateRemote(args)
               [] Subcommand(args) = "fetch"      -> validateFetch(args)
               [] Subcommand(args) = "ls-remote"  -> validateLsRemote(args)
               [] Subcommand(args) = "tag"        -> validateTag(args)
               [] Subcommand(args) = "stash"      -> validateStash(args)
               [] Subcommand(args) = "restore"    -> validateRestore(args)
               [] Subcommand(args) = "add"        -> validateAdd(args)
               [] Subcommand(args) = "commit"     -> validateCommit(args)
               [] Subcommand(args) = "worktree"   -> validateWorktree(args)
               [] Subcommand(args) = "push"       -> validatePush(args)
               [] OTHER                           -> validateMerge(args)
=============================================================================
