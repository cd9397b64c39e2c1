----------------------------- MODULE CommandExec -----------------------------
(***************************************************************************)
(* The /exec endpoints of remote-cli: an agent's command is refused by its *)
(* policy, or made what is really run (a disclaimer in what gh posts, JSON *)
(* output), then run, and what a git push, a new worktree or a Slack post  *)
(* makes is bound to the session's anchor.                                 *)
(***************************************************************************)
EXTENDS GitPolicy, GhPolicy

CONSTANTS Requests,      \* what may be asked: tool, args, cwd and session
          Usable,        \* sessions with a live binding
          Triggered      \* sessions with exactly one trigger in flight

ASSUME ExecAssumption == \A r \in Requests : r.args \in Seq(Arg)

VARIABLES request,       \* the one being handled
          stage,         \* received, running, answered
          ran,           \* the arguments the program was given, of a run
          exit,          \* "none" until there is one: 0, refused, or failed
          bound          \* the correlation keys bound to the session's anchor

execVars == <<request, stage, ran, exit, bound>>

inferRepoFromPath(cwd) ==
    IF Len(cwd) >= 4 /\ cwd[2] = "workspace" /\ cwd[3] \in {"repos", "worktrees"}
    THEN cwd[4] ELSE ""

validateCwd(cwd) ==
    /\ cwd \in DOMAIN RealPath
    /\ \/ IsPathWithin(<<"", "workspace", "repos">>, RealPath[cwd])
       \/ IsPathWithin(WorktreeRoot, RealPath[cwd])

-----------------------------------------------------------------------------
\* Footers of gh bodies.

Footer == "footer"
HasFooter(a) == a.word # <<>> /\ Last(a.word) = Footer

\* Where rewriteSingleValueFlag finds a body: the positions of the values of the
\* flags `names`, or of those that give the field "body".  It knows no other flag,
\* and so takes the value of another flag for a flag when it is spelt like one.
BodyValue(a, field) == field => IsBodyField(a)
BodyArg(args, names, field, seen, i) ==
    IF seen.skip THEN [seen EXCEPT !.skip = FALSE]
    ELSE IF args[i].flag \notin names THEN seen
    ELSE IF ~args[i].inline /\ i < Len(args) /\ BodyValue(args[i+1], field)
    THEN [skip |-> TRUE, at |-> Append(seen.at, i + 1)]
    ELSE IF args[i].inline /\ BodyValue(Word(args[i].word), field)
    THEN [seen EXCEPT !.at = Append(@, i)]
    ELSE seen
BodySeen(args, names, field) ==
    LET seen[i \in 0..Len(args)] ==
            IF i = 0 THEN [skip |-> FALSE, at |-> <<>>]
            ELSE LET before == seen[i-1] IN BodyArg(args, names, field, before, i)
    IN  seen
BodyAt(args, names, field) == BodySeen(args, names, field)[Len(args)].at

\* An argument that speaks of replies to a review comment, an endpoint or not.
SpeaksOfReplies(w) ==
    \E k \in 1..Len(w) - 4 :
        /\ w[k] = "pulls" /\ w[k+2] = "comments" /\ w[k+4] = "replies"
        /\ <<w[k+1]>> \in Numbers /\ <<w[k+3]>> \in Numbers
WritesPr(args) ==
    /\ Len(args) >= 2 /\ args[1] = Word(<<"pr">>)
    /\ args[2] \in {Word(<<"create">>), Word(<<"comment">>), Word(<<"review">>)}
Writes(args) ==
    \/ WritesPr(args)
    \/ args # <<>> /\ args[1] = Word(<<"api">>) /\ \E i \in DOMAIN args : SpeaksOfReplies(args[i].word)

\* Mutant of rewriteSingleValueFlag: an inline body is taken for a flag.
SignsNextArgument(args, at) ==
    [args EXCEPT ![IF args[at[1]].inline /\ at[1] < Len(args) THEN at[1] + 1 ELSE at[1]].word =
       Append(@, Footer)]
rewriteSingleValueFlag(args, at) == [args EXCEPT ![at[1]].word = Append(@, Footer)]

\* withGhDisclaimer: the arguments with the footer, or none if one is needed and
\* the session has no trigger to point at, or no single body.
NoArgs == <<Flag("no arguments")>>
withGhDisclaimer(args, session) ==
    LET at == IF args[1] = Word(<<"api">>)
              THEN BodyAt(args, {"-f", "--raw-field"}, TRUE)
              ELSE BodyAt(args, {"--body", "-b"}, FALSE)
    IN  IF IsHelp(args) \/ ~Writes(args) THEN args
        ELSE IF session \notin Triggered \/ Len(at) # 1 THEN NoArgs
        ELSE rewriteSingleValueFlag(args, at)

-----------------------------------------------------------------------------
\* slack-post-message: its arguments, and where the post goes.

PostFlags == Flags(NoFlags, [channel |-> {"--channel"}, thread |-> {"--thread-ts"},
                             blocks |-> {"--blocks-file"}])
BlocksRoots == {<<"", "tmp">>, <<"", "workspace">>}
parseSlackPostMessageArgs(args) ==
    LET scan == scanPolicyArgs(args, 1, PostFlags)
    IN  /\ Only(scan)
        /\ Given(scan, "channel") > 0
        /\ \A n \in DOMAIN scan.values : \A i \in DOMAIN scan.values[n] : ~Empty(scan.values[n][i])
\* resolveBlocksFilePath: before and after its links are followed.
Readable(path) ==
    /\ \E root \in BlocksRoots : IsPathWithin(root, path)
    /\ path \in DOMAIN RealPath
    /\ \E root \in BlocksRoots : IsPathWithin(root, RealPath[path])
\* Of a flag that is given again, the last value counts.
Choice(args, name) ==
    LET given == valueFlagValues(scanPolicyArgs(args, 1, PostFlags), name)
    IN  IF given = <<>> THEN Word(<<>>) ELSE Last(given)

-----------------------------------------------------------------------------
Allowed(r) ==
    CASE r.tool = "git"      -> validateCwd(r.cwd) /\ resolveGitArgs(r.args)
      [] r.tool = "gh"       -> /\ validateCwd(r.cwd) /\ validateGhArgs(r.args, r.cwd)
                                /\ r.args # <<>> => withGhDisclaimer(r.args, r.session) # NoArgs
      [] r.tool = "scoutqa"  -> validateScoutqaArgs(r.args)
      [] r.tool = "langfuse" -> validateLangfuseArgs(r.args)
      [] r.tool = "ldcli"    -> validateLdcliArgs(r.args)
      [] r.tool = "metabase" -> validateMetabaseArgs(r.args)
      [] r.tool = "post"     -> /\ r.session \in Usable
                                /\ parseSlackPostMessageArgs(r.args)
                                /\ LET blocks == Choice(r.args, "blocks")
                                   IN  Empty(blocks) \/ Readable(IF IsAbsolute(blocks.word)
                                                                  THEN blocks.word
                                                                  ELSE r.cwd \o blocks.word)

HasOutput(args) ==
    \E i \in DOMAIN args :
       \/ args[i] = Flag("--json")
       \/ args[i].flag = "--output" /\ (args[i].inline \/ (i < Len(args) /\ ~Empty(args[i+1])))

effectiveArgs(r) ==
    CASE r.tool = "gh" /\ r.args # <<>> -> withGhDisclaimer(r.args, r.session)
      [] r.tool = "langfuse" /\ Len(r.args) >= 3
         /\ r.args[3] \in {Word(<<"list">>), Word(<<"get">>)}
         /\ Flag("--json") \notin Range1(r.args) -> Append(r.args, Flag("--json"))
      [] r.tool = "ldcli" /\ ~HasOutput(r.args) ->
            r.args \o <<Flag("--output"), Word(<<"json">>)>>
      [] OTHER -> r.args

\* extractBranchFromGitArgs, of the subcommands the policy lets through.
StripPrefix(prefix, w) == IF IsPrefix(prefix, w) THEN Rest(w, Len(prefix) + 1) ELSE w
AfterColon(w) == IF w # <<>> /\ w[1] = "HEAD:refs" THEN <<"refs">> \o Tail(w) ELSE w
\* Mutant of extractBranchFromGitArgs: a slash in a branch ends it.
LastPartBranch(args) ==
    LET words == Undashed(args, 2)
    IN  IF Subcommand(args) \in {"push", "worktree"} /\ Len(words) >= 2
           /\ Last(words).word # <<>>
        THEN <<Last(Last(words).word)>> ELSE <<>>
extractBranchFromGitArgs(args) ==
    LET names == Undashed(args, 2)
        words == Undashed(args, 3)
        news  == {i \in 3..Len(args) : args[i] \in {Flag("-b"), Flag("-B")}}
        first == CHOOSE i \in news : \A j \in news : i <= j
    IN  IF Subcommand(args) = "push" /\ Len(names) >= 2
        THEN StripPrefix(<<"refs", "heads">>, AfterColon(Last(names).word))
        ELSE IF Subcommand(args) = "worktree" /\ Len(args) >= 2 /\ IsWord(args[2], <<"add">>)
        THEN IF news # {} THEN (IF first < Len(args) THEN args[first + 1].word ELSE <<>>)
             ELSE IF Len(words) > 1 THEN StripPrefix(<<"origin">>, words[2].word)
             ELSE IF Len(words) = 1 THEN <<Last(words[1].word)>> ELSE <<>>
        ELSE <<>>

computeGitCorrelationKey(args, cwd) ==
    LET branch == extractBranchFromGitArgs(args)
    IN  IF branch = <<>> \/ inferRepoFromPath(cwd) = "" THEN {}
        ELSE {<<"git", inferRepoFromPath(cwd), branch>>}

-----------------------------------------------------------------------------
ExecInit ==
    /\ request \in Requests
    /\ stage = "received"
    /\ ran = NoArgs
    /\ exit = "none"
    /\ bound = {}

\* A refusal is a 400: for the directory, the arguments, the session or the body.
Receive ==
    /\ stage = "received"
    /\ IF Allowed(request)
       THEN stage' = "running" /\ ran' = effectiveArgs(request) /\ exit' = exit
       ELSE stage' = "answered" /\ exit' = "refused" /\ ran' = ran
    /\ UNCHANGED <<request, bound>>

\* The program ends with an exit code, is killed after a minute, or Slack refuses
\* the post: nothing is bound, whatever it did before.
Fail ==
    /\ stage = "running"
    /\ stage' = "answered"
    /\ exit' = "failed"
    /\ UNCHANGED <<request, ran, bound>>

\* Exit code 0.  Binding the key may fail, which is logged and not answered.
NewThread == <<"slack", "new">>
KeyOf(r) ==
    CASE r.tool = "git"  -> computeGitCorrelationKey(ran, r.cwd)
      [] r.tool = "post" -> {IF Empty(Choice(r.args, "thread")) THEN NewThread
                             ELSE <<"slack", Choice(r.args, "thread")>>}
      [] OTHER           -> {}
Succeed ==
    /\ stage = "running"
    /\ stage' = "answered"
    /\ exit' = "0"
    /\ bound' \in {bound, bound \cup (IF request.session \in Usable THEN KeyOf(request) ELSE {})}
    /\ UNCHANGED <<request, ran>>

ExecNext == Receive \/ Fail \/ Succeed
ExecSpec == ExecInit /\ [][ExecNext]_execVars

-----------------------------------------------------------------------------
\* Properties

\* The commands of gh that post text of the agent's.
Posts(args) ==
    \/ WritesPr(args)
    \/ Len(args) >= 2 /\ args[1] = Word(<<"api">>) /\ IsReviewReply(args[2].word)

\* The flags gh takes with such a command, and where they begin.
GhFlags(args) ==
    IF args[1] = Word(<<"api">>) THEN ReplyFlags
    ELSE IF args[2] = Word(<<"create">>) THEN CreateFlags
    ELSE IF args[2] = Word(<<"review">>) THEN ReviewFlags ELSE BodyFlag
GhFrom(args) == IF args[1] = Word(<<"pr">>) /\ Len(args) >= 3 /\ ~Dashed(args[3]) THEN 4 ELSE 3

\* What gh takes for the text.
GhBody(args) ==
    LET scan == scanPolicyArgs(args, GhFrom(args), GhFlags(args))
    IN  valueFlagValues(scan, "body") \o valueFlagValues(scan, "field")

\* Where gh takes an argument for the value of a flag that is not the body's, it is
\* spelt as that flag is.
SpeltLikeBody(args) ==
    LET scan == Scans(args, GhFrom(args), GhFlags(args))
    IN  \E i \in 1..Len(args) : /\ scan[i-1].open \notin {"", "body"}
                               /\ args[i].flag \in {"--body", "-b"}

\* Everything gh posts for an agent ends with the disclaimer: the policy that counts
\* the bodies and the rewriting that looks for one again, by the spelling of the
\* flags alone, agree on which argument is the body, unless what the command takes for
\* the value of another flag, as in gh pr create --title --body, is itself spelt --body
\* or -b (index.ts:140, policy-gh.ts:277).
DisclaimerPlaced ==
    request.tool = "gh" /\ stage = "running" /\ ~IsHelp(request.args) /\ Posts(request.args)
    /\ ~SpeltLikeBody(request.args)
        => Len(GhBody(ran)) = 1 /\ HasFooter(GhBody(ran)[1])

\* What the branch key of a push or of a new worktree is computed from, the raw
\* arguments, and what the policy accepted, a scan of them, name the same branch:
\* later events of that branch find this session (correlation.ts:37).
BranchMade(args) ==
    LET scan == scanPolicyArgs(args, 2, PushFlags)
        add  == scanPolicyArgs(args, 3, WorktreeAddFlags)
        new  == valueFlagValues(add, "branch")
    IN  IF Subcommand(args) = "push" THEN Rest(scan.words[2], 3)
        ELSE IF new # <<>> THEN new[1].word
        ELSE StripPrefix(<<"origin">>, add.words[2])
KeyIsBranch ==
    \A key \in bound :
       key[1] = "git" =>
          key = <<"git", inferRepoFromPath(request.cwd), BranchMade(request.args)>>
=============================================================================
