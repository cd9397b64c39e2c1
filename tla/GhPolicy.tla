------------------------------- MODULE GhPolicy -------------------------------
(***************************************************************************)
(* Which gh commands an agent may run (policy-gh.ts), and which commands   *)
(* of the smaller tools (policy.ts).                                       *)
(***************************************************************************)
EXTENDS CommandArgs, FiniteSets

CONSTANTS Origin,        \* the host, owner and repo of origin, by checkout path
          Schemas        \* METABASE_ALLOWED_SCHEMAS

Help == {Flag("-h"), Flag("--help")}
IsHelp(args) ==
    \/ args # <<>> /\ args[1] = Word(<<"help">>)
    \/ Len(args) \in 1..3 /\ args[Len(args)] \in Help

ghCommandKey(args) ==
    IF args[1] = Word(<<"api">>) THEN <<"api">>
    ELSE IF Len(args) >= 2 /\ ~Dashed(args[2]) THEN args[1].word \o args[2].word
    ELSE <<>>

AnyArguments == {<<"cache", "list">>, <<"search", "prs">>, <<"search", "issues">>,
                 <<"search", "repos">>, <<"search", "code">>, <<"pr", "view">>,
                 <<"pr", "list">>, <<"pr", "status">>, <<"pr", "checks">>,
                 <<"issue", "list">>, <<"label", "list">>, <<"release", "list">>,
                 <<"repo", "view">>, <<"run", "list">>, <<"workflow", "list">>}
ByNumber == {<<"issue", "view">>, <<"run", "view">>, <<"run", "watch">>}
BySelector == {<<"workflow", "view">>, <<"release", "view">>}

HasRepoOverride(args) == \E i \in DOMAIN args : args[i].flag \in {"-R", "--repo"}

WithNumber(args) == Len(args) >= 3 /\ IsNumber(args[3])
WithSelector(args) == Len(args) >= 3 /\ ~Dashed(args[3])

\* A scan from `from` that leaves no word over, and how often a flag is given.
Given(scan, name) == Len(valueFlagValues(scan, name))
Only(scan) == scan.ok /\ scan.words = <<>>

WorktreePrefix == <<"", "workspace", "worktrees">>
branchFromCwd(cwd) == IF IsPrefix(WorktreePrefix, cwd) THEN Rest(cwd, 5) ELSE <<>>

ProtectedHeads == {<<"main">>, <<"master">>}
CreateFlags == Flags([draft |-> {"--draft"}, fill |-> {"--fill"}],
                     [title |-> {"-t", "--title"}, body |-> {"-b", "--body"},
                      base |-> {"-B", "--base"}, head |-> {"-H", "--head"},
                      label |-> {"-l", "--label"}, assignee |-> {"-a", "--assignee"},
                      reviewer |-> {"-r", "--reviewer"}])
validateGhPrCreateArgs(args, cwd) ==
    LET scan  == scanPolicyArgs(args, 3, CreateFlags)
        heads == valueFlagValues(scan, "head")
    IN  /\ Only(scan)
        /\ Given(scan, "body") = 1 /\ Given(scan, "title") > 0
        /\ booleanFlagCount(scan, "fill") = 0
        /\ Len(heads) <= 1
        /\ \A i \in DOMAIN heads :
              /\ ~Dashed(heads[i]) /\ heads[i].word \notin ProtectedHeads \cup {<<>>}
              /\ heads[i].word = branchFromCwd(cwd)

BodyFlag == Flags(NoFlags, [body |-> {"-b", "--body"}])
validateGhPrCommentArgs(args) ==
    LET scan == scanPolicyArgs(args, 4, BodyFlag)
    IN  WithNumber(args) /\ Only(scan) /\ Given(scan, "body") = 1

ReviewFlags == Flags([comment |-> {"-c", "--comment"}, changes |-> {"-r", "--request-changes"}],
                     [body |-> {"-b", "--body"}])
validateGhPrReviewArgs(args) ==
    LET selected == Len(args) >= 3 /\ ~Dashed(args[3])
        scan == scanPolicyArgs(args, IF selected THEN 4 ELSE 3, ReviewFlags)
    IN  /\ selected => IsNumber(args[3])
        /\ Only(scan) /\ Given(scan, "body") = 1
        /\ (booleanFlagCount(scan, "comment") > 0) # (booleanFlagCount(scan, "changes") > 0)

RerunFlags == Flags([failed |-> {"--failed"}, debug |-> {"--debug"}], NoFlags)
validateGhRunRerunArgs(args) == WithNumber(args) /\ Only(scanPolicyArgs(args, 4, RerunFlags))

DownloadFlags == Flags(NoFlags, [dir |-> {"-D", "--dir"}, name |-> {"-n", "--name"},
                                 pattern |-> {"-p", "--pattern"}])
validateGhRunDownloadArgs(args) ==
    LET scan == scanPolicyArgs(args, 4, DownloadFlags)
    IN  WithNumber(args) /\ Only(scan) /\ Given(scan, "dir") <= 1

WorkflowFlags == Flags(NoFlags, [ref |-> {"--ref", "-r"},
                                 field |-> {"-f", "--raw-field", "-F", "--field"}])
validateGhWorkflowRunArgs(args) ==
    LET scan == scanPolicyArgs(args, 4, WorkflowFlags)
    IN  WithSelector(args) /\ Only(scan) /\ Given(scan, "ref") <= 1

\* /?repos/<owner>/<repo>/pulls/<n>/comments/<n>/replies; the owner and the repo
\* may be gh's placeholders.
Endpoint(w) == IF w # <<>> /\ w[1] = "" THEN Tail(w) ELSE w
IsReviewReply(w) ==
    /\ Len(Endpoint(w)) = 8
    /\ Endpoint(w)[1] = "repos" /\ Endpoint(w)[4] = "pulls"
    /\ Endpoint(w)[6] = "comments" /\ Endpoint(w)[8] = "replies"
    /\ <<Endpoint(w)[5]>> \in Numbers /\ <<Endpoint(w)[7]>> \in Numbers
OfCurrentRepo(w) == <<Endpoint(w)[2], Endpoint(w)[3]>> = <<"{owner}", "{repo}">>

ReplyFlags == Flags(NoFlags, [method |-> {"--method", "-X"}, field |-> {"-f", "--raw-field"}])
validateGhApiReviewReplyArgs(args) ==
    LET scan == scanPolicyArgs(args, 3, ReplyFlags)
    IN  /\ Only(scan)
        /\ valueFlagValues(scan, "method") = <<Word(<<"POST">>)>>
        /\ Given(scan, "field") = 1
        /\ LET field == valueFlagValues(scan, "field")[1]
           IN  IsBodyField(field) /\ field.word \notin Blank

validateGhApiExplicitReviewReplyArgs(args, cwd) ==
    /\ validateGhApiReviewReplyArgs(args)
    /\ cwd \in DOMAIN Origin
    /\ Origin[cwd] = <<"github.com", Endpoint(args[2].word)[2], Endpoint(args[2].word)[3]>>

ReadFlags == Flags([include |-> {"--include", "-i"}, silent |-> {"--silent"},
                    paginate |-> {"--paginate"}],
                   [jq |-> {"--jq", "-q"}, template |-> {"--template", "-t"}])
validateGhApiArgs(args, cwd) ==
    /\ Len(args) >= 2 /\ ~Dashed(args[2]) /\ args[2].word \notin {<<>>, <<"graphql">>}
    /\ IF ~IsReviewReply(args[2].word) THEN Only(scanPolicyArgs(args, 3, ReadFlags))
       ELSE IF OfCurrentRepo(args[2].word) THEN validateGhApiReviewReplyArgs(args)
       ELSE validateGhApiExplicitReviewReplyArgs(args, cwd)

validateGhArgs(args, cwd) ==
    \/ args = <<>>
    \/ args = <<Flag("--version")>>
    \/ IsHelp(args)
    \/ /\ ~HasRepoOverride(args)
       /\ LET key == ghCommandKey(args)
          IN  \/ key \in AnyArguments
              \/ key = <<"api">> /\ validateGhApiArgs(args, cwd)
              \/ key = <<"auth", "status">> /\ Len(args) = 2
              \/ key = <<"pr", "create">> /\ validateGhPrCreateArgs(args, cwd)
              \/ key = <<"pr", "comment">> /\ validateGhPrCommentArgs(args)
              \/ key = <<"pr", "review">> /\ validateGhPrReviewArgs(args)
              \/ key \in ByNumber /\ WithNumber(args)
              \/ key \in BySelector /\ WithSelector(args)
              \/ key = <<"run", "rerun">> /\ validateGhRunRerunArgs(args)
              \/ key = <<"run", "download">> /\ validateGhRunDownloadArgs(args)
              \/ key = <<"workflow", "run">> /\ validateGhWorkflowRunArgs(args)

-----------------------------------------------------------------------------
\* policy.ts: the tools with a table of subcommands.

validateScoutqaArgs(args) ==
    /\ args # <<>>
    /\ \/ args[1].word \in {<<"create-execution">>, <<"send-message">>,
                            <<"list-executions">>, <<"complete-execution">>}
       \/ args[1].word = <<"auth">> /\ Len(args) > 1 /\ args[2].word = <<"status">>

Actions3 == {Word(<<"list">>), Word(<<"get">>), Flag("--help")}
LangfuseDenied == {"--config", "--output", "--output-file", "--curl", "--env",
                   "--public-key", "--secret-key", "--host"}
validateLangfuseArgs(args) ==
    /\ Len(args) >= 2 /\ args[1] = Word(<<"api">>)
    /\ \/ args[2] = Word(<<"__schema">>) /\ Len(args) = 2
       \/ /\ args[2].word \in {<<"traces">>, <<"sessions">>, <<"observations">>,
                               <<"metrics">>, <<"models">>, <<"prompts">>}
          /\ Len(args) >= 3 /\ args[3] \in Actions3
          /\ \A i \in DOMAIN args : args[i].flag \notin LangfuseDenied

LdcliDenied == {"--access-token", "--config", "--data", "--data-file", "--output-file", "--curl"}
\* hasOptionValue: the first occurrence decides.
HasOption(args, f) ==
    \E i \in DOMAIN args :
       /\ args[i].flag = f
       /\ \A j \in 1..i-1 : args[j].flag # f
       /\ IF args[i].inline THEN args[i].word # <<>>
          ELSE i < Len(args) /\ ~Dashed(args[i+1]) /\ ~Empty(args[i+1])
validateLdcliArgs(args) ==
    /\ Len(args) >= 2
    /\ args[1].word \in {<<"flags">>, <<"environments">>, <<"projects">>,
                         <<"segments">>, <<"metrics">>}
    /\ args[2] \in Actions3
    /\ ~(args[1].word = <<"metrics">> /\ args[2] = Word(<<"get">>))
    /\ \A i \in DOMAIN args : args[i].flag \notin LdcliDenied
    /\ \/ Range1(args) \cap Help # {}
       \/ args[1].word = <<"projects">>
       \/ HasOption(args, "--project")

QuestionRefs == {<<"7">>, <<"12">>, <<"7-daily">>}
InSchemas(a) == Schemas = {} \/ a.word \in Schemas
validateMetabaseArgs(args) ==
    LET Is(name, n) == args[1].word = <<name>> /\ Len(args) = n
    IN  /\ args # <<>>
        /\ \/ Is("schemas", 1)
           \/ Is("tables", 2) /\ InSchemas(args[2])
           \/ Is("columns", 3) /\ InSchemas(args[2])
           \/ Is("query", 2)
           \/ Is("question", 2) /\ args[2].word \in QuestionRefs
=============================================================================
