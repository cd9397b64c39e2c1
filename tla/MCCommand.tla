------------------------------ MODULE MCCommand ------------------------------
EXTENDS CommandExec
W(x) == Word(<<x>>)
Tree == <<"", "workspace", "worktrees", "kally", "feat">>
Deep == <<"", "workspace", "worktrees", "kally", "feat", "x">>
MCRealPath == Tree :> Tree @@ Deep :> Deep @@ <<"", "tmp", "b">> :> <<"", "tmp", "b">>
              @@ <<"", "tmp", "l">> :> <<"", "etc", "l">> @@ <<"", "etc">> :> <<"", "etc">>
              @@ WorktreeRoot :> WorktreeRoot
MCOrigin == Tree :> <<"github.com", "acme", "kally">>

\* Lines of at most n arguments from `alphabet`, after `head`.
Lines(head, alphabet, n) ==
    {head \o l : l \in UNION {[1..k -> alphabet] : k \in 0..n}}
Git == UNION {
  Lines(<<W("push")>>, {W("origin"), Flag("--dry-run"), Flag("-u"), Word(Dash), Flag("--force"),
        Word(<<"HEAD:refs", "heads", "feat">>), Word(<<"HEAD:refs", "heads", "feat", "x">>),
        Word(<<"HEAD:refs", "heads", "main">>), Word(<<"HEAD:refs", "heads", "b:feat">>)}, 3),
  Lines(<<W("worktree"), W("add")>>, {Word(Tree), Word(Deep), W("feat"), Word(<<"feat", "x">>),
        Flag("-b"), Word(<<"origin", "main">>), Word(<<"", "workspace", "worktrees", "kally", "origin", "main">>)}, 4),
  Lines(<<W("worktree")>>, {W("list"), W("remove"), W("prune"), Flag("--porcelain"), Flag("-n"),
        Word(Tree), Word(WorktreeRoot)}, 2),
  Lines(<<W("fetch")>>, {W("origin"), Flag("--all"), Flag("--tags"), Flag("--no-tags"),
        Flag("--depth"), W("7"), Inline("--depth", <<"0">>)}, 3),
  Lines(<<W("restore")>>, {Flag("--staged"), Flag("--source"), Inline("--source", <<"feat">>),
        Flag("--"), W("file")}, 4),
  Lines(<<W("commit")>>, {Flag("-m"), Flag("-F"), W("hi"), Inline("--message", <<"hi">>)}, 3),
  Lines(<<W("branch")>>, {Flag("--list"), Flag("-a"), Flag("--show-current"), W("feat")}, 2),
  Lines(<<W("tag")>>, {Flag("--list"), Flag("-n5"), W("v"), Flag("-d")}, 2),
  Lines(<<W("merge-base")>>, {Flag("--is-ancestor"), Flag("--fork-point"), W("a")}, 3),
  {<<W(c)>> \o t : c \in {"status", "remote", "ls-remote", "stash", "add", "merge", "pull", "checkout"},
       t \in {<<>>, <<W("origin")>>, <<W("list")>>, <<Flag("-v")>>, <<Flag("-A")>>, <<Flag("--no-verify")>>}},
  {<<>>, <<Flag("--version")>>, <<Flag("-c"), W("a")>>}}
ReplyPath == Word(<<"repos", "{owner}", "{repo}", "pulls", "7", "comments", "12", "replies">>)
ReplyPathOf(o) == Word(<<"", "repos", o, "kally", "pulls", "7", "comments", "12", "replies">>)
Gh == UNION {
  Lines(<<W("pr"), W("create")>>, {Flag("-t"), Flag("--body"), Flag("-b"), W("hi"), Flag("--fill"),
        Inline("--title", <<"hi">>), Inline("--body", <<"hi">>), Inline("--head", <<"feat">>)}, 4),
  Lines(<<W("pr"), W("comment")>>, {W("7"), Flag("--body"), Flag("-b"), W("hi"),
        Inline("--body", <<"hi">>), Inline("--body", <<>>)}, 3),
  Lines(<<W("pr"), W("review")>>, {W("7"), Flag("-c"), Flag("-r"), Flag("--body"), W("hi")}, 4),
  Lines(<<W("api"), ReplyPath>>, {Flag("-X"), Flag("-f"), W("POST"), W("body=hi"), W("body="),
        Inline("--method", <<"POST">>)}, 4),
  {<<W("api"), ReplyPathOf(o), Inline("--method", <<"POST">>), Flag("-f"), W("body=hi")>> : o \in {"acme", "else"}},
  Lines(<<W("run"), W("rerun")>>, {W("7"), Flag("--failed"), W("x")}, 2),
  {<<W(c), W(d)>> \o t :
      c \in {"run", "workflow", "release", "auth", "issue", "api"},
      d \in {"view", "run", "download", "status", "repos", "create"},
      t \in {<<>>, <<W("7")>>, <<Flag("--help")>>, <<Flag("-R"), W("x")>>, <<W("7"), Flag("--ref"), W("b")>>}},
  {<<>>, <<Flag("--version")>>, <<W("help")>>}}
Small ==
  {[tool |-> t, args |-> a, cwd |-> Tree, session |-> "s"] :
     t \in {"scoutqa", "langfuse", "ldcli", "metabase"},
     a \in Lines(<<>>, {W("api"), W("traces"), W("list"), W("metrics"), W("get"), W("auth"), W("status"),
                        W("tables"), Flag("--project"), Flag("--config"), Flag("--help")}, 3)}
PostLines == {[tool |-> "post", args |-> a, cwd |-> Tree, session |-> s] : s \in {"s", "none"},
     a \in Lines(<<>>, {Inline("--channel", <<"C">>), Flag("--thread-ts"), W("t1"), Flag("--channel"),
              Inline("--blocks-file", <<"", "tmp", "b">>), Inline("--blocks-file", <<"", "tmp", "l">>)}, 3)}
MCRequests ==
  {[tool |-> "git", args |-> a, cwd |-> Tree, session |-> "s"] : a \in Git}
  \cup {[tool |-> "gh", args |-> a, cwd |-> Tree, session |-> "s"] : a \in Gh}
  \cup {[tool |-> "git", args |-> <<W("status")>>, cwd |-> <<"", "etc">>, session |-> "s"]}
  \cup {[tool |-> "gh", args |-> <<W("pr"), W("comment"), W("7"), Flag("-b"), W("hi")>>, cwd |-> Tree, session |-> "idle"]}
  \cup Small \cup PostLines
=============================================================================
