------------------------- MODULE MCGatewayDispatch -------------------------
(***************************************************************************)
(* GatewayDispatch for TLC: a comment on a pull request whose branch is    *)
(* looked up, a push on that branch that may interrupt, and a cron job or  *)
(* a Slack message of another conversation.                                *)
(***************************************************************************)
EXTENDS GatewayDispatch, TLC

CONSTANTS comment, push, cron, message, pr, branch, other, repo, repo2

MCSourceOf ==
    [e \in Event |-> CASE e \in {comment, push} -> "github"
                       [] e = cron -> "cron"
                       [] e = message -> "slack"]

MCKeyOf ==
    [e \in Event |-> CASE e = comment -> pr
                       [] e \in {push, message} -> branch
                       [] e = cron -> other]

MCBranchKeyOf == [k \in Pending |-> branch]

\* The push's repository may be gone when it is planned.
MCDirsOf ==
    [e \in Event |-> CASE e = comment -> {repo}
                       [] e = push -> {repo, NoDir}
                       [] e = cron -> {repo}
                       [] e = message -> {repo, repo2}]

=============================================================================
