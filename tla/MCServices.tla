----------------------------- MODULE MCServices -----------------------------
(***************************************************************************)
(* The parts that share no state with one another, for TLC in one run:     *)
(* which of them moves is chosen at the start, and the others stay where   *)
(* they begin, in one of their initial states.                             *)
(***************************************************************************)
EXTENDS MCCommand, PushSync, Intake, ProgressRelay, Sandbox, UserCredentials, ToolAccess

VARIABLE part

------------------------------------------------------------------------------
\* The tip of another branch.
MCTrunk == <<99>>

\* One worktree, and one git calls a worktree but that lies too high.
Worktree == <<"kally", "fix">>
MCRoots == {Worktree, Worktree \o <<"nested">>, <<"thor">>}
MCForms ==
    {[mode |-> m, cwd |-> c, args |-> <<"npm">>] :
        m \in {"exec", "create", "stop"}, c \in {Worktree, Worktree \o <<"src">>}}
      \cup {[mode |-> "exec", cwd |-> c, args |-> a] :
              c \in {Worktree, <<>>, <<"kally">>, <<"thor">>, Worktree \o <<"nested">>},
              a \in {<<>>, <<"git">>, <<"sh">>, <<"bash", "-c", "ls">>}}
      \cup {[mode |-> m, cwd |-> <<>>, args |-> <<>>] : m \in {"list", "restart"}}

\* What is typed after /kally
MCWords ==
    {<<>>, <<"connect">>, <<"status">>, <<"disconnect">>, <<"disconnect", "salesforce">>, <<"hi">>}

\* Two readings of config.json, and an upstream that may offer less than the policy names.
MCConfigs == {[repos |-> [r \in {"known"} |-> {"salesforce"}], support |-> {"a"}, katalon |-> {}],
              [repos |-> [r \in {"known"} |-> {}], support |-> {}, katalon |-> {}]}
MCPolicy == [u \in Upstream |->
    [allow |-> {"read"}, approve |-> {"post"}, access |-> "support", perUser |-> TRUE]]
MCOffers == {{"read", "post"}, {"read"}}
MCLikes == [x \in Inputs |-> IF x = "read" THEN {"read"} ELSE {"post"}]
MCUsers == {[slackId |-> "u", email |-> "a"], [slackId |-> "", email |-> "a"], [slackId |-> "v", email |-> "b"]}

------------------------------------------------------------------------------
\* Where a part that does not move has several ways to begin, one is taken.
ExecIdle == request = [tool |-> "none"] /\ stage = "none" /\ ran = 0 /\ exit = "none" /\ bound = {}
PushIdle == default = FALSE /\ engaged = FALSE /\ head = NoTree
IntakeIdle == subject = [kind |-> "cron", form |-> "event", keyed |-> TRUE] /\ following = FALSE
ToolIdle == config = CHOOSE reading \in Configs : TRUE

MCInit ==
    /\ part \in {"exec", "push", "intake", "progress", "sandbox", "credentials", "tools"}
    /\ IF part = "exec" THEN ExecInit ELSE ExecIdle
    /\ part # "push" => PushIdle
    /\ PushInit
    /\ part # "intake" => IntakeIdle
    /\ IntakeInit
    /\ RelayInit
    /\ SandboxInit
    /\ CredInit
    /\ part # "tools" => ToolIdle
    /\ ToolInit

MCNext ==
    /\ part' = part
    /\ \/ part = "exec" /\ ExecNext /\ UNCHANGED <<pushVars, intakeVars, relayVars, sandboxVars, credVars, toolVars>>
       \/ part = "push" /\ PushNext /\ UNCHANGED <<execVars, intakeVars, relayVars, sandboxVars, credVars, toolVars>>
       \/ part = "intake" /\ IntakeNext /\ UNCHANGED <<execVars, pushVars, relayVars, sandboxVars, credVars, toolVars>>
       \/ part = "progress" /\ RelayNext /\ UNCHANGED <<execVars, pushVars, intakeVars, sandboxVars, credVars, toolVars>>
       \/ part = "sandbox" /\ SandboxNext /\ UNCHANGED <<execVars, pushVars, intakeVars, relayVars, credVars, toolVars>>
       \/ part = "credentials" /\ CredNext /\ UNCHANGED <<execVars, pushVars, intakeVars, relayVars, sandboxVars, toolVars>>
       \/ part = "tools" /\ ToolNext /\ UNCHANGED <<execVars, pushVars, intakeVars, relayVars, sandboxVars, credVars>>

MCVars == <<part, execVars, pushVars, intakeVars, relayVars, sandboxVars, credVars, toolVars>>
MCSpec == MCInit /\ [][MCNext]_MCVars
==============================================================================
