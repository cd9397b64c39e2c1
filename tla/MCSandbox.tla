------------------------------ MODULE MCSandbox ------------------------------
(***************************************************************************)
(* Sandbox for TLC: commands in one worktree.                              *)
(***************************************************************************)
EXTENDS Sandbox

MCRoots == {<<"kally", "fix">>}
MCForms == {[mode |-> "exec", cwd |-> <<"kally", "fix">>, args |-> <<"npm">>]}
==============================================================================
