-------------------------- MODULE MCRunnerTrigger --------------------------
(***************************************************************************)
(* RunnerTrigger for TLC: a message and a mention of one conversation.     *)
(***************************************************************************)
EXTENDS RunnerTrigger

CONSTANTS message, mention

=============================================================================
