---------------------------- MODULE MCEventQueue ----------------------------
(***************************************************************************)
(* EventQueue for TLC: a mention and a message in one Slack thread, a push *)
(* on a git branch, and a cron job, whose key has no alias type.           *)
(***************************************************************************)
EXTENDS EventQueue, TLC

CONSTANTS mention, message, push, cron, thread, branch, cronKey

KeyNames == mention :> thread @@ message :> thread @@ push :> branch
            @@ cron :> cronKey

MCKeyOf == [e \in Event |-> KeyNames[e]]

\* One file per event.  The numbers are the files' places in compareEvents.
FileNumbers == message :> 1 @@ mention :> 2 @@ push :> 3 @@ cron :> 4

MCFileName == [e \in Event |-> FileNumbers[e]]

Symmetry == Permutations(Anchor)

=============================================================================
