--------------------------- MODULE WorktreeProofs ---------------------------
(***************************************************************************)
(* Theorems about the worktrees: that pushes keep them current, for every  *)
(* number of commits, pushes and failures, and that each has one sandbox,  *)
(* for all requests, directories and files.                                *)
(***************************************************************************)
EXTENDS PushSync, Sandbox, WellFoundedInduction, NaturalsInduction, TLAPS

-----------------------------------------------------------------------------
(***************************************************************************)
(* Pushes: the inductive invariant                                         *)
(***************************************************************************)

Phases == {"sent", "stale", "fetched", "compared", "reset", "clean", "done"}

Push == [after : Seq(Nat) \cup {Gone}, own : BOOLEAN, phase : Phases, ff : BOOLEAN]

\* Commits are sequences of numbers, and handlers are in one of their phases.
PushTypes ==
    /\ remote \in Seq(Nat) \cup {Gone}
    /\ head \in Seq(Nat) \cup {NoTree}
    /\ fetched \in Seq(Nat)
    /\ disturbed \in BOOLEAN
    /\ commits \in Nat
    /\ failures \in Nat
    /\ pushes \in Seq(Push)

\* The commit a is one of the first n.
Made(a, n) == Len(a) > 0 /\ a[Len(a)] <= n

\* As long as the agent has not disturbed a handler, HEAD and the branch are commits
\* that have been made, and so is what a handler is going to reset to.  What it is
\* going to reset to is newer than HEAD when the branch is.
Undisturbed ==
    ~disturbed =>
        /\ remote # Gone => Made(remote, commits)
        /\ head # NoTree => Made(head, commits)
        /\ BetweenFetchAndReset => Made(fetched, commits)
        /\ BetweenFetchAndReset /\ remote # Gone /\ head # NoTree /\ fetched # remote
              => head # remote

\* A handler that will fetch, or will find that it must.
Due ==
    \E i \in DOMAIN pushes : At(i, "stale") \/ (At(i, "sent") /\ pushes[i].after = remote)

\* A worktree without the tip of its branch has a handler that will bring it, and
\* one that has fetched an older tip is followed by another.
Followed ==
    failures = 0 /\ ~disturbed /\ remote # Gone /\ head # NoTree =>
        /\ IsAncestor(remote, head) \/ Due \/ BetweenFetchAndReset
        /\ BetweenFetchAndReset => Due \/ fetched = remote

PushInv == PushTypes /\ Undisturbed /\ Followed

-----------------------------------------------------------------------------
(***************************************************************************)
(* Commits and handlers                                                    *)
(***************************************************************************)

\* A commit is an ancestor of itself.
LEMMA AncestorSelf ==
    ASSUME NEW a \in Seq(Nat)
    PROVE  IsAncestor(a, a)
BY DEF IsAncestor, IsPrefix

\* What is an ancestor of a commit is one of the commits made on it.
LEMMA AncestorAppend ==
    ASSUME NEW a \in Seq(Nat), NEW b \in Seq(Nat), NEW n \in Nat, IsAncestor(a, b)
    PROVE  IsAncestor(a, Append(b, n))
<1>1. Len(a) <= Len(b) /\ SubSeq(a, 1, Len(a)) = SubSeq(b, 1, Len(a))
  BY DEF IsAncestor, IsPrefix
<1>2. SubSeq(Append(b, n), 1, Len(a)) = SubSeq(b, 1, Len(a))
  BY <1>1
<1> QED
  BY <1>1, <1>2 DEF IsAncestor, IsPrefix

\* A new commit is the last of its sequence, and unlike all that were made before.
LEMMA NewIsMade ==
    ASSUME NEW a \in Seq(Nat), commits \in Nat, NewCommit
    PROVE  /\ commits' \in Nat /\ Append(a, commits') \in Seq(Nat)
           /\ Made(Append(a, commits'), commits')
           /\ \A b \in Seq(Nat) : Made(b, commits) => /\ Made(b, commits')
                                                     /\ b # Append(a, commits')
<1>1. commits' = commits + 1 /\ Len(a) \in Nat
  BY DEF NewCommit
<1>2. /\ Append(a, commits') \in Seq(Nat) /\ Len(Append(a, commits')) = Len(a) + 1
      /\ Append(a, commits')[Len(a) + 1] = commits'
  BY <1>1
<1>3. ASSUME NEW b \in Seq(Nat), Made(b, commits)
      PROVE  Made(b, commits') /\ b # Append(a, commits')
  <2>1. Len(b) \in Nat /\ b[Len(b)] \in Nat /\ b[Len(b)] <= commits
    BY <1>3 DEF Made
  <2> QED
    BY <1>1, <1>2, <1>3, <2>1 DEF Made
<1> QED
  BY <1>1, <1>2, <1>3 DEF Made

\* A handler that moves on leaves the others where they are.
LEMMA GotoMoves ==
    ASSUME PushTypes, NEW i \in DOMAIN pushes, NEW p \in Phases, Goto(i, p)
    PROVE  /\ pushes' \in Seq(Push)
           /\ DOMAIN pushes' = DOMAIN pushes
           /\ \A j \in DOMAIN pushes : pushes'[j].after = pushes[j].after
           /\ \A j \in DOMAIN pushes : j # i => pushes'[j].phase = pushes[j].phase
           /\ pushes'[i].phase = p
<1>1. pushes \in Seq(Push) /\ pushes[i] \in Push /\ DOMAIN pushes = 1..Len(pushes)
  BY DEF PushTypes
<1>2. [pushes[i] EXCEPT !.phase = p] \in Push
  BY <1>1 DEF Push
<1>3. pushes' = [pushes EXCEPT ![i] = [pushes[i] EXCEPT !.phase = p]]
  BY DEF Goto
<1>4. [pushes[i] EXCEPT !.phase = p].after = pushes[i].after
      /\ [pushes[i] EXCEPT !.phase = p].phase = p
  BY <1>1 DEF Push
<1> QED
  BY <1>1, <1>2, <1>3, <1>4

\* A push is delivered beside those that were, and waits for its handler.
LEMMA DeliverAdds ==
    ASSUME PushTypes, NEW a \in Seq(Nat) \cup {Gone}, NEW own \in BOOLEAN, Deliver(a, own)
    PROVE  /\ pushes' \in Seq(Push)
           /\ DOMAIN pushes \subseteq DOMAIN pushes'
           /\ \A i \in DOMAIN pushes : pushes'[i] = pushes[i]
           /\ \A i \in DOMAIN pushes' \ DOMAIN pushes :
                 pushes'[i].phase = "sent" /\ pushes'[i].after = a
           /\ \E i \in DOMAIN pushes' : pushes'[i].phase = "sent" /\ pushes'[i].after = a
<1>1. [after |-> a, own |-> own, phase |-> "sent", ff |-> FALSE] \in Push
  BY DEF Push, Phases
<1>2. pushes \in Seq(Push) /\ Len(pushes) \in Nat
  BY DEF PushTypes
<1>3. /\ pushes' \in Seq(Push) /\ Len(pushes') = Len(pushes) + 1
      /\ \A i \in 1..Len(pushes) : pushes'[i] = pushes[i]
      /\ pushes'[Len(pushes) + 1] = [after |-> a, own |-> own, phase |-> "sent", ff |-> FALSE]
  BY <1>1, <1>2 DEF Deliver
<1>4. DOMAIN pushes = 1..Len(pushes) /\ DOMAIN pushes' = 1..(Len(pushes) + 1)
  BY <1>2, <1>3
<1> QED
  BY <1>2, <1>3, <1>4

\* With a delivery no handler comes to be between fetch and reset, and those that
\* were are.
LEMMA DeliverBetween ==
    ASSUME PushTypes, NEW a \in Seq(Nat) \cup {Gone}, NEW own \in BOOLEAN, Deliver(a, own)
    PROVE  BetweenFetchAndReset' <=> BetweenFetchAndReset
BY DeliverAdds DEF BetweenFetchAndReset

-----------------------------------------------------------------------------
(***************************************************************************)
(* The invariant is inductive                                              *)
(***************************************************************************)

\* What a rewrite keeps of a commit is one.
LEMMA FrontType ==
    ASSUME NEW a \in Seq(Nat)
    PROVE  Front(a) \in Seq(Nat)
<1>1. Len(a) \in Nat /\ DOMAIN a = 1..Len(a) /\ \A i \in 1..Len(a) : a[i] \in Nat
  OBVIOUS
<1>2. SubSeq(a, 1, Len(a) - 1) = [i \in 1..(Len(a) - 1) |-> a[i]]
  BY <1>1
<1>3. CASE Len(a) = 0
  BY <1>1, <1>2, <1>3 DEF Front
<1>4. CASE Len(a) > 0
  BY <1>1, <1>2, <1>4 DEF Front
<1> QED
  BY <1>1, <1>3, <1>4

\* Every step keeps the types.
LEMMA PushTypesStep ==
    ASSUME Trunk \in Seq(Nat), PushTypes, [PushNext]_pushVars
    PROVE  PushTypes'
<1>1. ASSUME AgentEdits \/ AgentFetches PROVE PushTypes'
  BY <1>1 DEF AgentEdits, AgentFetches, PushTypes, kept, BetweenFetchAndReset, At
<1>2. ASSUME AgentCommits PROVE PushTypes'
  BY <1>2, NewIsMade DEF AgentCommits, PushTypes, kept
<1>3. ASSUME AgentPushes PROVE PushTypes'
  <2>1. head \in Seq(Nat) /\ pushes' \in Seq(Push)
    BY <1>3, DeliverAdds DEF AgentPushes, PushTypes
  <2>2. BetweenFetchAndReset \in BOOLEAN
    BY DEF BetweenFetchAndReset
  <2> QED
    BY <1>3, <2>1, <2>2 DEF AgentPushes, PushTypes
<1>4. ASSUME OthersPush \/ OthersForcePush PROVE PushTypes'
  <2>1. remote' \in Seq(Nat) /\ commits' \in Nat
    <3>1. remote \in Seq(Nat) /\ Front(remote) \in Seq(Nat)
      BY <1>4, FrontType DEF OthersPush, OthersForcePush, PushTypes
    <3> QED
      BY <1>4, <3>1, NewIsMade DEF OthersPush, OthersForcePush, PushTypes
  <2>2. pushes' \in Seq(Push)
    BY <1>4, <2>1, DeliverAdds DEF OthersPush, OthersForcePush
  <2> QED
    BY <1>4, <2>1, <2>2 DEF OthersPush, OthersForcePush, PushTypes, kept
<1>5. ASSUME OthersDelete PROVE PushTypes'
  BY <1>5, DeliverAdds DEF OthersDelete, PushTypes, kept
<1>6. ASSUME NEW i \in DOMAIN pushes, Handle(i), ~Compare(i) PROVE PushTypes'
  <2>1. pushes' \in Seq(Push)
    BY <1>6, GotoMoves DEF Handle, CheckHead, Fetch, Reset, Wake, CheckClean, RemoveTree,
       CommandFails, Phases
  <2> QED
    BY <1>6, <2>1 DEF Handle, CheckHead, Fetch, Reset, Wake, CheckClean, RemoveTree,
       CommandFails, PushTypes, kept
<1>7. ASSUME NEW i \in DOMAIN pushes, Compare(i) PROVE PushTypes'
  <2>1. IsAncestor(head, fetched) \in BOOLEAN
    BY DEF IsAncestor, IsPrefix
  <2>2. pushes' = [pushes EXCEPT ![i] = [pushes[i] EXCEPT !.phase = "compared",
                                                          !.ff = IsAncestor(head, fetched)]]
    BY <1>7 DEF Compare
  <2>3. pushes \in Seq(Push) /\ pushes[i] \in Push
    BY DEF PushTypes
  <2>4. [pushes[i] EXCEPT !.phase = "compared", !.ff = IsAncestor(head, fetched)] \in Push
    BY <2>1, <2>3 DEF Push, Phases
  <2>5. pushes' \in Seq(Push)
    BY <2>2, <2>3, <2>4
  <2> QED
    BY <1>7, <2>5 DEF Compare, PushTypes, kept
<1>8. CASE Crash
  <2>1. pushes \in Seq(Push)
    BY DEF PushTypes
  <2>2. \A i \in DOMAIN pushes :
          (IF At(i, "sent") THEN pushes[i] ELSE [pushes[i] EXCEPT !.phase = "done"]) \in Push
    <3> SUFFICES ASSUME NEW i \in DOMAIN pushes
                 PROVE  pushes[i] \in Push /\ [pushes[i] EXCEPT !.phase = "done"] \in Push
      OBVIOUS
    <3>1. pushes[i] \in Push
      BY <2>1
    <3> QED
      BY <3>1 DEF Push, Phases
  <2>3. pushes' \in Seq(Push)
    BY <1>8, <2>1, <2>2 DEF Crash
  <2> QED
    BY <1>8, <2>3 DEF Crash, PushTypes, kept
<1>9. CASE UNCHANGED pushVars
  BY <1>9 DEF pushVars, PushTypes
<1> QED
  BY <1>1, <1>2, <1>3, <1>4, <1>5, <1>6, <1>7, <1>8, <1>9 DEF PushNext

\* A handler that compares moves on, too.
LEMMA CompareMoves ==
    ASSUME PushTypes, NEW i \in DOMAIN pushes, Compare(i)
    PROVE  /\ DOMAIN pushes' = DOMAIN pushes
           /\ \A j \in DOMAIN pushes : pushes'[j].after = pushes[j].after
           /\ \A j \in DOMAIN pushes : j # i => pushes'[j].phase = pushes[j].phase
           /\ pushes'[i].phase = "compared"
<1>1. pushes' = [pushes EXCEPT ![i] = [pushes[i] EXCEPT !.phase = "compared",
                                                        !.ff = IsAncestor(head, fetched)]]
  BY DEF Compare
<1>2. pushes \in Seq(Push) /\ pushes[i] \in Push
  BY DEF PushTypes
<1>3. [pushes[i] EXCEPT !.phase = "compared", !.ff = IsAncestor(head, fetched)].phase = "compared"
      /\ [pushes[i] EXCEPT !.phase = "compared", !.ff = IsAncestor(head, fetched)].after
           = pushes[i].after
  BY <1>2 DEF Push
<1> QED
  BY <1>1, <1>2, <1>3

\* No other handler than one that fetches comes to be between fetch and reset.
LEMMA GotoBetween ==
    ASSUME PushTypes, NEW i \in DOMAIN pushes, NEW p \in Phases \ {"fetched", "compared"}, Goto(i, p)
    PROVE  BetweenFetchAndReset' => BetweenFetchAndReset
BY GotoMoves DEF BetweenFetchAndReset

\* ... not one that compares: it was there,
LEMMA CompareBetween ==
    ASSUME PushTypes, NEW i \in DOMAIN pushes, Compare(i)
    PROVE  BetweenFetchAndReset
BY DEF Compare, At, BetweenFetchAndReset

\* ... and no handler survives a crash there.
LEMMA CrashBetween ==
    ASSUME PushTypes, Crash
    PROVE  ~BetweenFetchAndReset'
<1>1. \A i \in DOMAIN pushes : pushes[i] \in Push
  BY DEF PushTypes
<1>2. \A i \in DOMAIN pushes : [pushes[i] EXCEPT !.phase = "done"].phase = "done"
  BY <1>1 DEF Push
<1>3. \A i \in DOMAIN pushes' : i \in DOMAIN pushes /\ pushes'[i].phase \in {"sent", "done"}
  BY <1>2 DEF Crash, At
<1> QED
  BY <1>3 DEF BetweenFetchAndReset

\* What a handler is going to reset to stays newer than HEAD when the branch is.
LEMMA UndisturbedStep ==
    ASSUME Trunk \in Seq(Nat), PushTypes, Undisturbed, [PushNext]_pushVars
    PROVE  Undisturbed'
<1> SUFFICES ASSUME ~disturbed'
             PROVE  /\ remote' # Gone => Made(remote', commits')
                    /\ head' # NoTree => Made(head', commits')
                    /\ BetweenFetchAndReset' => Made(fetched', commits')
                    /\ BetweenFetchAndReset' /\ remote' # Gone /\ head' # NoTree /\ fetched' # remote'
                          => head' # remote'
  BY DEF Undisturbed
<1>1. ~disturbed
  BY DEF PushNext, AgentEdits, AgentCommits, AgentPushes, AgentFetches, OthersPush, OthersForcePush,
     OthersDelete, Handle, CheckHead, Fetch, Compare, Reset, Wake, CheckClean, RemoveTree,
     CommandFails, Crash, kept, pushVars
<1>2. /\ remote # Gone => Made(remote, commits) /\ remote \in Seq(Nat)
      /\ head # NoTree => Made(head, commits) /\ head \in Seq(Nat)
      /\ BetweenFetchAndReset => Made(fetched, commits)
      /\ BetweenFetchAndReset /\ remote # Gone /\ head # NoTree /\ fetched # remote
            => head # remote
      /\ fetched \in Seq(Nat) /\ commits \in Nat
  BY <1>1 DEF Undisturbed, PushTypes
<1>3. ASSUME NEW i \in DOMAIN pushes,
             CheckHead(i) \/ Compare(i) \/ Wake(i) \/ CheckClean(i) \/ CommandFails(i)
      PROVE  BetweenFetchAndReset' => BetweenFetchAndReset
  BY <1>3, GotoBetween, CompareBetween DEF CheckHead, Wake, CheckClean, CommandFails, Phases
<1>4. CASE \/ AgentEdits \/ Crash \/ UNCHANGED pushVars
           \/ \E i \in DOMAIN pushes : CheckHead(i) \/ Compare(i) \/ Wake(i) \/ CheckClean(i)
                                         \/ CommandFails(i)
  <2>1. UNCHANGED <<remote, head, fetched, commits>>
    BY <1>4 DEF AgentEdits, Crash, pushVars, CheckHead, Compare, Wake, CheckClean, CommandFails
  <2>2. BetweenFetchAndReset' => BetweenFetchAndReset
    <3>1. (AgentEdits \/ UNCHANGED pushVars) /\ BetweenFetchAndReset' => BetweenFetchAndReset
      BY DEF AgentEdits, pushVars, BetweenFetchAndReset
    <3> QED
      BY <1>3, <1>4, <3>1, CrashBetween
  <2> QED
    BY <1>2, <2>1, <2>2
<1>5. CASE AgentCommits
  <2>1. UNCHANGED <<remote, fetched, pushes>> /\ head \in Seq(Nat) /\ head # NoTree
    BY <1>2, <1>5 DEF AgentCommits
  <2>2. BetweenFetchAndReset' <=> BetweenFetchAndReset
    BY <2>1 DEF BetweenFetchAndReset
  <2>3. head' = Append(head, commits') /\ NewCommit
    BY <1>5 DEF AgentCommits
  <2> QED
    BY <1>2, <2>1, <2>2, <2>3, NewIsMade
<1>6. CASE AgentPushes
  <2>1. ~BetweenFetchAndReset
    BY <1>6 DEF AgentPushes
  <2>2. ~BetweenFetchAndReset'
    BY <1>6, <2>1, DeliverBetween DEF AgentPushes, PushTypes
  <2> QED
    BY <1>2, <1>6, <2>2 DEF AgentPushes
<1>7. CASE AgentFetches
  <2>1. ~BetweenFetchAndReset
    BY <1>7 DEF AgentFetches
  <2>2. ~BetweenFetchAndReset'
    BY <1>7, <2>1 DEF AgentFetches, BetweenFetchAndReset
  <2> QED
    BY <1>2, <1>7, <2>2 DEF AgentFetches
<1>8. CASE OthersPush \/ OthersForcePush
  <2>1. PICK a \in Seq(Nat) : remote' = Append(a, commits')
    BY <1>2, <1>8, FrontType DEF OthersPush, OthersForcePush
  <2>2. NewCommit /\ UNCHANGED <<head, fetched>> /\ Deliver(remote', FALSE)
    BY <1>8 DEF OthersPush, OthersForcePush
  <2>3. remote' \in Seq(Nat)
    BY <1>2, <2>1, <2>2, NewIsMade
  <2>4. BetweenFetchAndReset' <=> BetweenFetchAndReset
    BY <2>2, <2>3, DeliverBetween
  <2>5. /\ Made(remote', commits')
        /\ head # NoTree => Made(head, commits') /\ head # remote'
        /\ BetweenFetchAndReset => Made(fetched, commits')
    BY <1>2, <2>1, <2>2, NewIsMade
  <2> QED
    BY <2>2, <2>4, <2>5
<1>9. CASE OthersDelete
  <2>1. BetweenFetchAndReset' <=> BetweenFetchAndReset
    BY <1>9, DeliverBetween DEF OthersDelete
  <2> QED
    BY <1>2, <1>9, <2>1 DEF OthersDelete
<1>10. CASE \E i \in DOMAIN pushes : Fetch(i)
  <2>1. /\ remote # Gone /\ UNCHANGED <<remote, head, commits>>
        /\ fetched' = remote'
    BY <1>10 DEF Fetch
  <2> QED
    BY <1>2, <2>1
<1>11. CASE \E i \in DOMAIN pushes : Reset(i)
  <2>1. /\ BetweenFetchAndReset
        /\ head' = fetched /\ UNCHANGED <<remote, fetched, commits>>
    BY <1>11 DEF Reset, At, BetweenFetchAndReset
  <2> QED
    BY <1>2, <2>1
<1>12. CASE \E i \in DOMAIN pushes : RemoveTree(i)
  <2>1. BetweenFetchAndReset' => BetweenFetchAndReset
    BY <1>12, GotoBetween DEF RemoveTree, Phases
  <2>2. head' \in {head, NoTree} /\ UNCHANGED <<remote, fetched, commits>>
    BY <1>12 DEF RemoveTree
  <2> QED
    BY <1>2, <2>1, <2>2
<1> QED
  BY <1>4, <1>5, <1>6, <1>7, <1>8, <1>9, <1>10, <1>11, <1>12 DEF PushNext, Handle

\* A handler that was to fetch still is, unless it is the one that moves.
LEMMA GotoDue ==
    ASSUME PushTypes, NEW i \in DOMAIN pushes, NEW p \in Phases, Goto(i, p), remote' = remote,
           Due, ~(At(i, "stale") \/ (At(i, "sent") /\ pushes[i].after = remote)) \/ p = "stale"
    PROVE  Due'
BY GotoMoves DEF Due, At

\* A delivery leaves those that are to fetch.
LEMMA DeliverDue ==
    ASSUME PushTypes, NEW a \in Seq(Nat) \cup {Gone}, NEW own \in BOOLEAN, Deliver(a, own),
           remote' = a
    PROVE  Due'
BY DeliverAdds DEF Due, At

\* A worktree that is behind stays followed by a handler.
LEMMA FollowedStep ==
    ASSUME Trunk \in Seq(Nat), PushTypes, Undisturbed, Followed, [PushNext]_pushVars
    PROVE  Followed'
<1> SUFFICES ASSUME failures' = 0, ~disturbed', remote' # Gone, head' # NoTree
             PROVE  /\ IsAncestor(remote', head') \/ Due' \/ BetweenFetchAndReset'
                    /\ BetweenFetchAndReset' => Due' \/ fetched' = remote'
  BY DEF Followed, IsAncestor
<1>1. failures = 0
  <2>1. failures' = failures \/ failures' = failures + 1
    BY DEF PushNext, AgentEdits, AgentCommits, AgentPushes, AgentFetches, OthersPush,
       OthersForcePush, OthersDelete, Handle, CheckHead, Fetch, Compare, Reset, Wake, CheckClean,
       RemoveTree, CommandFails, Crash, pushVars
  <2> QED
    BY <2>1 DEF PushTypes
<1>2. ~disturbed
  BY DEF PushNext, AgentEdits, AgentCommits, AgentPushes, AgentFetches, OthersPush, OthersForcePush,
     OthersDelete, Handle, CheckHead, Fetch, Compare, Reset, Wake, CheckClean, RemoveTree,
     CommandFails, Crash, kept, pushVars
<1>3. head # NoTree
  BY DEF PushNext, AgentEdits, AgentCommits, AgentPushes, AgentFetches, OthersPush, OthersForcePush,
     OthersDelete, Handle, CheckHead, Fetch, Compare, Reset, Wake, CheckClean, RemoveTree,
     CommandFails, Crash, pushVars
<1>4. remote # Gone => /\ IsAncestor(remote, head) \/ Due \/ BetweenFetchAndReset
                       /\ BetweenFetchAndReset => Due \/ fetched = remote
                       /\ BetweenFetchAndReset /\ fetched # remote => head # remote
                       /\ remote \in Seq(Nat)
  BY <1>1, <1>2, <1>3 DEF Followed, Undisturbed, PushTypes
<1>5. head \in Seq(Nat) /\ fetched \in Seq(Nat) /\ commits \in Nat
  BY <1>3 DEF PushTypes
<1>6. CASE AgentEdits \/ UNCHANGED pushVars
  <2>1. UNCHANGED <<remote, head, fetched, pushes>>
    BY <1>6 DEF AgentEdits, pushVars
  <2>2. (Due' <=> Due) /\ (BetweenFetchAndReset' <=> BetweenFetchAndReset)
    BY <2>1 DEF Due, BetweenFetchAndReset, At
  <2> QED
    BY <1>4, <2>1, <2>2
<1>7. CASE AgentCommits
  <2>1. UNCHANGED <<remote, fetched, pushes>> /\ head' = Append(head, commits') /\ commits' \in Nat
    BY <1>5, <1>7 DEF AgentCommits, NewCommit
  <2>2. (Due' <=> Due) /\ (BetweenFetchAndReset' <=> BetweenFetchAndReset)
    BY <2>1 DEF Due, BetweenFetchAndReset, At
  <2> QED
    BY <1>4, <1>5, <2>1, <2>2, AncestorAppend
<1>8. CASE AgentPushes
  <2>1. ~BetweenFetchAndReset /\ remote' = head /\ head' = head
    BY <1>8 DEF AgentPushes
  <2>2. ~BetweenFetchAndReset'
    BY <1>5, <1>8, <2>1, DeliverBetween DEF AgentPushes
  <2> QED
    BY <1>5, <2>1, <2>2, AncestorSelf
<1>9. CASE AgentFetches
  <2>1. ~BetweenFetchAndReset /\ UNCHANGED <<remote, head, pushes>>
    BY <1>9 DEF AgentFetches
  <2>2. (Due' <=> Due) /\ ~BetweenFetchAndReset'
    BY <2>1 DEF Due, BetweenFetchAndReset, At
  <2> QED
    BY <1>4, <2>1, <2>2
<1>10. CASE OthersPush \/ OthersForcePush
  <2>1. PICK a \in Seq(Nat) : remote' = Append(a, commits')
    BY <1>4, <1>10, FrontType DEF OthersPush, OthersForcePush
  <2>2. remote' \in Seq(Nat) /\ Deliver(remote', FALSE)
    BY <1>5, <1>10, <2>1, NewIsMade DEF OthersPush, OthersForcePush
  <2> QED
    BY <2>2, DeliverDue
<1>11. CASE OthersDelete
  BY <1>11 DEF OthersDelete
<1>12. CASE Crash
  BY <1>1, <1>12 DEF Crash
<1>13. ASSUME NEW i \in DOMAIN pushes, CheckHead(i)
       PROVE  /\ IsAncestor(remote', head') \/ Due' \/ BetweenFetchAndReset'
              /\ BetweenFetchAndReset' => Due' \/ fetched' = remote'
  <2>1. UNCHANGED <<remote, head, fetched>> /\ At(i, "sent")
    BY <1>13 DEF CheckHead
  <2>2. BetweenFetchAndReset' <=> BetweenFetchAndReset
    BY <1>13, GotoMoves DEF CheckHead, BetweenFetchAndReset, At, Phases
  <2>3. CASE head = pushes[i].after /\ pushes[i].after = remote
    BY <1>4, <1>5, <2>1, <2>2, <2>3, AncestorSelf
  <2>4. CASE head = pushes[i].after /\ pushes[i].after # remote
    <3>1. Goto(i, "done") /\ ~(At(i, "stale") \/ (At(i, "sent") /\ pushes[i].after = remote))
      BY <1>13, <2>4 DEF CheckHead, At
    <3>2. Due => Due'
      BY <2>1, <3>1, GotoDue DEF Phases
    <3> QED
      BY <1>4, <2>1, <2>2, <3>2
  <2>5. CASE head # pushes[i].after
    <3>1. Goto(i, "stale")
      BY <1>3, <1>13, <2>5 DEF CheckHead
    <3>2. Due'
      BY <3>1, GotoMoves DEF Due, At, Phases
    <3> QED
      BY <3>2
  <2> QED
    BY <2>3, <2>4, <2>5
<1>14. CASE \E i \in DOMAIN pushes : Fetch(i)
  <2>1. PICK i \in DOMAIN pushes : Fetch(i)
    BY <1>14
  <2>2. BetweenFetchAndReset' /\ fetched' = remote'
    BY <2>1, GotoMoves DEF Fetch, BetweenFetchAndReset, Phases
  <2> QED
    BY <2>2
<1>15. ASSUME NEW i \in DOMAIN pushes, Compare(i)
       PROVE  /\ IsAncestor(remote', head') \/ Due' \/ BetweenFetchAndReset'
              /\ BetweenFetchAndReset' => Due' \/ fetched' = remote'
  <2>1. UNCHANGED <<remote, head, fetched>> /\ BetweenFetchAndReset
    BY <1>15, CompareBetween DEF Compare
  <2>2. BetweenFetchAndReset' /\ (Due => Due')
    BY <1>15, <2>1, CompareMoves DEF Compare, BetweenFetchAndReset, Due, At
  <2> QED
    BY <1>4, <2>1, <2>2
<1>16. ASSUME NEW i \in DOMAIN pushes, Reset(i)
       PROVE  /\ IsAncestor(remote', head') \/ Due' \/ BetweenFetchAndReset'
              /\ BetweenFetchAndReset' => Due' \/ fetched' = remote'
  <2>1. UNCHANGED <<remote, fetched>> /\ head' = fetched /\ BetweenFetchAndReset
    BY <1>16 DEF Reset, BetweenFetchAndReset, At
  <2>2. Due => Due'
    BY <1>16, <2>1, GotoDue DEF Reset, At, Phases
  <2> QED
    BY <1>4, <1>5, <2>1, <2>2, AncestorSelf
<1>17. ASSUME NEW i \in DOMAIN pushes, Wake(i) \/ CheckClean(i) \/ RemoveTree(i)
       PROVE  /\ IsAncestor(remote', head') \/ Due' \/ BetweenFetchAndReset'
              /\ BetweenFetchAndReset' => Due' \/ fetched' = remote'
  <2>1. UNCHANGED <<remote, head, fetched>>
    BY <1>17 DEF Wake, CheckClean, RemoveTree
  <2>2. PICK p \in {"done", "clean"} : Goto(i, p)
    BY <1>17 DEF Wake, CheckClean, RemoveTree
  <2>3. ~(At(i, "stale") \/ (At(i, "sent") /\ pushes[i].after = remote))
    BY <1>17, <2>1 DEF Wake, CheckClean, RemoveTree, At
  <2>4. Due => Due'
    BY <2>1, <2>2, <2>3, GotoDue DEF Phases
  <2>5. BetweenFetchAndReset' <=> BetweenFetchAndReset
    BY <1>17, <2>2, GotoMoves DEF BetweenFetchAndReset, Wake, CheckClean, RemoveTree, At, Phases
  <2> QED
    BY <1>4, <2>1, <2>4, <2>5
<1>18. ASSUME NEW i \in DOMAIN pushes, CommandFails(i)
       PROVE  FALSE
  BY <1>1, <1>3, <1>18 DEF CommandFails
<1> QED
  BY <1>6, <1>7, <1>8, <1>9, <1>10, <1>11, <1>12, <1>13, <1>14, <1>15, <1>16, <1>17, <1>18
     DEF PushNext, Handle

\* When all pushes have been handled, the worktree has the tip of its branch,
\* whatever the order of deliveries and however handlers, pushes of others and
\* commits of the agent overlap, unless a command failed or the agent pushed or
\* fetched between a handler's fetch and its reset (app.ts:846).
THEOREM WorktreesAligned == PushSpec => []Aligned
<1>1. PushInit => PushInv
  <2> SUFFICES ASSUME PushInit PROVE PushInv
    OBVIOUS
  <2>1. <<0>> \in Seq(Nat) /\ Len(<<0>>) = 1 /\ <<0>>[1] = 0
    OBVIOUS
  <2>2. pushes \in Seq(Push) /\ DOMAIN pushes = {}
    BY DEF PushInit
  <2>3. IsAncestor(<<0>>, <<0>>)
    BY <2>1, AncestorSelf
  <2>4. PushTypes
    BY <2>1, <2>2 DEF PushInit, PushTypes
  <2>5. Undisturbed
    BY <2>1, <2>2 DEF PushInit, Undisturbed, Made, BetweenFetchAndReset
  <2>6. Followed
    BY <2>2, <2>3 DEF PushInit, Followed, BetweenFetchAndReset
  <2> QED
    BY <2>4, <2>5, <2>6 DEF PushInv
<1>2. PushInv /\ [PushNext]_pushVars => PushInv'
  BY PushAssumption, PushTypesStep, UndisturbedStep, FollowedStep DEF PushInv
<1>3. PushInv => Aligned
  BY DEF PushInv, Followed, Aligned, Quiet, Due, BetweenFetchAndReset, At
<1> QED
  BY <1>1, <1>2, <1>3, PTL DEF PushSpec

-----------------------------------------------------------------------------
(***************************************************************************)
(* Sandboxes: the inductive invariant                                      *)
(***************************************************************************)

\* From Lock to the step that ends the critical section.
Preparing ==
    {"finding", "creating", "filling", "inspecting", "syncing", "labelling", "overlaying"}

Stages == Preparing \cup {"idle", "answered", "stopping", "deleting", "waiting", "running", "pulling"}

Modes == {form.mode : form \in Forms} \cup {""}

Requests ==
    [stage : Stages, mode : Modes, root : Worktrees \cup {<<>>}, sha : Trees \cup {NoFiles},
     box : Nat, list : SUBSET File, asOf : Nat, exit : {"", "refused", "ok", "failed", "cut"}]

Boxes == [cwd : Worktrees, label : Trees, base : Trees \cup {NoFiles}, files : Trees]

\* A request that is served has its worktree, and its commit once it has read it.
Placed(req) ==
    /\ req.stage \notin {"idle", "answered"} => req.root \in Worktrees
    /\ req.stage \in Preparing \cup {"running", "pulling"} => req.sha \in Trees

\* What requests know and sandboxes hold.
SandboxTypes ==
    /\ requests \in [Request -> Requests]
    /\ made \in Nat
    /\ DOMAIN boxes \subseteq 1..made
    /\ boxes \in [DOMAIN boxes -> Boxes]
    /\ lock \in [Worktrees -> SUBSET Request]
    /\ worktrees \in [Worktrees -> [head : Trees, files : Trees]]
    /\ edits \in Nat
    /\ faults \in Nat
    /\ \A r \in Request : Placed(requests[r])

\* A request that prepares a worktree's sandbox is the only holder of its lock.
HoldsLock ==
    \A r \in Request : requests[r].stage \in Preparing => lock[requests[r].root] = {r}

\* What Find has seen is so until the sandbox is made.
NoneYet ==
    \A r \in Request : requests[r].stage = "creating" => findSandboxForCwd(requests[r].root) = {}

SandboxInv == SandboxTypes /\ HoldsLock /\ NoneYet /\ OneSandboxPerWorktree

-----------------------------------------------------------------------------
(***************************************************************************)
(* Directories and their worktrees                                         *)
(***************************************************************************)

\* Of the top levels above a directory one is the deepest, and topLevel is one of these.
LEMMA DeepestExists ==
  ASSUME Roots \subseteq Seq(STRING), NEW cwd \in Seq(STRING), resolvable(cwd)
  PROVE  /\ topLevel(cwd) \in Roots
         /\ IsPrefix(topLevel(cwd), cwd)
         /\ \A y \in Roots : IsPrefix(y, cwd) => Len(y) <= Len(topLevel(cwd))
<1> DEFINE Above == {x \in Roots : IsPrefix(x, cwd)}
           Depths == {Len(cwd) - Len(x) : x \in Above}
<1>1. \A x \in Above : x \in Seq(STRING) /\ Len(x) \in Nat /\ Len(cwd) \in Nat /\ Len(x) <= Len(cwd)
  BY DEF IsPrefix
<1>2. Depths \subseteq Nat
  BY <1>1
<1>3. Depths # {}
  BY DEF resolvable
<1>4. PICK d \in Depths : \A e \in Depths : ~ (<<e, d>> \in OpToRel(<, Nat))
  <2> HIDE DEF Depths
  <2> QED BY <1>2, <1>3, WFMin, NatLessThanWellFounded, Zenon
<1>5. \A e \in Depths : ~ (e < d)
  BY <1>2, <1>4, Zenon DEF OpToRel
<1>6. PICK x \in Above : d = Len(cwd) - Len(x)
  BY <1>4
<1>7. \A y \in Roots : IsPrefix(y, cwd) => Len(y) <= Len(x)
  <2> SUFFICES ASSUME NEW y \in Roots, IsPrefix(y, cwd) PROVE Len(y) <= Len(x)
    OBVIOUS
  <2>1. ~ (Len(cwd) - Len(y) < Len(cwd) - Len(x))
    BY <1>5, <1>6
  <2> QED BY <1>1, <1>6, <2>1
<1>8. x \in Roots /\ IsPrefix(x, cwd)
  BY <1>6
<1> HIDE DEF Above, Depths
<1> QED BY <1>7, <1>8, Zenon DEF topLevel

\* A top level is its own.
LEMMA TopLevelOfRoot ==
  ASSUME Roots \subseteq Seq(STRING), NEW root \in Roots
  PROVE  resolvable(root) /\ topLevel(root) = root
<1>1. root \in Seq(STRING) /\ IsPrefix(root, root)
  BY DEF IsPrefix
<1>2. resolvable(root)
  BY <1>1 DEF resolvable
<1> DEFINE x == topLevel(root)
<1>3. x \in Roots /\ IsPrefix(x, root) /\ Len(root) <= Len(x)
  BY <1>1, <1>2, DeepestExists
<1>4. x \in Seq(STRING)
  BY <1>3
<1> HIDE DEF x
<1>5. Len(x) = Len(root) /\ SubSeq(x, 1, Len(x)) = SubSeq(root, 1, Len(root))
  BY <1>1, <1>3, <1>4 DEF IsPrefix
<1>6. SubSeq(x, 1, Len(x)) = x /\ SubSeq(root, 1, Len(root)) = root
  BY <1>1, <1>4
<1>7. x = root
  BY <1>5, <1>6
<1> QED BY <1>2, <1>7 DEF x

\* What a directory resolves to is nothing or one of the working trees.
LEMMA ResolvedIsWorktree ==
  ASSUME Roots \subseteq Seq(STRING), NEW cwd \in Seq(STRING), resolveWorktreeRoot(cwd) # <<>>
  PROVE  resolveWorktreeRoot(cwd) \in Worktrees
<1> DEFINE x == topLevel(cwd)
<1>1. resolvable(cwd) /\ isValidWorktreeTopLevel(x) /\ findContainingWorktreeRoot(x) = {}
      /\ resolveWorktreeRoot(cwd) = x
  BY Zenon DEF resolveWorktreeRoot
<1>2. x \in Roots
  BY <1>1, DeepestExists
<1>3. resolvable(x) /\ topLevel(x) = x
  BY <1>2, TopLevelOfRoot
<1>4. resolveWorktreeRoot(x) = x
  BY <1>1, <1>3, Zenon DEF resolveWorktreeRoot
<1> QED BY <1>1, <1>2, <1>4, Zenon DEF Worktrees

\* What is served is about a working tree.
LEMMA ServedIsAboutWorktree ==
  ASSUME Roots \subseteq Seq(STRING), \A form \in Forms : form.cwd \in Seq(STRING),
         NEW form \in Forms, Served(form), form.mode # "list"
  PROVE  resolveWorktreeRoot(form.cwd) \in Worktrees
BY ResolvedIsWorktree, Zenon DEF Served

-----------------------------------------------------------------------------
(***************************************************************************)
(* Types                                                                   *)
(***************************************************************************)

\* A request that is closed keeps only its mode and gets its answer.
LEMMA ClosedType ==
  ASSUME NEW req, req.mode \in Modes, NEW exit \in {"", "refused", "ok", "failed", "cut"}
  PROVE  /\ Closed(req, exit) \in Requests
         /\ Closed(req, exit).stage = "answered"
BY DEF Closed, Idle, Requests, Stages, Preparing, NoFiles

\* Ending a request closes it and leaves the lock with the others.
LEMMA EndType ==
  ASSUME SandboxTypes, NEW r \in Request, NEW exit \in {"ok", "failed"}, End(r, exit)
  PROVE  /\ requests' \in [Request -> Requests]
         /\ requests'[r].stage = "answered"
         /\ \A q \in Request \ {r} : requests'[q] = requests[q]
         /\ lock' \in [Worktrees -> SUBSET Request]
         /\ \A w \in Worktrees : lock'[w] = lock[w] \ {r}
<1>1. requests \in [Request -> Requests] /\ lock \in [Worktrees -> SUBSET Request]
  BY DEF SandboxTypes
<1>2. requests[r].mode \in Modes
  BY <1>1 DEF Requests
<1>3. Closed(requests[r], exit) \in Requests /\ Closed(requests[r], exit).stage = "answered"
  BY <1>2, ClosedType
<1>4. requests' = [requests EXCEPT ![r] = Closed(requests[r], exit)]
  BY DEF End
<1>5. lock' = [w \in Worktrees |-> lock[w] \ {r}]
  BY DEF End, released
<1>6. /\ requests' \in [Request -> Requests]
      /\ requests'[r].stage = "answered"
      /\ \A q \in Request \ {r} : requests'[q] = requests[q]
  BY <1>1, <1>3, <1>4
<1>7. lock' \in [Worktrees -> SUBSET Request] /\ \A w \in Worktrees : lock'[w] = lock[w] \ {r}
  BY <1>1, <1>5
<1> QED BY <1>6, <1>7

\* A request that only moves on keeps what it knows.
LEMMA GoType ==
  ASSUME SandboxTypes, NEW r \in Request, NEW stage \in Stages, Go(r, stage)
  PROVE  /\ requests' \in [Request -> Requests]
         /\ requests'[r] = [requests[r] EXCEPT !.stage = stage]
         /\ requests'[r].stage = stage
         /\ requests'[r].root = requests[r].root
         /\ requests'[r].sha = requests[r].sha
         /\ \A q \in Request \ {r} : requests'[q] = requests[q]
<1>1. requests \in [Request -> Requests]
  BY DEF SandboxTypes
<1>2. requests[r] \in Requests
  BY <1>1
<1>3. [requests[r] EXCEPT !.stage = stage] \in Requests
  BY <1>2 DEF Requests
<1>4. requests' = [requests EXCEPT ![r] = [requests[r] EXCEPT !.stage = stage]]
  BY Zenon DEF Go
<1>5. /\ requests' \in [Request -> Requests]
      /\ requests'[r] = [requests[r] EXCEPT !.stage = stage]
      /\ \A q \in Request \ {r} : requests'[q] = requests[q]
  BY <1>1, <1>3, <1>4
<1> QED BY <1>2, <1>5 DEF Requests

\* git reset --hard leaves a sandbox with the files of a tree.
LEMMA ResetType ==
  ASSUME NEW box \in Boxes, NEW sha \in Trees
  PROVE  resetHard(box, sha) \in Boxes /\ resetHard(box, sha).cwd = box.cwd
<1> DEFINE files == [f \in File |->
             IF sha[f] = 0 /\ (box.base = NoFiles \/ box.base[f] = 0)
             THEN box.files[f] ELSE sha[f]]
<1>1. box.files \in Trees /\ box.cwd \in Worktrees /\ box.label \in Trees
  BY DEF Boxes
<1>2. files \in Trees
  BY <1>1 DEF Trees
<1>3. resetHard(box, sha) = [box EXCEPT !.base = sha, !.files = files]
  BY DEF resetHard
<1> HIDE DEF files
<1> QED BY <1>1, <1>2, <1>3 DEF Boxes

\* Where a step of one request leaves the other requests alone, their places stay too.
LEMMA PlacedStep ==
  ASSUME SandboxTypes, NEW r \in Request,
         requests' \in [Request -> Requests], Placed(requests'[r]),
         \A q \in Request \ {r} : requests'[q] = requests[q]
  PROVE  \A q \in Request : Placed(requests'[q])
<1> SUFFICES ASSUME NEW q \in Request PROVE Placed(requests'[q])
  OBVIOUS
<1>1. Placed(requests[q])
  BY DEF SandboxTypes
<1>2. q # r => requests'[q] = requests[q]
  OBVIOUS
<1> QED BY <1>1, <1>2, Zenon

\* Sandboxes are as they should be after some are deleted.
LEMMA BoxesDeleted ==
  ASSUME SandboxTypes, NEW gone, boxes' = [i \in DOMAIN boxes \ gone |-> boxes[i]]
  PROVE  /\ DOMAIN boxes' \subseteq DOMAIN boxes
         /\ boxes' \in [DOMAIN boxes' -> Boxes]
         /\ \A i \in DOMAIN boxes' : boxes'[i] = boxes[i]
BY DEF SandboxTypes

\* Sandboxes are as they should be after one of them is written.
LEMMA BoxesWritten ==
  ASSUME SandboxTypes, NEW i \in DOMAIN boxes, NEW box \in Boxes, box.cwd = boxes[i].cwd,
         boxes' = [boxes EXCEPT ![i] = box]
  PROVE  /\ DOMAIN boxes' = DOMAIN boxes
         /\ boxes' \in [DOMAIN boxes' -> Boxes]
         /\ \A j \in DOMAIN boxes : boxes'[j].cwd = boxes[j].cwd
BY DEF SandboxTypes

LEMMA InitTypes ==
  SandboxInit => SandboxTypes
<1> SUFFICES ASSUME SandboxInit PROVE SandboxTypes
  OBVIOUS
<1>1. Idle \in Requests /\ Placed(Idle)
  BY DEF Idle, Requests, Stages, Modes, Preparing, NoFiles, Placed
<1>2. requests \in [Request -> Requests] /\ \A r \in Request : Placed(requests[r])
  BY <1>1 DEF SandboxInit
<1>3. made \in Nat /\ DOMAIN boxes = {} /\ boxes \in [DOMAIN boxes -> Boxes]
  BY DEF SandboxInit
<1>4. lock \in [Worktrees -> SUBSET Request]
  BY DEF SandboxInit
<1>5. [f \in File |-> 1] \in Trees
  BY DEF Trees
<1>6. worktrees \in [Worktrees -> [head : Trees, files : Trees]]
  BY <1>5 DEF SandboxInit
<1> QED BY <1>2, <1>3, <1>4, <1>6 DEF SandboxInit, SandboxTypes

LEMMA ReceiveTypes ==
  ASSUME Roots \subseteq Seq(STRING), \A form \in Forms : form.cwd \in Seq(STRING),
         SandboxTypes, NEW r \in Request, NEW form \in Forms, ReceiveSandbox(r, form)
  PROVE  /\ SandboxTypes'
         /\ requests'[r].stage \in {"answered", "stopping", "waiting"}
         /\ \A q \in Request \ {r} : requests'[q] = requests[q]
<1> DEFINE req == IF ~Served(form) THEN Closed([mode |-> form.mode], "refused")
                  ELSE IF form.mode = "list" THEN Closed(form, "ok")
                  ELSE [Idle EXCEPT !.stage = IF form.mode = "stop" THEN "stopping" ELSE "waiting",
                                    !.mode = form.mode, !.root = resolveWorktreeRoot(form.cwd)]
<1>1. requests' = [requests EXCEPT ![r] = req]
  BY DEF ReceiveSandbox
<1>2. form.mode \in Modes
  BY DEF Modes
<1>3. Closed([mode |-> form.mode], "refused") \in Requests /\ Closed([mode |-> form.mode], "refused").stage = "answered"
  BY <1>2, ClosedType
<1>4. Closed(form, "ok") \in Requests /\ Closed(form, "ok").stage = "answered"
  BY <1>2, ClosedType
<1>5. req \in Requests /\ req.stage \in {"answered", "stopping", "waiting"} /\ Placed(req)
  <2>1. CASE ~Served(form)
    BY <1>3, <2>1 DEF Placed, Preparing
  <2>2. CASE Served(form) /\ form.mode = "list"
    BY <1>4, <2>2 DEF Placed, Preparing
  <2>3. ASSUME Served(form), form.mode # "list"
        PROVE  req \in Requests /\ req.stage \in {"answered", "stopping", "waiting"} /\ Placed(req)
    <3>1. resolveWorktreeRoot(form.cwd) \in Worktrees
      BY <2>3, ServedIsAboutWorktree
    <3>2. req = [Idle EXCEPT !.stage = IF form.mode = "stop" THEN "stopping" ELSE "waiting",
                             !.mode = form.mode, !.root = resolveWorktreeRoot(form.cwd)]
      BY <2>3
    <3> HIDE DEF req
    <3> QED BY <1>2, <3>1, <3>2 DEF Idle, Requests, Stages, Preparing, NoFiles, Placed
  <2> QED BY <2>1, <2>2, <2>3
<1> HIDE DEF req
<1>6. /\ requests' \in [Request -> Requests]
      /\ requests'[r] = req
      /\ \A q \in Request \ {r} : requests'[q] = requests[q]
  BY <1>1, <1>5 DEF SandboxTypes
<1>7. \A q \in Request : Placed(requests'[q])
  BY <1>5, <1>6, PlacedStep, Zenon
<1> QED BY <1>5, <1>6, <1>7 DEF ReceiveSandbox, SandboxTypes

\* Steps that end a request, whatever else they do to sandboxes and worktrees.
LEMMA EndTypes ==
  ASSUME SandboxTypes, NEW r \in Request, NEW exit \in {"ok", "failed"}, End(r, exit),
         made' \in Nat, edits' \in Nat, faults' \in Nat, DOMAIN boxes' \subseteq 1..made',
         boxes' \in [DOMAIN boxes' -> Boxes],
         worktrees' \in [Worktrees -> [head : Trees, files : Trees]]
  PROVE  SandboxTypes'
<1>1. /\ requests' \in [Request -> Requests]
      /\ requests'[r].stage = "answered"
      /\ \A q \in Request \ {r} : requests'[q] = requests[q]
      /\ lock' \in [Worktrees -> SUBSET Request]
  BY EndType
<1>2. Placed(requests'[r])
  BY <1>1 DEF Placed, Preparing
<1>3. \A q \in Request : Placed(requests'[q])
  BY <1>1, <1>2, PlacedStep
<1> QED BY <1>1, <1>3 DEF SandboxTypes

\* Steps that only move a request on, among the stages after it has read its commit.
LEMMA GoTypes ==
  ASSUME SandboxTypes, NEW r \in Request, requests[r].stage \in Preparing,
         NEW stage \in Preparing \cup {"running"}, Go(r, stage),
         made' \in Nat, edits' \in Nat, faults' \in Nat, DOMAIN boxes' \subseteq 1..made',
         boxes' \in [DOMAIN boxes' -> Boxes],
         lock' \in [Worktrees -> SUBSET Request],
         worktrees' \in [Worktrees -> [head : Trees, files : Trees]]
  PROVE  SandboxTypes'
<1>1. stage \in Stages
  BY DEF Stages
<1>2. /\ requests' \in [Request -> Requests]
      /\ requests'[r].stage = stage
      /\ requests'[r].root = requests[r].root
      /\ requests'[r].sha = requests[r].sha
      /\ \A q \in Request \ {r} : requests'[q] = requests[q]
  BY <1>1, GoType
<1>3. requests[r].root \in Worktrees /\ requests[r].sha \in Trees
  BY DEF SandboxTypes, Placed, Preparing
<1>4. Placed(requests'[r])
  BY <1>2, <1>3, Zenon DEF Placed
<1>5. \A q \in Request : Placed(requests'[q])
  BY <1>2, <1>4, PlacedStep
<1> QED BY <1>2, <1>5 DEF SandboxTypes

-----------------------------------------------------------------------------
(***************************************************************************)
(* The lock                                                                *)
(***************************************************************************)

\* Most steps bring no request before the lock or to the making of a sandbox, and
\* no sandbox into being.
LEMMA QuietStep ==
  ASSUME SandboxInv, SandboxTypes',
         \A q \in Request : requests'[q].stage \in Preparing =>
             /\ requests[q].stage \in Preparing
             /\ requests'[q].root = requests[q].root
             /\ lock'[requests[q].root] = lock[requests[q].root],
         \A q \in Request : requests'[q].stage = "creating" => requests[q].stage = "creating",
         DOMAIN boxes' \subseteq DOMAIN boxes,
         \A i \in DOMAIN boxes' : boxes'[i].cwd = boxes[i].cwd
  PROVE  SandboxInv'
<1>1. HoldsLock'
  BY DEF SandboxInv, HoldsLock
<1>2. NoneYet'
  <2> SUFFICES ASSUME NEW q \in Request, requests'[q].stage = "creating",
                      NEW i \in DOMAIN boxes', boxes'[i].cwd = requests'[q].root
               PROVE  FALSE
    BY DEF NoneYet, findSandboxForCwd
  <2>1. requests[q].stage = "creating" /\ requests'[q].root = requests[q].root
    BY DEF Preparing
  <2>2. i \in findSandboxForCwd(requests[q].root)
    BY <2>1 DEF findSandboxForCwd
  <2> QED BY <2>1, <2>2 DEF SandboxInv, NoneYet
<1>3. OneSandboxPerWorktree'
  BY DEF SandboxInv, OneSandboxPerWorktree
<1> QED BY <1>1, <1>2, <1>3 DEF SandboxInv

\* Ending a request gives up only its own lock.
LEMMA EndStep ==
  ASSUME SandboxInv, SandboxTypes', NEW r \in Request, NEW exit \in {"ok", "failed"}, End(r, exit),
         DOMAIN boxes' \subseteq DOMAIN boxes,
         \A i \in DOMAIN boxes' : boxes'[i].cwd = boxes[i].cwd
  PROVE  SandboxInv'
<1>1. /\ requests'[r].stage = "answered"
      /\ \A q \in Request \ {r} : requests'[q] = requests[q]
      /\ \A w \in Worktrees : lock'[w] = lock[w] \ {r}
  BY EndType DEF SandboxInv
<1>2. ASSUME NEW q \in Request, requests'[q].stage \in Preparing
      PROVE  /\ requests[q].stage \in Preparing
             /\ requests'[q].root = requests[q].root
             /\ lock'[requests[q].root] = lock[requests[q].root]
  <2>1. q # r
    BY <1>1, <1>2 DEF Preparing
  <2>2. requests'[q] = requests[q]
    BY <1>1, <2>1
  <2>3. requests[q].root \in Worktrees
    BY <1>2, <2>2 DEF SandboxInv, SandboxTypes, Placed, Preparing
  <2>4. lock[requests[q].root] = {q}
    BY <1>2, <2>2 DEF SandboxInv, HoldsLock
  <2> QED BY <1>1, <1>2, <2>1, <2>2, <2>3, <2>4
<1>3. \A q \in Request : requests'[q].stage = "creating" => requests[q].stage = "creating"
  BY <1>1
<1> QED BY <1>2, <1>3, QuietStep

\* Moving a request on inside the critical section disturbs nothing, as long as it is
\* not to the making of a sandbox.
LEMMA GoStep ==
  ASSUME SandboxInv, SandboxTypes', NEW r \in Request, requests[r].stage \in Preparing,
         requests'[r].stage # "creating",
         requests'[r].root = requests[r].root,
         \A q \in Request \ {r} : requests'[q] = requests[q],
         UNCHANGED lock,
         DOMAIN boxes' \subseteq DOMAIN boxes,
         \A i \in DOMAIN boxes' : boxes'[i].cwd = boxes[i].cwd
  PROVE  SandboxInv'
<1>1. ASSUME NEW q \in Request, requests'[q].stage \in Preparing
      PROVE  /\ requests[q].stage \in Preparing
             /\ requests'[q].root = requests[q].root
             /\ lock'[requests[q].root] = lock[requests[q].root]
  BY <1>1
<1>2. \A q \in Request : requests'[q].stage = "creating" => requests[q].stage = "creating"
  OBVIOUS
<1> QED BY <1>1, <1>2, QuietStep

-----------------------------------------------------------------------------
(***************************************************************************)
(* Each action                                                             *)
(***************************************************************************)

\* What an untouched part of the state keeps.
LEMMA Frame ==
  ASSUME SandboxTypes
  PROVE  /\ UNCHANGED <<made, boxes>> =>
              /\ made' \in Nat /\ DOMAIN boxes' \subseteq 1..made'
              /\ boxes' \in [DOMAIN boxes' -> Boxes]
              /\ DOMAIN boxes' \subseteq DOMAIN boxes
              /\ \A i \in DOMAIN boxes' : boxes'[i].cwd = boxes[i].cwd
         /\ UNCHANGED worktrees => worktrees' \in [Worktrees -> [head : Trees, files : Trees]]
         /\ UNCHANGED lock => lock' \in [Worktrees -> SUBSET Request]
         /\ UNCHANGED edits => edits' \in Nat
         /\ UNCHANGED faults => faults' \in Nat
BY DEF SandboxTypes

LEMMA ReceiveKeeps ==
  ASSUME Roots \subseteq Seq(STRING), \A form \in Forms : form.cwd \in Seq(STRING),
         SandboxInv, NEW r \in Request, NEW form \in Forms, ReceiveSandbox(r, form)
  PROVE  SandboxInv'
<1>1. /\ SandboxTypes'
      /\ requests'[r].stage \in {"answered", "stopping", "waiting"}
      /\ \A q \in Request \ {r} : requests'[q] = requests[q]
  BY ReceiveTypes DEF SandboxInv
<1>2. UNCHANGED <<boxes, lock>>
  BY DEF ReceiveSandbox
<1>3. \A q \in Request : requests'[q].stage \in Preparing => requests'[q] = requests[q]
  BY <1>1 DEF Preparing
<1>4. \A q \in Request : requests'[q].stage = "creating" => requests[q].stage = "creating"
  BY <1>1
<1> QED BY <1>1, <1>2, <1>3, <1>4, QuietStep

LEMMA FindToStopKeeps ==
  ASSUME SandboxInv, NEW r \in Request, FindToStop(r)
  PROVE  SandboxInv'
<1> DEFINE found == findSandboxForCwd(requests[r].root)
           i == CHOOSE x \in found : TRUE
           req == IF found = {} THEN Closed(requests[r], "ok")
                  ELSE [requests[r] EXCEPT !.stage = "deleting", !.box = i]
<1>1. requests' = [requests EXCEPT ![r] = req] /\ UNCHANGED <<boxes, made, lock, worktrees, edits, faults>>
  BY DEF FindToStop
<1>2. requests[r] \in Requests /\ requests[r].stage = "stopping" /\ requests[r].root \in Worktrees
  BY DEF FindToStop, SandboxInv, SandboxTypes, Placed
<1>3. Closed(requests[r], "ok") \in Requests /\ Closed(requests[r], "ok").stage = "answered"
  <2>1. requests[r].mode \in Modes
    BY <1>2 DEF Requests
  <2> QED BY <2>1, ClosedType
<1>4. found # {} => i \in Nat
  <2>1. found \subseteq DOMAIN boxes
    BY DEF findSandboxForCwd
  <2>2. DOMAIN boxes \subseteq Nat
    BY DEF SandboxInv, SandboxTypes
  <2> HIDE DEF found
  <2> QED BY <2>1, <2>2
<1>5. req \in Requests /\ req.stage \in {"answered", "deleting"} /\ Placed(req)
  <2>1. CASE found = {}
    BY <1>3, <2>1 DEF Placed, Preparing
  <2>2. ASSUME found # {} PROVE req \in Requests /\ req.stage \in {"answered", "deleting"} /\ Placed(req)
    <3>1. req = [requests[r] EXCEPT !.stage = "deleting", !.box = i]
      BY <2>2
    <3> HIDE DEF req, i, found
    <3> QED BY <1>2, <1>4, <2>2, <3>1 DEF Requests, Stages, Preparing, Placed
  <2> QED BY <2>1, <2>2
<1> HIDE DEF req, i, found
<1>6. /\ requests' \in [Request -> Requests]
      /\ requests'[r] = req
      /\ \A q \in Request \ {r} : requests'[q] = requests[q]
  BY <1>1, <1>5 DEF SandboxInv, SandboxTypes
<1>7. \A q \in Request : Placed(requests'[q])
  BY <1>5, <1>6, PlacedStep, Zenon DEF SandboxInv
<1>8. SandboxTypes'
  BY <1>1, <1>6, <1>7 DEF SandboxInv, SandboxTypes
<1>9. \A q \in Request : requests'[q].stage \in Preparing => requests'[q] = requests[q]
  BY <1>5, <1>6 DEF Preparing
<1>10. \A q \in Request : requests'[q].stage = "creating" => requests[q].stage = "creating"
  BY <1>5, <1>6
<1> QED BY <1>1, <1>8, <1>9, <1>10, QuietStep

LEMMA DeleteKeeps ==
  ASSUME SandboxInv, NEW r \in Request, deleteSandbox(r)
  PROVE  SandboxInv'
<1>1. boxes' = [i \in DOMAIN boxes \ {requests[r].box} |-> boxes[i]] /\ End(r, "ok")
      /\ UNCHANGED <<made, worktrees, edits, faults>>
  BY DEF deleteSandbox
<1>2. /\ DOMAIN boxes' \subseteq DOMAIN boxes
      /\ boxes' \in [DOMAIN boxes' -> Boxes]
      /\ \A i \in DOMAIN boxes' : boxes'[i] = boxes[i]
  BY <1>1, BoxesDeleted DEF SandboxInv
<1>3. DOMAIN boxes' \subseteq 1..made' /\ made' \in Nat
  BY <1>1, <1>2 DEF SandboxInv, SandboxTypes
<1>4. SandboxTypes'
  BY <1>1, <1>2, <1>3, EndTypes, Frame DEF SandboxInv
<1> QED BY <1>1, <1>2, <1>4, EndStep

\* The lock was free, so nobody else is preparing this worktree's sandbox.
LEMMA LockKeeps ==
  ASSUME SandboxInv, NEW r \in Request, Lock(r)
  PROVE  SandboxInv'
<1> DEFINE root == requests[r].root
           req == [requests[r] EXCEPT !.stage = "finding", !.asOf = edits, !.sha = worktrees[root].head]
<1>1. requests[r] \in Requests /\ root \in Worktrees
  BY DEF Lock, SandboxInv, SandboxTypes, Placed
<1>2. worktrees[root].head \in Trees /\ edits \in Nat
  BY <1>1 DEF SandboxInv, SandboxTypes
<1>3. req \in Requests /\ req.stage = "finding" /\ req.root = root /\ req.sha \in Trees
  BY <1>1, <1>2 DEF Requests, Stages, Preparing
<1>4. requests' = [requests EXCEPT ![r] = req]
  BY DEF Lock
<1>5. Placed(req)
  BY <1>1, <1>3 DEF Placed
<1>6. /\ lock[root] = {}
      /\ lock' = [lock EXCEPT ![root] = {r}]
      /\ UNCHANGED <<boxes, made, worktrees, edits, faults>>
  BY DEF Lock
<1> HIDE DEF req, root
<1>7. /\ requests' \in [Request -> Requests]
      /\ requests'[r] = req
      /\ \A q \in Request \ {r} : requests'[q] = requests[q]
  BY <1>3, <1>4 DEF SandboxInv, SandboxTypes
<1>8. \A q \in Request : Placed(requests'[q])
  BY <1>5, <1>7, PlacedStep DEF SandboxInv
<1>9. /\ lock' \in [Worktrees -> SUBSET Request]
      /\ lock'[root] = {r}
      /\ \A w \in Worktrees \ {root} : lock'[w] = lock[w]
  BY <1>1, <1>6 DEF SandboxInv, SandboxTypes
<1>10. SandboxTypes'
  BY <1>6, <1>7, <1>8, <1>9 DEF SandboxInv, SandboxTypes
<1>11. HoldsLock'
  <2> SUFFICES ASSUME NEW q \in Request, requests'[q].stage \in Preparing
               PROVE  lock'[requests'[q].root] = {q}
    BY DEF HoldsLock
  <2>1. CASE q = r
    BY <1>3, <1>7, <1>9, <2>1
  <2>2. CASE q # r
    <3>1. requests'[q] = requests[q] /\ lock[requests[q].root] = {q}
      BY <1>7, <2>2 DEF SandboxInv, HoldsLock
    <3>2. requests[q].root \in Worktrees
      BY <3>1 DEF SandboxInv, SandboxTypes, Placed, Preparing
    <3>3. requests[q].root # root
      BY <1>6, <3>1
    <3> QED BY <1>9, <3>1, <3>2, <3>3
  <2> QED BY <2>1, <2>2
<1>12. NoneYet'
  <2> SUFFICES ASSUME NEW q \in Request, requests'[q].stage = "creating"
               PROVE  {i \in DOMAIN boxes' : boxes'[i].cwd = requests'[q].root} = {}
    BY DEF NoneYet, findSandboxForCwd
  <2>1. requests'[q] = requests[q]
    BY <1>3, <1>7
  <2> QED BY <1>6, <2>1 DEF SandboxInv, NoneYet, findSandboxForCwd
<1>13. OneSandboxPerWorktree'
  BY <1>6 DEF SandboxInv, OneSandboxPerWorktree
<1> QED BY <1>10, <1>11, <1>12, <1>13 DEF SandboxInv

\* Having seen that there is none, Find goes on to make one; otherwise it ends or goes on
\* with the one it found.
LEMMA FindKeeps ==
  ASSUME SandboxInv, NEW r \in Request, Find(r)
  PROVE  SandboxInv'
<1> DEFINE found == findSandboxForCwd(requests[r].root)
           i == CHOOSE x \in found : TRUE
           stage == AfterFound(requests[r], boxes[i].label)
<1>1. /\ requests[r] \in Requests /\ requests[r].stage = "finding"
      /\ requests[r].stage \in Preparing
      /\ SandboxTypes
  BY DEF Find, SandboxInv, SandboxTypes, Preparing
<1>2. UNCHANGED <<boxes, made, worktrees, edits, faults>>
  BY DEF Find
<1>3. ASSUME found = {}, Go(r, "creating"), UNCHANGED lock PROVE SandboxInv'
  <2>1. "creating" \in Stages /\ "creating" \in Preparing
    BY DEF Stages, Preparing
  <2>2. /\ requests'[r].stage = "creating"
        /\ requests'[r].root = requests[r].root
        /\ \A q \in Request \ {r} : requests'[q] = requests[q]
    BY <1>1, <1>3, <2>1, GoType
  <2>3. SandboxTypes'
    BY <1>1, <1>2, <1>3, <2>1, GoTypes, Frame
  <2>4. HoldsLock'
    BY <1>1, <1>3, <2>2 DEF SandboxInv, HoldsLock
  <2>5. NoneYet'
    <3> SUFFICES ASSUME NEW q \in Request, requests'[q].stage = "creating"
                 PROVE  {j \in DOMAIN boxes' : boxes'[j].cwd = requests'[q].root} = {}
      BY DEF NoneYet, findSandboxForCwd
    <3>1. findSandboxForCwd(requests[q].root) = {} /\ requests'[q].root = requests[q].root
      <4>1. CASE q = r
        BY <1>3, <2>2, <4>1
      <4>2. CASE q # r
        BY <2>2, <4>2 DEF SandboxInv, NoneYet
      <4> QED BY <4>1, <4>2
    <3> QED BY <1>2, <3>1 DEF findSandboxForCwd
  <2>6. OneSandboxPerWorktree'
    BY <1>2 DEF SandboxInv, OneSandboxPerWorktree
  <2> QED BY <2>3, <2>4, <2>5, <2>6 DEF SandboxInv
<1>4. ASSUME End(r, "ok") PROVE SandboxInv'
  <2>1. SandboxTypes'
    BY <1>1, <1>2, <1>4, EndTypes, Frame
  <2> QED BY <1>1, <1>2, <1>4, <2>1, EndStep, Frame
<1>5. ASSUME found # {}, UNCHANGED lock, requests[r].mode # "create",
             requests' = [requests EXCEPT ![r].stage = stage, ![r].box = i]
      PROVE  SandboxInv'
  <2>1. i \in Nat
    <3>1. found \subseteq DOMAIN boxes /\ DOMAIN boxes \subseteq Nat
      BY <1>1 DEF findSandboxForCwd, SandboxTypes
    <3> HIDE DEF found
    <3> QED BY <1>5, <3>1
  <2>2. stage \in {"inspecting", "syncing"}
    BY <1>5 DEF AfterFound
  <2> DEFINE req == [requests[r] EXCEPT !.stage = stage, !.box = i]
  <2>3. requests' = [requests EXCEPT ![r] = req]
    BY <1>5
  <2> HIDE DEF stage, i, found
  <2>4. req \in Requests /\ req.stage = stage /\ req.root = requests[r].root /\ req.sha = requests[r].sha
    BY <1>1, <2>1, <2>2 DEF Requests, Stages, Preparing
  <2> HIDE DEF req
  <2>5. Placed(req)
    BY <1>1, <2>2, <2>4 DEF Placed, Preparing, SandboxTypes
  <2>6. /\ requests' \in [Request -> Requests]
        /\ requests'[r] = req
        /\ \A q \in Request \ {r} : requests'[q] = requests[q]
    BY <1>1, <2>3, <2>4 DEF SandboxTypes
  <2>7. \A q \in Request : Placed(requests'[q])
    BY <1>1, <2>5, <2>6, PlacedStep
  <2>8. SandboxTypes'
    BY <1>1, <1>2, <1>5, <2>6, <2>7 DEF SandboxTypes
  <2> QED BY <1>1, <1>2, <1>5, <2>2, <2>4, <2>6, <2>8, GoStep, Frame
<1>6. \/ found = {} /\ Go(r, "creating") /\ UNCHANGED lock
      \/ End(r, "ok")
      \/ /\ found # {} /\ requests[r].mode # "create" /\ UNCHANGED lock
         /\ requests' = [requests EXCEPT ![r].stage = stage, ![r].box = i]
  BY Zenon DEF Find
<1> QED BY <1>3, <1>4, <1>5, <1>6

\* Only the holder of a worktree's lock makes it a sandbox, and it has seen none.
LEMMA CreateKeeps ==
  ASSUME SandboxInv, NEW r \in Request, createSandbox(r)
  PROVE  SandboxInv'
<1> DEFINE id == made + 1
           box == [cwd |-> requests[r].root, label |-> requests[r].sha, base |-> NoFiles, files |-> EmptyTree]
           req == [requests[r] EXCEPT !.stage = "filling", !.box = id]
<1>1. /\ requests[r] \in Requests /\ requests[r].stage = "creating"
      /\ requests[r].stage \in Preparing
      /\ SandboxTypes
  BY DEF createSandbox, SandboxInv, SandboxTypes, Preparing
<1>2. requests[r].root \in Worktrees /\ requests[r].sha \in Trees
  BY <1>1 DEF SandboxTypes, Placed, Preparing
<1>3. id \in Nat /\ id \notin DOMAIN boxes
  BY <1>1 DEF SandboxTypes
<1>4. box \in Boxes /\ box.cwd = requests[r].root
  <2>1. EmptyTree \in Trees
    BY DEF EmptyTree, Trees
  <2> QED BY <1>2, <2>1 DEF Boxes
<1>5. /\ made' = id
      /\ boxes' = [j \in DOMAIN boxes \cup {id} |-> IF j \in DOMAIN boxes THEN boxes[j] ELSE box]
      /\ requests' = [requests EXCEPT ![r] = req]
      /\ UNCHANGED <<lock, worktrees, edits, faults>>
  BY DEF createSandbox
<1>6. req \in Requests /\ req.stage = "filling" /\ req.root = requests[r].root /\ req.sha = requests[r].sha
  BY <1>1, <1>3 DEF Requests, Stages, Preparing
<1> HIDE DEF box, req
<1>7. Placed(req)
  BY <1>2, <1>6 DEF Placed
<1>8. /\ DOMAIN boxes' = DOMAIN boxes \cup {id}
      /\ boxes'[id] = box
      /\ \A j \in DOMAIN boxes : boxes'[j] = boxes[j]
      /\ boxes' \in [DOMAIN boxes' -> Boxes]
  BY <1>1, <1>3, <1>4, <1>5 DEF SandboxTypes
<1>9. DOMAIN boxes' \subseteq 1..made'
  BY <1>1, <1>5, <1>8 DEF SandboxTypes
<1> HIDE DEF id
<1>10. /\ requests' \in [Request -> Requests]
       /\ requests'[r] = req
       /\ \A q \in Request \ {r} : requests'[q] = requests[q]
  BY <1>1, <1>5, <1>6 DEF SandboxTypes
<1>11. \A q \in Request : Placed(requests'[q])
  BY <1>1, <1>7, <1>10, PlacedStep
<1>12. SandboxTypes'
  BY <1>1, <1>3, <1>5, <1>8, <1>9, <1>10, <1>11 DEF SandboxTypes
<1>13. HoldsLock'
  BY <1>1, <1>5, <1>6, <1>10 DEF SandboxInv, HoldsLock
<1>14. NoneYet'
  <2> SUFFICES ASSUME NEW q \in Request, requests'[q].stage = "creating",
                      NEW j \in DOMAIN boxes', boxes'[j].cwd = requests'[q].root
               PROVE  FALSE
    BY DEF NoneYet, findSandboxForCwd
  <2>1. q # r /\ requests'[q] = requests[q]
    BY <1>6, <1>10
  <2>2. lock[requests[q].root] = {q} /\ lock[requests[r].root] = {r}
    BY <1>1, <2>1 DEF SandboxInv, HoldsLock, Preparing
  <2>3. requests[q].root # requests[r].root
    BY <2>1, <2>2
  <2>4. findSandboxForCwd(requests[q].root) = {}
    BY <2>1 DEF SandboxInv, NoneYet
  <2>5. j # id
    BY <1>4, <1>8, <2>1, <2>3
  <2>6. j \in DOMAIN boxes /\ boxes[j].cwd = requests[q].root
    BY <1>8, <2>1, <2>5
  <2> QED BY <2>4, <2>6 DEF findSandboxForCwd
<1>15. OneSandboxPerWorktree'
  <2>1. \A j \in DOMAIN boxes : boxes[j].cwd # requests[r].root
    BY <1>1 DEF SandboxInv, NoneYet, findSandboxForCwd
  <2> QED BY <1>4, <1>8, <2>1 DEF SandboxInv, OneSandboxPerWorktree
<1> QED BY <1>12, <1>13, <1>14, <1>15 DEF SandboxInv

LEMMA BundleKeeps ==
  ASSUME SandboxInv, NEW r \in Request, bundleAndUpload(r)
  PROVE  SandboxInv'
<1> DEFINE i == requests[r].box
           box == resetHard(boxes[i], requests[r].sha)
<1>1. /\ requests[r].stage \in {"filling", "syncing"} /\ requests[r].stage \in Preparing
      /\ SandboxTypes /\ i \in DOMAIN boxes
      /\ UNCHANGED <<made, worktrees, edits, faults>>
  BY DEF bundleAndUpload, Alive, SandboxInv, Preparing
<1>2. boxes[i] \in Boxes /\ requests[r].sha \in Trees
  BY <1>1 DEF SandboxTypes, Placed, Preparing
<1>3. box \in Boxes /\ box.cwd = boxes[i].cwd
  BY <1>2, ResetType
<1>4. boxes' = [boxes EXCEPT ![i] = box]
  BY DEF bundleAndUpload
<1> HIDE DEF box, i
<1>5. /\ DOMAIN boxes' = DOMAIN boxes
      /\ boxes' \in [DOMAIN boxes' -> Boxes]
      /\ \A j \in DOMAIN boxes : boxes'[j].cwd = boxes[j].cwd
  BY <1>1, <1>3, <1>4, BoxesWritten
<1>6. made' \in Nat /\ DOMAIN boxes' \subseteq 1..made'
  BY <1>1, <1>5 DEF SandboxTypes
<1>7. ASSUME End(r, "ok") PROVE SandboxInv'
  <2>1. SandboxTypes'
    BY <1>1, <1>5, <1>6, <1>7, EndTypes, Frame
  <2> QED BY <1>5, <1>7, <2>1, EndStep
<1>8. ASSUME NEW stage \in {"labelling", "inspecting"}, Go(r, stage), UNCHANGED lock PROVE SandboxInv'
  <2>1. stage \in Stages /\ stage \in Preparing
    BY DEF Stages, Preparing
  <2>2. SandboxTypes'
    BY <1>1, <1>5, <1>6, <1>8, <2>1, GoTypes, Frame
  <2>3. /\ requests'[r].stage = stage
        /\ requests'[r].root = requests[r].root
        /\ \A q \in Request \ {r} : requests'[q] = requests[q]
    BY <1>1, <1>8, <2>1, GoType
  <2> QED BY <1>1, <1>5, <1>8, <2>2, <2>3, GoStep
<1>9. \/ End(r, "ok")
      \/ \E stage \in {"labelling", "inspecting"} : Go(r, stage) /\ UNCHANGED lock
  BY <1>1 DEF bundleAndUpload
<1> QED BY <1>7, <1>8, <1>9

LEMMA LabelKeeps ==
  ASSUME SandboxInv, NEW r \in Request, setLabels(r)
  PROVE  SandboxInv'
<1> DEFINE i == requests[r].box
           box == [boxes[i] EXCEPT !.label = requests[r].sha]
<1>1. /\ requests[r].stage = "labelling" /\ requests[r].stage \in Preparing
      /\ SandboxTypes /\ i \in DOMAIN boxes
      /\ Go(r, "inspecting")
      /\ UNCHANGED <<made, lock, worktrees, edits, faults>>
  BY DEF setLabels, Alive, SandboxInv, Preparing
<1>2. boxes[i] \in Boxes /\ requests[r].sha \in Trees
  BY <1>1 DEF SandboxTypes, Placed, Preparing
<1>3. box \in Boxes /\ box.cwd = boxes[i].cwd
  BY <1>2 DEF Boxes
<1>4. boxes' = [boxes EXCEPT ![i] = box]
  BY DEF setLabels
<1> HIDE DEF box, i
<1>5. /\ DOMAIN boxes' = DOMAIN boxes
      /\ boxes' \in [DOMAIN boxes' -> Boxes]
      /\ \A j \in DOMAIN boxes : boxes'[j].cwd = boxes[j].cwd
  BY <1>1, <1>3, <1>4, BoxesWritten
<1>6. made' \in Nat /\ DOMAIN boxes' \subseteq 1..made'
  BY <1>1, <1>5 DEF SandboxTypes
<1>7. "inspecting" \in Stages /\ "inspecting" \in Preparing
  BY DEF Stages, Preparing
<1>8. SandboxTypes'
  BY <1>1, <1>5, <1>6, <1>7, GoTypes, Frame
<1>9. /\ requests'[r].stage = "inspecting"
      /\ requests'[r].root = requests[r].root
      /\ \A q \in Request \ {r} : requests'[q] = requests[q]
  BY <1>1, <1>7, GoType
<1> QED BY <1>1, <1>5, <1>8, <1>9, GoStep

LEMMA InspectKeeps ==
  ASSUME SandboxInv, NEW r \in Request, Inspect(r)
  PROVE  SandboxInv'
<1> DEFINE wt == worktrees[requests[r].root]
           list == changed(wt.files, wt.head)
           req == [requests[r] EXCEPT !.stage = "overlaying", !.list = list]
<1>1. /\ requests[r] \in Requests /\ requests[r].stage = "inspecting"
      /\ requests[r].stage \in Preparing
      /\ SandboxTypes
      /\ UNCHANGED <<boxes, made, worktrees, edits, faults>>
  BY DEF Inspect, SandboxInv, SandboxTypes, Preparing
<1>2. ASSUME End(r, "failed") PROVE SandboxInv'
  <2>1. SandboxTypes'
    BY <1>1, <1>2, EndTypes, Frame
  <2> QED BY <1>1, <1>2, <2>1, EndStep, Frame
<1>3. ASSUME requests' = [requests EXCEPT ![r].stage = "overlaying", ![r].list = list], UNCHANGED lock
      PROVE  SandboxInv'
  <2>1. list \in SUBSET File
    BY DEF changed
  <2>2. requests' = [requests EXCEPT ![r] = req]
    BY <1>3
  <2> HIDE DEF list
  <2>3. req \in Requests /\ req.stage = "overlaying" /\ req.root = requests[r].root /\ req.sha = requests[r].sha
    BY <1>1, <2>1 DEF Requests, Stages, Preparing
  <2> HIDE DEF req
  <2>4. Placed(req)
    BY <1>1, <2>3 DEF Placed, Preparing, SandboxTypes
  <2>5. /\ requests' \in [Request -> Requests]
        /\ requests'[r] = req
        /\ \A q \in Request \ {r} : requests'[q] = requests[q]
    BY <1>1, <2>2, <2>3 DEF SandboxTypes
  <2>6. \A q \in Request : Placed(requests'[q])
    BY <1>1, <2>4, <2>5, PlacedStep
  <2>7. SandboxTypes'
    BY <1>1, <1>3, <2>5, <2>6 DEF SandboxTypes
  <2> QED BY <1>1, <1>3, <2>3, <2>5, <2>7, GoStep, Frame
<1>4. \/ End(r, "failed")
      \/ requests' = [requests EXCEPT ![r].stage = "overlaying", ![r].list = list] /\ UNCHANGED lock
  BY Zenon DEF Inspect
<1> QED BY <1>2, <1>3, <1>4

\* The lock is given back with the files in place.
LEMMA OverlayKeeps ==
  ASSUME SandboxInv, NEW r \in Request, overlayDirtyFiles(r)
  PROVE  SandboxInv'
<1> DEFINE i == requests[r].box
           wt == worktrees[requests[r].root]
           files == [f \in File |-> IF f \in requests[r].list THEN wt.files[f] ELSE boxes[i].files[f]]
           box == [boxes[i] EXCEPT !.files = files]
<1>1. /\ requests[r].stage = "overlaying" /\ requests[r].stage \in Preparing
      /\ SandboxTypes /\ i \in DOMAIN boxes
      /\ Go(r, "running")
      /\ lock' = [w \in Worktrees |-> lock[w] \ {r}]
      /\ UNCHANGED <<made, worktrees, edits, faults>>
  BY DEF overlayDirtyFiles, Alive, released, SandboxInv, Preparing
<1>2. boxes[i] \in Boxes /\ requests[r].root \in Worktrees
  BY <1>1 DEF SandboxTypes, Placed, Preparing
<1>3. wt.files \in Trees /\ boxes[i].files \in Trees
  BY <1>1, <1>2 DEF SandboxTypes, Boxes
<1>4. files \in Trees
  BY <1>3 DEF Trees
<1>5. boxes' = [boxes EXCEPT ![i] = box]
  BY DEF overlayDirtyFiles
<1> HIDE DEF files, i, wt
<1>6. box \in Boxes /\ box.cwd = boxes[i].cwd
  BY <1>2, <1>4 DEF Boxes
<1> HIDE DEF box
<1>7. /\ DOMAIN boxes' = DOMAIN boxes
      /\ boxes' \in [DOMAIN boxes' -> Boxes]
      /\ \A j \in DOMAIN boxes : boxes'[j].cwd = boxes[j].cwd
  BY <1>1, <1>5, <1>6, BoxesWritten
<1>8. made' \in Nat /\ DOMAIN boxes' \subseteq 1..made'
  BY <1>1, <1>7 DEF SandboxTypes
<1>9. lock' \in [Worktrees -> SUBSET Request] /\ \A w \in Worktrees : lock'[w] = lock[w] \ {r}
  BY <1>1 DEF SandboxTypes
<1>10. SandboxTypes'
  BY <1>1, <1>7, <1>8, <1>9, GoTypes, Frame
<1>11. /\ requests'[r].stage = "running"
       /\ \A q \in Request \ {r} : requests'[q] = requests[q]
  <2>1. "running" \in Stages
    BY DEF Stages
  <2> QED BY <1>1, <2>1, GoType
<1>12. ASSUME NEW q \in Request, requests'[q].stage \in Preparing
       PROVE  /\ requests[q].stage \in Preparing
              /\ requests'[q].root = requests[q].root
              /\ lock'[requests[q].root] = lock[requests[q].root]
  <2>1. q # r
    BY <1>11, <1>12 DEF Preparing
  <2>2. requests'[q] = requests[q]
    BY <1>11, <2>1
  <2>3. requests[q].root \in Worktrees
    BY <1>1, <1>12, <2>2 DEF SandboxTypes, Placed, Preparing
  <2>4. lock[requests[q].root] = {q}
    BY <1>12, <2>2 DEF SandboxInv, HoldsLock
  <2> QED BY <1>9, <1>12, <2>1, <2>2, <2>3, <2>4
<1>13. \A q \in Request : requests'[q].stage = "creating" => requests[q].stage = "creating"
  BY <1>11
<1> QED BY <1>7, <1>10, <1>12, <1>13, QuietStep

\* A command runs outside the critical section.
LEMMA ExecKeeps ==
  ASSUME SandboxInv, NEW r \in Request, NEW f \in File, NEW c \in {0, 1}, NEW exit \in {0, 1},
         execInSandboxStream(r, f, c, exit)
  PROVE  SandboxInv'
<1> DEFINE i == requests[r].box
           files == [boxes[i].files EXCEPT ![f] = c]
           box == [boxes[i] EXCEPT !.files = files]
           req == IF exit = 0 THEN [requests[r] EXCEPT !.stage = "pulling"] ELSE Closed(requests[r], "failed")
<1>1. /\ requests[r] \in Requests /\ requests[r].stage = "running"
      /\ SandboxTypes /\ i \in DOMAIN boxes
      /\ UNCHANGED <<made, lock, worktrees, faults>> /\ edits' = edits + 1
  BY DEF execInSandboxStream, Alive, SandboxInv, SandboxTypes
<1>2. boxes[i] \in Boxes
  BY <1>1 DEF SandboxTypes
<1>3. files \in Trees
  BY <1>2 DEF Boxes, Trees
<1>4. boxes' = [boxes EXCEPT ![i] = box]
  BY DEF execInSandboxStream
<1>5. requests' = [requests EXCEPT ![r] = req]
  BY DEF execInSandboxStream
<1> HIDE DEF files, i
<1>6. box \in Boxes /\ box.cwd = boxes[i].cwd
  BY <1>2, <1>3 DEF Boxes
<1> HIDE DEF box
<1>7. /\ DOMAIN boxes' = DOMAIN boxes
      /\ boxes' \in [DOMAIN boxes' -> Boxes]
      /\ \A j \in DOMAIN boxes : boxes'[j].cwd = boxes[j].cwd
  BY <1>1, <1>4, <1>6, BoxesWritten
<1>8. Closed(requests[r], "failed") \in Requests /\ Closed(requests[r], "failed").stage = "answered"
  <2>1. requests[r].mode \in Modes
    BY <1>1 DEF Requests
  <2> QED BY <2>1, ClosedType
<1>9. req \in Requests /\ req.stage \in {"pulling", "answered"} /\ Placed(req)
  <2>1. CASE exit = 0
    <3>1. req = [requests[r] EXCEPT !.stage = "pulling"]
      BY <2>1
    <3>2. requests[r].root \in Worktrees /\ requests[r].sha \in Trees
      BY <1>1 DEF SandboxTypes, Placed
    <3> HIDE DEF req
    <3> QED BY <1>1, <3>1, <3>2 DEF Requests, Stages, Placed
  <2>2. CASE exit # 0
    BY <1>8, <2>2 DEF Placed, Preparing
  <2> QED BY <2>1, <2>2
<1> HIDE DEF req
<1>10. /\ requests' \in [Request -> Requests]
       /\ requests'[r] = req
       /\ \A q \in Request \ {r} : requests'[q] = requests[q]
  BY <1>1, <1>5, <1>9 DEF SandboxTypes
<1>11. \A q \in Request : Placed(requests'[q])
  BY <1>1, <1>9, <1>10, PlacedStep
<1>12. SandboxTypes'
  BY <1>1, <1>7, <1>10, <1>11 DEF SandboxTypes
<1>13. \A q \in Request : requests'[q].stage \in Preparing => requests'[q] = requests[q]
  BY <1>9, <1>10 DEF Preparing
<1>14. \A q \in Request : requests'[q].stage = "creating" => requests[q].stage = "creating"
  BY <1>9, <1>10
<1> QED BY <1>1, <1>7, <1>12, <1>13, <1>14, QuietStep

LEMMA PullKeeps ==
  ASSUME SandboxInv, NEW r \in Request, pullSandboxChanges(r)
  PROVE  SandboxInv'
<1> DEFINE root == requests[r].root
           box == boxes[requests[r].box]
           status == parseGitStatus(box.files, box.base)
           list == status.uploads \cup status.deletes
           files == [f \in File |-> IF f \in list THEN box.files[f] ELSE worktrees[root].files[f]]
           wt == [worktrees[root] EXCEPT !.files = files]
<1>1. /\ SandboxTypes /\ requests[r].box \in DOMAIN boxes /\ root \in Worktrees
      /\ UNCHANGED <<boxes, made, faults>> /\ edits' = edits + 1
  BY DEF pullSandboxChanges, Alive, SandboxInv, SandboxTypes, Placed
<1>2. \/ End(r, "failed") /\ UNCHANGED worktrees
      \/ worktrees' = [worktrees EXCEPT ![root] = wt] /\ End(r, "ok")
  BY DEF pullSandboxChanges
<1>3. worktrees[root] \in [head : Trees, files : Trees] /\ box.files \in Trees
  BY <1>1 DEF SandboxTypes, Boxes
<1>4. files \in Trees
  <2> HIDE DEF list
  <2> QED BY <1>3 DEF Trees
<1> HIDE DEF files
<1>5. wt \in [head : Trees, files : Trees]
  BY <1>3, <1>4
<1> HIDE DEF wt, root
<1>6. worktrees' \in [Worktrees -> [head : Trees, files : Trees]]
  BY <1>1, <1>2, <1>5 DEF SandboxTypes
<1>7. PICK exit \in {"ok", "failed"} : End(r, exit)
  BY <1>2
<1>8. edits' \in Nat
  BY <1>1 DEF SandboxTypes
<1>9. SandboxTypes'
  BY <1>1, <1>6, <1>7, <1>8, EndTypes, Frame
<1> QED BY <1>1, <1>7, <1>9, EndStep, Frame

LEMMA CallFailsKeeps ==
  ASSUME SandboxInv, NEW r \in Request, NEW cleaned \in BOOLEAN, CallFails(r, cleaned)
  PROVE  SandboxInv'
<1>1. /\ SandboxTypes /\ End(r, "failed") /\ faults' = faults + 1
      /\ UNCHANGED <<made, worktrees, edits>>
  BY DEF CallFails, Fault, SandboxInv
<1>2. \E gone : boxes' = [i \in DOMAIN boxes \ gone |-> boxes[i]]
  <2>1. CASE cleaned
    BY <2>1 DEF CallFails
  <2>2. CASE ~cleaned
    <3>1. boxes' = boxes
      BY <2>2 DEF CallFails
    <3>2. boxes = [i \in DOMAIN boxes \ {} |-> boxes[i]]
      BY <1>1 DEF SandboxTypes
    <3> QED BY <3>1, <3>2
  <2> QED BY <2>1, <2>2
<1>3. /\ DOMAIN boxes' \subseteq DOMAIN boxes
      /\ boxes' \in [DOMAIN boxes' -> Boxes]
      /\ \A i \in DOMAIN boxes' : boxes'[i] = boxes[i]
  BY <1>1, <1>2, BoxesDeleted
<1>4. faults' \in Nat /\ made' \in Nat /\ DOMAIN boxes' \subseteq 1..made'
  BY <1>1, <1>3 DEF SandboxTypes
<1>5. SandboxTypes'
  BY <1>1, <1>3, <1>4, EndTypes, Frame
<1> QED BY <1>1, <1>3, <1>5, EndStep

LEMMA VanishedKeeps ==
  ASSUME SandboxInv, NEW r \in Request, Vanished(r)
  PROVE  SandboxInv'
<1>1. SandboxTypes /\ End(r, "failed") /\ UNCHANGED <<boxes, made, worktrees, edits, faults>>
  BY DEF Vanished, SandboxInv
<1>2. SandboxTypes'
  BY <1>1, EndTypes, Frame
<1> QED BY <1>1, <1>2, EndStep, Frame

\* After a restart nothing holds a lock and nothing needs one.
LEMMA CrashKeeps ==
  ASSUME SandboxInv, CrashCli
  PROVE  SandboxInv'
<1>1. /\ SandboxTypes /\ faults' = faults + 1 /\ UNCHANGED <<boxes, made, worktrees, edits>>
      /\ lock' = [w \in Worktrees |-> {}]
      /\ requests' = [r \in Request |-> IF requests[r].stage \in {"idle", "answered"} THEN requests[r]
                                        ELSE Closed(requests[r], "cut")]
  BY DEF CrashCli, Fault, SandboxInv
<1>2. ASSUME NEW r \in Request
      PROVE  requests'[r] \in Requests /\ requests'[r].stage \in {"idle", "answered"}
  <2>1. requests[r] \in Requests /\ requests[r].mode \in Modes
    BY <1>1 DEF SandboxTypes, Requests
  <2>2. Closed(requests[r], "cut") \in Requests /\ Closed(requests[r], "cut").stage = "answered"
    BY <2>1, ClosedType
  <2> QED BY <1>1, <2>1, <2>2
<1>3. \A r \in Request : Placed(requests'[r])
  BY <1>2 DEF Placed, Preparing
<1>4. requests' \in [Request -> Requests]
  BY <1>1, <1>2
<1>5. SandboxTypes'
  BY <1>1, <1>3, <1>4 DEF SandboxTypes
<1>6. \A r \in Request : requests'[r].stage \notin Preparing /\ requests'[r].stage # "creating"
  BY <1>2 DEF Preparing
<1> QED BY <1>1, <1>5, <1>6, QuietStep, Frame

LEMMA ExpireKeeps ==
  ASSUME SandboxInv, NEW i, Expire(i)
  PROVE  SandboxInv'
<1>1. /\ SandboxTypes /\ boxes' = [x \in DOMAIN boxes \ {i} |-> boxes[x]]
      /\ UNCHANGED <<requests, made, lock, worktrees, edits, faults>>
  BY DEF Expire, SandboxInv
<1>2. /\ DOMAIN boxes' \subseteq DOMAIN boxes
      /\ boxes' \in [DOMAIN boxes' -> Boxes]
      /\ \A x \in DOMAIN boxes' : boxes'[x] = boxes[x]
  BY <1>1, BoxesDeleted
<1>3. SandboxTypes'
  BY <1>1, <1>2 DEF SandboxTypes
<1> QED BY <1>1, <1>2, <1>3, QuietStep

LEMMA WorkKeeps ==
  ASSUME SandboxInv, NEW w \in Worktrees, NEW files \in Trees, NEW tip \in Trees, Work(w, files, tip)
  PROVE  SandboxInv'
<1>1. /\ SandboxTypes /\ worktrees' = [worktrees EXCEPT ![w] = [head |-> tip, files |-> files]]
      /\ edits' = edits + 1
      /\ UNCHANGED <<requests, boxes, made, lock, faults>>
  BY DEF Work, SandboxInv
<1>2. worktrees' \in [Worktrees -> [head : Trees, files : Trees]] /\ edits' \in Nat
  BY <1>1 DEF SandboxTypes
<1>3. SandboxTypes'
  BY <1>1, <1>2 DEF SandboxTypes
<1> QED BY <1>1, <1>3, QuietStep, Frame

-----------------------------------------------------------------------------
(***************************************************************************)
(* The theorem                                                             *)
(***************************************************************************)

LEMMA InitInv ==
  SandboxInit => SandboxInv
<1> SUFFICES ASSUME SandboxInit PROVE SandboxInv
  OBVIOUS
<1>1. SandboxTypes
  BY InitTypes
<1>2. \A r \in Request : requests[r].stage = "idle"
  BY DEF SandboxInit, Idle
<1>3. HoldsLock /\ NoneYet
  BY <1>2 DEF HoldsLock, NoneYet, Preparing
<1>4. OneSandboxPerWorktree
  BY DEF SandboxInit, OneSandboxPerWorktree
<1> QED BY <1>1, <1>3, <1>4 DEF SandboxInv

LEMMA StepInv ==
  ASSUME Roots \subseteq Seq(STRING), \A form \in Forms : form.cwd \in Seq(STRING),
         SandboxInv, [SandboxNext]_sandboxVars
  PROVE  SandboxInv'
<1>1. ASSUME NEW r \in Request, NEW form \in Forms, ReceiveSandbox(r, form) PROVE SandboxInv'
  BY <1>1, ReceiveKeeps
<1>2. ASSUME NEW r \in Request,
             \/ FindToStop(r) \/ deleteSandbox(r)
             \/ Lock(r) \/ Find(r) \/ createSandbox(r) \/ bundleAndUpload(r) \/ setLabels(r)
             \/ Inspect(r) \/ overlayDirtyFiles(r) \/ pullSandboxChanges(r) \/ Vanished(r)
      PROVE  SandboxInv'
  BY <1>2, FindToStopKeeps, DeleteKeeps, LockKeeps, FindKeeps, CreateKeeps, BundleKeeps, LabelKeeps,
     InspectKeeps, OverlayKeeps, PullKeeps, VanishedKeeps
<1>3. ASSUME NEW r \in Request, NEW f \in File, NEW c \in {0, 1}, NEW exit \in {0, 1},
             execInSandboxStream(r, f, c, exit)
      PROVE  SandboxInv'
  BY <1>3, ExecKeeps
<1>4. ASSUME NEW r \in Request, NEW cleaned \in BOOLEAN, CallFails(r, cleaned) PROVE SandboxInv'
  BY <1>4, CallFailsKeeps
<1>5. CASE CrashCli
  BY <1>5, CrashKeeps
<1>6. ASSUME NEW i \in 1..made, Expire(i) PROVE SandboxInv'
  BY <1>6, ExpireKeeps
<1>7. ASSUME NEW w \in Worktrees PROVE worktrees[w].files \in Trees /\ worktrees[w].head \in Trees
  BY <1>7 DEF SandboxInv, SandboxTypes
<1>8. ASSUME NEW w \in Worktrees, NEW f \in File, NEW c \in {0, 1}, Edit(w, f, c) PROVE SandboxInv'
  <2>1. [worktrees[w].files EXCEPT ![f] = c] \in Trees
    BY <1>7 DEF Trees
  <2> QED BY <1>7, <1>8, <2>1, WorkKeeps DEF Edit
<1>9. ASSUME NEW w \in Worktrees, Commit(w) \/ Restore(w) PROVE SandboxInv'
  BY <1>7, <1>9, WorkKeeps DEF Commit, Restore
<1>10. CASE UNCHANGED sandboxVars
  BY <1>10 DEF sandboxVars, SandboxInv, SandboxTypes, HoldsLock, NoneYet, OneSandboxPerWorktree, findSandboxForCwd
<1> QED BY <1>1, <1>2, <1>3, <1>4, <1>5, <1>6, <1>8, <1>9, <1>10 DEF SandboxNext

\* Whatever requests come, fail and are cut off, no worktree ever has two sandboxes
\* (withCwdLock around ensureSandbox).
THEOREM WorktreesHaveOneSandbox == SandboxSpec => []OneSandboxPerWorktree
<1>1. SandboxInv => OneSandboxPerWorktree
  BY DEF SandboxInv
<1>2. SandboxInv /\ [SandboxNext]_sandboxVars => SandboxInv'
  BY StepInv, SandboxAssumption
<1> QED BY InitInv, <1>1, <1>2, PTL DEF SandboxSpec

=============================================================================
