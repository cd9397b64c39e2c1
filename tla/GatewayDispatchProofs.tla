------------------------ MODULE GatewayDispatchProofs ------------------------
(***************************************************************************)
(* Theorems about the way from the queue to the runner, for every set of   *)
(* events, keys and directories and every value of the bounds.             *)
(***************************************************************************)
EXTENDS GatewayDispatch, TLAPS

-----------------------------------------------------------------------------
(***************************************************************************)
(* The inductive invariant                                                 *)
(***************************************************************************)

\* Only pending keys are resolved, and only they have comments to enqueue again;
\* they are never posted.
PhasesOfKeys ==
    \A k \in Key :
        /\ phase[k] \in {"resolving", "rerouting"} => k \in Pending
        /\ phase[k] \in {"posting", "accepted", "draining"} => k \notin Pending
        /\ phase[k] # "rerouting" => todo[k] = {}

\* A file is under the key intake gave its event, or was enqueued again under the
\* branch's key.
FilesAtHome ==
    \A e \in Event, k \in Key :
        [event |-> e, key |-> k] \in inbox =>
            \/ k = KeyOf[e]
            \/ KeyOf[e] \in Pending /\ k = BranchKeyOf[KeyOf[e]]

\* The files of a batch stay until its handler settles it.
BatchOnDisk == \A k \in Key : batch[k] \subseteq Waiting(k)

\* What the runner has accepted was part of a prompt.
AcceptedPrompted ==
    \A k \in Key : phase[k] = "accepted" => \A e \in batch[k] : prompts[e] > 0

\* The events a reroute has dealt with wait under the branch's key, or have been
\* settled from there.
ReroutedKept ==
    \A k \in Key : phase[k] = "rerouting" =>
        \A e \in batch[k] \ todo[k] :
            [event |-> e, key |-> BranchKeyOf[k]] \in inbox \/ e \in Settled

FlowInv ==
    /\ PhasesOfKeys
    /\ FilesAtHome
    /\ BatchOnDisk
    /\ AcceptedPrompted
    /\ ReroutedKept

\* A file from which a prompt may still come: not of a batch the runner has
\* accepted, or of one whose copy has been enqueued.
Live(e, k) ==
    /\ [event |-> e, key |-> k] \in inbox
    /\ ~(phase[k] = "accepted" /\ e \in batch[k])
    /\ ~(phase[k] = "rerouting" /\ e \in batch[k] \ todo[k])

One(b) == IF b THEN 1 ELSE 0

\* Prompts, and files from which one may come, are paid for by deliveries, lost
\* answers and what repeats a file.
PromptBudget ==
    \A e \in Event :
        IF KeyOf[e] \in Pending
        THEN prompts[e] + One(Live(e, KeyOf[e])) + One(Live(e, BranchKeyOf[KeyOf[e]]))
               <= delivered[e] + crashes + lost + crashes + faults
        ELSE prompts[e] + One(Live(e, KeyOf[e])) <= delivered[e] + crashes + lost

-----------------------------------------------------------------------------
(***************************************************************************)
(* Types and phases                                                        *)
(***************************************************************************)

\* The events that wait under a key are events.
LEMMA WaitingType ==
    \A k \in Key : Waiting(k) \subseteq Event
BY DEF Waiting

\* Files and dead letters are entries.
LEMMA AtType ==
    ASSUME NEW k \in Key, NEW S \in SUBSET Event
    PROVE  At(k, S) \subseteq Entry
BY DEF At, Entry

\* A handler that rests has no batch.
LEMMA RestType ==
    ASSUME TypeOK, PhasesOfKeys, NEW k \in Key, Rest(k)
    PROVE  /\ phase' \in [Key -> Phase]
           /\ batch' \in [Key -> SUBSET Event]
           /\ todo' \in [Key -> SUBSET Event]
           /\ \A j \in Key : /\ todo'[j] \subseteq batch'[j]
                             /\ phase'[j] = "idle" => batch'[j] = {}
           /\ PhasesOfKeys'
BY DEF Rest, TypeOK, PhasesOfKeys, Phase

\* Rejecting a batch moves entries.
LEMMA RejectType ==
    ASSUME TypeOK, NEW k \in Key, NEW B \in SUBSET Event, Reject(k, B)
    PROVE  inbox' \subseteq Entry /\ dead' \subseteq Entry
BY DEF Reject, TypeOK

\* An event that waits under a pending key came from GitHub, so that what is taken
\* from there is resolved and never posted.
LEMMA PendingResolved ==
    ASSUME TypeOK, FilesAtHome, NEW k \in Pending, Waiting(k) # {}
    PROVE  NeedsBranch(k, Waiting(k)) /\ From("github", Waiting(k)) = Waiting(k)
<1>1. ASSUME NEW e \in Waiting(k) PROVE e \in From("github", Waiting(k))
  <2>1. e \in Event /\ k \in Key /\ [event |-> e, key |-> k] \in inbox
    BY DispatchAssumption DEF Waiting
  <2>2. k = KeyOf[e]
    BY <2>1, DispatchAssumption DEF FilesAtHome
  <2> QED
    BY <2>1, <2>2, DispatchAssumption DEF From
<1> QED
  BY <1>1 DEF NeedsBranch, From

\* The types and the phases of the keys are kept by every step.
LEMMA TypeStep ==
    ASSUME TypeOK, PhasesOfKeys, FilesAtHome, [Next]_vars
    PROVE  TypeOK' /\ PhasesOfKeys'
<1> USE DispatchAssumption
<1>1. ASSUME NEW e \in Event, Arrive(e) PROVE TypeOK' /\ PhasesOfKeys'
  <2>1. inbox' \subseteq Entry
    BY <1>1 DEF Arrive, TypeOK, At, Entry
  <2>2. delivered' \in [Event -> 0..MaxDeliveries]
    BY <1>1 DEF Arrive, TypeOK
  <2> QED
    BY <1>1, <2>1, <2>2 DEF Arrive, TypeOK, PhasesOfKeys, handler
<1>2. ASSUME NEW k \in Key, TakePending(k) PROVE TypeOK' /\ PhasesOfKeys'
  BY <1>2, WaitingType DEF TakePending, TypeOK, PhasesOfKeys, Phase, counts, NeedsBranch
<1>3. ASSUME NEW k \in Key, TakeAndPost(k) PROVE TypeOK' /\ PhasesOfKeys'
  <2>1. k \notin Pending
    BY <1>3, PendingResolved DEF TakeAndPost
  <2> QED
    BY <1>3, <2>1, WaitingType DEF TakeAndPost, TypeOK, PhasesOfKeys, Phase, counts
<1>4. ASSUME NEW k \in Key, TakeAndDrop(k) PROVE TypeOK' /\ PhasesOfKeys'
  BY <1>4, WaitingType, RejectType DEF TakeAndDrop, TypeOK, PhasesOfKeys, handler, counts
<1>5. ASSUME NEW k \in Key, HeadFound(k) PROVE TypeOK' /\ PhasesOfKeys'
  BY <1>5 DEF HeadFound, TypeOK, PhasesOfKeys, Phase, counts, From
<1>6. ASSUME NEW k \in Key, HeadNotFound(k) PROVE TypeOK' /\ PhasesOfKeys'
  <2>1. inbox' \subseteq Entry /\ dead' \subseteq Entry
    BY <1>6, RejectType DEF HeadNotFound, TypeOK
  <2> QED
    BY <1>6, <2>1, RestType DEF HeadNotFound, TypeOK, counts
<1>7. ASSUME NEW k \in Key, NEW e \in Event, Reroute(k, e) PROVE TypeOK' /\ PhasesOfKeys'
  <2>1. inbox' \subseteq Entry
    BY <1>7 DEF Reroute, TypeOK, At, Entry, PhasesOfKeys
  <2> QED
    BY <1>7, <2>1 DEF Reroute, TypeOK, PhasesOfKeys, counts
<1>8. ASSUME NEW k \in Key, RerouteDone(k) PROVE TypeOK' /\ PhasesOfKeys'
  BY <1>8, RestType DEF RerouteDone, Ack, TypeOK, counts
<1>9. ASSUME NEW k \in Key, RerouteFails(k) PROVE TypeOK' /\ PhasesOfKeys'
  BY <1>9, RestType DEF RerouteFails, TypeOK
<1>10. ASSUME NEW k \in Key, RunnerAccepts(k) PROVE TypeOK' /\ PhasesOfKeys'
  <2>1. prompts' \in [Event -> Nat]
    BY <1>10 DEF RunnerAccepts, TypeOK
  <2> QED
    BY <1>10, <2>1 DEF RunnerAccepts, TypeOK, PhasesOfKeys, Phase, counts
<1>11. ASSUME NEW k \in Key, RunnerBusy(k) PROVE TypeOK' /\ PhasesOfKeys'
  BY <1>11, RestType DEF RunnerBusy, TypeOK, counts
<1>12. ASSUME NEW k \in Key, RunnerRefuses(k) PROVE TypeOK' /\ PhasesOfKeys'
  <2>1. inbox' \subseteq Entry /\ dead' \subseteq Entry
    BY <1>12, RejectType DEF RunnerRefuses, TypeOK
  <2> QED
    BY <1>12, <2>1, RestType DEF RunnerRefuses, TypeOK, counts
<1>13. ASSUME NEW k \in Key, RunnerFails(k) PROVE TypeOK' /\ PhasesOfKeys'
  BY <1>13, RestType DEF RunnerFails, TypeOK
<1>14. ASSUME NEW k \in Key, Accepted(k) PROVE TypeOK' /\ PhasesOfKeys'
  <2>1. inbox' \subseteq Entry
    BY <1>14 DEF Accepted, Ack, TypeOK
  <2>2. CASE DrainsInForeground(batch[k])
    BY <1>14, <2>1, <2>2 DEF Accepted, TypeOK, PhasesOfKeys, Phase, counts
  <2>3. CASE ~DrainsInForeground(batch[k])
    BY <1>14, <2>1, <2>3, RestType DEF Accepted, TypeOK, counts
  <2> QED
    BY <2>2, <2>3
<1>15. ASSUME NEW k \in Key, AnswerLost(k) PROVE TypeOK' /\ PhasesOfKeys'
  BY <1>15, RestType DEF AnswerLost, TypeOK
<1>16. ASSUME NEW k \in Key, Drained(k) PROVE TypeOK' /\ PhasesOfKeys'
  BY <1>16, RestType DEF Drained, TypeOK, counts
<1>17. ASSUME NEW k \in Key, RunEnds(k) PROVE TypeOK' /\ PhasesOfKeys'
  BY <1>17 DEF RunEnds, TypeOK, PhasesOfKeys, handler, counts
<1>18. CASE Crash
  BY <1>18 DEF Crash, TypeOK, PhasesOfKeys, Phase
<1>19. CASE UNCHANGED vars
  BY <1>19 DEF vars, TypeOK, PhasesOfKeys
<1> QED
  BY <1>1, <1>2, <1>3, <1>4, <1>5, <1>6, <1>7, <1>8, <1>9, <1>10, <1>11, <1>12, <1>13,
     <1>14, <1>15, <1>16, <1>17, <1>18, <1>19 DEF Next, Handles

-----------------------------------------------------------------------------
(***************************************************************************)
(* Files, batches and what becomes of events                               *)
(***************************************************************************)

\* A batch that rests holds no event.
LEMMA RestBatch ==
    ASSUME TypeOK, NEW k \in Key, Rest(k), NEW j \in Key
    PROVE  /\ j # k => phase'[j] = phase[j] /\ batch'[j] = batch[j] /\ todo'[j] = todo[j]
           /\ phase'[k] = "idle" /\ batch'[k] = {} /\ todo'[k] = {}
BY DEF Rest, TypeOK

\* Of the files, settling a batch takes away those of its key.
LEMMA InOtherKey ==
    ASSUME NEW k, NEW S, NEW e \in Event, NEW j
    PROVE  [event |-> e, key |-> j] \in At(k, S) <=> j = k /\ e \in S
BY DEF At

\* The one file that an event is written to.
LEMMA TheFile ==
    ASSUME NEW k, NEW e, NEW f \in Event, NEW j, [event |-> f, key |-> j] \in At(k, {e})
    PROVE  f = e /\ j = k
BY DEF At

\* A handler that takes files of its key away, and gives up its batch, leaves the
\* batches of the others on disk.
LEMMA OthersOnDisk ==
    ASSUME TypeOK, BatchOnDisk, NEW k \in Key, NEW B \in SUBSET Event,
           inbox' = inbox \ At(k, B),
           batch'[k] = {}, \A j \in Key \ {k} : batch'[j] = batch[j]
    PROVE  BatchOnDisk'
<1> SUFFICES ASSUME NEW j \in Key, NEW e \in batch'[j]
             PROVE  e \in Event /\ [event |-> e, key |-> j] \in inbox'
  BY DEF BatchOnDisk, Waiting
<1>1. j # k /\ e \in batch[j]
  OBVIOUS
<1>2. e \in Event /\ [event |-> e, key |-> j] \in inbox
  BY <1>1 DEF BatchOnDisk, Waiting
<1>3. [event |-> e, key |-> j] \notin At(k, B)
  BY <1>1, <1>2, InOtherKey
<1> QED
  BY <1>2, <1>3

\* Enqueuing under the branch's key is the only way to a key of another event.
LEMMA FilesStep ==
    ASSUME TypeOK, FlowInv, [Next]_vars
    PROVE  FilesAtHome'
<1> USE DispatchAssumption DEF FlowInv
<1>1. ASSUME inbox' \subseteq inbox PROVE FilesAtHome'
  BY <1>1 DEF FilesAtHome
<1>2. ASSUME NEW e \in Event, Arrive(e) PROVE FilesAtHome'
  <2> SUFFICES ASSUME NEW f \in Event, NEW j \in Key, [event |-> f, key |-> j] \in inbox'
               PROVE  j = KeyOf[f] \/ (KeyOf[f] \in Pending /\ j = BranchKeyOf[KeyOf[f]])
    BY DEF FilesAtHome
  <2>1. [event |-> f, key |-> j] \in inbox \/ [event |-> f, key |-> j] \in At(KeyOf[e], {e})
    BY <1>2 DEF Arrive
  <2>2. CASE [event |-> f, key |-> j] \in inbox
    BY <2>2 DEF FilesAtHome
  <2>3. CASE [event |-> f, key |-> j] \in At(KeyOf[e], {e})
    BY <2>3, TheFile
  <2> QED
    BY <2>1, <2>2, <2>3
<1>3. ASSUME NEW k \in Key, NEW e \in Event, Reroute(k, e) PROVE FilesAtHome'
  <2>1. k \in Pending /\ [event |-> e, key |-> k] \in inbox
    BY <1>3 DEF Reroute, PhasesOfKeys, BatchOnDisk, TypeOK, Waiting
  <2>2. k = KeyOf[e]
    BY <2>1 DEF FilesAtHome
  <2> SUFFICES ASSUME NEW f \in Event, NEW j \in Key, [event |-> f, key |-> j] \in inbox'
               PROVE  j = KeyOf[f] \/ (KeyOf[f] \in Pending /\ j = BranchKeyOf[KeyOf[f]])
    BY DEF FilesAtHome
  <2>3. [event |-> f, key |-> j] \in inbox \/ [event |-> f, key |-> j] \in At(BranchKeyOf[k], {e})
    BY <1>3 DEF Reroute
  <2>4. CASE [event |-> f, key |-> j] \in inbox
    BY <2>4 DEF FilesAtHome
  <2>5. CASE [event |-> f, key |-> j] \in At(BranchKeyOf[k], {e})
    BY <2>1, <2>2, <2>5, TheFile
  <2> QED
    BY <2>3, <2>4, <2>5
<1>4. ASSUME NEW k \in Key, Handles(k), \A e \in Event : ~Reroute(k, e) PROVE FilesAtHome'
  BY <1>1, <1>4 DEF Handles, TakePending, TakeAndPost, TakeAndDrop, HeadFound, HeadNotFound,
     RerouteDone, RunnerAccepts, RunnerBusy, RunnerRefuses, Accepted, Drained, Reject, Ack
<1>5. CASE \/ \E k \in Key : RunEnds(k) \/ RerouteFails(k) \/ RunnerFails(k) \/ AnswerLost(k)
           \/ Crash
           \/ UNCHANGED vars
  BY <1>1, <1>5 DEF RunEnds, RerouteFails, RunnerFails, AnswerLost, Crash, vars
<1> QED
  BY <1>2, <1>3, <1>4, <1>5 DEF Next

\* The handler of a key is the only one that takes files away from it.
LEMMA BatchStep ==
    ASSUME TypeOK, FlowInv, [Next]_vars
    PROVE  BatchOnDisk'
<1> USE DispatchAssumption DEF FlowInv
<1>1. ASSUME inbox \subseteq inbox',
             \A k \in Key : batch'[k] \subseteq batch[k] \cup Waiting(k)
      PROVE  BatchOnDisk'
  BY <1>1 DEF BatchOnDisk, Waiting
<1>2. ASSUME NEW k \in Key, Rest(k), NEW B \in SUBSET Event, inbox' = inbox \ At(k, B)
      PROVE  BatchOnDisk'
  BY <1>2, RestBatch, OthersOnDisk
<1>3. ASSUME NEW e \in Event, Arrive(e) PROVE BatchOnDisk'
  BY <1>1, <1>3 DEF Arrive, handler
<1>4. ASSUME NEW k \in Key, TakePending(k) \/ TakeAndPost(k) PROVE BatchOnDisk'
  BY <1>1, <1>4 DEF TakePending, TakeAndPost, TypeOK
<1>5. ASSUME NEW k \in Key, TakeAndDrop(k) PROVE BatchOnDisk'
  <2>1. batch[k] = {}
    BY <1>5 DEF TakeAndDrop, TypeOK
  <2> QED
    BY <1>5, <2>1, OthersOnDisk, WaitingType DEF TakeAndDrop, Reject, handler
<1>6. ASSUME NEW k \in Key, HeadNotFound(k) \/ RerouteDone(k) \/ RunnerRefuses(k)
      PROVE  BatchOnDisk'
  BY <1>2, <1>6 DEF HeadNotFound, RerouteDone, RunnerRefuses, Reject, Ack, TypeOK
<1>7. ASSUME NEW k \in Key, Accepted(k) PROVE BatchOnDisk'
  <2>1. CASE Rest(k)
    BY <1>2, <1>7, <2>1 DEF Accepted, Ack, TypeOK
  <2>2. CASE batch' = [batch EXCEPT ![k] = {}]
    BY <1>7, <2>2, OthersOnDisk DEF Accepted, Ack, TypeOK
  <2> QED
    BY <1>7, <2>1, <2>2 DEF Accepted
<1>8. ASSUME NEW k \in Key, HeadFound(k) \/ RunnerAccepts(k) \/ \E e \in Event : Reroute(k, e)
      PROVE  BatchOnDisk'
  BY <1>1, <1>8 DEF HeadFound, RunnerAccepts, Reroute
<1>9. ASSUME NEW k \in Key,
             \/ RunnerBusy(k) \/ Drained(k) \/ RerouteFails(k) \/ RunnerFails(k) \/ AnswerLost(k)
      PROVE  BatchOnDisk'
  BY <1>1, <1>9 DEF RunnerBusy, Drained, RerouteFails, RunnerFails, AnswerLost, Rest, TypeOK
<1>10. CASE (\E k \in Key : RunEnds(k)) \/ Crash \/ UNCHANGED vars
  BY <1>1, <1>10 DEF RunEnds, Crash, handler, vars
<1> QED
  BY <1>3, <1>4, <1>5, <1>6, <1>7, <1>8, <1>9, <1>10 DEF Next, Handles

\* Every event of a batch has a section of the prompt.
LEMMA PromptedAll ==
    ASSUME NEW B \in SUBSET Event, NEW e \in B
    PROVE  InPrompt(e, B)
<1>1. SourceOf[e] \in Source /\ e \in From(SourceOf[e], B)
  BY DispatchAssumption DEF From
<1>2. From(SourceOf[e], B) \in Sections(B)
  BY <1>1 DEF Sections
<1> QED
  BY <1>1, <1>2 DEF InPrompt

\* A handler that goes on to accepted has prompted its batch; no prompt is unsent.
LEMMA AcceptedStep ==
    ASSUME TypeOK, FlowInv, [Next]_vars
    PROVE  AcceptedPrompted' /\ \A e \in Event : prompts'[e] >= prompts[e]
<1> USE DispatchAssumption DEF FlowInv
<1>1. ASSUME prompts' = prompts,
             \A k \in Key : phase'[k] = "accepted" => phase[k] = "accepted" /\ batch'[k] = batch[k]
      PROVE  AcceptedPrompted' /\ \A e \in Event : prompts'[e] >= prompts[e]
  BY <1>1 DEF AcceptedPrompted, TypeOK
<1>2. ASSUME NEW k \in Key, RunnerAccepts(k)
      PROVE  AcceptedPrompted' /\ \A e \in Event : prompts'[e] >= prompts[e]
  <2>1. \A e \in Event : prompts'[e] >= prompts[e]
    BY <1>2 DEF RunnerAccepts, TypeOK
  <2>2. \A e \in batch[k] : prompts'[e] = prompts[e] + 1
    <3>1. \A e \in batch[k] : e \in Event /\ InPrompt(e, batch[k])
      BY PromptedAll DEF TypeOK
    <3> QED
      BY <1>2, <3>1 DEF RunnerAccepts
  <2>3. ASSUME NEW j \in Key, phase'[j] = "accepted", NEW e \in batch'[j] PROVE prompts'[e] > 0
    <3>1. batch'[j] = batch[j] /\ e \in Event /\ prompts[e] \in Nat /\ prompts'[e] \in Nat
      BY <1>2, <2>3 DEF RunnerAccepts, TypeOK
    <3>2. CASE j = k
      BY <2>2, <2>3, <3>1, <3>2
    <3>3. CASE j # k
      <4>1. phase[j] = "accepted"
        BY <1>2, <2>3, <3>3 DEF RunnerAccepts, TypeOK
      <4> QED
        BY <2>1, <2>3, <3>1, <4>1 DEF AcceptedPrompted
    <3> QED
      BY <3>2, <3>3
  <2> QED
    BY <2>1, <2>3 DEF AcceptedPrompted
<1>3. ASSUME NEW k \in Key, Handles(k), ~RunnerAccepts(k)
      PROVE  AcceptedPrompted' /\ \A e \in Event : prompts'[e] >= prompts[e]
  BY <1>1, <1>3 DEF Handles, TakePending, TakeAndPost, TakeAndDrop, HeadFound, HeadNotFound,
     Reroute, RerouteDone, RunnerBusy, RunnerRefuses, Accepted, Drained, Rest, handler, TypeOK
<1>4. CASE \/ \E e \in Event : Arrive(e)
           \/ \E k \in Key : RunEnds(k) \/ RerouteFails(k) \/ RunnerFails(k) \/ AnswerLost(k)
           \/ Crash
           \/ UNCHANGED vars
  BY <1>1, <1>4 DEF Arrive, RunEnds, RerouteFails, RunnerFails, AnswerLost, Crash, Rest, handler,
     vars, TypeOK
<1> QED
  BY <1>2, <1>3, <1>4 DEF Next

\* What is settled stays settled.
LEMMA SettledStays ==
    ASSUME TypeOK, FlowInv, [Next]_vars
    PROVE  Settled \subseteq Settled'
<1>1. \A e \in Event : prompts'[e] >= prompts[e]
  BY AcceptedStep
<1>2. dead \subseteq dead'
  BY DEF Next, Handles, Arrive, TakePending, TakeAndPost, TakeAndDrop, HeadFound, HeadNotFound,
     Reroute, RerouteDone, RerouteFails, RunnerAccepts, RunnerBusy, RunnerRefuses, RunnerFails,
     Accepted, AnswerLost, Drained, RunEnds, Crash, Reject, vars
<1>3. \A e \in Event : prompts[e] \in Nat /\ prompts'[e] \in Nat
  BY TypeStep DEF TypeOK, FlowInv
<1> QED
  BY <1>1, <1>2, <1>3 DEF Settled

\* A file that is rejected is a dead letter.
LEMMA RejectSettles ==
    ASSUME NEW k \in Key, NEW B, Reject(k, B), NEW e \in Event, NEW j,
           [event |-> e, key |-> j] \in inbox, [event |-> e, key |-> j] \notin inbox'
    PROVE  e \in Settled'
<1>1. [event |-> e, key |-> j] \in At(k, B)
  BY DEF Reject
<1>2. j = k /\ [event |-> e, key |-> j] \in dead'
  BY <1>1, InOtherKey DEF Reject
<1> QED
  BY <1>2 DEF Settled

\* A file that goes leaves its event settled, or waiting under the branch's key.
LEMMA RemovedAccounted ==
    ASSUME TypeOK, FlowInv, [Next]_vars, NEW e \in Event, NEW j \in Key,
           [event |-> e, key |-> j] \in inbox, [event |-> e, key |-> j] \notin inbox'
    PROVE  \/ e \in Settled'
           \/ j \in Pending /\ [event |-> e, key |-> BranchKeyOf[j]] \in inbox'
<1> USE DispatchAssumption DEF FlowInv
<1> DEFINE Accounted ==
      \/ e \in Settled'
      \/ j \in Pending /\ [event |-> e, key |-> BranchKeyOf[j]] \in inbox'
<1> HIDE DEF Accounted
<1>1. ASSUME NEW k \in Key, TakeAndDrop(k) \/ HeadNotFound(k) \/ RunnerRefuses(k) PROVE Accounted
  BY <1>1, RejectSettles DEF TakeAndDrop, HeadNotFound, RunnerRefuses, Accounted
<1>2. ASSUME NEW k \in Key, RerouteDone(k) PROVE Accounted
  <2>1. j = k /\ e \in batch[k]
    BY <1>2, InOtherKey DEF RerouteDone, Ack
  <2>2. k \in Pending /\ BranchKeyOf[k] # k
    BY <1>2 DEF RerouteDone, PhasesOfKeys
  <2>3. [event |-> e, key |-> BranchKeyOf[k]] \in inbox \/ e \in Settled
    BY <1>2, <2>1 DEF RerouteDone, ReroutedKept
  <2>4. CASE [event |-> e, key |-> BranchKeyOf[k]] \in inbox
    <3>1. [event |-> e, key |-> BranchKeyOf[k]] \notin At(k, batch[k])
      BY <2>2, InOtherKey
    <3> QED
      BY <1>2, <2>1, <2>2, <2>4, <3>1 DEF RerouteDone, Ack, Accounted
  <2> QED
    BY <2>3, <2>4, SettledStays DEF Accounted
<1>3. ASSUME NEW k \in Key, Accepted(k) PROVE Accounted
  <2>1. j = k /\ e \in batch[k]
    BY <1>3, InOtherKey DEF Accepted, Ack
  <2>2. e \in Settled
    BY <1>3, <2>1 DEF Accepted, AcceptedPrompted, Settled
  <2> QED
    BY <2>2, SettledStays DEF Accounted
<1>4. inbox' # inbox /\ ~(inbox \subseteq inbox')
  OBVIOUS
<1>5. Accounted
  BY <1>1, <1>2, <1>3, <1>4 DEF Next, Handles, Arrive, TakePending, TakeAndPost, HeadFound,
     Reroute, RerouteFails, RunnerAccepts, RunnerBusy, RunnerFails, AnswerLost, Drained, RunEnds,
     Crash, vars
<1> QED
  BY <1>5 DEF Accounted

\* A reroute loses no event between its copies and its ack.
LEMMA ReroutedStep ==
    ASSUME TypeOK, FlowInv, [Next]_vars
    PROVE  ReroutedKept'
<1> USE DispatchAssumption DEF FlowInv
<1>1. ASSUME NEW k \in Key, phase'[k] = "rerouting", k \in Pending,
             NEW e \in Event,
             [event |-> e, key |-> BranchKeyOf[k]] \in inbox \/ e \in Settled
      PROVE  [event |-> e, key |-> BranchKeyOf[k]] \in inbox' \/ e \in Settled'
  <2>1. BranchKeyOf[k] \in Key /\ BranchKeyOf[k] \notin Pending
    BY <1>1
  <2> QED
    BY <1>1, <2>1, RemovedAccounted, SettledStays
<1>2. ASSUME NEW k \in Key, phase'[k] = "rerouting", phase[k] = "rerouting",
             NEW e \in batch'[k] \ todo'[k],
             e \in batch[k] \ todo[k]
      PROVE  [event |-> e, key |-> BranchKeyOf[k]] \in inbox' \/ e \in Settled'
  <2>1. k \in Pending /\ e \in Event
    BY <1>2 DEF PhasesOfKeys, TypeOK
  <2>2. [event |-> e, key |-> BranchKeyOf[k]] \in inbox \/ e \in Settled
    BY <1>2 DEF ReroutedKept
  <2> QED
    BY <1>1, <1>2, <2>1, <2>2
<1>3. ASSUME \A k \in Key : phase'[k] = "rerouting" =>
                phase[k] = "rerouting" /\ batch'[k] = batch[k] /\ todo'[k] = todo[k]
      PROVE  ReroutedKept'
  BY <1>2, <1>3 DEF ReroutedKept
<1>4. ASSUME NEW k \in Key, HeadFound(k) PROVE ReroutedKept'
  <2> SUFFICES ASSUME NEW j \in Key, phase'[j] = "rerouting", NEW e \in batch'[j] \ todo'[j]
               PROVE  [event |-> e, key |-> BranchKeyOf[j]] \in inbox' \/ e \in Settled'
    BY DEF ReroutedKept
  <2>1. k \in Pending /\ batch[k] \subseteq Waiting(k)
    BY <1>4 DEF HeadFound, PhasesOfKeys, BatchOnDisk
  <2>2. From("github", batch[k]) = batch[k]
    <3>1. ASSUME NEW f \in batch[k] PROVE SourceOf[f] = "github"
      <4>1. f \in Event /\ [event |-> f, key |-> k] \in inbox
        BY <2>1 DEF Waiting
      <4>2. k = KeyOf[f]
        BY <2>1, <4>1 DEF FilesAtHome
      <4> QED
        BY <2>1, <4>1, <4>2
    <3> QED
      BY <3>1 DEF From
  <2>3. j # k
    BY <1>4, <2>2 DEF HeadFound, TypeOK
  <2>4. phase[j] = "rerouting" /\ batch'[j] = batch[j] /\ todo'[j] = todo[j]
    BY <1>4, <2>3 DEF HeadFound, TypeOK
  <2> QED
    BY <1>2, <2>4
<1>5. ASSUME NEW k \in Key, NEW f \in Event, Reroute(k, f) PROVE ReroutedKept'
  <2> SUFFICES ASSUME NEW j \in Key, phase'[j] = "rerouting", NEW e \in batch'[j] \ todo'[j]
               PROVE  [event |-> e, key |-> BranchKeyOf[j]] \in inbox' \/ e \in Settled'
    BY DEF ReroutedKept
  <2>1. phase[j] = "rerouting" /\ batch'[j] = batch[j] /\ e \in batch[j] /\ e \in Event
    BY <1>5 DEF Reroute, TypeOK
  <2>2. CASE j = k /\ e = f
    BY <1>5, <2>2 DEF Reroute, At
  <2>3. CASE ~(j = k /\ e = f)
    <3>1. e \in batch[j] \ todo[j]
      BY <1>5, <2>1, <2>3 DEF Reroute, TypeOK
    <3> QED
      BY <1>2, <2>1, <3>1
  <2> QED
    BY <2>2, <2>3
<1>6. ASSUME NEW k \in Key, Rest(k) PROVE ReroutedKept'
  BY <1>3, <1>6 DEF Rest, TypeOK
<1>7. ASSUME NEW k \in Key, TakePending(k) \/ TakeAndPost(k) \/ RunnerAccepts(k) PROVE ReroutedKept'
  BY <1>3, <1>7 DEF TakePending, TakeAndPost, RunnerAccepts, TypeOK
<1>8. ASSUME NEW k \in Key, Accepted(k) PROVE ReroutedKept'
  BY <1>3, <1>6, <1>8 DEF Accepted, TypeOK
<1>9. ASSUME NEW k \in Key,
             \/ HeadNotFound(k) \/ RerouteDone(k) \/ RunnerBusy(k) \/ RunnerRefuses(k)
             \/ Drained(k) \/ RerouteFails(k) \/ RunnerFails(k) \/ AnswerLost(k)
      PROVE  ReroutedKept'
  BY <1>6, <1>9 DEF HeadNotFound, RerouteDone, RunnerBusy, RunnerRefuses, Drained, RerouteFails,
     RunnerFails, AnswerLost
<1>10. CASE \/ \E e \in Event : Arrive(e)
            \/ \E k \in Key : TakeAndDrop(k) \/ RunEnds(k)
            \/ Crash
            \/ UNCHANGED vars
  BY <1>3, <1>10 DEF Arrive, TakeAndDrop, RunEnds, Crash, handler, vars
<1> QED
  BY <1>4, <1>5, <1>7, <1>8, <1>9, <1>10 DEF Next, Handles

\* The invariant of the files and the batches is inductive.
LEMMA FlowInductive ==
    /\ Init => TypeOK /\ FlowInv
    /\ TypeOK /\ FlowInv /\ [Next]_vars => TypeOK' /\ FlowInv'
<1>1. Init => TypeOK /\ FlowInv
  BY DispatchAssumption DEF Init, TypeOK, FlowInv, PhasesOfKeys, FilesAtHome, BatchOnDisk,
     AcceptedPrompted, ReroutedKept, Phase
<1>2. ASSUME TypeOK, FlowInv, [Next]_vars PROVE TypeOK' /\ FlowInv'
  <2>1. TypeOK' /\ PhasesOfKeys'
    BY <1>2, TypeStep DEF FlowInv
  <2> QED
    BY <1>2, <2>1, FilesStep, BatchStep, AcceptedStep, ReroutedStep DEF FlowInv
<1> QED
  BY <1>1, <1>2

\* The queue, its handlers and the runner's conversations keep their types, and
\* files and batches their relation.
LEMMA FlowInvariant == Spec => [](TypeOK /\ FlowInv)
BY FlowInductive, PTL DEF Spec

\* Every state of the dispatch is well typed; a handler that is gone holds no batch.
THEOREM DispatchTypeCorrect == Spec => []TypeOK
BY FlowInvariant, PTL

\* Whatever a source has delivered is on disk, prompted or dead-lettered, through
\* reroutes, crashes and runners that fail.
THEOREM NothingIsDropped == Spec => []NothingDropped
<1>1. Init => NothingDropped
  BY DEF Init, NothingDropped
<1>2. TypeOK /\ FlowInv /\ NothingDropped /\ [Next]_vars => NothingDropped'
  <2> SUFFICES ASSUME TypeOK, FlowInv, NothingDropped, [Next]_vars, NEW e \in Event,
                      delivered'[e] > 0
               PROVE  e \in OnDisk' \cup Settled'
    BY DEF NothingDropped
  <2>1. CASE delivered[e] > 0
    <3>1. CASE e \in Settled
      BY <3>1, SettledStays
    <3>2. ASSUME NEW j \in Key, [event |-> e, key |-> j] \in inbox
          PROVE  e \in OnDisk' \cup Settled'
      BY <3>2, RemovedAccounted, DispatchAssumption DEF OnDisk
    <3> QED
      BY <2>1, <3>1, <3>2 DEF NothingDropped, OnDisk
  <2>2. CASE ~(delivered[e] > 0)
    <3>1. Arrive(e)
      BY <2>2 DEF Next, Handles, Arrive, TakePending, TakeAndPost, TakeAndDrop, HeadFound,
         HeadNotFound, Reroute, RerouteDone, RerouteFails, RunnerAccepts, RunnerBusy,
         RunnerRefuses, RunnerFails, Accepted, AnswerLost, Drained, RunEnds, Crash, counts,
         vars, TypeOK
    <3>2. [event |-> e, key |-> KeyOf[e]] \in inbox' /\ KeyOf[e] \in Key
      BY <3>1, DispatchAssumption DEF Arrive, At
    <3> QED
      BY <3>2 DEF OnDisk
  <2> QED
    BY <2>1, <2>2
<1> QED
  BY <1>1, <1>2, FlowInvariant, PTL DEF Spec

-----------------------------------------------------------------------------
(***************************************************************************)
(* The dispatch implements the inbox                                       *)
(***************************************************************************)

\* A step that adds no event, and settles only events on disk, is one of the inbox.
LEMMA InboxSettles ==
    ASSUME OnDisk \subseteq Event,
           OnDisk' \subseteq OnDisk,
           Settled \subseteq Settled',
           Settled' \subseteq Settled \cup OnDisk,
           OnDisk \ OnDisk' \subseteq Settled'
    PROVE  [Inbox!Next]_(Inbox!vars)
<1> DEFINE S == OnDisk \cap Settled'
           gone == OnDisk \ OnDisk'
<1>1. S \in SUBSET Event /\ gone \in SUBSET S
  OBVIOUS
<1>2. Settled' = Settled \cup S /\ OnDisk' = OnDisk \ gone
  OBVIOUS
<1>3. Inbox!Settle(S, gone)
  BY <1>1, <1>2 DEF Inbox!Settle
<1> HIDE DEF S, gone
<1> QED
  BY <1>1, <1>3 DEF Inbox!Next

\* Only events of which there are files are settled.
LEMMA SettlesOnDisk ==
    ASSUME TypeOK, FlowInv, [Next]_vars
    PROVE  Settled' \subseteq Settled \cup OnDisk
<1> SUFFICES ASSUME NEW e \in Event, e \in Settled', e \notin Settled
             PROVE  e \in OnDisk
  BY DEF Settled
<1>1. ASSUME NEW k \in Key, NEW j \in Key, NEW B, Reject(k, B),
             [event |-> e, key |-> j] \in dead'
      PROVE  e \in OnDisk
  BY <1>1 DEF Reject, Settled, OnDisk
<1>2. ASSUME NEW k \in Key, RunnerAccepts(k), prompts'[e] > 0 PROVE e \in OnDisk
  <2>1. InPrompt(e, batch[k])
    BY <1>2 DEF RunnerAccepts, Settled
  <2>2. e \in batch[k]
    BY <2>1 DEF InPrompt, Sections, From
  <2> QED
    BY <2>2 DEF FlowInv, BatchOnDisk, Waiting, OnDisk
<1>3. (\E j \in Key : [event |-> e, key |-> j] \in dead') \/ prompts'[e] > 0
  BY DEF Settled
<1>4. ~(\E j \in Key : [event |-> e, key |-> j] \in dead) /\ ~(prompts[e] > 0)
  BY DEF Settled
<1>5. CASE \E k \in Key : RunnerAccepts(k)
  BY <1>2, <1>3, <1>4, <1>5 DEF RunnerAccepts
<1>6. CASE \E k \in Key : TakeAndDrop(k) \/ HeadNotFound(k) \/ RunnerRefuses(k)
  BY <1>1, <1>3, <1>4, <1>6 DEF TakeAndDrop, HeadNotFound, RunnerRefuses
<1> QED
  BY <1>3, <1>4, <1>5, <1>6 DEF Next, Handles, Arrive, TakePending, TakeAndPost, HeadFound,
     Reroute, RerouteDone, RerouteFails, RunnerBusy, RunnerFails, Accepted, AnswerLost, Drained,
     RunEnds, Crash, vars

\* Every step of the dispatch is a step of the inbox, or leaves it as it is.
LEMMA DispatchStep ==
    ASSUME TypeOK, FlowInv, [Next]_vars
    PROVE  [Inbox!Next]_(Inbox!vars)
<1> USE DispatchAssumption
<1>1. ASSUME NEW e \in Event, Arrive(e) PROVE [Inbox!Next]_(Inbox!vars)
  <2>1. \A f \in Event, j \in Key :
          [event |-> f, key |-> j] \in inbox' <=>
             [event |-> f, key |-> j] \in inbox \/ (f = e /\ j = KeyOf[e])
    BY <1>1, InOtherKey DEF Arrive, At
  <2>2. KeyOf[e] \in Key
    OBVIOUS
  <2>3. OnDisk' = OnDisk \cup {e}
    BY <2>1, <2>2 DEF OnDisk
  <2>4. Settled' = Settled
    BY <1>1 DEF Arrive, Settled
  <2> QED
    BY <2>3, <2>4 DEF Inbox!Next, Inbox!Accept
<1>2. ASSUME NEW k \in Key, NEW e \in Event, Reroute(k, e) PROVE [Inbox!Next]_(Inbox!vars)
  <2>1. [event |-> e, key |-> k] \in inbox /\ BranchKeyOf[k] \in Key
    BY <1>2 DEF Reroute, FlowInv, PhasesOfKeys, BatchOnDisk, TypeOK, Waiting
  <2>2. \A f \in Event, j \in Key :
          [event |-> f, key |-> j] \in inbox' <=>
             [event |-> f, key |-> j] \in inbox \/ (f = e /\ j = BranchKeyOf[k])
    BY <1>2, InOtherKey DEF Reroute, At
  <2>3. OnDisk' = OnDisk
    BY <2>1, <2>2 DEF OnDisk
  <2>4. Settled' = Settled
    BY <1>2 DEF Reroute, Settled
  <2> QED
    BY <2>3, <2>4 DEF Inbox!vars
<1>3. ASSUME inbox' \subseteq inbox PROVE [Inbox!Next]_(Inbox!vars)
  <2>1. OnDisk' \subseteq OnDisk /\ OnDisk \subseteq Event
    BY <1>3 DEF OnDisk
  <2>2. OnDisk \ OnDisk' \subseteq Settled'
    <3> SUFFICES ASSUME NEW e \in Event, NEW j \in Key, [event |-> e, key |-> j] \in inbox,
                        e \notin OnDisk'
                 PROVE  e \in Settled'
      BY DEF OnDisk
    <3>1. [event |-> e, key |-> j] \notin inbox'
      BY DEF OnDisk
    <3>2. j \in Pending => [event |-> e, key |-> BranchKeyOf[j]] \notin inbox'
      BY DEF OnDisk
    <3> QED
      BY <3>1, <3>2, RemovedAccounted
  <2> QED
    BY <2>1, <2>2, SettledStays, SettlesOnDisk, InboxSettles
<1>4. (\E e \in Event : Arrive(e)) \/ (\E k \in Key, e \in Event : Reroute(k, e)) \/ inbox' \subseteq inbox
  BY DEF Next, Handles, TakePending, TakeAndPost, TakeAndDrop, HeadFound, HeadNotFound,
     RerouteDone, RerouteFails, RunnerAccepts, RunnerBusy, RunnerRefuses, RunnerFails, Accepted,
     AnswerLost, Drained, RunEnds, Crash, Reject, Ack, vars
<1> QED
  BY <1>1, <1>2, <1>3, <1>4

\* Seen from the sources, the gateway with the runner behind it implements the
\* at-least-once inbox that its queue implements on its own.
THEOREM DispatchImplementsInbox == Spec => ImplementsInbox
<1>1. Init => Inbox!Init
  BY DispatchAssumption DEF Init, Inbox!Init, OnDisk, Settled
<1>2. TypeOK /\ FlowInv /\ [Next]_vars => [Inbox!Next]_(Inbox!vars)
  BY DispatchStep
<1> QED
  BY <1>1, <1>2, FlowInvariant, PTL DEF Spec, ImplementsInbox, Inbox!Spec

-----------------------------------------------------------------------------
(***************************************************************************)
(* Prompts are paid for                                                    *)
(***************************************************************************)

\* A file becomes one from which a prompt may come only when it is written, or
\* when the attempt that had used it ends in a failure.
LEMMA LiveGains ==
    ASSUME TypeOK, FlowInv, [Next]_vars, NEW e \in Event, NEW j \in Key,
           Live(e, j)', ~Live(e, j)
    PROVE  \/ Arrive(e) /\ j = KeyOf[e]
           \/ \E k \in Key : Reroute(k, e) /\ j = BranchKeyOf[k]
           \/ AnswerLost(j)
           \/ RerouteFails(j)
           \/ Crash
<1> USE DispatchAssumption
<1>1. ASSUME UNCHANGED inbox,
             phase[j] \notin {"accepted", "rerouting"} \/ UNCHANGED <<phase[j], batch[j], todo[j]>>
      PROVE  FALSE
  BY <1>1 DEF Live
<1>2. ASSUME NEW k \in Key, NEW B, inbox' = inbox \ At(k, B), phase[j] \notin {"accepted", "rerouting"}
      PROVE  FALSE
  BY <1>2 DEF Live
<1>3. ASSUME NEW k \in Key, inbox' = inbox \ At(k, batch[k]),
             \A i \in Key \ {k} : UNCHANGED <<phase[i], batch[i], todo[i]>>
      PROVE  FALSE
  <2>1. CASE j = k
    BY <1>3, <2>1, InOtherKey DEF Live
  <2>2. CASE j # k
    BY <1>3, <2>2 DEF Live
  <2> QED
    BY <2>1, <2>2
<1>4. ASSUME NEW k \in Key,
             \/ TakePending(k) \/ TakeAndPost(k) \/ HeadFound(k) \/ RunnerAccepts(k)
             \/ RunnerBusy(k) \/ RunnerFails(k) \/ Drained(k)
      PROVE  FALSE
  BY <1>1, <1>4 DEF TakePending, TakeAndPost, HeadFound, RunnerAccepts, RunnerBusy, RunnerFails,
     Drained, Rest, TypeOK
<1>5. ASSUME NEW k \in Key, TakeAndDrop(k) PROVE FALSE
  <2>1. inbox' \subseteq inbox /\ UNCHANGED handler
    BY <1>5 DEF TakeAndDrop, Reject
  <2> QED
    BY <2>1 DEF Live, handler
<1>6. ASSUME NEW k \in Key,
             HeadNotFound(k) \/ RerouteDone(k) \/ RunnerRefuses(k) \/ Accepted(k)
      PROVE  FALSE
  BY <1>3, <1>6 DEF HeadNotFound, RerouteDone, RunnerRefuses, Accepted, Reject, Ack, Rest, TypeOK
<1>7. ASSUME NEW f \in Event, Arrive(f) PROVE f = e /\ j = KeyOf[e]
  <2>1. [event |-> e, key |-> j] \in At(KeyOf[f], {f})
    BY <1>7 DEF Arrive, Live, handler
  <2> QED
    BY <2>1, TheFile
<1>8. ASSUME NEW k \in Key, NEW f \in Event, Reroute(k, f) PROVE f = e /\ j = BranchKeyOf[k]
  <2>1. CASE [event |-> e, key |-> j] \in At(BranchKeyOf[k], {f})
    BY <2>1, TheFile
  <2>2. CASE [event |-> e, key |-> j] \notin At(BranchKeyOf[k], {f})
    <3>1. [event |-> e, key |-> j] \in inbox /\ phase'[j] = phase[j] /\ batch'[j] = batch[j]
      BY <1>8, <2>2 DEF Reroute, Live
    <3>2. todo'[j] \subseteq todo[j]
      BY <1>8 DEF Reroute, TypeOK
    <3> QED
      BY <3>1, <3>2 DEF Live
  <2> QED
    BY <2>1, <2>2
<1>9. ASSUME NEW k \in Key, AnswerLost(k) \/ RerouteFails(k) PROVE k = j
  BY <1>1, <1>9 DEF AnswerLost, RerouteFails, Rest, TypeOK
<1>10. ASSUME (\E k \in Key : RunEnds(k)) \/ UNCHANGED vars PROVE FALSE
  BY <1>1, <1>10 DEF RunEnds, handler, vars
<1> QED
  BY <1>4, <1>5, <1>6, <1>7, <1>8, <1>9, <1>10 DEF Next, Handles

\* A prompt uses up the files of its events.
LEMMA PromptUses ==
    ASSUME TypeOK, FlowInv, NEW k \in Key, RunnerAccepts(k), NEW e \in Event
    PROVE  \/ prompts'[e] = prompts[e]
           \/ /\ prompts'[e] = prompts[e] + 1
              /\ Live(e, k) /\ ~Live(e, k)'
<1>1. CASE e \in batch[k]
  <2>1. [event |-> e, key |-> k] \in inbox
    BY <1>1 DEF FlowInv, BatchOnDisk, Waiting
  <2>2. Live(e, k) /\ ~Live(e, k)'
    BY <1>1, <2>1 DEF RunnerAccepts, Live, TypeOK
  <2> QED
    BY <2>2 DEF RunnerAccepts
<1>2. CASE e \notin batch[k]
  <2>1. ~InPrompt(e, batch[k])
    BY <1>2 DEF InPrompt, Sections, From
  <2> QED
    BY <2>1 DEF RunnerAccepts
<1> QED
  BY <1>1, <1>2

\* The terms of the budget are numbers.
LEMMA BudgetType ==
    ASSUME TypeOK, TypeOK', NEW e \in Event
    PROVE  /\ prompts[e] \in Nat /\ delivered[e] \in Nat /\ crashes \in Nat /\ lost \in Nat
           /\ prompts'[e] \in Nat /\ delivered'[e] \in Nat /\ crashes' \in Nat /\ lost' \in Nat
           /\ faults \in Nat /\ faults' \in Nat
BY DispatchAssumption DEF TypeOK

\* No step spends more than it brings.
LEMMA BudgetStep ==
    ASSUME TypeOK, TypeOK', FlowInv, PromptBudget, [Next]_vars
    PROVE  PromptBudget'
<1> USE DispatchAssumption
<1> SUFFICES ASSUME NEW e \in Event
             PROVE  IF KeyOf[e] \in Pending
                    THEN prompts'[e] + One(Live(e, KeyOf[e]))' + One(Live(e, BranchKeyOf[KeyOf[e]]))'
                           <= delivered'[e] + crashes' + lost' + crashes' + faults'
                    ELSE prompts'[e] + One(Live(e, KeyOf[e]))' <= delivered'[e] + crashes' + lost'
  BY DEF PromptBudget
<1> DEFINE home == KeyOf[e]
           away == IF home \in Pending THEN BranchKeyOf[home] ELSE home
           h == One(Live(e, home))
           a == One(Live(e, away))
           hNext == One(Live(e, home))'
           aNext == One(Live(e, away))'
           Goal == IF home \in Pending
                   THEN prompts'[e] + hNext + aNext
                          <= delivered'[e] + crashes' + lost' + crashes' + faults'
                   ELSE prompts'[e] + hNext <= delivered'[e] + crashes' + lost'
<1>1. /\ home \in Key /\ away \in Key
      /\ home \in Pending => away \notin Pending /\ away # home
  OBVIOUS
<1>2. IF home \in Pending
      THEN prompts[e] + h + a <= delivered[e] + crashes + lost + crashes + faults
      ELSE prompts[e] + h <= delivered[e] + crashes + lost
  BY DEF PromptBudget
<1>3. /\ prompts[e] \in Nat /\ delivered[e] \in Nat /\ crashes \in Nat /\ lost \in Nat
      /\ prompts'[e] \in Nat /\ delivered'[e] \in Nat /\ crashes' \in Nat /\ lost' \in Nat
      /\ faults \in Nat /\ faults' \in Nat
  BY BudgetType
<1>4. /\ h \in 0..1 /\ a \in 0..1 /\ hNext \in 0..1 /\ aNext \in 0..1
      /\ (Live(e, home) <=> h = 1) /\ (Live(e, home)' <=> hNext = 1)
      /\ (Live(e, away) <=> a = 1) /\ (Live(e, away)' <=> aNext = 1)
  BY DEF One
<1> HIDE DEF home, away, h, a, hNext, aNext
<1>5. ASSUME prompts'[e] = prompts[e], delivered'[e] >= delivered[e], crashes' >= crashes,
             lost' >= lost, faults' >= faults,
             Live(e, home)' => Live(e, home), Live(e, away)' => Live(e, away)
      PROVE  Goal
  BY <1>1, <1>2, <1>3, <1>4, <1>5
<1>6. ASSUME Arrive(e) PROVE Goal
  <2>1. delivered'[e] = delivered[e] + 1 /\ prompts' = prompts /\ crashes' = crashes
          /\ lost' = lost /\ faults' = faults
    BY <1>6 DEF Arrive, TypeOK
  <2>2. home \in Pending /\ Live(e, away)' => Live(e, away)
    <3>1. home \in Pending => [event |-> e, key |-> away] \notin At(home, {e})
      BY <1>1, TheFile
    <3>2. inbox' = inbox \cup At(home, {e}) /\ UNCHANGED handler
      BY <1>6 DEF Arrive, home
    <3> QED
      BY <3>1, <3>2 DEF Live, handler
  <2> QED
    BY <1>2, <1>3, <1>4, <2>1, <2>2
<1>7. ASSUME NEW k \in Key, Reroute(k, e) PROVE Goal
  <2>1. prompts' = prompts /\ delivered' = delivered /\ crashes' = crashes
          /\ lost' = lost /\ faults' = faults
    BY <1>7 DEF Reroute, counts
  <2>2. k \in Pending /\ k = home
    <3>1. k \in Pending /\ [event |-> e, key |-> k] \in inbox
      BY <1>7 DEF Reroute, FlowInv, PhasesOfKeys, BatchOnDisk, TypeOK, Waiting
    <3> QED
      BY <3>1 DEF FlowInv, FilesAtHome, home
  <2>3. Live(e, home)
    BY <1>7, <2>2 DEF Reroute, FlowInv, BatchOnDisk, TypeOK, Waiting, Live
  <2>4. ~Live(e, home)'
    BY <1>7, <2>2 DEF Reroute, TypeOK, Live
  <2> QED
    BY <1>1, <1>2, <1>3, <1>4, <2>1, <2>2, <2>3, <2>4
<1>8. ASSUME NEW k \in Key, RunnerAccepts(k) PROVE Goal
  <2>1. delivered' = delivered /\ crashes' = crashes /\ lost' = lost /\ faults' = faults
    BY <1>8 DEF RunnerAccepts, counts
  <2>2. \A j \in Key : Live(e, j)' => Live(e, j)
    BY <1>8 DEF RunnerAccepts, Live, TypeOK
  <2>3. CASE prompts'[e] = prompts[e]
    BY <1>1, <1>3, <1>5, <2>1, <2>2, <2>3
  <2>4. CASE prompts'[e] = prompts[e] + 1 /\ Live(e, k) /\ ~Live(e, k)'
    <3>1. k = home \/ (home \in Pending /\ k = away)
      BY <2>4 DEF Live, FlowInv, FilesAtHome, home, away
    <3> QED
      BY <1>1, <1>2, <1>3, <1>4, <2>1, <2>2, <2>4, <3>1
  <2> QED
    BY <1>8, <2>3, <2>4, PromptUses
<1>9. ASSUME NEW k \in Key, AnswerLost(k) PROVE Goal
  <2>1. prompts' = prompts /\ delivered' = delivered /\ crashes' = crashes
          /\ lost' = lost + 1 /\ faults' = faults
    BY <1>9 DEF AnswerLost
  <2>2. \A j \in Key \ {k} : Live(e, j)' => Live(e, j)
    BY <1>9 DEF AnswerLost, Rest, Live, TypeOK
  <2> QED
    BY <1>1, <1>2, <1>3, <1>4, <2>1, <2>2
<1>10. ASSUME NEW k \in Key, RerouteFails(k) PROVE Goal
  <2>1. prompts' = prompts /\ delivered' = delivered /\ crashes' = crashes
          /\ lost' = lost /\ faults' = faults + 1
    BY <1>10 DEF RerouteFails
  <2>2. \A j \in Key \ {k} : Live(e, j)' => Live(e, j)
    BY <1>10 DEF RerouteFails, Rest, Live, TypeOK
  <2>3. k \in Pending
    BY <1>10 DEF RerouteFails, FlowInv, PhasesOfKeys
  <2> QED
    BY <1>1, <1>2, <1>3, <1>4, <2>1, <2>2, <2>3
<1>11. ASSUME Crash PROVE Goal
  <2>1. prompts' = prompts /\ delivered' = delivered /\ crashes' = crashes + 1
          /\ lost' = lost /\ faults' = faults
    BY <1>11 DEF Crash
  <2> QED
    BY <1>2, <1>3, <1>4, <2>1
<1>12. ASSUME ~Arrive(e), \A k \in Key : ~(Reroute(k, e) \/ RunnerAccepts(k) \/ AnswerLost(k)
                                             \/ RerouteFails(k)), ~Crash
       PROVE  Goal
  <2>1. \A j \in Key : Live(e, j)' => Live(e, j)
    BY <1>12, LiveGains
  <2>2. prompts'[e] = prompts[e] /\ delivered'[e] = delivered[e] /\ crashes' = crashes
          /\ lost' = lost /\ faults' >= faults
    <3>1. ASSUME NEW f \in Event \ {e}, Arrive(f)
          PROVE  UNCHANGED <<prompts, delivered[e], crashes, lost, faults>>
      BY <3>1 DEF Arrive, TypeOK
    <3>2. ASSUME NEW k \in Key, RunnerFails(k)
          PROVE  UNCHANGED <<prompts, delivered, crashes, lost>> /\ faults' = faults + 1
      BY <3>2 DEF RunnerFails
    <3>3. ASSUME NEW k \in Key, Handles(k), ~RunnerAccepts(k)
          PROVE  UNCHANGED <<prompts, counts>>
      BY <3>3 DEF Handles, TakePending, TakeAndPost, TakeAndDrop, HeadFound, HeadNotFound,
         Reroute, RerouteDone, RunnerBusy, RunnerRefuses, Accepted, Drained
    <3>4. ASSUME NEW k \in Key, RunEnds(k) PROVE UNCHANGED <<prompts, counts>>
      BY <3>4 DEF RunEnds
    <3>5. \/ \E f \in Event \ {e} : Arrive(f)
          \/ \E k \in Key : RunnerFails(k)
          \/ UNCHANGED <<prompts, counts>>
      BY <1>12, <3>3, <3>4 DEF Next, vars, counts
    <3> QED
      BY <1>3, <3>1, <3>2, <3>5 DEF counts
  <2> QED
    BY <1>1, <1>3, <1>5, <2>1, <2>2
<1> HIDE DEF Goal
<1>13. Goal
  <2>1. CASE \E k \in Key : Reroute(k, e) \/ RunnerAccepts(k) \/ AnswerLost(k) \/ RerouteFails(k)
    BY <1>7, <1>8, <1>9, <1>10, <2>1
  <2>2. CASE ~\E k \in Key : Reroute(k, e) \/ RunnerAccepts(k) \/ AnswerLost(k) \/ RerouteFails(k)
    BY <1>6, <1>11, <1>12, <2>2
  <2> QED
    BY <2>1, <2>2
<1> QED
  BY <1>13 DEF Goal, home, away, hNext, aNext

\* An event is prompted at most once per delivery, lost answer, crash and, for a
\* comment that waited for its branch, reroute that was cut off.
THEOREM PromptsArePaidFor == Spec => []PromptedPerDelivery
<1>1. Init => PromptBudget
  BY DispatchAssumption DEF Init, PromptBudget, Live, One
<1>2. TypeOK /\ FlowInv /\ PromptBudget /\ [Next]_vars => PromptBudget'
  BY BudgetStep, FlowInductive
<1>3. TypeOK /\ PromptBudget => PromptedPerDelivery
  <2> SUFFICES ASSUME TypeOK, PromptBudget, NEW e \in Event
               PROVE  prompts[e] <= delivered[e] + crashes + lost
                                      + IF KeyOf[e] \in Pending THEN crashes + faults ELSE 0
    BY DEF PromptedPerDelivery
  <2>1. {prompts[e], delivered[e], crashes, lost, faults} \subseteq Nat
    BY DispatchAssumption DEF TypeOK
  <2>2. \A k \in Key : One(Live(e, k)) \in {0, 1}
    BY DEF One
  <2>3. KeyOf[e] \in Key /\ (KeyOf[e] \in Pending => BranchKeyOf[KeyOf[e]] \in Key)
    BY DispatchAssumption
  <2> QED
    BY <2>1, <2>2, <2>3 DEF PromptBudget
<1> QED
  BY <1>1, <1>2, <1>3, FlowInvariant, PTL DEF Spec

=============================================================================
