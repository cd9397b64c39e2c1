--------------------------- MODULE GatewayDispatch ---------------------------
(***************************************************************************)
(* From the queue to the runner: the queue handler of                      *)
(* src/packages/gateway/src/app.ts with planBatchDispatch and              *)
(* triggerRunnerPrompt of service.ts.                                      *)
(*                                                                         *)
(* The handler is given all events of one key.  Comments on a pull request *)
(* whose branch is not known yet wait under a pending key: the handler     *)
(* asks GitHub for the branch and enqueues the events again under the      *)
(* branch's key.  Any other batch is posted to the runner, unless it has   *)
(* no directory, or more than one.  The runner accepts it, is busy,        *)
(* refuses it or fails; the batch is acked when the runner's answer is     *)
(* there, and the answer's stream is read afterwards.                      *)
(*                                                                         *)
(* The queue is the inbox EventQueue is shown to implement: entries stay   *)
(* until they are acked or rejected.  Lock keys and the readiness of       *)
(* batches are EventQueue's subject; here a key is its own lock and a      *)
(* batch is ready at any time.  The runner is RunnerTrigger's subject;     *)
(* here a conversation is either being worked on or not.                   *)
(***************************************************************************)
EXTENDS Naturals, FiniteSets

CONSTANTS
    Event,          \* the events the sources may send
    SourceOf,       \* "slack", "github", "cron" or "approval"
    Key,            \* correlation keys
    KeyOf,          \* the key intake gives an event
    Pending,        \* the keys pending:branch-resolve:...
    BranchKeyOf,    \* the branch key GitHub's answer leads to
    Dir,            \* directories of repositories
    NoDir,          \* no repository for the channel, or no directory for it
    DirsOf,         \* what an event's directory may turn out to be when it is planned
    Interrupt,      \* the events with interrupt: true
    MaxDeliveries,  \* bound: how often a source delivers one event
    MaxCrashes,     \* bound: crashes of the gateway
    MaxFaults       \* bound: failures of the runner, lost answers, failed writes

Source == {"slack", "github", "cron", "approval"}

ASSUME DispatchAssumption ==
    /\ SourceOf \in [Event -> Source]
    /\ KeyOf \in [Event -> Key]
    /\ Pending \subseteq Key
    /\ \A e \in Event : KeyOf[e] \in Pending => SourceOf[e] = "github"
    /\ BranchKeyOf \in [Pending -> Key \ Pending]
    /\ DirsOf \in [Event -> SUBSET (Dir \cup {NoDir})]
    /\ Interrupt \subseteq Event
    /\ {MaxDeliveries, MaxCrashes, MaxFaults} \subseteq Nat

VARIABLES
    inbox,      \* the files of the queue: an event under a key
    dead,       \* the entries in dead-letter/
    phase,      \* where the handler of each key is
    batch,      \* the events it was given
    todo,       \* of these, the ones it still has to enqueue again
    running,    \* the conversations the runner is working on
    prompts,    \* how often an event has been part of an accepted prompt
    delivered,  \* how often its source has delivered it
    crashes, lost, faults

handler == <<phase, batch, todo>>
counts == <<delivered, crashes, lost, faults>>
vars == <<inbox, dead, phase, batch, todo, running, prompts, delivered,
          crashes, lost, faults>>

Phase == {"idle", "resolving", "rerouting", "posting", "accepted", "draining"}

Entry == [event : Event, key : Key]

At(k, S) == [event : S, key : {k}]

\* The types; a handler that is gone holds no batch, and enqueues again only what
\* it was given.
TypeOK ==
    /\ inbox \subseteq Entry
    /\ dead \subseteq Entry
    /\ phase \in [Key -> Phase]
    /\ batch \in [Key -> SUBSET Event]
    /\ todo \in [Key -> SUBSET Event]
    /\ running \subseteq Key
    /\ prompts \in [Event -> Nat]
    /\ delivered \in [Event -> 0..MaxDeliveries]
    /\ crashes \in 0..MaxCrashes
    /\ lost \in Nat
    /\ faults \in Nat
    /\ lost + faults <= MaxFaults
    /\ \A k \in Key :
          /\ todo[k] \subseteq batch[k]
          /\ phase[k] = "idle" => batch[k] = {}

Init ==
    /\ inbox = {}
    /\ dead = {}
    /\ phase = [k \in Key |-> "idle"]
    /\ batch = [k \in Key |-> {}]
    /\ todo = [k \in Key |-> {}]
    /\ running = {}
    /\ prompts = [e \in Event |-> 0]
    /\ delivered = [e \in Event |-> 0]
    /\ crashes = 0
    /\ lost = 0
    /\ faults = 0

-----------------------------------------------------------------------------
(***************************************************************************)
(* Planning                                                                *)
(***************************************************************************)

Waiting(k) == {e \in Event : [event |-> e, key |-> k] \in inbox}

From(s, B) == {e \in B : SourceOf[e] = s}

\* The batch waits for the branch of its pull request.
NeedsBranch(k, B) == From("github", B) # {} /\ k \in Pending

\* What each event's directory turns out to be: the mapping of channels to
\* repositories and the directories themselves are looked up now.
Lookups(B) == {d \in [B -> Dir \cup {NoDir}] : \A e \in B : d[e] \in DirsOf[e]}

DirectoriesOf(d) == {d[e] : e \in DOMAIN d}

\* Every event has a directory and all have the same: collectBatchDirectory
\* for each source, then the check across sources.
OneDirectory(d) == \E dir \in Dir : DirectoriesOf(d) = {dir}

\* The prompt has one section per source that has events.
Sections(B) == {From(s, B) : s \in Source} \ {{}}

InPrompt(e, B) == \E section \in Sections(B) : e \in section

\* Cron-only batches have nowhere to show progress, and are drained before the
\* handler returns.
DrainsInForeground(B) == B # {} /\ B = From("cron", B)

-----------------------------------------------------------------------------
(***************************************************************************)
(* Settling                                                                *)
(***************************************************************************)

\* Mutant of Rest: the batch of an attempt that ended is kept.
RestKeepsBatch(k) ==
    /\ phase' = [phase EXCEPT ![k] = "idle"]
    /\ UNCHANGED <<batch, todo>>

Rest(k) ==
    /\ phase' = [phase EXCEPT ![k] = "idle"]
    /\ batch' = [batch EXCEPT ![k] = {}]
    /\ todo' = [todo EXCEPT ![k] = {}]

Ack(k) == inbox' = inbox \ At(k, batch[k])

\* Mutant of Reject: the batch is deleted.
RejectDeletes(k, B) ==
    /\ inbox' = inbox \ At(k, B)
    /\ UNCHANGED dead

\* The batch B goes to dead-letter/.
Reject(k, B) ==
    /\ inbox' = inbox \ At(k, B)
    /\ dead' = dead \cup (inbox \cap At(k, B))

-----------------------------------------------------------------------------
(***************************************************************************)
(* Actions                                                                 *)
(***************************************************************************)

\* A webhook, a cron job or a button leads to an event.  A source may deliver
\* an event again, under the same file name.
Arrive(e) ==
    /\ delivered[e] < MaxDeliveries
    /\ delivered' = [delivered EXCEPT ![e] = @ + 1]
    /\ inbox' = inbox \cup At(KeyOf[e], {e})
    /\ UNCHANGED <<dead, handler, running, prompts, crashes, lost, faults>>

\* The queue hands the events of a key to the handler, which asks GitHub for
\* the branch.
TakePending(k) ==
    /\ phase[k] = "idle"
    /\ NeedsBranch(k, Waiting(k))
    /\ phase' = [phase EXCEPT ![k] = "resolving"]
    /\ batch' = [batch EXCEPT ![k] = Waiting(k)]
    /\ UNCHANGED <<inbox, dead, todo, running, prompts, counts>>

\* ... or posts them to the runner
TakeAndPost(k) ==
    /\ phase[k] = "idle"
    /\ Waiting(k) # {}
    /\ ~NeedsBranch(k, Waiting(k))
    /\ \E d \in Lookups(Waiting(k)) : OneDirectory(d)
    /\ phase' = [phase EXCEPT ![k] = "posting"]
    /\ batch' = [batch EXCEPT ![k] = Waiting(k)]
    /\ UNCHANGED <<inbox, dead, todo, running, prompts, counts>>

\* ... or drops them.
TakeAndDrop(k) ==
    /\ phase[k] = "idle"
    /\ Waiting(k) # {}
    /\ ~NeedsBranch(k, Waiting(k))
    /\ \E d \in Lookups(Waiting(k)) : ~OneDirectory(d)
    /\ Reject(k, Waiting(k))
    /\ UNCHANGED <<handler, running, prompts, counts>>

\* gh pr view names the head branch.
HeadFound(k) ==
    /\ phase[k] = "resolving"
    /\ phase' = [phase EXCEPT ![k] = "rerouting"]
    /\ todo' = [todo EXCEPT ![k] = From("github", batch[k])]
    /\ UNCHANGED <<inbox, dead, batch, running, prompts, counts>>

\* Mutant of HeadNotFound: the batch is left for the next scan.
HeadNotFoundRetried(k) ==
    /\ phase[k] = "resolving"
    /\ Rest(k)
    /\ UNCHANGED <<inbox, dead, running, prompts, counts>>

\* Every failure of gh pr view is final: not only a missing branch or a gone
\* installation, also a timeout or an unreachable remote-cli.
HeadNotFound(k) ==
    /\ phase[k] = "resolving"
    /\ Reject(k, batch[k])
    /\ Rest(k)
    /\ UNCHANGED <<running, prompts, counts>>

\* The events are enqueued again one by one.
Reroute(k, e) ==
    /\ phase[k] = "rerouting"
    /\ e \in todo[k]
    /\ inbox' = inbox \cup At(BranchKeyOf[k], {e})
    /\ todo' = [todo EXCEPT ![k] = @ \ {e}]
    /\ UNCHANGED <<dead, phase, batch, running, prompts, counts>>

\* Mutant of RerouteDone: acked before the copies are written.
RerouteDoneEarly(k) ==
    /\ phase[k] = "rerouting"
    /\ Ack(k)
    /\ Rest(k)
    /\ UNCHANGED <<dead, running, prompts, counts>>

RerouteDone(k) ==
    /\ phase[k] = "rerouting"
    /\ todo[k] = {}
    /\ Ack(k)
    /\ Rest(k)
    /\ UNCHANGED <<dead, running, prompts, counts>>

\* A file cannot be written: the batch stays and is resolved again.
RerouteFails(k) ==
    /\ phase[k] = "rerouting"
    /\ todo[k] # {}
    /\ lost + faults < MaxFaults
    /\ faults' = faults + 1
    /\ Rest(k)
    /\ UNCHANGED <<inbox, dead, running, prompts, delivered, crashes, lost>>

\* The runner takes the prompt; a busy one only if it may be interrupted.
RunnerAccepts(k) ==
    /\ phase[k] = "posting"
    /\ k \notin running \/ batch[k] \cap Interrupt # {}
    /\ phase' = [phase EXCEPT ![k] = "accepted"]
    /\ running' = running \cup {k}
    /\ prompts' = [e \in Event |->
                      IF InPrompt(e, batch[k]) THEN prompts[e] + 1 ELSE prompts[e]]
    /\ UNCHANGED <<inbox, dead, batch, todo, counts>>

\* {busy: true}: nothing is settled and the batch comes again.
RunnerBusy(k) ==
    /\ phase[k] = "posting"
    /\ k \in running
    /\ batch[k] \cap Interrupt = {}
    /\ Rest(k)
    /\ UNCHANGED <<inbox, dead, running, prompts, counts>>

\* 4xx
RunnerRefuses(k) ==
    /\ phase[k] = "posting"
    /\ Reject(k, batch[k])
    /\ Rest(k)
    /\ UNCHANGED <<running, prompts, counts>>

\* 5xx, or no connection: the error is caught, and the batch comes again.
RunnerFails(k) ==
    /\ phase[k] = "posting"
    /\ lost + faults < MaxFaults
    /\ faults' = faults + 1
    /\ Rest(k)
    /\ UNCHANGED <<inbox, dead, running, prompts, delivered, crashes, lost>>

\* Mutant of Accepted: a batch drained in the foreground is acked too late.
AcceptedUnacked(k) ==
    /\ phase[k] = "accepted"
    /\ IF DrainsInForeground(batch[k])
       THEN /\ phase' = [phase EXCEPT ![k] = "draining"]
            /\ batch' = [batch EXCEPT ![k] = {}]
            /\ UNCHANGED <<inbox, todo>>
       ELSE Ack(k) /\ Rest(k)
    /\ UNCHANGED <<dead, running, prompts, counts>>

\* The head of the answer is there.
Accepted(k) ==
    /\ phase[k] = "accepted"
    /\ Ack(k)
    /\ IF DrainsInForeground(batch[k])
       THEN /\ phase' = [phase EXCEPT ![k] = "draining"]
            /\ batch' = [batch EXCEPT ![k] = {}]
            /\ UNCHANGED todo
       ELSE Rest(k)
    /\ UNCHANGED <<dead, running, prompts, counts>>

\* The runner has taken the prompt but its answer never arrives.
AnswerLost(k) ==
    /\ phase[k] = "accepted"
    /\ lost + faults < MaxFaults
    /\ lost' = lost + 1
    /\ Rest(k)
    /\ UNCHANGED <<inbox, dead, running, prompts, delivered, crashes, faults>>

\* A drained stream ends with the run (or breaks before).
Drained(k) ==
    /\ phase[k] = "draining"
    /\ Rest(k)
    /\ UNCHANGED <<inbox, dead, running, prompts, counts>>

RunEnds(k) ==
    /\ k \in running
    /\ running' = running \ {k}
    /\ UNCHANGED <<inbox, dead, handler, prompts, counts>>

\* The gateway dies and starts again: the files are what is left.
Crash ==
    /\ crashes < MaxCrashes
    /\ crashes' = crashes + 1
    /\ phase' = [k \in Key |-> "idle"]
    /\ batch' = [k \in Key |-> {}]
    /\ todo' = [k \in Key |-> {}]
    /\ UNCHANGED <<inbox, dead, running, prompts, delivered, lost, faults>>

Handles(k) ==
    \/ TakePending(k) \/ TakeAndPost(k) \/ TakeAndDrop(k)
    \/ HeadFound(k) \/ HeadNotFound(k)
    \/ \E e \in Event : Reroute(k, e)
    \/ RerouteDone(k)
    \/ RunnerAccepts(k) \/ RunnerBusy(k) \/ RunnerRefuses(k)
    \/ Accepted(k) \/ Drained(k)

Next ==
    \/ \E e \in Event : Arrive(e)
    \/ \E k \in Key : Handles(k)
    \/ \E k \in Key : RunEnds(k)
    \/ \E k \in Key : RerouteFails(k)
    \/ \E k \in Key : RunnerFails(k)
    \/ \E k \in Key : AnswerLost(k)
    \/ Crash

Spec == Init /\ [][Next]_vars

\* The queue's timer offers a waiting batch again and again; GitHub and the
\* runner answer or their calls end in an error; runs end.
FairSpec ==
    /\ Spec
    /\ \A k \in Key : WF_vars(Handles(k)) /\ WF_vars(RunEnds(k))

-----------------------------------------------------------------------------
(***************************************************************************)
(* Properties                                                              *)
(***************************************************************************)

\* What has become of events: part of an accepted prompt, or dead-lettered.
Settled ==
    {e \in Event : prompts[e] > 0 \/ \E k \in Key : [event |-> e, key |-> k] \in dead}

OnDisk == {e \in Event : \E k \in Key : [event |-> e, key |-> k] \in inbox}

\* Whatever is acked was prompted, or waits under its branch's key; nothing
\* that a source delivered is just gone (app.ts:1037: a reroute acks after it
\* has enqueued; service.ts:531: an ack follows the runner's answer).
NothingDropped ==
    \A e \in Event : delivered[e] > 0 => e \in OnDisk \cup Settled

\* An event is prompted at most once per delivery and lost answer, and a crash
\* repeats each of its files at most once; only a reroute that is cut off leaves
\* two files of one event (app.ts:1037).  A busy, a refusing and a failing runner
\* repeat the work, but not the prompt.
PromptedPerDelivery ==
    \A e \in Event :
        prompts[e] <= delivered[e] + crashes + lost
                        + IF KeyOf[e] \in Pending THEN crashes + faults ELSE 0

Inbox == INSTANCE EventInbox WITH pending <- OnDisk, settled <- Settled

\* Seen from the sources, the gateway with the runner behind it is still the
\* at-least-once inbox, where settled now means prompted or dead-lettered.
ImplementsInbox == Inbox!Spec

\* Every event is dealt with although batches are put off while the runner is
\* busy or failing: no event waits for ever once runs end.
EventuallySettled ==
    \A e \in Event : e \in OnDisk ~> e \notin OnDisk

=============================================================================
