----------------------------- MODULE EventQueue -----------------------------
(***************************************************************************)
(* The gateway's directory-based event queue                               *)
(* (src/packages/gateway/src/queue.ts).                                    *)
(*                                                                         *)
(* Producers (webhooks, cron, approval outcomes) write one file per event; *)
(* a timer scans the directory, groups the files by the lock key their     *)
(* correlation key resolves to AT THAT MOMENT, and hands each group that   *)
(* is ready, and whose lock is free, to the handler as one batch.  The     *)
(* handler acks (files deleted), rejects (files moved to dead-letter/),    *)
(* returns without settling (files stay, retried by a later scan) or       *)
(* throws (files deleted).  The process may crash at any step: what is in  *)
(* memory is lost, the directory is not.                                   *)
(*                                                                         *)
(* Abstractions.  An event stands for one file's contents; its correlation *)
(* key and its interrupt flag are constants of the event.  Node runs scan, *)
(* ack, reject and the write of a file without yielding, so each is one    *)
(* step.  Time only decides whether readyAt <= now, which is the set ripe. *)
(***************************************************************************)
EXTENDS Naturals, FiniteSets

CONSTANTS
    Event,          \* the events the sources may send
    Name,           \* file names, `${sourceTs}_${id}.json`
    FileName,       \* the file name of each event
    Key,            \* correlation keys
    KeyOf,          \* the correlation key of each event
    Bindable,       \* the keys with an alias type (slack:thread:, git:branch:)
    Movable,        \* the bound keys another process may bind to another anchor
    Anchor,         \* anchor ids
    NoAnchor,       \* what an unbound key resolves to
    NoFile,         \* a name with no file
    Interrupt,      \* events with interrupt: true (mentions)
    Immediate,      \* events whose readyAt is not in the future when written
    MaxDeliveries,  \* bound: how often a source delivers one event
    MaxCrashes,     \* bound: crashes of the gateway
    MaxFaults       \* bound: files that a scan fails to read

Lock == Key \cup Anchor

ASSUME QueueAssumption ==
    /\ FileName \in [Event -> Name]
    /\ KeyOf \in [Event -> Key]
    /\ Movable \subseteq Bindable
    /\ Bindable \subseteq Key
    /\ Interrupt \subseteq Event
    /\ Key \cap Anchor = {}
    /\ NoAnchor \notin Anchor
    /\ NoFile \notin Event
    /\ MaxDeliveries \in Nat
    /\ MaxCrashes \in Nat
    /\ MaxFaults \in Nat

VARIABLES
    files,      \* the queue directory: the event each file holds
    ripe,       \* the files whose readyAt has passed
    deadLetter, \* the events in dead-letter/
    anchorOf,   \* aliases.jsonl as this process resolves it
    minted,     \* the anchors minted so far, by any process
    moved,      \* history: the keys that have been bound to another anchor
    inflight,   \* processing: the batch handed to the handler under each lock
    settled,    \* the batches whose handler has called ack or reject
    delivered,  \* history: successful enqueues of each event
    acked,      \* history: batches holding the event that were acked
    dropped,    \* history: events deleted by a throw or as unreadable
    crashes,
    faults

store == <<files, ripe, deadLetter>>
aliases == <<anchorOf, minted, moved>>
memory == <<inflight, settled>>
history == <<delivered, acked, dropped, crashes, faults>>
vars == <<files, ripe, deadLetter, anchorOf, minted, moved, inflight,
          settled, delivered, acked, dropped, crashes, faults>>

TypeOK ==
    /\ files \in [Name -> Event \cup {NoFile}]
    /\ ripe \subseteq Name
    /\ deadLetter \subseteq Event
    /\ anchorOf \in [Key -> Anchor \cup {NoAnchor}]
    /\ minted \subseteq Anchor
    /\ moved \subseteq Key
    /\ inflight \in [Lock -> SUBSET Event]
    /\ settled \in [Lock -> BOOLEAN]
    /\ delivered \in [Event -> Nat]
    /\ acked \in [Event -> Nat]
    /\ dropped \subseteq Event
    /\ crashes \in Nat
    /\ faults \in Nat

Init ==
    /\ files = [n \in Name |-> NoFile]
    /\ ripe = {}
    /\ deadLetter = {}
    /\ anchorOf = [k \in Key |-> NoAnchor]
    /\ minted = {}
    /\ moved = {}
    /\ inflight = [l \in Lock |-> {}]
    /\ settled = [l \in Lock |-> FALSE]
    /\ delivered = [e \in Event |-> 0]
    /\ acked = [e \in Event |-> 0]
    /\ dropped = {}
    /\ crashes = 0
    /\ faults = 0

-----------------------------------------------------------------------------
(***************************************************************************)
(* Reading the directory                                                   *)
(***************************************************************************)

OnDisk == {e \in Event : files[FileName[e]] = e}

NamesOf(E) == {FileName[e] : e \in E}

Without(N) == [n \in Name |-> IF n \in N THEN NoFile ELSE files[n]]

\* `anchor:<id>` for a key bound to an anchor, the raw key otherwise.
LockOf(k) == IF anchorOf[k] = NoAnchor THEN k ELSE anchorOf[k]

\* The files a scan that cannot read `bad` groups under lock l.
Entries(l, bad) ==
    {e \in OnDisk : FileName[e] \notin bad /\ LockOf(KeyOf[e]) = l}

\* Mutant of Ready: the whole group is waited for.
ReadyAll(l, bad) ==
    /\ Entries(l, bad) # {}
    /\ NamesOf(Entries(l, bad)) \subseteq ripe

\* With an interrupt event in the group only interrupt events are waited for.
Ready(l, bad) ==
    LET entries == Entries(l, bad)
        mentions == entries \cap Interrupt
        gate == IF mentions = {} THEN entries ELSE mentions
    IN  /\ entries # {}
        /\ NamesOf(gate) \subseteq ripe

-----------------------------------------------------------------------------
(***************************************************************************)
(* Producers                                                               *)
(***************************************************************************)

\* Mutant of EnsureAnchor: enqueue leaves the binding to the runner.
EnsureAnchorLater(k) == k \in Key /\ UNCHANGED aliases

\* enqueue first binds the key: an unbound key with an alias type gets a
\* freshly minted anchor, every other key is left alone.
EnsureAnchor(k) ==
    IF k \in Bindable /\ anchorOf[k] = NoAnchor
    THEN \E a \in Anchor \ minted :
            /\ anchorOf' = [anchorOf EXCEPT ![k] = a]
            /\ minted' = minted \cup {a}
            /\ UNCHANGED moved
    ELSE UNCHANGED aliases

\* A delivery, or a redelivery, of e: the file is written under a temporary
\* name and renamed over whatever has that name.
Enqueue(e) ==
    /\ delivered[e] < MaxDeliveries
    /\ EnsureAnchor(KeyOf[e])
    /\ files' = [files EXCEPT ![FileName[e]] = e]
    /\ ripe' = IF e \in Immediate THEN ripe \cup {FileName[e]}
                                  ELSE ripe \ {FileName[e]}
    /\ delivered' = [delivered EXCEPT ![e] = @ + 1]
    /\ UNCHANGED <<deadLetter, memory, acked, dropped, crashes, faults>>

\* Time passes the readyAt of a file.
Ripen(n) ==
    /\ files[n] # NoFile
    /\ n \notin ripe
    /\ ripe' = ripe \cup {n}
    /\ UNCHANGED <<files, deadLetter, aliases, memory, history>>

\* Another process (runner, remote-cli) binds a key nobody has bound yet.
BindElsewhere(k, a) ==
    /\ k \in Bindable
    /\ anchorOf[k] = NoAnchor
    /\ anchorOf' = [anchorOf EXCEPT ![k] = a]
    /\ minted' = minted \cup {a}
    /\ UNCHANGED <<store, moved, memory, history>>

\* remote-cli binds the key of the thread posted to, or of the branch checked
\* out, to the anchor of the executing session, whatever it was bound to.
MoveAlias(k, a) ==
    /\ k \in Movable
    /\ anchorOf[k] # NoAnchor
    /\ a \in minted \ {anchorOf[k]}
    /\ anchorOf' = [anchorOf EXCEPT ![k] = a]
    /\ moved' = moved \cup {k}
    /\ UNCHANGED <<store, minted, memory, history>>

-----------------------------------------------------------------------------
(***************************************************************************)
(* The scan timer                                                          *)
(***************************************************************************)

\* One pass over the directory: a file that cannot be read is unlinked, and
\* every ready group whose lock is free becomes a batch in flight.
ScanWith(bad) ==
    /\ inflight' = [l \in Lock |->
                      IF inflight[l] = {} /\ Ready(l, bad)
                      THEN Entries(l, bad) ELSE inflight[l]]
    /\ files' = Without(bad)
    /\ ripe' = ripe \ bad
    /\ dropped' = dropped \cup {e \in OnDisk : FileName[e] \in bad}
    /\ UNCHANGED <<deadLetter, aliases, settled, delivered, acked, crashes>>

Scan ==
    /\ ScanWith({})
    /\ UNCHANGED faults

ScanUnreadable(n) ==
    /\ faults < MaxFaults
    /\ files[n] # NoFile
    /\ ScanWith({n})
    /\ faults' = faults + 1

-----------------------------------------------------------------------------
(***************************************************************************)
(* The handler of the batch in flight under lock l                         *)
(***************************************************************************)

\* Mutant of Unsettled: a second ack or reject of a batch counts.
UnsettledEver(l) == inflight[l] # {}

Unsettled(l) == inflight[l] # {} /\ ~settled[l]

AckedOnce(l) ==
    [e \in Event |-> IF e \in inflight[l] THEN acked[e] + 1 ELSE acked[e]]

\* Mutant of HandlerAck: ack deletes what the lock has now, not the batch.
HandlerAckByLock(l) ==
    /\ Unsettled(l)
    /\ settled' = [settled EXCEPT ![l] = TRUE]
    /\ files' = Without(NamesOf(Entries(l, {})))
    /\ ripe' = ripe \ NamesOf(Entries(l, {}))
    /\ acked' = AckedOnce(l)
    /\ UNCHANGED <<deadLetter, aliases, inflight,
                   delivered, dropped, crashes, faults>>

\* ack() deletes the files of the batch by name; only the first call counts.
HandlerAck(l) ==
    /\ Unsettled(l)
    /\ settled' = [settled EXCEPT ![l] = TRUE]
    /\ files' = Without(NamesOf(inflight[l]))
    /\ ripe' = ripe \ NamesOf(inflight[l])
    /\ acked' = AckedOnce(l)
    /\ UNCHANGED <<deadLetter, aliases, inflight,
                   delivered, dropped, crashes, faults>>

\* Mutant of ContentsOf: a file deleted meanwhile is moved all the same.
ContentsOfAny(E) == {files[n] : n \in NamesOf(E)}

\* The events in the files named by E, whatever has been written to them since.
ContentsOf(E) == {e \in OnDisk : FileName[e] \in NamesOf(E)}

\* Mutant of HandlerReject: the files are deleted, not moved.
HandlerRejectDeletes(l) ==
    /\ Unsettled(l)
    /\ settled' = [settled EXCEPT ![l] = TRUE]
    /\ files' = Without(NamesOf(inflight[l]))
    /\ ripe' = ripe \ NamesOf(inflight[l])
    /\ UNCHANGED <<deadLetter, aliases, inflight, history>>

\* reject(reason) moves the files of the batch, by name, to dead-letter/.
HandlerReject(l) ==
    /\ Unsettled(l)
    /\ settled' = [settled EXCEPT ![l] = TRUE]
    /\ files' = Without(NamesOf(inflight[l]))
    /\ ripe' = ripe \ NamesOf(inflight[l])
    /\ deadLetter' = deadLetter \cup ContentsOf(inflight[l])
    /\ UNCHANGED <<aliases, inflight, history>>

\* Mutant of HandlerReturn: only a deferred batch frees its lock.
HandlerReturnDeferred(l) ==
    /\ Unsettled(l)
    /\ inflight' = [inflight EXCEPT ![l] = {}]
    /\ UNCHANGED <<store, aliases, settled, history>>

\* The handler returns; without ack or reject the files stay for a retry.
HandlerReturn(l) ==
    /\ inflight[l] # {}
    /\ inflight' = [inflight EXCEPT ![l] = {}]
    /\ settled' = [settled EXCEPT ![l] = FALSE]
    /\ UNCHANGED <<store, aliases, history>>

\* The handler throws: the files are deleted, and the lock is released.
HandlerThrow(l) ==
    /\ inflight[l] # {}
    /\ files' = Without(NamesOf(inflight[l]))
    /\ ripe' = ripe \ NamesOf(inflight[l])
    /\ dropped' = dropped \cup ContentsOf(inflight[l])
    /\ inflight' = [inflight EXCEPT ![l] = {}]
    /\ settled' = [settled EXCEPT ![l] = FALSE]
    /\ UNCHANGED <<deadLetter, aliases, delivered, acked, crashes, faults>>

-----------------------------------------------------------------------------
(***************************************************************************)
(* Crash and restart: the batches in flight are forgotten                  *)
(***************************************************************************)

Restart ==
    /\ crashes < MaxCrashes
    /\ crashes' = crashes + 1
    /\ inflight' = [l \in Lock |-> {}]
    /\ settled' = [l \in Lock |-> FALSE]

Crash ==
    /\ Restart
    /\ UNCHANGED <<store, aliases, delivered, acked, dropped, faults>>

\* The crash comes when the handler has acked and only `gone` is deleted.
CrashInAck(l, gone) ==
    /\ Unsettled(l)
    /\ gone \subseteq inflight[l]
    /\ Restart
    /\ files' = Without(NamesOf(gone))
    /\ ripe' = ripe \ NamesOf(gone)
    /\ acked' = AckedOnce(l)
    /\ UNCHANGED <<deadLetter, aliases, delivered, dropped, faults>>

\* The crash comes when only `gone` has been moved to dead-letter/.
CrashInReject(l, gone) ==
    /\ Unsettled(l)
    /\ gone \subseteq inflight[l]
    /\ Restart
    /\ files' = Without(NamesOf(gone))
    /\ ripe' = ripe \ NamesOf(gone)
    /\ deadLetter' = deadLetter \cup ContentsOf(gone)
    /\ UNCHANGED <<aliases, delivered, acked, dropped, faults>>

-----------------------------------------------------------------------------

Next ==
    \/ \E e \in Event : Enqueue(e)
    \/ \E n \in Name : Ripen(n)
    \/ \E k \in Key, a \in Anchor : BindElsewhere(k, a)
    \/ \E k \in Key, a \in Anchor : MoveAlias(k, a)
    \/ Scan
    \/ \E n \in Name : ScanUnreadable(n)
    \/ \E l \in Lock : HandlerAck(l)
    \/ \E l \in Lock : HandlerReject(l)
    \/ \E l \in Lock : HandlerReturn(l)
    \/ \E l \in Lock : HandlerThrow(l)
    \/ Crash
    \/ \E l \in Lock, gone \in SUBSET Event : CrashInAck(l, gone)
    \/ \E l \in Lock, gone \in SUBSET Event : CrashInReject(l, gone)

Spec == Init /\ [][Next]_vars

-----------------------------------------------------------------------------
(***************************************************************************)
(* Fairness.  The scan timer fires every 100 ms; a handler's awaits end in *)
(* an answer or an error; and a batch that is offered again and again is   *)
(* not answered "busy" for ever.                                           *)
(***************************************************************************)

HandlerFairness ==
    /\ WF_vars(Scan)
    /\ \A l \in Lock : WF_vars(HandlerReturn(l))
    /\ \A l \in Lock : SF_vars(HandlerAck(l) \/ HandlerReject(l))

\* Only the files of interrupt events are sure to ripen: the debounce of the
\* others may be as long as it likes.
FairSpec ==
    /\ Spec
    /\ HandlerFairness
    /\ \A e \in Interrupt : WF_vars(files[FileName[e]] = e /\ Ripen(FileName[e]))

\* A conversation goes quiet: no debounce lasts for ever.
EventsRipen == \A n \in Name : WF_vars(Ripen(n))

-----------------------------------------------------------------------------
(***************************************************************************)
(* Properties                                                              *)
(***************************************************************************)

\* The events whose key has kept its anchor since it was bound.
Unmoved == {e \in Event : KeyOf[e] \notin moved}

\* No two batches in flight belong to one conversation: however keys are
\* bound while handlers run, the processing map keeps one dispatch per anchor
\* (or per unbound key), whatever becomes of other keys.  It says nothing of
\* a key that was bound and then moved (NotDispatchedTwice).
SerialPerConversation ==
    \A l1, l2 \in Lock :
        \A e1 \in inflight[l1] \cap Unmoved, e2 \in inflight[l2] \cap Unmoved :
            LockOf(KeyOf[e1]) = LockOf(KeyOf[e2]) => l1 = l2

\* No file is handed to a second handler while a first one still has it: what
\* the comment on `processing` and the test "does not redispatch an in-flight
\* file when its correlation alias appears" say of scan().
NotDispatchedTwice ==
    \A l1, l2 \in Lock : l1 # l2 => inflight[l1] \cap inflight[l2] = {}

\* The handler acks an event at most once per delivery by its source and per
\* crash of the gateway: nothing else makes the runner see it again, unless
\* its own key was moved.
AckedPerDelivery ==
    \A e \in Unmoved : acked[e] <= delivered[e] + crashes

\* The events that have been acked, rejected, or given up on.
Outcomes == {e \in Event : acked[e] > 0} \cup deadLetter \cup dropped

\* An enqueued event leaves the directory only by an ack, a reject, a throw or
\* an unreadable file: an ack by name never removes an event that no handler
\* was given.
NoSilentLoss ==
    \A e \in Event :
        delivered[e] > 0 => e \in OnDisk \cup Outcomes

Inbox == INSTANCE EventInbox WITH pending <- OnDisk, settled <- Outcomes

\* The queue directory implements the at-least-once inbox: every step of the
\* queue, crashes included, accepts one event, settles events that were
\* pending, or changes nothing a producer could see.  Needs one file name per
\* event.
ImplementsInbox == Inbox!Spec

\* If conversations go quiet, every file is eventually settled: deferral,
\* crashes and debounce only delay it, because each handler's end frees its
\* lock.
EventuallySettled ==
    EventsRipen => \A e \in Event : e \in OnDisk ~> e \notin OnDisk

\* A mention is settled even if the messages batched with it never become
\* ready: "non-interrupt events get swept in but don't delay the batch".
MentionNotDelayed ==
    \A e \in Interrupt : e \in OnDisk ~> e \notin OnDisk

=============================================================================
