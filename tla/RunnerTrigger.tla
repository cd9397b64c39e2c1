--------------------------- MODULE RunnerTrigger ---------------------------
(***************************************************************************)
(* POST /trigger of the runner for one conversation: finding or creating   *)
(* its OpenCode session, refusing or aborting when that is busy, sending   *)
(* the prompt, following the directory's event stream, and the records of  *)
(* all this in the session log (src/packages/runner/src/index.ts,          *)
(* event-bus.ts; src/packages/common/src/event-log.ts).                    *)
(*                                                                         *)
(* A step is what the runner does between two awaits.  OpenCode answers    *)
(* calls and publishes events; the stream carries the events in order but  *)
(* later than the answers, so an event may arrive long after a call that   *)
(* was made after it.  OpenCode itself is modelled from this use.          *)
(***************************************************************************)
EXTENDS Integers, Sequences, FiniteSets

CONSTANTS
    Trigger,       \* the requests
    Interrupt,     \* those with interrupt = true
    MaxSessions,   \* bound: sessions that are created
    MaxCrashes,    \* bound: kills of the process
    MaxShutdowns,  \* bound: SIGTERMs
    MaxDrops,      \* bound: deaths of the event stream
    MaxFaults,     \* bound: calls and writes that fail, errors OpenCode reports
    MaxUnwritten   \* bound: trigger_end records that could not be written

ASSUME RunnerAssumption ==
    /\ Interrupt \subseteq Trigger
    /\ IsFiniteSet(Trigger)
    /\ {MaxSessions, MaxCrashes, MaxShutdowns, MaxDrops, MaxFaults,
        MaxUnwritten} \subseteq Nat

VARIABLES
    created,    \* OpenCode: sessions created so far, numbered from 1
    running,    \* OpenCode: the prompts each session is working on
    connected,  \* the directory bus has a live event stream
    wire,       \* events published and not read from the stream yet
    listening,  \* the session each request is subscribed to, 0 for none
    queue,      \* the events buffered in its subscription
    server,     \* the runner process
    pc,         \* where each request is, or how it was answered
    sess,       \* the session it works with
    failing,    \* latestSessionError is set
    inflight,   \* inflightTriggers
    bound,      \* currentSessionForAnchor: the newest session alias, 0 for none
    log,        \* the trigger records in each session's log
    unwritten,  \* history: triggers whose trigger_end could not be written
    crashes,
    shutdowns,
    drops,
    faults

opencode == <<created, running>>
stream == <<connected, wire, listening, queue>>
records == <<inflight, log, unwritten>>
bounds == <<crashes, shutdowns, drops, faults>>
vars == <<opencode, stream, server, pc, sess, failing, records, bound, bounds>>

Session == 1..MaxSessions

Kind == {"part", "error", "idle"}

EndStatus == {"completed", "error", "aborted"}

Record == [type : {"start"}, trigger : Trigger]
          \cup [type : {"end"}, trigger : Trigger, status : EndStatus]

Answered == {"busy", "unsettled", "failed", "completed", "error", "lost"}

Working == {"locking", "getting", "creating", "binding", "checking",
            "seenBusy", "aborting", "aborted", "settling", "attaching",
            "prompting", "streaming"}

HasSession == Working \ {"locking", "creating"}

TypeOK ==
    /\ created \in 0..MaxSessions
    /\ running \in [Session -> SUBSET Trigger]
    /\ connected \in BOOLEAN
    /\ wire \in Seq([session : Session, kind : Kind])
    /\ listening \in [Trigger -> 0..MaxSessions]
    /\ queue \in [Trigger -> Seq(Kind)]
    /\ server \in {"up", "closing", "down"}
    /\ pc \in [Trigger -> {"idle"} \cup Working \cup Answered]
    /\ sess \in [Trigger -> 0..created]
    /\ \A t \in Trigger : pc[t] \in HasSession => sess[t] # 0
    /\ failing \in [Trigger -> BOOLEAN]
    /\ inflight \subseteq Trigger
    /\ bound \in 0..created
    /\ log \in [Session -> Seq(Record)]
    /\ unwritten \subseteq Trigger
    /\ crashes \in 0..MaxCrashes
    /\ shutdowns \in 0..MaxShutdowns
    /\ drops \in 0..MaxDrops
    /\ faults \in 0..MaxFaults

Init ==
    /\ created = 0
    /\ running = [s \in Session |-> {}]
    /\ connected = FALSE
    /\ wire = <<>>
    /\ listening = [t \in Trigger |-> 0]
    /\ queue = [t \in Trigger |-> <<>>]
    /\ server = "up"
    /\ pc = [t \in Trigger |-> "idle"]
    /\ sess = [t \in Trigger |-> 0]
    /\ failing = [t \in Trigger |-> FALSE]
    /\ inflight = {}
    /\ bound = 0
    /\ log = [s \in Session |-> <<>>]
    /\ unwritten = {}
    /\ crashes = 0
    /\ shutdowns = 0
    /\ drops = 0
    /\ faults = 0

Fault ==
    /\ faults < MaxFaults
    /\ faults' = faults + 1
    /\ UNCHANGED <<crashes, shutdowns, drops>>

Goto(t, place) == pc' = [pc EXCEPT ![t] = place]

-----------------------------------------------------------------------------
(***************************************************************************)
(* The session log and the map of triggers in flight.  A start is appended *)
(* and entered into the map in one go, so the map's order is the order of  *)
(* the starts in the log.                                                  *)
(***************************************************************************)

StartOf(t) == [type |-> "start", trigger |-> t]

EndOf(t, status) == [type |-> "end", trigger |-> t, status |-> status]

StartIndexes(t) ==
    {i \in 1..Len(log[sess[t]]) : log[sess[t]][i] = StartOf(t)}

EndIndexes(t) ==
    {i \in 1..Len(log[sess[t]]) :
        log[sess[t]][i].type = "end" /\ log[sess[t]][i].trigger = t}

Started(t) == sess[t] # 0 /\ StartIndexes(t) # {}
Ended(t) == sess[t] # 0 /\ EndIndexes(t) # {}

StartTrigger(t) ==
    /\ log' = [log EXCEPT ![sess[t]] = Append(@, StartOf(t))]
    /\ inflight' = inflight \cup {t}
    /\ UNCHANGED unwritten

\* Mutant of Owned: the entry stays in the map until the loop ends.
OwnedTwice(t) == pc[t] \in {"prompting", "streaming"}

\* endTrigger's early return.
Owned(t) == t \in inflight

\* A failed write is logged and forgotten.
EndTrigger(t, status) ==
    /\ inflight' = inflight \ {t}
    /\ \/ /\ Owned(t)
          /\ log' = [log EXCEPT ![sess[t]] = Append(@, EndOf(t, status))]
          /\ UNCHANGED unwritten
       \/ /\ Owned(t)
          /\ Cardinality(unwritten) < MaxUnwritten
          /\ unwritten' = unwritten \cup {t}
          /\ UNCHANGED log
       \/ /\ ~Owned(t)
          /\ UNCHANGED <<log, unwritten>>

\* Mutant of EndInError: the error path answers and leaves the trigger open.
LeaveOpen(t) == UNCHANGED records

EndInError(t) == EndTrigger(t, "error")

\* findInflightTriggerForSession: the first of the session's in the map.
InflightOf(s) == {t \in inflight : sess[t] = s}

EarlierIn(s, t, u) ==
    \E i \in 1..Len(log[s]) :
        /\ log[s][i] = StartOf(t)
        /\ \A j \in 1..i : log[s][j] # StartOf(u)

IsPrior(s, t) ==
    /\ t \in InflightOf(s)
    /\ \A u \in InflightOf(s) \ {t} : EarlierIn(s, t, u)

\* Mutant of SliceStatus: a trigger's own end is looked for first.
SliceStatusByEnd(t) ==
    LET own == log[sess[t]]
        from == CHOOSE i \in StartIndexes(t) : TRUE
    IN  IF EndIndexes(t) # {}
        THEN own[CHOOSE i \in EndIndexes(t) : TRUE].status
        ELSE IF \E i \in from + 1..Len(own) : own[i].type = "start"
        THEN "crashed"
        ELSE "in_flight"

\* readTriggerSlice: what the viewer says of a trigger that has started.
SliceStatus(t) ==
    LET own == log[sess[t]]
        from == CHOOSE i \in StartIndexes(t) : TRUE
        closing == {i \in from + 1..Len(own) :
                       own[i].type = "start" \/ own[i].trigger = t}
        close == CHOOSE i \in closing : \A j \in closing : i <= j
    IN  IF closing = {} THEN "in_flight"
        ELSE IF own[close].type = "start" THEN "crashed"
        ELSE own[close].status

-----------------------------------------------------------------------------
(***************************************************************************)
(* The directory bus                                                       *)
(***************************************************************************)

\* subscribe() and ensureConnected(): the stream is (re)opened if need be.
Listen(t) ==
    /\ connected' = TRUE
    /\ listening' = [listening EXCEPT ![t] = sess[t]]
    /\ queue' = [queue EXCEPT ![t] = <<>>]
    /\ UNCHANGED wire

Others(t) == {u \in Trigger \ {t} : listening[u] # 0}

\* Mutant of InUse: the bus is closed with one subscription left.
InUseByTwo(t) == Cardinality(Others(t)) > 1

InUse(t) == Others(t) # {}

\* close(): the last subscription to go closes the bus and its stream.
Unlisten(t) ==
    /\ listening' = [listening EXCEPT ![t] = 0]
    /\ queue' = [queue EXCEPT ![t] = <<>>]
    /\ connected' = (connected /\ InUse(t))
    /\ wire' = IF InUse(t) THEN wire ELSE <<>>

\* The reader loop hands one event to the subscriptions of its session.
Deliver ==
    /\ connected /\ wire # <<>>
    /\ LET event == Head(wire)
       IN  queue' = [t \in Trigger |->
                       IF listening[t] = event.session
                       THEN Append(queue[t], event.kind) ELSE queue[t]]
    /\ wire' = Tail(wire)
    /\ UNCHANGED <<opencode, connected, listening, server, pc, sess, failing,
                   records, bound, bounds>>

\* The stream ends; the subscriptions are not told, the next subscribe()
\* opens it again.
Drop ==
    /\ connected
    /\ drops < MaxDrops
    /\ drops' = drops + 1
    /\ connected' = FALSE
    /\ wire' = <<>>
    /\ UNCHANGED <<opencode, listening, queue, server, pc, sess, failing,
                   records, bound, crashes, shutdowns, faults>>

-----------------------------------------------------------------------------
(***************************************************************************)
(* OpenCode                                                                *)
(***************************************************************************)

Publish(s, kinds) ==
    /\ wire' = IF connected
               THEN wire \o [i \in DOMAIN kinds |->
                               [session |-> s, kind |-> kinds[i]]]
               ELSE wire
    /\ UNCHANGED <<connected, listening, queue>>

\* A session is through with its prompts, with or without an error.
OpencodeFinish(s) ==
    /\ running[s] # {}
    /\ running' = [running EXCEPT ![s] = {}]
    /\ \E kinds \in {<<"idle">>, <<"error", "idle">>} : Publish(s, kinds)
    /\ UNCHANGED <<created, server, pc, sess, failing, records, bound, bounds>>

\* An error the session goes on from.
OpencodeError(s) ==
    /\ running[s] # {}
    /\ Fault
    /\ \E kinds \in {<<"error">>, <<"error", "part">>} : Publish(s, kinds)
    /\ UNCHANGED <<opencode, server, pc, sess, failing, records, bound>>

-----------------------------------------------------------------------------
(***************************************************************************)
(* Finding or creating the session, under the lock of the conversation.    *)
(* The key is bound before the lock is taken, so all requests of the       *)
(* conversation take the same one.  It is handed on in the order of        *)
(* arrival, which nothing depends on: any waiting request may be next.     *)
(***************************************************************************)

Receive(t) ==
    /\ server = "up"
    /\ pc[t] = "idle"
    /\ Goto(t, "locking")
    /\ UNCHANGED <<opencode, stream, server, sess, failing, records, bound,
                   bounds>>

\* Mutant of LockFree: requests resolve their session side by side.
NoLock == TRUE

LockFree ==
    \A t \in Trigger : pc[t] \notin {"getting", "creating", "binding"}

\* Mutant of HasCandidate: a conversation without a session is resumed.
AlwaysCandidate == TRUE

HasCandidate == bound # 0

Resolve(t) ==
    /\ pc[t] = "locking"
    /\ LockFree
    /\ sess' = [sess EXCEPT ![t] = bound]
    /\ Goto(t, IF HasCandidate THEN "getting" ELSE "creating")
    /\ UNCHANGED <<opencode, stream, server, failing, records, bound, bounds>>

GetSession(t) ==
    /\ pc[t] = "getting"
    /\ Goto(t, "checking")
    /\ UNCHANGED <<opencode, stream, server, sess, failing, records, bound,
                   bounds>>

\* OpenCode has lost the session, or the call failed: both count as stale.
GetSessionFails(t) ==
    /\ pc[t] = "getting"
    /\ Fault
    /\ Goto(t, "creating")
    /\ UNCHANGED <<opencode, stream, server, sess, failing, records, bound>>

CreateSession(t) ==
    /\ pc[t] = "creating"
    /\ created < MaxSessions
    /\ created' = created + 1
    /\ sess' = [sess EXCEPT ![t] = created + 1]
    /\ Goto(t, "binding")
    /\ UNCHANGED <<running, stream, server, failing, records, bound, bounds>>

BindSession(t) ==
    /\ pc[t] = "binding"
    /\ bound' = sess[t]
    /\ Goto(t, "attaching")
    /\ UNCHANGED <<opencode, stream, server, sess, failing, records, bounds>>

-----------------------------------------------------------------------------
(***************************************************************************)
(* A resumed session that is busy.  The lock is free again by now.         *)
(***************************************************************************)

CheckStatus(t) ==
    /\ pc[t] = "checking"
    /\ Goto(t, IF running[sess[t]] # {} THEN "seenBusy" ELSE "attaching")
    /\ UNCHANGED <<opencode, stream, server, sess, failing, records, bound,
                   bounds>>

\* An answer without data does not say busy.
CheckStatusFails(t) ==
    /\ pc[t] = "checking"
    /\ Fault
    /\ Goto(t, "attaching")
    /\ UNCHANGED <<opencode, stream, server, sess, failing, records, bound>>

AnswerBusy(t) ==
    /\ pc[t] = "seenBusy"
    /\ t \notin Interrupt
    /\ Goto(t, "busy")
    /\ UNCHANGED <<opencode, stream, server, sess, failing, records, bound,
                   bounds>>

\* The prior trigger is ended before the abort is even sent.
EndPrior(t) ==
    /\ pc[t] = "seenBusy"
    /\ t \in Interrupt
    /\ \/ \E p \in Trigger : IsPrior(sess[t], p) /\ EndTrigger(p, "aborted")
       \/ InflightOf(sess[t]) = {} /\ UNCHANGED records
    /\ Goto(t, "aborting")
    /\ UNCHANGED <<opencode, stream, server, sess, failing, bound, bounds>>

AbortSession(t) ==
    /\ pc[t] = "aborting"
    /\ running' = [running EXCEPT ![sess[t]] = {}]
    /\ \E kinds \in IF running[sess[t]] # {}
                    THEN {<<"error">>, <<"idle">>, <<"error", "idle">>}
                    ELSE {<<>>, <<"idle">>} :
           Publish(sess[t], kinds)
    /\ Goto(t, "aborted")
    /\ UNCHANGED <<created, server, sess, failing, records, bound, bounds>>

\* An error in the answer is not looked at.
AbortSessionFails(t) ==
    /\ pc[t] = "aborting"
    /\ Fault
    /\ Goto(t, "aborted")
    /\ UNCHANGED <<opencode, stream, server, sess, failing, records, bound>>

AwaitSettled(t) ==
    /\ pc[t] = "aborted"
    /\ Listen(t)
    /\ Goto(t, "settling")
    /\ UNCHANGED <<opencode, server, sess, failing, records, bound, bounds>>

SettleEventIn(t) == \E i \in DOMAIN queue[t] : queue[t][i] \in {"idle", "error"}

Settled(t) ==
    /\ pc[t] = "settling"
    /\ SettleEventIn(t)
    /\ Unlisten(t)
    /\ Goto(t, "attaching")
    /\ UNCHANGED <<opencode, server, sess, failing, records, bound, bounds>>

SettleTimeout(t) ==
    /\ pc[t] = "settling"
    /\ ~SettleEventIn(t)
    /\ Unlisten(t)
    /\ Goto(t, "unsettled")
    /\ UNCHANGED <<opencode, server, sess, failing, records, bound, bounds>>

-----------------------------------------------------------------------------
(***************************************************************************)
(* The prompt and the events that follow                                   *)
(***************************************************************************)

\* The subscription is there before the prompt is sent.
Attach(t) ==
    /\ pc[t] = "attaching"
    /\ Listen(t)
    /\ StartTrigger(t)
    /\ Goto(t, "prompting")
    /\ UNCHANGED <<opencode, server, sess, failing, bound, bounds>>

\* The trigger_start cannot be written: the subscription is left open.
AttachFails(t) ==
    /\ pc[t] = "attaching"
    /\ Fault
    /\ Listen(t)
    /\ Goto(t, "failed")
    /\ UNCHANGED <<opencode, server, sess, failing, records, bound>>

Prompt(t) ==
    /\ pc[t] = "prompting"
    /\ running' = [running EXCEPT ![sess[t]] = @ \cup {t}]
    /\ Goto(t, "streaming")
    /\ UNCHANGED <<created, stream, server, sess, failing, records, bound,
                   bounds>>

\* An error, or no answer although OpenCode may have the prompt.  Again the
\* subscription is left open.
PromptFails(t) ==
    /\ pc[t] = "prompting"
    /\ Fault
    /\ \E taken \in SUBSET {t} :
           running' = [running EXCEPT ![sess[t]] = @ \cup taken]
    /\ EndInError(t)
    /\ Goto(t, "failed")
    /\ UNCHANGED <<created, stream, server, sess, failing, bound>>

\* The end of the loop, the trigger_end, and the final event of the answer.
Finish(t) ==
    LET status == IF failing[t] THEN "error" ELSE "completed"
    IN  /\ EndTrigger(t, status)
        /\ Goto(t, status)
        /\ Unlisten(t)

NextEvent(t) ==
    /\ pc[t] = "streaming"
    /\ queue[t] # <<>>
    /\ \/ /\ Head(queue[t]) = "idle"
          /\ Finish(t)
          /\ UNCHANGED failing
       \/ /\ Head(queue[t]) # "idle"
          /\ failing' = [failing EXCEPT ![t] = Head(queue[t]) = "error"]
          /\ queue' = [queue EXCEPT ![t] = Tail(@)]
          /\ UNCHANGED <<connected, wire, listening, pc, records>>
    /\ UNCHANGED <<opencode, server, sess, bound, bounds>>

\* No part follows an error within SESSION_ERROR_GRACE_MS.
GraceOver(t) ==
    /\ pc[t] = "streaming"
    /\ failing[t]
    /\ Finish(t)
    /\ UNCHANGED <<opencode, server, sess, failing, bound, bounds>>

\* The event cannot be written to the log: the loop is left by the catch.
EventNotWritten(t) ==
    /\ pc[t] = "streaming"
    /\ queue[t] # <<>>
    /\ Fault
    /\ EndInError(t)
    /\ Unlisten(t)
    /\ Goto(t, "failed")
    /\ UNCHANGED <<opencode, server, sess, failing, bound>>

\* A call throws, or a write under the lock fails, before anything is
\* subscribed or in flight: 500.
CallFails(t) ==
    /\ pc[t] \in {"creating", "binding", "checking", "aborting", "aborted",
                  "attaching"}
    /\ Fault
    /\ Goto(t, "failed")
    /\ UNCHANGED <<opencode, stream, server, sess, failing, records, bound>>

-----------------------------------------------------------------------------
(***************************************************************************)
(* The process                                                             *)
(***************************************************************************)

\* flushInflightTriggersOnShutdown: the ends of a session's triggers in the
\* map's order.
Orders == UNION {[1..n -> Trigger] : n \in 0..Cardinality(Trigger)}

FlushOrder(s, order) ==
    /\ {order[i] : i \in DOMAIN order} = InflightOf(s)
    /\ \A i, j \in DOMAIN order : i < j => EarlierIn(s, order[i], order[j])

\* Mutant of MapAfterFlush: the map is not cleared.
MapKept == inflight

MapAfterFlush == {}

\* SIGTERM: the triggers in flight are ended in the log; their loops, and
\* the requests that have not started a trigger yet, run on.
Shutdown ==
    /\ server # "down"
    /\ shutdowns < MaxShutdowns
    /\ shutdowns' = shutdowns + 1
    /\ server' = "closing"
    /\ \E order \in [Session -> Orders] :
           /\ \A s \in Session : FlushOrder(s, order[s])
           /\ log' = [s \in Session |->
                        log[s] \o [i \in DOMAIN order[s] |->
                                     EndOf(order[s][i], "aborted")]]
    /\ inflight' = MapAfterFlush
    /\ UNCHANGED <<opencode, stream, pc, sess, failing, bound, unwritten,
                   crashes, drops, faults>>

\* The process is gone, with its requests, its map and its subscriptions.
Die ==
    /\ server' = "down"
    /\ pc' = [t \in Trigger |-> IF pc[t] \in Working THEN "lost" ELSE pc[t]]
    /\ inflight' = {}
    /\ connected' = FALSE
    /\ wire' = <<>>
    /\ listening' = [t \in Trigger |-> 0]
    /\ queue' = [t \in Trigger |-> <<>>]
    /\ UNCHANGED <<opencode, sess, failing, bound, log, unwritten>>

\* All connections are closed, or five seconds have passed.
Exit ==
    /\ server = "closing"
    /\ Die
    /\ UNCHANGED bounds

Crash ==
    /\ server # "down"
    /\ crashes < MaxCrashes
    /\ crashes' = crashes + 1
    /\ Die
    /\ UNCHANGED <<shutdowns, drops, faults>>

Restart ==
    /\ server = "down"
    /\ server' = "up"
    /\ UNCHANGED <<opencode, stream, pc, sess, failing, records, bound, bounds>>

-----------------------------------------------------------------------------

Serve(t) ==
    \/ Resolve(t) \/ GetSession(t) \/ CreateSession(t) \/ BindSession(t)
    \/ CheckStatus(t) \/ AnswerBusy(t) \/ EndPrior(t) \/ AbortSession(t)
    \/ AwaitSettled(t) \/ Settled(t) \/ SettleTimeout(t)
    \/ Attach(t) \/ Prompt(t) \/ NextEvent(t) \/ GraceOver(t)

Fail(t) ==
    \/ GetSessionFails(t) \/ CheckStatusFails(t) \/ AbortSessionFails(t)
    \/ AttachFails(t) \/ PromptFails(t) \/ EventNotWritten(t) \/ CallFails(t)

Next ==
    \/ \E t \in Trigger : Receive(t) \/ Serve(t) \/ Fail(t)
    \/ \E s \in Session : OpencodeFinish(s) \/ OpencodeError(s)
    \/ Deliver
    \/ Drop
    \/ Shutdown
    \/ Exit
    \/ Crash
    \/ Restart

Spec == Init /\ [][Next]_vars

\* OpenCode answers calls, gets through with its prompts, and the stream
\* carries what it publishes; timers fire.
Fairness ==
    /\ \A t \in Trigger : WF_vars(Serve(t))
    /\ \A s \in Session : WF_vars(OpencodeFinish(s))
    /\ WF_vars(Deliver)

FairSpec == Spec /\ Fairness

-----------------------------------------------------------------------------
(***************************************************************************)
(* Properties                                                              *)
(***************************************************************************)

\* A trigger has at most one start and at most one end in its log, in this
\* order, although its own loop, an interrupting request, an error path and
\* the shutdown handler all end triggers.
OneEndPerStart ==
    \A t \in Trigger :
        sess[t] # 0 =>
            /\ Cardinality(StartIndexes(t)) <= 1
            /\ Cardinality(EndIndexes(t)) <= 1
            /\ \A j \in EndIndexes(t) : \E i \in StartIndexes(t) : i < j

\* A trigger that is open in the log is in the process's map, unless the
\* process that started it is gone or its end could not be written; and what
\* is in the map is open in the log.
OpenIffInFlight ==
    \A t \in Trigger :
        /\ t \in inflight => Started(t) /\ ~Ended(t)
        /\ Started(t) /\ ~Ended(t) =>
               t \in inflight \/ pc[t] = "lost" \/ t \in unwritten

\* An answer and the log agree: a request that was answered has no trigger
\* in flight, its end says what the answer said, or that it was aborted
\* before; and a request that was turned away left no record.
AnswersAgreeWithLog ==
    \A t \in Trigger :
        /\ pc[t] \in {"completed", "error", "failed"} =>
               /\ t \notin inflight
               /\ sess[t] # 0 => \A i \in EndIndexes(t) :
                      log[sess[t]][i].status \in
                          {IF pc[t] = "failed" THEN "error" ELSE pc[t], "aborted"}
        /\ pc[t] \in {"busy", "unsettled"} => ~Started(t)

\* Two requests of one conversation never create a session each: there is one
\* session, and one more for each call, write or process that failed.
NoDuplicateSessions ==
    created <= 1 + faults + crashes + shutdowns

\* How the viewer shows a trigger that is over never changes, whatever is
\* appended to the log later.
SliceFinal ==
    [][\A t \in Trigger :
          Started(t) /\ SliceStatus(t) # "in_flight"
              => SliceStatus(t)' = SliceStatus(t)]_vars

\* Every request is answered, or lost with the process, as long as the event
\* stream does not die.
EveryTriggerAnswered ==
    \A t \in Trigger :
        pc[t] # "idle" ~> pc[t] \in Answered \/ drops > 0

\* "Streams until session.idle": a request answered "completed" is not still
\* being worked on.
CompletedMeansDone ==
    \A t \in Trigger :
        pc[t] = "completed" => \A s \in Session : t \notin running[s]

\* "The log can never end with an open trigger_start": not after a graceful
\* exit, at least.  No run states it, because it is not so: a request may start its
\* trigger after the shutdown has flushed the map (index.ts:194).
ExitLeavesNoneOpen ==
    server = "down" /\ crashes = 0 =>
        \A t \in Trigger : Started(t) => Ended(t) \/ t \in unwritten

=============================================================================
