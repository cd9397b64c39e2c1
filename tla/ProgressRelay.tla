---------------------------- MODULE ProgressRelay ----------------------------
(***************************************************************************)
(* The progress messages of one Slack thread: ProgressSession and the      *)
(* registries of src/packages/gateway/src/progress-manager.ts, fed by the  *)
(* streams of consumeNdjsonStream of service.ts.                           *)
(*                                                                         *)
(* Every prompt the runner accepts is answered with a stream of events.    *)
(* Streams of one thread overlap, for an interrupting prompt is accepted   *)
(* before the stream of the one it interrupts has ended.  A stream is read *)
(* one event at a time, but its handler waits for Slack, and meanwhile     *)
(* other streams, and the tickers that refresh the elapsed time, go on.    *)
(***************************************************************************)
EXTENDS Naturals, Sequences, FiniteSets

NoId == "none"

CONSTANTS
    Stream,          \* the answers of the runner
    SessionIds,      \* OpenCode sessions: the runs of a thread resume one, or start anew
    ErrorsKept,      \* MAX_ERROR_ENTRIES_PER_THREAD
    MaxTools,        \* bound: tool, memory and delegate events of a stream
    MaxSessions,     \* bound: ProgressSession objects
    MaxSlackFaults        \* bound: calls of Slack that fail

ASSUME SessionIdsAssumption == NoId \notin SessionIds

VARIABLES
    streams,     \* where the reader of each stream is
    sessions,    \* the ProgressSession objects
    active,      \* activeSessions: the one of the thread, or 0
    threads,     \* the maps of entries the thread has had
    mapped,      \* progressMessages: the one in use, or 0
    slack,       \* the messages as Slack shows them
    ticks,       \* sessions whose ticker is updating the message
    marked,      \* the messages an error was put in
    slackFaults

relayVars == <<streams, sessions, active, threads, mapped, slack, ticks,
          marked, slackFaults>>

IdleStream == [phase |-> "waiting", id |-> NoId, session |-> 0, tools |-> 0,
               status |-> "none", deleting |-> {}, thread |-> 0]

RelayInit ==
    /\ streams = [s \in Stream |-> IdleStream]
    /\ sessions = <<>>
    /\ active = 0
    /\ threads = <<>>
    /\ mapped = 0
    /\ slack = <<>>
    /\ ticks = {}
    /\ marked = {}
    /\ slackFaults = 0

-----------------------------------------------------------------------------
(***************************************************************************)
(* Sessions, and the registry of messages                                  *)
(***************************************************************************)

\* "by" is history: the stream whose start made the session.
NewSession(id, by) ==
    [id |-> id, by |-> by, finished |-> FALSE, met |-> FALSE, message |-> 0]

\* The session an event is for: the active one, or one created on the fly.
Found == IF active # 0 THEN sessions ELSE Append(sessions, NewSession(NoId, {}))
Target == IF active # 0 THEN active ELSE Len(sessions) + 1
CanCreate == active # 0 \/ Len(sessions) < MaxSessions

\* Mutant of registerProgress: the message is noted when the session ends.
registerNothing(m) == UNCHANGED <<threads, mapped>>

registerProgress(m) ==
    IF mapped # 0
    THEN /\ threads' = [threads EXCEPT ![mapped] =
                          [n \in DOMAIN @ \cup {m} |-> IF n = m THEN "in_progress" ELSE @[n]]]
         /\ UNCHANGED mapped
    ELSE /\ threads' = Append(threads, [n \in {m} |-> "in_progress"])
         /\ mapped' = Len(threads')

Without(f, S) == [n \in DOMAIN f \ S |-> f[n]]

Errors(f) == {n \in DOMAIN f : f[n] = "error"}

\* Of the errors, the last ErrorsKept stay registered.
evictExcessErrors(f) ==
    Without(f, {n \in Errors(f) : Cardinality({k \in Errors(f) : k > n}) >= ErrorsKept})

updateProgressStatus(m, status) ==
    /\ marked' = IF status = "error" THEN marked \cup {m} ELSE marked
    /\ IF mapped # 0 /\ m \in DOMAIN threads[mapped]
       THEN LET set == [threads[mapped] EXCEPT ![m] = status]
            IN  threads' = [threads EXCEPT ![mapped] =
                              IF status = "error" THEN evictExcessErrors(set) ELSE set]
       ELSE UNCHANGED threads

\* chat.update changes a message that is still there.
Show(m, text) ==
    slack' = IF slack[m] = "deleted" THEN slack ELSE [slack EXCEPT ![m] = text]

SlackFault == slackFaults < MaxSlackFaults /\ slackFaults' = slackFaults + 1

-----------------------------------------------------------------------------
(***************************************************************************)
(* Events of a stream                                                      *)
(***************************************************************************)

StreamAt(s, phase) == streams[s].phase = phase

StreamGoto(s, phase) == streams' = [streams EXCEPT ![s].phase = phase]

\* The session before is told to stop.
Abandoned == IF active = 0 THEN sessions ELSE [sessions EXCEPT ![active].finished = TRUE]

Start(s) ==
    /\ StreamAt(s, "waiting")
    /\ Len(sessions) < MaxSessions
    /\ \E id \in SessionIds :
          /\ sessions' = Append(Abandoned, NewSession(id, {s}))
          /\ streams' = [streams EXCEPT ![s].phase = "reading", ![s].id = id]
    /\ active' = Len(sessions')
    /\ UNCHANGED <<threads, mapped, slack, ticks, marked, slackFaults>>

\* A tool call, memory access or delegation is counted ...
Note(s) ==
    /\ StreamAt(s, "reading")
    /\ streams[s].tools < MaxTools
    /\ CanCreate
    /\ sessions' = Found
    /\ active' = Target
    /\ streams' = [streams EXCEPT ![s].tools = @ + 1]
    /\ UNCHANGED <<threads, mapped, slack, ticks, marked, slackFaults>>

\* ... and shown, when it is the third or ten seconds have passed.
Flush(s) ==
    /\ StreamAt(s, "reading")
    /\ streams[s].tools < MaxTools
    /\ CanCreate
    /\ ~Found[Target].finished
    /\ sessions' = [Found EXCEPT ![Target].met = TRUE]
    /\ active' = Target
    /\ streams' = [streams EXCEPT ![s].tools = @ + 1, ![s].session = Target,
                     ![s].phase = IF Found[Target].message # 0 THEN "updating" ELSE "posting"]
    /\ UNCHANGED <<threads, mapped, slack, ticks, marked, slackFaults>>

Posted(s) ==
    /\ StreamAt(s, "posting")
    /\ slack' = Append(slack, "working")
    /\ sessions' = [sessions EXCEPT ![streams[s].session].message = Len(slack')]
    /\ registerProgress(Len(slack'))
    /\ StreamGoto(s, "reading")
    /\ UNCHANGED <<active, ticks, marked, slackFaults>>

Updated(s) ==
    /\ StreamAt(s, "updating")
    /\ Show(sessions[streams[s].session].message, "working")
    /\ StreamGoto(s, "reading")
    /\ UNCHANGED <<sessions, active, threads, mapped, ticks, marked, slackFaults>>

\* The ticker of a session that runs
Tick(x) ==
    /\ x \notin ticks
    /\ ~sessions[x].finished
    /\ sessions[x].met
    /\ sessions[x].message # 0
    /\ ticks' = ticks \cup {x}
    /\ UNCHANGED <<streams, sessions, active, threads, mapped, slack, marked, slackFaults>>

TickLands(x) ==
    /\ x \in ticks
    /\ ticks' = ticks \ {x}
    /\ Show(sessions[x].message, "working")
    /\ UNCHANGED <<streams, sessions, active, threads, mapped, marked, slackFaults>>

\* A done of another session is ignored; neither id may be missing for that.
Mismatch(s) == Found[Target].id \notin {NoId, streams[s].id}

DoneIgnored(s) ==
    /\ StreamAt(s, "reading")
    /\ CanCreate
    /\ Mismatch(s)
    /\ StreamGoto(s, "closed")
    /\ UNCHANGED <<sessions, active, threads, mapped, slack, ticks, marked, slackFaults>>

\* finish: a session that has shown nothing, or is finished, is silent; one that
\* marked shows it in its message, or as a reaction.
Finish(s, status) ==
    /\ StreamAt(s, "reading")
    /\ CanCreate
    /\ LET session == Found[Target]
       IN  /\ sessions' = [Found EXCEPT ![Target].finished = TRUE]
           /\ streams' = [streams EXCEPT ![s].session = Target, ![s].status = status,
                ![s].phase = IF ~session.finished /\ session.message # 0
                             THEN "finishing" ELSE "finished"]
    /\ active' = Target
    /\ UNCHANGED <<threads, mapped, slack, ticks, marked, slackFaults>>

\* An error that speaks of an abort counts as completed.
Ends(s) == \E status \in {"completed", "error"} : Finish(s, status)

\* done, with an error or without
Done(s) == ~Mismatch(s) /\ Ends(s)

\* error, which comes from the runner or when the stream breaks: it names no session,
\* and ends the one that is active, whose ever that is.
Broken(s) == Ends(s)

\* The final text is shown and the entry gets its status.
FinalUpdate(s) ==
    /\ StreamAt(s, "finishing")
    /\ LET m == sessions[streams[s].session].message
       IN  /\ Show(m, IF streams[s].status = "error" THEN "failed" ELSE "done")
           /\ updateProgressStatus(m, streams[s].status)
    /\ StreamGoto(s, "finished")
    /\ UNCHANGED <<sessions, active, mapped, ticks, slackFaults>>

\* Whatever session is active now is dropped from the map; then the messages of
\* the thread are deleted, all at once, except those of errors.
cleanupProgressMessages(s) ==
    /\ StreamAt(s, "finished")
    /\ active' = 0
    /\ IF mapped = 0
       THEN StreamGoto(s, "closed")
       ELSE streams' = [streams EXCEPT ![s].phase = "deleting", ![s].thread = mapped,
              ![s].deleting = DOMAIN threads[mapped] \ Errors(threads[mapped])]
    /\ UNCHANGED <<sessions, threads, mapped, slack, ticks, marked, slackFaults>>

Forget(s, m) ==
    /\ threads' = [threads EXCEPT ![streams[s].thread] = Without(@, {m})]
    /\ streams' = [streams EXCEPT ![s].deleting = @ \ {m}]

\* Deleted, or not found because another handler was faster
Deleted(s, m) ==
    /\ StreamAt(s, "deleting")
    /\ m \in streams[s].deleting
    /\ slack' = [slack EXCEPT ![m] = "deleted"]
    /\ Forget(s, m)
    /\ UNCHANGED <<sessions, active, mapped, ticks, marked, slackFaults>>

\* An entry stays when its message could not be deleted.
DeleteFails(s, m) ==
    /\ StreamAt(s, "deleting")
    /\ m \in streams[s].deleting
    /\ SlackFault
    /\ streams' = [streams EXCEPT ![s].deleting = @ \ {m}]
    /\ UNCHANGED <<sessions, active, threads, mapped, slack, ticks, marked>>

\* An empty map is dropped by the thread's name: when another clean-up has dropped it
\* before, and a newer run has made a new one, that one goes ("crossed").
CleanedUp(s) ==
    /\ StreamAt(s, "deleting")
    /\ streams[s].deleting = {}
    /\ LET t == streams[s].thread
           left == evictExcessErrors(threads[t])
       IN  /\ threads' = [threads EXCEPT ![t] = left]
           /\ mapped' = IF left = <<>> THEN 0 ELSE mapped
           /\ StreamGoto(s, IF left = <<>> /\ mapped \notin {0, t} THEN "crossed" ELSE "closed")
    /\ UNCHANGED <<sessions, active, slack, ticks, marked, slackFaults>>

\* Slack refuses a post or an update, which is logged.
SlackFails(s) ==
    /\ SlackFault
    /\ \/ StreamAt(s, "posting") /\ StreamGoto(s, "reading") /\ UNCHANGED <<threads, marked>>
       \/ StreamAt(s, "updating") /\ StreamGoto(s, "reading") /\ UNCHANGED <<threads, marked>>
       \/ /\ StreamAt(s, "finishing")
          /\ updateProgressStatus(sessions[streams[s].session].message, streams[s].status)
          /\ StreamGoto(s, "finished")
    /\ UNCHANGED <<sessions, active, mapped, slack, ticks>>

RelayNext ==
    \/ \E s \in Stream :
          \/ Start(s) \/ Note(s) \/ Flush(s) \/ Posted(s) \/ Updated(s)
          \/ DoneIgnored(s) \/ Done(s) \/ Broken(s) \/ FinalUpdate(s)
          \/ cleanupProgressMessages(s) \/ CleanedUp(s) \/ SlackFails(s)
          \/ \E m \in streams[s].deleting : Deleted(s, m) \/ DeleteFails(s, m)
    \/ \E x \in DOMAIN sessions : Tick(x) \/ TickLands(x)

RelaySpec == RelayInit /\ [][RelayNext]_relayVars

-----------------------------------------------------------------------------
(***************************************************************************)
(* Properties                                                              *)
(***************************************************************************)

AllQuiet == ticks = {} /\ \A s \in Stream : streams[s].phase \in {"waiting", "closed", "crossed"}

Visible == {m \in DOMAIN slack : slack[m] # "deleted"}

Registered(m) == mapped # 0 /\ m \in DOMAIN threads[mapped]

\* When all streams have ended, no message is left in the thread, however the streams
\* overlapped, but those an error was put in (progress-manager.ts:522); and one that
\* Slack did not delete is registered, to be deleted when the next run ends (:270).
\* The error may be of another stream than the one that started the message's session.
\* It is not so after clean-ups that have crossed, which takes three streams.
NothingLeftBehind ==
    AllQuiet /\ (\A s \in Stream : ~StreamAt(s, "crossed")) => \A m \in Visible \ marked : slackFaults > 0 /\ Registered(m)

\* "A late `done` from a superseded stream must not finish the current session."
\* (progress-manager.ts:655): a done ends the session its own stream started, or one
\* that no start has made.  No run states it, because it is not so: the runs of a thread
\* resume one OpenCode session, and the ids that are compared are those of OpenCode.
LateDoneIgnored ==
    [][\A s \in Stream : Done(s) => sessions'[streams'[s].session].by \subseteq {s}]_relayVars

\* "Delete all non-error progress messages for a thread." (progress-manager.ts:245):
\* a message that is left when all is quiet is of a run that failed.  It is not so: the
\* error of an older stream ends the session of the newer run, whose message stays.
OnlyFailuresStay ==
    AllQuiet /\ slackFaults = 0 =>
        \A x \in DOMAIN sessions : sessions[x].message \in Visible =>
            \A r \in sessions[x].by : streams[r].status = "error"

\* "Always post errors so failures are never invisible in Slack."
\* (progress-manager.ts:501): when all is quiet, the message of a run that failed
\* says so.  No run states it, because it is not so: a ticker's update that is on its
\* way when the failure is shown arrives after it.
FailureShown ==
    AllQuiet /\ slackFaults = 0 => \A m \in Visible \cap marked : slack[m] = "failed"

\* The ticker of a session that was replaced stops (progress-manager.ts:624): only
\* the active session is not finished.  No run states it, because it is not so: the end
\* of a stream without a session of its own drops a newer one without finishing it.
OneTicker ==
    \A i \in DOMAIN sessions : i # active => sessions[i].finished

=============================================================================
