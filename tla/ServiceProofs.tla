---------------------------- MODULE ServiceProofs ----------------------------
(***************************************************************************)
(* Theorems about the parts around the core that share no state with it or *)
(* with one another: webhooks, the progress messages of a thread, people's *)
(* credentials and the connections of tools, for every value of the        *)
(* constants.                                                              *)
(***************************************************************************)
EXTENDS Intake, ProgressRelay, UserCredentials, ToolAccess,
        WellFoundedInduction, NaturalsInduction, TLAPS

-----------------------------------------------------------------------------
(***************************************************************************)
(* The inductive invariants: webhooks                                      *)
(***************************************************************************)

Webhook ==
    [event : EventsOf(subject),
     phase : {"new", "gate", "queue", "written", "done"},
     answer : {"none", "refused", "ignored", "error", "ok"}]

IntakeTypes ==
    /\ subject \in Subjects
    /\ webhooks \in Seq(Webhook)
    /\ mishaps \in Nat

\* The one event of a post that can wake a session.
WakingEvent(p) == IF p.text = "mention" THEN "app_mention" ELSE "message"

\* Only this event is admitted, so only it has files.
OnlyWaking ==
    subject.kind = "slack" =>
        /\ \A i \in DOMAIN webhooks :
              webhooks[i].phase \in {"gate", "queue", "written"} => webhooks[i].event = WakingEvent(subject)
        /\ \A f \in files : f.name = WakingEvent(subject)

HasFile(event) == \E f \in files : f.name = event

\* A handler that has written its file, or said so, has one.
WrittenFirst ==
    /\ \A i \in DOMAIN webhooks :
          webhooks[i].phase = "written" \/ webhooks[i].answer = "ok" => HasFile(webhooks[i].event)
    /\ \A e \in archive :
          /\ e.request \in DOMAIN webhooks
          /\ e.ingested => HasFile(webhooks[e.request].event)

\* As long as nothing fails, a file of GitHub's has a handler that will say so or has.
FileAnswered ==
    subject.kind = "github" /\ mishaps = 0 /\ files # {} =>
        \/ \E i \in DOMAIN webhooks : webhooks[i].phase = "written"
        \/ \E e \in archive : e.ingested

IntakeInv == IntakeTypes /\ OnlyWaking /\ WrittenFirst /\ FileAnswered

-----------------------------------------------------------------------------
(***************************************************************************)
(* The inductive invariants: progress messages                             *)
(***************************************************************************)

\* A stream whose end is still to come, or has come and is not cleaned up.
Running(s) ==
    streams[s].phase \in {"reading", "posting", "updating", "finishing", "finished"}

Statuses == {"none", "in_progress", "completed", "error"}

\* What progressMessages maps a thread to.
Maps == UNION {[messages -> Statuses] : messages \in SUBSET Nat}

StreamRecords ==
    [phase : {"waiting", "reading", "posting", "updating", "finishing", "finished", "deleting",
              "closed", "crossed"},
     id : SessionIds \cup {NoId}, session : Nat, tools : Nat, status : Statuses, deleting : SUBSET Nat, thread : Nat]

Sessions == [id : SessionIds \cup {NoId}, by : SUBSET Stream,
             finished : BOOLEAN, met : BOOLEAN, message : Nat]

\* What is registered, and what is to be deleted, has been posted.
RelayTypes ==
    /\ streams \in [Stream -> StreamRecords]
    /\ sessions \in Seq(Sessions)
    /\ active \in 0..Len(sessions)
    /\ threads \in Seq(Maps)
    /\ mapped \in 0..Len(threads)
    /\ slack \in Seq({"working", "done", "failed", "deleted"})
    /\ slackFaults \in Nat
    /\ \A t \in DOMAIN threads : DOMAIN threads[t] \subseteq DOMAIN slack
    /\ \A s \in Stream : streams[s].deleting \subseteq DOMAIN slack

\* A stream with the id of the active session is still running.
OwnerRuns ==
    active # 0 /\ sessions[active].id # NoId =>
        \E s \in Stream : Running(s) /\ streams[s].id = sessions[active].id

\* An entry is an error only when an error was put in its message.
ErrorsFailed ==
    \A t \in DOMAIN threads : \A m \in Errors(threads[t]) : m \in marked

NoneCrossed == \A s \in Stream : ~StreamAt(s, "crossed")

\* A map that is not in use is empty.
OldMapsEmpty == \A t \in DOMAIN threads : t # mapped => DOMAIN threads[t] = {}

\* What a clean-up is going to delete is deleted, or an entry of its map, or an error was
\* put in it in the meantime.
DeletesEntries ==
    \A s \in Stream : StreamAt(s, "deleting") =>
        /\ streams[s].thread \in DOMAIN threads
        /\ \A m \in (streams[s].deleting \cap Visible) \ marked : m \in DOMAIN threads[streams[s].thread]

\* A message that is to go is registered, and somebody will delete it, or could not.
WillGo ==
    \A m \in Visible \ marked :
        /\ Registered(m)
        /\ \/ slackFaults > 0
           \/ \E s \in Stream : Running(s)
           \/ \E s \in Stream : StreamAt(s, "deleting") /\ m \in streams[s].deleting

RelayInv ==
    /\ RelayTypes /\ OwnerRuns /\ ErrorsFailed
    /\ NoneCrossed => OldMapsEmpty /\ DeletesEntries /\ WillGo

-----------------------------------------------------------------------------
(***************************************************************************)
(* The inductive invariants: credentials                                   *)
(***************************************************************************)

Unasked == [stage : {"idle"}, what : {[kind |-> "nothing"]}, reply : {""}, told : {""}]

Kinds == {"help", "modal", "list", "which", "delete", "unknown", "nothing", "required", "put", "get"}

Replies == Secrets \cup {"", "ok", "rejected", "not_found", "some", "none", "no answer", "answer lost"}

Sentences ==
    {"", "form", "could not open", "saved", "vault rejected", "removed", "nothing to disconnect",
     "could not remove", "connected", "nothing connected yet", "enroll", "try again", "called"} \cup Kinds

Asked == [by : Person, what : WhatIsAsked, stage : {"asked", "opening", "served", "told"},
          reply : Replies, told : Sentences]

CredTypes ==
    /\ asks \in [Ask -> Unasked \cup Asked]
    /\ DOMAIN seen = Ask
    /\ \A a \in Ask : asks[a].stage \in {"asked", "served"} => NeedsVault(asks[a].what)

\* What is in the vault's file was put there, and every open ask has seen it.
FileSeen ==
    /\ \A k \in DOMAIN creds : creds[k] \in Secrets
    /\ \A a \in Ask : asks[a].stage # "idle" => creds \in seen[a]

HadIn(past, k, v) == \E file \in past : k \in DOMAIN file /\ file[k] = v
LackedIn(past, k) == \E file \in past : k \notin DOMAIN file
KeyOf(ask) == <<ask.by, ask.what.provider>>
SomeIn(past, by) == \E file \in past : \E p \in EnrollProvider : <<by, p>> \in DOMAIN file
NoneIn(past, by) == \E file \in past : \A p \in EnrollProvider : <<by, p>> \notin DOMAIN file

\* What the vault answered was true of one of the files there have been.
RepliedTruly(ask, past) ==
    ask.stage = "served" =>
        /\ ask.what.kind = "put" /\ ask.reply = "ok" => HadIn(past, KeyOf(ask), ask.what.value)
        /\ ask.what.kind = "delete" /\ ask.reply = "ok" =>
              LackedIn(past, KeyOf(ask)) /\ \E v \in Secrets : HadIn(past, KeyOf(ask), v)
        /\ ask.what.kind \in {"delete", "get"} /\ ask.reply = "not_found" => LackedIn(past, KeyOf(ask))
        /\ ask.what.kind = "get" /\ ask.reply \notin {"not_found", "no answer", "answer lost"} =>
              HadIn(past, KeyOf(ask), ask.reply)
        /\ ask.what.kind = "list" /\ ask.reply = "some" => SomeIn(past, ask.by)
        /\ ask.what.kind = "list" /\ ask.reply = "none" => NoneIn(past, ask.by)

\* So was what the person was told.
ToldTruly(ask, past) ==
    ask.stage = "told" =>
        /\ ask.told = "saved" => HadIn(past, KeyOf(ask), ask.what.value)
        /\ ask.told = "removed" =>
              LackedIn(past, KeyOf(ask)) /\ \E v \in Secrets : HadIn(past, KeyOf(ask), v)
        /\ ask.told \in {"nothing to disconnect", "enroll"} => LackedIn(past, KeyOf(ask))
        /\ ask.told = "called" => HadIn(past, KeyOf(ask), ask.reply)
        /\ ask.told = "connected" => SomeIn(past, ask.by)
        /\ ask.told = "nothing connected yet" /\ ask.reply = "none" => NoneIn(past, ask.by)

CredInv ==
    /\ CredTypes /\ FileSeen
    /\ \A a \in Ask : RepliedTruly(asks[a], seen[a]) /\ ToldTruly(asks[a], seen[a])

-----------------------------------------------------------------------------
(***************************************************************************)
(* The inductive invariants: connections                                   *)
(***************************************************************************)

Conns == [up : Upstream, state : {"opening", "open", "refused", "dropped", "closed"},
          tools : Offers \cup {{}}]

Chains == [up : Upstream, instance : Nat \ {0}, attempt : Nat, of : Nat, conn : Nat]

ToolTypes ==
    /\ instances \in [Upstream -> Nat]
    /\ upstreamOf \in Seq(Nat)
    /\ conns \in Seq(Conns)
    /\ chains \subseteq Chains
    /\ connecting \in [Upstream -> Nat]

\* An instance has a connection of its upstream that has been made.
InstancesConnected ==
    \A u \in Upstream : instances[u] # 0 =>
        /\ instances[u] \in DOMAIN upstreamOf
        /\ upstreamOf[instances[u]] \in DOMAIN conns
        /\ conns[upstreamOf[instances[u]]].up = u
        /\ conns[upstreamOf[instances[u]]].state # "opening"

Opening(cs, i, u) == i \in DOMAIN cs /\ cs[i].up = u /\ cs[i].state = "opening"

\* What is being connected is not in use yet, and waited for by one.
OneOpener ==
    /\ \A u \in Upstream : connecting[u] # 0 => Opening(conns, connecting[u], u)
    /\ \A k \in chains :
          /\ k.instance \in DOMAIN upstreamOf
          /\ k.conn # 0 =>
                /\ Opening(conns, k.conn, k.up)
                /\ \A u \in Upstream : connecting[u] # k.conn
                /\ \A x \in chains : x.conn = k.conn => x = k

\* Instances are numbered once: a reconnection of another upstream's instance is not mine.
ChainsOwn ==
    \A k \in chains : \A u \in Upstream : instances[u] = k.instance => k.up = u

ToolInv == ToolTypes /\ InstancesConnected /\ OneOpener /\ ChainsOwn /\ DeadIsRepaired

-----------------------------------------------------------------------------
(***************************************************************************)
(* Webhooks                                                                *)
(***************************************************************************)

\* A chain of early returns answers with its first condition that holds.
LEMMA FirstHolds ==
  ASSUME NEW chain, NEW n \in Nat, DOMAIN chain = 1..n, NEW k \in 1..n, chain[k][1]
  PROVE  \E c \in 1..n : /\ chain[c][1]
                         /\ \A j \in 1..n : j < c => ~chain[j][1]
                         /\ FirstOf(chain) = chain[c][2]
<1> DEFINE holds == {i \in DOMAIN chain : chain[i][1]}
<1>1. holds \subseteq Nat /\ holds # {}
  OBVIOUS
<1>2. PICK c \in holds : \A e \in holds : ~ (<<e, c>> \in OpToRel(<, Nat))
  <2> HIDE DEF holds
  <2> QED BY <1>1, WFMin, NatLessThanWellFounded, Zenon
<1>3. \A e \in holds : ~ (e < c)
  BY <1>1, <1>2, Zenon DEF OpToRel
<1>4. c \in 1..n /\ chain[c][1] /\ \A j \in 1..n : j < c => ~chain[j][1]
  BY <1>3
<1> DEFINE i == CHOOSE x \in holds : \A j \in holds : x <= j
<1>5. i = c
  <2>1. c \in Nat /\ \A j \in holds : j \in Nat /\ c <= j
    BY <1>1, <1>3
  <2> HIDE DEF holds
  <2>2. i \in holds /\ \A j \in holds : i <= j
    BY <2>1, Zenon
  <2> HIDE DEF i
  <2> QED BY <2>1, <2>2
<1>6. FirstOf(chain) = chain[i][2]
  BY Zenon DEF FirstOf
<1> QED BY <1>4, <1>5, <1>6

\* Of a post, only the waking event is queued.
LEMMA QueuedIsWaking ==
  ASSUME NEW p \in SlackPosts, NEW event \in SlackEvents(p), SlackVerdict(p, event) \in {"queue", "gate"}
  PROVE  event = WakingEvent(p)
<1> DEFINE chain == <<
        <<p.form = "unsigned", "refused">>,
        <<p.form # "event", "ignored">>,
        <<~p.bot, "ignored">>,
        <<event # "reaction" /\ p.text = "none"
            /\ ~(event = "message" /\ p.subtype = "file_share" /\ p.files), "ignored">>,
        <<p.self, "ignored">>,
        <<event # "reaction" /\ ~p.allowed, "ignored">>,
        <<event = "app_mention", "queue">>,
        <<event = "reaction" \/ ~isForwardableSlackMessage(p), "ignored">>,
        <<MentionDuplicate(p), "ignored">>,
        <<~following, "ignored">>,
        <<TRUE, "queue">> >>
<1>1. DOMAIN chain = 1..11 /\ 11 \in Nat /\ 11 \in 1..11 /\ chain[11][1]
  OBVIOUS
<1>2. PICK c \in 1..11 : /\ chain[c][1]
                         /\ \A j \in 1..11 : j < c => ~chain[j][1]
                         /\ FirstOf(chain) = chain[c][2]
  <2> HIDE DEF chain
  <2> QED BY <1>1, FirstHolds, Zenon
<1>3. FirstOf(chain) \in {"queue", "gate"}
  BY Zenon DEF SlackVerdict
<1>4. c = 7 \/ c = 11
  <2>1. c \in {1, 2, 3, 4, 5, 6, 8, 9, 10} => chain[c][2] \in {"refused", "ignored"}
    OBVIOUS
  <2> HIDE DEF chain
  <2> QED BY <1>2, <1>3, <2>1
<1>5. chain[7][1] = (event = "app_mention") /\ chain[8][1] = (event = "reaction" \/ ~isForwardableSlackMessage(p))
      /\ chain[9][1] = MentionDuplicate(p)
  OBVIOUS
<1> HIDE DEF chain
<1>6. CASE c = 7
  <2>1. event = "app_mention"
    BY <1>2, <1>5, <1>6
  <2> QED BY <2>1 DEF SlackEvents, WakingEvent
<1>7. CASE c = 11
  <2>1. ~chain[7][1] /\ ~chain[8][1] /\ ~chain[9][1]
    BY <1>2, <1>7
  <2>2. event # "app_mention" /\ event # "reaction" /\ p.text # "mention"
    BY <1>5, <2>1 DEF MentionDuplicate
  <2> QED BY <2>2 DEF SlackEvents, WakingEvent
<1> QED BY <1>4, <1>6, <1>7

\* What is admitted of a post is its waking event.
LEMMA AdmittedIsWaking ==
  ASSUME subject \in Subjects, subject.kind = "slack", NEW event \in EventsOf(subject),
         Verdict(subject, event) \in {"queue", "gate"}
  PROVE  event = WakingEvent(subject)
<1>1. subject \in SlackPosts
  BY DEF Subjects, SlackPosts, GitHubEvents, CronJobs
<1>2. event \in SlackEvents(subject)
  BY DEF EventsOf
<1>3. SlackVerdict(subject, event) \in {"queue", "gate"}
  BY DEF Verdict
<1> QED BY <1>1, <1>2, <1>3, QueuedIsWaking

\* A request that moves on stays a request.
LEMMA WebhookMoves ==
  ASSUME IntakeTypes, NEW i \in DOMAIN webhooks, UNCHANGED subject, mishaps' \in Nat,
         NEW phase \in {"gate", "queue", "written", "done"},
         NEW answer \in {"none", "refused", "ignored", "error", "ok"},
         webhooks' = [webhooks EXCEPT ![i] = [webhooks[i] EXCEPT !.phase = phase, !.answer = answer]]
  PROVE  /\ IntakeTypes'
         /\ DOMAIN webhooks' = DOMAIN webhooks
         /\ webhooks'[i].phase = phase /\ webhooks'[i].answer = answer
         /\ \A j \in DOMAIN webhooks : webhooks'[j].event = webhooks[j].event
         /\ \A j \in DOMAIN webhooks \ {i} : webhooks'[j] = webhooks[j]
<1> DEFINE w == [webhooks[i] EXCEPT !.phase = phase, !.answer = answer]
<1>1. webhooks \in Seq(Webhook) /\ webhooks[i] \in Webhook
  BY DEF IntakeTypes
<1>2. w \in Webhook /\ w.phase = phase /\ w.answer = answer /\ w.event = webhooks[i].event
  BY <1>1 DEF Webhook
<1> HIDE DEF w
<1>3. webhooks' = [webhooks EXCEPT ![i] = w]
  BY DEF w
<1>4. Webhook' = Webhook
  BY DEF Webhook, EventsOf
<1>5. webhooks' \in Seq(Webhook)
  BY <1>1, <1>2, <1>3
<1>6. IntakeTypes'
  BY <1>4, <1>5 DEF IntakeTypes
<1> QED BY <1>1, <1>2, <1>3, <1>6

\* Answering, with anything but ok, adds nothing to what was ingested.
LEMMA AnswerKeeps ==
  ASSUME IntakeInv, NEW i \in DOMAIN webhooks, NEW answer \in {"refused", "ignored", "error"},
         Answer(i, answer), UNCHANGED <<subject, files>>, mishaps' \in Nat, mishaps' >= mishaps,
         webhooks[i].phase # "written"
  PROVE  IntakeInv'
<1>1. webhooks' = [webhooks EXCEPT ![i] = [webhooks[i] EXCEPT !.phase = "done", !.answer = answer]]
  BY DEF Answer
<1>2. /\ IntakeTypes'
      /\ DOMAIN webhooks' = DOMAIN webhooks
      /\ webhooks'[i].phase = "done" /\ webhooks'[i].answer = answer
      /\ \A j \in DOMAIN webhooks : webhooks'[j].event = webhooks[j].event
      /\ \A j \in DOMAIN webhooks \ {i} : webhooks'[j] = webhooks[j]
  BY <1>1, WebhookMoves DEF IntakeInv
<1>3. \A e \in archive' \ archive : e.request = i /\ ~e.ingested
  <2>1. answer # "ok"
    OBVIOUS
  <2>2. (subject.kind = "github" /\ answer = "ok") = FALSE
    BY <2>1
  <2>3. Entry(i, answer) \subseteq {[request |-> i, ingested |-> FALSE]}
    BY <2>2, Zenon DEF Entry
  <2>4. archive' \ archive \subseteq {[request |-> i, ingested |-> FALSE]}
    BY <2>3 DEF Answer
  <2> QED BY <2>4
<1>4. archive \subseteq archive'
  BY DEF Answer
<1>5. OnlyWaking'
  BY <1>2 DEF IntakeInv, OnlyWaking, WakingEvent
<1>6. WrittenFirst'
  BY <1>2, <1>3, <1>4 DEF IntakeInv, WrittenFirst, HasFile
<1>7. FileAnswered'
  <2> SUFFICES ASSUME subject.kind = "github", mishaps' = 0, files # {}
               PROVE  \/ \E j \in DOMAIN webhooks' : webhooks'[j].phase = "written"
                      \/ \E e \in archive' : e.ingested
    BY DEF FileAnswered
  <2>1. mishaps = 0
    BY DEF IntakeInv, IntakeTypes
  <2>2. \/ \E j \in DOMAIN webhooks : webhooks[j].phase = "written"
        \/ \E e \in archive : e.ingested
    BY <2>1 DEF IntakeInv, FileAnswered
  <2> QED BY <1>2, <1>4, <2>2
<1> QED BY <1>2, <1>5, <1>6, <1>7 DEF IntakeInv

LEMMA ArriveKeeps ==
  ASSUME IntakeInv, NEW event \in EventsOf(subject), Arrive(event)
  PROVE  IntakeInv'
<1> DEFINE w == [event |-> event, phase |-> "new", answer |-> "none"]
<1>1. webhooks \in Seq(Webhook) /\ webhooks' = Append(webhooks, w)
      /\ UNCHANGED <<subject, following, files, archive, mishaps>>
  BY DEF Arrive, IntakeInv, IntakeTypes
<1>2. w \in Webhook /\ w.phase = "new" /\ w.answer = "none"
  BY DEF Webhook
<1> HIDE DEF w
<1>3. /\ webhooks' \in Seq(Webhook)
      /\ DOMAIN webhooks' = DOMAIN webhooks \cup {Len(webhooks) + 1}
      /\ webhooks'[Len(webhooks) + 1] = w
      /\ \A j \in DOMAIN webhooks : webhooks'[j] = webhooks[j]
  BY <1>1, <1>2
<1>4. IntakeTypes'
  <2>1. Webhook' = Webhook
    BY <1>1 DEF Webhook, EventsOf
  <2> QED BY <1>1, <1>3, <2>1 DEF IntakeInv, IntakeTypes
<1>5. OnlyWaking'
  BY <1>1, <1>2, <1>3 DEF IntakeInv, OnlyWaking, WakingEvent
<1>6. WrittenFirst'
  BY <1>1, <1>2, <1>3 DEF IntakeInv, WrittenFirst, HasFile
<1>7. FileAnswered'
  BY <1>1, <1>3 DEF IntakeInv, FileAnswered
<1> QED BY <1>4, <1>5, <1>6, <1>7 DEF IntakeInv

LEMMA AdmitKeeps ==
  ASSUME IntakeInv, NEW i \in DOMAIN webhooks, Admit(i)
  PROVE  IntakeInv'
<1> DEFINE verdict == Verdict(subject, webhooks[i].event)
<1>1. /\ verdict \in {"queue", "gate"}
      /\ webhooks' = [webhooks EXCEPT ![i].phase = verdict]
      /\ webhooks[i].phase = "new"
      /\ UNCHANGED <<subject, following, files, archive, mishaps>>
  BY DEF Admit, WebhookAt
<1>2. webhooks[i] \in Webhook
  BY DEF IntakeInv, IntakeTypes
<1>3. webhooks[i].event \in EventsOf(subject) /\ webhooks[i].answer \in {"none", "refused", "ignored", "error", "ok"}
  BY <1>2 DEF Webhook
<1>4. subject.kind = "slack" => webhooks[i].event = WakingEvent(subject)
  BY <1>1, <1>3, AdmittedIsWaking DEF IntakeInv, IntakeTypes
<1> HIDE DEF verdict
<1>5. webhooks' = [webhooks EXCEPT ![i] = [webhooks[i] EXCEPT !.phase = verdict, !.answer = webhooks[i].answer]]
  BY <1>1, <1>2 DEF Webhook
<1>6. mishaps' \in Nat /\ IntakeTypes
  BY <1>1 DEF IntakeInv, IntakeTypes
<1>7. /\ IntakeTypes'
      /\ DOMAIN webhooks' = DOMAIN webhooks
      /\ webhooks'[i].phase = verdict /\ webhooks'[i].answer = webhooks[i].answer
      /\ \A j \in DOMAIN webhooks : webhooks'[j].event = webhooks[j].event
      /\ \A j \in DOMAIN webhooks \ {i} : webhooks'[j] = webhooks[j]
  BY <1>1, <1>3, <1>5, <1>6, WebhookMoves
<1>8. OnlyWaking'
  BY <1>1, <1>4, <1>7 DEF IntakeInv, OnlyWaking, WakingEvent
<1>9. WrittenFirst'
  BY <1>1, <1>7 DEF IntakeInv, WrittenFirst, HasFile
<1>10. FileAnswered'
  BY <1>1, <1>7 DEF IntakeInv, FileAnswered
<1> QED BY <1>7, <1>8, <1>9, <1>10 DEF IntakeInv

\* A verdict that admits nothing refuses or ignores.
LEMMA VerdictType ==
  ASSUME subject \in Subjects, NEW event \in EventsOf(subject)
  PROVE  Verdict(subject, event) \in {"refused", "ignored", "gate", "queue"}
<1>1. ASSUME subject.kind = "slack" PROVE SlackVerdict(subject, event) \in {"refused", "ignored", "gate", "queue"}
  <2> DEFINE p == subject
             chain == <<
        <<p.form = "unsigned", "refused">>,
        <<p.form # "event", "ignored">>,
        <<~p.bot, "ignored">>,
        <<event # "reaction" /\ p.text = "none"
            /\ ~(event = "message" /\ p.subtype = "file_share" /\ p.files), "ignored">>,
        <<p.self, "ignored">>,
        <<event # "reaction" /\ ~p.allowed, "ignored">>,
        <<event = "app_mention", "queue">>,
        <<event = "reaction" \/ ~isForwardableSlackMessage(p), "ignored">>,
        <<MentionDuplicate(p), "ignored">>,
        <<~following, "ignored">>,
        <<TRUE, "queue">> >>
  <2>1. DOMAIN chain = 1..11 /\ 11 \in Nat /\ 11 \in 1..11 /\ chain[11][1]
        /\ \A c \in 1..11 : chain[c][2] \in {"refused", "ignored", "queue"}
    OBVIOUS
  <2>2. FirstOf(chain) \in {"refused", "ignored", "queue"}
    <3> HIDE DEF chain
    <3> QED BY <2>1, FirstHolds, Zenon
  <2>3. SlackVerdict(p, event) = FirstOf(chain)
    BY Zenon DEF SlackVerdict
  <2> QED BY <2>2, <2>3
<1>2. ASSUME subject.kind = "github" PROVE GitHubVerdict(subject) \in {"refused", "ignored", "gate", "queue"}
  <2> DEFINE g == subject
             chain == <<
        <<g.form = "unsigned", "refused">>,
        <<g.form # "event", "ignored">>,
        <<shouldIgnoreGitHubEvent(g), "ignored">>,
        <<g.type = "check_suite" /\ ~g.branch, "ignored">>,
        <<g.type \in {"closed", "check_suite"} /\ ~following, "ignored">>,
        <<g.type = "check_suite", "gate">>,
        <<TRUE, "queue">> >>
  <2>1. DOMAIN chain = 1..7 /\ 7 \in Nat /\ 7 \in 1..7 /\ chain[7][1]
        /\ \A c \in 1..7 : chain[c][2] \in {"refused", "ignored", "gate", "queue"}
    OBVIOUS
  <2>2. FirstOf(chain) \in {"refused", "ignored", "gate", "queue"}
    <3> HIDE DEF chain
    <3> QED BY <2>1, FirstHolds, Zenon
  <2>3. GitHubVerdict(g) = FirstOf(chain)
    BY Zenon DEF GitHubVerdict
  <2> QED BY <2>2, <2>3
<1>3. ASSUME subject.kind = "cron" PROVE CronVerdict(subject) \in {"refused", "ignored", "gate", "queue"}
  <2> DEFINE chain == << <<subject.form # "event", "refused">>, <<TRUE, "queue">> >>
  <2>1. DOMAIN chain = 1..2 /\ 2 \in Nat /\ 2 \in 1..2 /\ chain[2][1]
        /\ \A c \in 1..2 : chain[c][2] \in {"refused", "queue"}
    OBVIOUS
  <2>2. FirstOf(chain) \in {"refused", "queue"}
    <3> HIDE DEF chain
    <3> QED BY <2>1, FirstHolds, Zenon
  <2>3. CronVerdict(subject) = FirstOf(chain)
    BY Zenon DEF CronVerdict
  <2> QED BY <2>2, <2>3
<1>4. subject.kind \in {"slack", "github", "cron"}
  BY DEF Subjects, SlackPosts, GitHubEvents, CronJobs
<1> QED BY <1>1, <1>2, <1>3, <1>4 DEF Verdict

LEMMA GateKeeps ==
  ASSUME IntakeInv, NEW i \in DOMAIN webhooks, Gate(i)
  PROVE  IntakeInv'
<1>1. webhooks[i].phase = "gate" /\ UNCHANGED <<subject, following, files, mishaps>>
      /\ mishaps' \in Nat /\ mishaps' >= mishaps /\ webhooks[i] \in Webhook
  BY DEF Gate, WebhookAt, IntakeInv, IntakeTypes
<1>2. ASSUME Answer(i, "ignored") PROVE IntakeInv'
  BY <1>1, <1>2, AnswerKeeps
<1>3. ASSUME webhooks' = [webhooks EXCEPT ![i].phase = "queue"], UNCHANGED archive PROVE IntakeInv'
  <2>1. webhooks' = [webhooks EXCEPT ![i] = [webhooks[i] EXCEPT !.phase = "queue", !.answer = webhooks[i].answer]]
    BY <1>1, <1>3 DEF Webhook
  <2>2. webhooks[i].answer \in {"none", "refused", "ignored", "error", "ok"} /\ IntakeTypes
    BY <1>1 DEF Webhook, IntakeInv
  <2>3. /\ IntakeTypes'
        /\ DOMAIN webhooks' = DOMAIN webhooks
        /\ webhooks'[i].phase = "queue" /\ webhooks'[i].answer = webhooks[i].answer
        /\ \A j \in DOMAIN webhooks : webhooks'[j].event = webhooks[j].event
        /\ \A j \in DOMAIN webhooks \ {i} : webhooks'[j] = webhooks[j]
    BY <1>1, <2>1, <2>2, WebhookMoves
  <2>4. OnlyWaking'
    BY <1>1, <2>3 DEF IntakeInv, OnlyWaking, WakingEvent
  <2>5. WrittenFirst'
    BY <1>1, <1>3, <2>3 DEF IntakeInv, WrittenFirst, HasFile
  <2>6. FileAnswered'
    BY <1>1, <1>3, <2>3 DEF IntakeInv, FileAnswered
  <2> QED BY <2>3, <2>4, <2>5, <2>6 DEF IntakeInv
<1> QED BY <1>2, <1>3 DEF Gate

\* The file of an event is named after it.
LEMMA EnqueuedName ==
  ASSUME subject \in Subjects, NEW event
  PROVE  Enqueued(subject, event).name = event
<1>1. subject.kind \in {"slack", "github", "cron"}
  BY DEF Subjects, SlackPosts, GitHubEvents, CronJobs
<1> QED BY <1>1 DEF Enqueued

LEMMA EnqueueKeeps ==
  ASSUME IntakeInv, NEW i \in DOMAIN webhooks, Enqueue(i)
  PROVE  IntakeInv'
<1> DEFINE file == Enqueued(subject, webhooks[i].event)
<1>1. /\ webhooks[i].phase = "queue" /\ UNCHANGED <<subject, following, archive, mishaps>>
      /\ webhooks' = [webhooks EXCEPT ![i].phase = "written"]
      /\ files' = files \cup {file}
      /\ mishaps' \in Nat /\ webhooks[i] \in Webhook
  BY DEF Enqueue, WebhookAt, IntakeInv, IntakeTypes
<1>2. file.name = webhooks[i].event
  BY EnqueuedName DEF IntakeInv, IntakeTypes
<1> HIDE DEF file
<1>3. webhooks' = [webhooks EXCEPT ![i] = [webhooks[i] EXCEPT !.phase = "written", !.answer = webhooks[i].answer]]
  BY <1>1 DEF Webhook
<1>4. webhooks[i].answer \in {"none", "refused", "ignored", "error", "ok"} /\ IntakeTypes
  BY <1>1 DEF Webhook, IntakeInv
<1>5. /\ IntakeTypes'
      /\ DOMAIN webhooks' = DOMAIN webhooks
      /\ webhooks'[i].phase = "written" /\ webhooks'[i].answer = webhooks[i].answer
      /\ \A j \in DOMAIN webhooks : webhooks'[j].event = webhooks[j].event
      /\ \A j \in DOMAIN webhooks \ {i} : webhooks'[j] = webhooks[j]
  BY <1>1, <1>3, <1>4, WebhookMoves
<1>6. \A event : HasFile(event) => HasFile(event)'
  BY <1>1 DEF HasFile
<1>7. HasFile(webhooks[i].event)'
  BY <1>1, <1>2, <1>5 DEF HasFile
<1>8. OnlyWaking'
  BY <1>1, <1>2, <1>5 DEF IntakeInv, OnlyWaking, WakingEvent
<1>9. WrittenFirst'
  BY <1>1, <1>2, <1>5 DEF IntakeInv, WrittenFirst, HasFile
<1>10. FileAnswered'
  BY <1>5 DEF FileAnswered
<1> QED BY <1>5, <1>8, <1>9, <1>10 DEF IntakeInv

LEMMA AcceptKeeps ==
  ASSUME IntakeInv, NEW i \in DOMAIN webhooks, Accept(i)
  PROVE  IntakeInv'
<1>1. /\ webhooks[i].phase = "written" /\ UNCHANGED <<subject, following, files, mishaps>>
      /\ webhooks' = [webhooks EXCEPT ![i] = [webhooks[i] EXCEPT !.phase = "done", !.answer = "ok"]]
      /\ archive' = archive \cup Entry(i, "ok")
      /\ mishaps' \in Nat /\ IntakeTypes
  BY DEF Accept, Answer, WebhookAt, IntakeInv, IntakeTypes
<1>2. /\ IntakeTypes'
      /\ DOMAIN webhooks' = DOMAIN webhooks
      /\ webhooks'[i].phase = "done"
      /\ \A j \in DOMAIN webhooks : webhooks'[j].event = webhooks[j].event
      /\ \A j \in DOMAIN webhooks \ {i} : webhooks'[j] = webhooks[j]
  BY <1>1, WebhookMoves
<1>3. \A e \in Entry(i, "ok") : e.request = i
  BY DEF Entry
<1>4. HasFile(webhooks[i].event)
  BY <1>1 DEF IntakeInv, WrittenFirst
<1>5. OnlyWaking'
  BY <1>1, <1>2 DEF IntakeInv, OnlyWaking, WakingEvent
<1>6. WrittenFirst'
  BY <1>1, <1>2, <1>3, <1>4 DEF IntakeInv, WrittenFirst, HasFile
<1>7. FileAnswered'
  <2> SUFFICES ASSUME subject.kind = "github" PROVE \E e \in archive' : e.ingested
    BY <1>1 DEF FileAnswered
  <2>1. [request |-> i, ingested |-> TRUE] \in Entry(i, "ok")
    BY DEF Entry
  <2> QED BY <1>1, <2>1
<1> QED BY <1>2, <1>5, <1>6, <1>7 DEF IntakeInv

LEMMA CrashGatewayKeeps ==
  ASSUME IntakeInv, CrashGateway
  PROVE  IntakeInv'
<1>1. /\ webhooks \in Seq(Webhook) /\ mishaps \in Nat /\ mishaps' = mishaps + 1
      /\ webhooks' = [i \in DOMAIN webhooks |-> [webhooks[i] EXCEPT !.phase = "done"]]
      /\ UNCHANGED <<subject, following, files, archive>>
  BY DEF CrashGateway, IntakeInv, IntakeTypes
<1>2. ASSUME NEW i \in DOMAIN webhooks
      PROVE  /\ webhooks'[i] \in Webhook /\ webhooks'[i].phase = "done"
             /\ webhooks'[i].event = webhooks[i].event /\ webhooks'[i].answer = webhooks[i].answer
  <2>1. webhooks[i] \in Webhook /\ webhooks'[i] = [webhooks[i] EXCEPT !.phase = "done"]
    BY <1>1
  <2> QED BY <2>1 DEF Webhook
<1>3. DOMAIN webhooks' = DOMAIN webhooks /\ webhooks' \in Seq(Webhook)
  <2>1. webhooks' \in [1..Len(webhooks) -> Webhook] /\ Len(webhooks) \in Nat
    BY <1>1, <1>2
  <2> QED BY <1>1, <2>1
<1>4. IntakeTypes'
  <2>1. Webhook' = Webhook
    BY <1>1 DEF Webhook, EventsOf
  <2> QED BY <1>1, <1>3, <2>1 DEF IntakeInv, IntakeTypes
<1>5. OnlyWaking'
  BY <1>1, <1>2, <1>3 DEF IntakeInv, OnlyWaking, WakingEvent
<1>6. WrittenFirst'
  BY <1>1, <1>2, <1>3 DEF IntakeInv, WrittenFirst, HasFile
<1>7. FileAnswered'
  BY <1>1 DEF FileAnswered
<1> QED BY <1>4, <1>5, <1>6, <1>7 DEF IntakeInv

LEMMA IntakeStep ==
  IntakeInv /\ [IntakeNext]_intakeVars => IntakeInv'
<1> SUFFICES ASSUME IntakeInv, [IntakeNext]_intakeVars PROVE IntakeInv'
  OBVIOUS
<1>0. mishaps \in Nat /\ \A i \in DOMAIN webhooks : webhooks[i] \in Webhook
  BY DEF IntakeInv, IntakeTypes
<1>1. ASSUME NEW event \in EventsOf(subject), Arrive(event) PROVE IntakeInv'
  BY <1>1, ArriveKeeps
<1>2. CASE Engage
  <2>1. UNCHANGED <<subject, webhooks, files, archive, mishaps>>
    BY <1>2 DEF Engage
  <2> QED BY <2>1 DEF IntakeInv, IntakeTypes, OnlyWaking, WrittenFirst, FileAnswered, HasFile, Webhook,
                      EventsOf, WakingEvent
<1>3. ASSUME NEW i \in DOMAIN webhooks, Decline(i) PROVE IntakeInv'
  <2> DEFINE verdict == Verdict(subject, webhooks[i].event)
  <2>1. /\ webhooks[i].phase = "new" /\ verdict \notin {"queue", "gate"}
        /\ Answer(i, verdict) /\ UNCHANGED <<subject, following, files, mishaps>>
    BY <1>3 DEF Decline, WebhookAt
  <2>2. verdict \in {"refused", "ignored"}
    BY <1>0, <1>3, <2>1, VerdictType DEF IntakeInv, IntakeTypes, Webhook
  <2> HIDE DEF verdict
  <2> QED BY <1>0, <2>1, <2>2, AnswerKeeps
<1>4. ASSUME NEW i \in DOMAIN webhooks, Admit(i) PROVE IntakeInv'
  BY <1>4, AdmitKeeps
<1>5. ASSUME NEW i \in DOMAIN webhooks, Gate(i) PROVE IntakeInv'
  BY <1>5, GateKeeps
<1>6. ASSUME NEW i \in DOMAIN webhooks, Enqueue(i) PROVE IntakeInv'
  BY <1>6, EnqueueKeeps
<1>7. ASSUME NEW i \in DOMAIN webhooks, EnqueueFails(i) PROVE IntakeInv'
  <2>1. /\ webhooks[i].phase = "queue" /\ mishaps' = mishaps + 1
        /\ Answer(i, "error") /\ UNCHANGED <<subject, following, files>>
    BY <1>7 DEF EnqueueFails, WebhookAt
  <2> QED BY <1>0, <2>1, AnswerKeeps
<1>8. ASSUME NEW i \in DOMAIN webhooks, Accept(i) PROVE IntakeInv'
  BY <1>8, AcceptKeeps
<1>9. CASE CrashGateway
  BY <1>9, CrashGatewayKeeps
<1>10. CASE UNCHANGED intakeVars
  BY <1>10 DEF intakeVars, IntakeInv, IntakeTypes, OnlyWaking, WrittenFirst, FileAnswered, HasFile, Webhook,
               EventsOf, WakingEvent
<1> QED BY <1>1, <1>2, <1>3, <1>4, <1>5, <1>6, <1>7, <1>8, <1>9, <1>10 DEF IntakeNext

LEMMA IntakeInvariant == IntakeSpec => []IntakeInv
<1>1. IntakeInit => IntakeInv
  BY DEF IntakeInit, IntakeInv, IntakeTypes, OnlyWaking, WrittenFirst, FileAnswered, HasFile
<1> QED BY <1>1, IntakeStep, PTL DEF IntakeSpec

\* Slack sends a mention as two events, and every event any number of times; the post
\* still has only one file (app.ts:1300: the message of a mention is left to the
\* app_mention).
THEOREM PostsWakeOnce == IntakeSpec => []OneFilePerPost
<1>1. IntakeInv => OneFilePerPost
  BY DEF IntakeInv, OnlyWaking, OneFilePerPost
<1> QED BY <1>1, IntakeInvariant, PTL

\* The answer, the webhook history and the queue agree: ok and ingested are said after
\* the file is written, and a file that nothing cut off is said (app.ts:1934).
THEOREM WebhookAnswersAgree == IntakeSpec => []AnswersAgree
<1>1. IntakeInv => AnswersAgree
  <2> SUFFICES ASSUME IntakeInv PROVE AnswersAgree
    OBVIOUS
  <2>1. \A i \in DOMAIN webhooks : webhooks[i].answer = "ok" => \E f \in files : f.name = webhooks[i].event
    BY DEF IntakeInv, WrittenFirst, HasFile
  <2>2. \A e \in archive : e.ingested => \E f \in files : f.name = webhooks[e.request].event
    BY DEF IntakeInv, WrittenFirst, HasFile
  <2>3. ASSUME subject.kind = "github", mishaps = 0, \A i \in DOMAIN webhooks : WebhookAt(i, "done")
        PROVE  files # {} <=> \E e \in archive : e.ingested
    BY <2>2, <2>3 DEF IntakeInv, FileAnswered, WebhookAt
  <2> QED BY <2>1, <2>2, <2>3 DEF AnswersAgree
<1> QED BY <1>1, IntakeInvariant, PTL

-----------------------------------------------------------------------------
(***************************************************************************)
(* Connections                                                             *)
(***************************************************************************)

LEMMA ToolInitInv ==
  ToolInit => ToolInv
<1> SUFFICES ASSUME ToolInit PROVE ToolInv
  OBVIOUS
<1>1. /\ instances = [u \in Upstream |-> 0] /\ connecting = [u \in Upstream |-> 0]
      /\ upstreamOf = <<>> /\ conns = <<>> /\ chains = {}
  BY DEF ToolInit
<1>2. ToolTypes
  BY <1>1 DEF ToolTypes
<1>3. InstancesConnected /\ DeadIsRepaired
  BY <1>1 DEF InstancesConnected, DeadIsRepaired
<1>4. OneOpener /\ ChainsOwn
  BY <1>1 DEF OneOpener, ChainsOwn
<1> QED BY <1>2, <1>3, <1>4 DEF ToolInv

\* A new connection is at the end of the list, and the others are where they were.
LEMMA ConnectAppends ==
  ASSUME ToolTypes, NEW up \in Upstream, connectUpstream(up)
  PROVE  /\ conns' \in Seq(Conns)
         /\ Len(conns') = Len(conns) + 1 /\ Len(conns') \in Nat \ {0}
         /\ Len(conns') \notin DOMAIN conns
         /\ DOMAIN conns' = DOMAIN conns \cup {Len(conns')}
         /\ \A i \in DOMAIN conns : conns'[i] = conns[i]
         /\ Opening(conns', Len(conns'), up)
<1> DEFINE c == [up |-> up, state |-> "opening", tools |-> {}]
<1>1. conns \in Seq(Conns) /\ conns' = Append(conns, c)
  BY DEF ToolTypes, connectUpstream
<1>2. c \in Conns /\ c.up = up /\ c.state = "opening"
  BY DEF Conns
<1> HIDE DEF c
<1>3. /\ conns' \in Seq(Conns)
      /\ Len(conns') = Len(conns) + 1 /\ Len(conns') \in Nat \ {0}
      /\ Len(conns') \notin DOMAIN conns
      /\ DOMAIN conns' = DOMAIN conns \cup {Len(conns')}
      /\ conns'[Len(conns')] = c
      /\ \A i \in DOMAIN conns : conns'[i] = conns[i]
  BY <1>1, <1>2
<1>4. Opening(conns', Len(conns'), up)
  <2>1. Len(conns') \in DOMAIN conns' /\ conns'[Len(conns')].up = up /\ conns'[Len(conns')].state = "opening"
    BY <1>2, <1>3
  <2> QED BY <2>1 DEF Opening
<1> QED BY <1>3, <1>4

\* A connection that comes to be in another state is the only one that changes.
LEMMA ConnWritten ==
  ASSUME ToolTypes, NEW i \in DOMAIN conns,
         NEW state \in {"opening", "open", "refused", "dropped", "closed"},
         NEW tools \in Offers \cup {{}},
         conns' = [conns EXCEPT ![i] = [up |-> conns[i].up, state |-> state, tools |-> tools]]
  PROVE  /\ conns' \in Seq(Conns)
         /\ DOMAIN conns' = DOMAIN conns
         /\ conns'[i].up = conns[i].up /\ conns'[i].state = state
         /\ \A j \in DOMAIN conns \ {i} : conns'[j] = conns[j]
<1> DEFINE c == [up |-> conns[i].up, state |-> state, tools |-> tools]
<1>1. conns \in Seq(Conns) /\ conns[i] \in Conns
  BY DEF ToolTypes
<1>2. c \in Conns /\ c.up = conns[i].up /\ c.state = state
  BY <1>1 DEF Conns
<1> HIDE DEF c
<1>3. conns' = [conns EXCEPT ![i] = c]
  BY DEF c
<1> QED BY <1>1, <1>2, <1>3

LEMMA StateWritten ==
  ASSUME ToolTypes, NEW i \in DOMAIN conns,
         NEW state \in {"opening", "open", "refused", "dropped", "closed"},
         conns' = [conns EXCEPT ![i].state = state]
  PROVE  /\ conns' \in Seq(Conns)
         /\ DOMAIN conns' = DOMAIN conns
         /\ conns'[i].up = conns[i].up /\ conns'[i].state = state
         /\ \A j \in DOMAIN conns \ {i} : conns'[j] = conns[j]
<1>1. conns \in Seq(Conns) /\ conns[i] \in Conns
  BY DEF ToolTypes
<1>2. [conns[i] EXCEPT !.state = state] = [up |-> conns[i].up, state |-> state, tools |-> conns[i].tools]
      /\ conns[i].tools \in Offers \cup {{}}
  BY <1>1 DEF Conns
<1>3. conns' = [conns EXCEPT ![i] = [up |-> conns[i].up, state |-> state, tools |-> conns[i].tools]]
  BY <1>2
<1> QED BY <1>2, <1>3, ConnWritten

\* What no step of a connection touches.
LEMMA ToolQuiet ==
  ASSUME ToolInv, UNCHANGED <<instances, upstreamOf, conns, chains, connecting>>
  PROVE  ToolInv'
BY DEF ToolInv, ToolTypes, InstancesConnected, OneOpener, ChainsOwn, DeadIsRepaired, Opening

\* A first connection of an upstream begins.
LEMMA FirstConnect ==
  ASSUME ToolInv, NEW up \in Upstream, connectUpstream(up),
         connecting' = [connecting EXCEPT ![up] = Len(conns')],
         UNCHANGED <<instances, upstreamOf, chains>>
  PROVE  ToolInv'
<1>0. ToolTypes
  BY DEF ToolInv
<1>1. /\ conns' \in Seq(Conns)
      /\ Len(conns') \in Nat \ {0}
      /\ Len(conns') \notin DOMAIN conns
      /\ DOMAIN conns' = DOMAIN conns \cup {Len(conns')}
      /\ \A i \in DOMAIN conns : conns'[i] = conns[i]
      /\ Opening(conns', Len(conns'), up)
  BY <1>0, ConnectAppends
<1>2. /\ connecting' \in [Upstream -> Nat]
      /\ connecting'[up] = Len(conns')
      /\ \A u \in Upstream \ {up} : connecting'[u] = connecting[u]
  BY <1>0, <1>1 DEF ToolTypes
<1>3. ToolTypes'
  BY <1>0, <1>1, <1>2 DEF ToolTypes
<1>4. InstancesConnected'
  BY <1>1 DEF ToolInv, InstancesConnected
<1>5. OneOpener'
  <2>1. ASSUME NEW u \in Upstream, connecting'[u] # 0 PROVE Opening(conns', connecting'[u], u)
    <3>1. CASE u = up
      BY <1>1, <1>2, <3>1 DEF Opening
    <3>2. CASE u # up
      <4>1. Opening(conns, connecting[u], u) /\ connecting'[u] = connecting[u]
        BY <1>2, <2>1, <3>2 DEF ToolInv, OneOpener
      <4> QED BY <1>1, <4>1 DEF Opening
    <3> QED BY <3>1, <3>2
  <2>2. ASSUME NEW k \in chains
        PROVE  /\ k.instance \in DOMAIN upstreamOf
               /\ k.conn # 0 =>
                     /\ Opening(conns', k.conn, k.up)
                     /\ \A u \in Upstream : connecting'[u] # k.conn
                     /\ \A x \in chains : x.conn = k.conn => x = k
    <3>1. /\ k.instance \in DOMAIN upstreamOf
          /\ k.conn # 0 =>
                /\ Opening(conns, k.conn, k.up)
                /\ \A u \in Upstream : connecting[u] # k.conn
                /\ \A x \in chains : x.conn = k.conn => x = k
      BY DEF ToolInv, OneOpener
    <3>2. ASSUME k.conn # 0
          PROVE  Opening(conns', k.conn, k.up) /\ \A u \in Upstream : connecting'[u] # k.conn
      <4>1. k.conn \in DOMAIN conns /\ k.conn # Len(conns')
        BY <1>1, <3>1, <3>2 DEF Opening
      <4>2. Opening(conns', k.conn, k.up)
        BY <1>1, <3>1, <3>2, <4>1 DEF Opening
      <4>3. ASSUME NEW u \in Upstream PROVE connecting'[u] # k.conn
        BY <1>2, <3>1, <3>2, <4>1
      <4> QED BY <4>2, <4>3
    <3> QED BY <3>1, <3>2
  <2>3. chains' = chains /\ upstreamOf' = upstreamOf
    OBVIOUS
  <2> QED BY <2>1, <2>2, <2>3 DEF OneOpener
<1>6. ChainsOwn'
  BY DEF ToolInv, ChainsOwn
<1>7. DeadIsRepaired'
  BY <1>1 DEF ToolInv, DeadIsRepaired, InstancesConnected
<1> QED BY <1>3, <1>4, <1>5, <1>6, <1>7 DEF ToolInv

LEMMA ExecuteMcpKeeps ==
  ASSUME ToolInv, NEW c \in Call, NEW repo, NEW up \in Upstream, NEW input, NEW user,
         executeMcp(c, repo, up, input, user)
  PROVE  ToolInv'
<1>1. \/ UNCHANGED <<conns, connecting>>
      \/ connectUpstream(up) /\ connecting' = [connecting EXCEPT ![up] = Len(conns')]
  BY DEF executeMcp
<1>2. UNCHANGED <<instances, upstreamOf, chains>>
  BY DEF executeMcp
<1> QED BY <1>1, <1>2, FirstConnect, ToolQuiet

\* The instance is new, and so is its connection.
LEMMA GetInstanceKeeps ==
  ASSUME ToolInv, NEW up \in Upstream, NEW tools \in Offers, getInstance(up, tools)
  PROVE  ToolInv'
<1> DEFINE i == connecting[up]
<1>0. ToolTypes /\ UNCHANGED chains
  BY DEF ToolInv, getInstance
<1>1. i # 0 /\ i \in DOMAIN conns /\ conns[i].up = up /\ conns[i].state = "opening" /\ i \in Nat
  BY DEF ToolInv, ToolTypes, OneOpener, Opening, getInstance
<1>2. conns' = [conns EXCEPT ![i] = [up |-> conns[i].up, state |-> "open", tools |-> tools]]
  BY <1>1 DEF getInstance
<1>3. connecting' = [connecting EXCEPT ![up] = 0]
  BY DEF getInstance
<1>4. \/ UNCHANGED <<instances, upstreamOf>>
      \/ upstreamOf' = Append(upstreamOf, i) /\ instances' = [instances EXCEPT ![up] = Len(upstreamOf')]
  BY DEF getInstance
<1> HIDE DEF i
<1>5. /\ conns' \in Seq(Conns)
      /\ DOMAIN conns' = DOMAIN conns
      /\ conns'[i].up = up /\ conns'[i].state = "open"
      /\ \A j \in DOMAIN conns \ {i} : conns'[j] = conns[j]
  BY <1>0, <1>1, <1>2, ConnWritten
<1>6. connecting' \in [Upstream -> Nat] /\ connecting'[up] = 0 /\ \A u \in Upstream \ {up} : connecting'[u] = connecting[u]
  BY <1>0, <1>3 DEF ToolTypes
<1>7. \A u \in Upstream : instances[u] # 0 => upstreamOf[instances[u]] # i
  BY <1>1 DEF ToolInv, InstancesConnected
<1>8. /\ \A u \in Upstream \ {up} : connecting[u] # i
      /\ \A k \in chains : k.conn # i
  BY <1>1 DEF ToolInv, OneOpener, Opening, i
<1>9. /\ upstreamOf' \in Seq(Nat)
      /\ DOMAIN upstreamOf \subseteq DOMAIN upstreamOf'
      /\ \A n \in DOMAIN upstreamOf : upstreamOf'[n] = upstreamOf[n]
  <2>1. upstreamOf \in Seq(Nat)
    BY <1>0 DEF ToolTypes
  <2>2. CASE UNCHANGED upstreamOf
    BY <2>1, <2>2
  <2>3. CASE upstreamOf' = Append(upstreamOf, i)
    BY <1>1, <2>1, <2>3
  <2> QED BY <1>4, <2>2, <2>3
<1>10. OneOpener'
  <2>1. ASSUME NEW u \in Upstream, connecting'[u] # 0 PROVE Opening(conns', connecting'[u], u)
    <3>1. u # up /\ connecting'[u] = connecting[u] /\ Opening(conns, connecting[u], u) /\ connecting[u] # i
      BY <1>6, <1>8, <2>1 DEF ToolInv, OneOpener
    <3> QED BY <1>5, <3>1 DEF Opening
  <2>2. ASSUME NEW k \in chains
        PROVE  /\ k.instance \in DOMAIN upstreamOf'
               /\ k.conn # 0 =>
                     /\ Opening(conns', k.conn, k.up)
                     /\ \A u \in Upstream : connecting'[u] # k.conn
                     /\ \A x \in chains : x.conn = k.conn => x = k
    <3>1. /\ k.instance \in DOMAIN upstreamOf
          /\ k.conn # 0 =>
                /\ Opening(conns, k.conn, k.up)
                /\ \A u \in Upstream : connecting[u] # k.conn
                /\ \A x \in chains : x.conn = k.conn => x = k
      BY DEF ToolInv, OneOpener
    <3>2. ASSUME k.conn # 0
          PROVE  Opening(conns', k.conn, k.up) /\ \A u \in Upstream : connecting'[u] # k.conn
      <4>1. Opening(conns', k.conn, k.up)
        BY <1>5, <1>8, <3>1, <3>2 DEF Opening
      <4>2. ASSUME NEW u \in Upstream PROVE connecting'[u] # k.conn
        BY <1>6, <3>1, <3>2
      <4> QED BY <4>1, <4>2
    <3> QED BY <1>9, <3>1, <3>2
  <2> QED BY <1>0, <2>1, <2>2 DEF OneOpener
<1>11. CASE UNCHANGED <<instances, upstreamOf>>
  <2>1. ToolTypes'
    BY <1>0, <1>5, <1>6, <1>11 DEF ToolTypes
  <2>2. InstancesConnected'
    BY <1>5, <1>7, <1>11 DEF ToolInv, InstancesConnected
  <2>3. ChainsOwn'
    BY <1>0, <1>11 DEF ToolInv, ChainsOwn
  <2>4. DeadIsRepaired'
    BY <1>0, <1>5, <1>7, <1>11 DEF ToolInv, DeadIsRepaired, InstancesConnected
  <2> QED BY <1>10, <2>1, <2>2, <2>3, <2>4 DEF ToolInv
<1>12. ASSUME upstreamOf' = Append(upstreamOf, i), instances' = [instances EXCEPT ![up] = Len(upstreamOf')]
       PROVE  ToolInv'
  <2> DEFINE n == Len(upstreamOf')
  <2>1. n \in Nat \ {0} /\ n \notin DOMAIN upstreamOf /\ n \in DOMAIN upstreamOf' /\ upstreamOf'[n] = i
    BY <1>0, <1>1, <1>12 DEF ToolTypes
  <2>2. instances' \in [Upstream -> Nat] /\ instances'[up] = n /\ \A u \in Upstream \ {up} : instances'[u] = instances[u]
    BY <1>0, <1>12, <2>1 DEF ToolTypes
  <2> HIDE DEF n
  <2>3. ToolTypes'
    BY <1>0, <1>5, <1>6, <1>9, <2>2 DEF ToolTypes
  <2>4. InstancesConnected'
    <3> SUFFICES ASSUME NEW u \in Upstream, instances'[u] # 0
                 PROVE  /\ instances'[u] \in DOMAIN upstreamOf'
                        /\ upstreamOf'[instances'[u]] \in DOMAIN conns'
                        /\ conns'[upstreamOf'[instances'[u]]].up = u
                        /\ conns'[upstreamOf'[instances'[u]]].state # "opening"
      BY DEF InstancesConnected
    <3>1. CASE u = up
      BY <1>1, <1>5, <2>1, <2>2, <3>1
    <3>2. CASE u # up
      BY <1>5, <1>7, <1>9, <2>2, <3>2 DEF ToolInv, InstancesConnected
    <3> QED BY <3>1, <3>2
  <2>5. ChainsOwn'
    <3>1. \A k \in chains : k.instance # n
      BY <2>1 DEF ToolInv, OneOpener
    <3> QED BY <1>0, <2>2, <3>1 DEF ToolInv, ChainsOwn
  <2>6. DeadIsRepaired'
    <3> SUFFICES ASSUME NEW u \in Upstream, instances'[u] # 0,
                        conns'[upstreamOf'[instances'[u]]].state # "open"
                 PROVE  \E k \in chains : k.up = u /\ k.instance = instances'[u]
      BY <1>0 DEF DeadIsRepaired
    <3>1. u # up
      BY <1>5, <2>1, <2>2
    <3>2. instances'[u] = instances[u] /\ instances[u] \in DOMAIN upstreamOf
          /\ upstreamOf[instances[u]] \in DOMAIN conns /\ upstreamOf[instances[u]] # i
      BY <1>7, <2>2, <3>1 DEF ToolInv, InstancesConnected
    <3>3. conns[upstreamOf[instances[u]]].state # "open"
      BY <1>5, <1>9, <3>2
    <3> QED BY <3>2, <3>3 DEF ToolInv, DeadIsRepaired
  <2> QED BY <1>10, <2>3, <2>4, <2>5, <2>6 DEF ToolInv
<1> QED BY <1>4, <1>11, <1>12

LEMMA ConnectFailsKeeps ==
  ASSUME ToolInv, NEW up \in Upstream, NEW state \in {"refused", "dropped", "open"},
         connectInstanceFails(up, state)
  PROVE  ToolInv'
<1> DEFINE i == connecting[up]
<1>0. ToolTypes /\ UNCHANGED <<instances, upstreamOf, chains>>
  BY DEF ToolInv, connectInstanceFails
<1>1. i # 0 /\ i \in DOMAIN conns /\ conns[i].up = up /\ conns[i].state = "opening" /\ i \in Nat
  BY DEF ToolInv, ToolTypes, OneOpener, Opening, connectInstanceFails
<1>2. conns' = [conns EXCEPT ![i].state = state] /\ connecting' = [connecting EXCEPT ![up] = 0]
  BY DEF connectInstanceFails
<1>3. /\ \A u \in Upstream \ {up} : connecting[u] # i
      /\ \A k \in chains : k.conn # i
  BY <1>1 DEF ToolInv, OneOpener, Opening, i
<1> HIDE DEF i
<1>4. /\ conns' \in Seq(Conns)
      /\ DOMAIN conns' = DOMAIN conns
      /\ conns'[i].up = up /\ conns'[i].state = state
      /\ \A j \in DOMAIN conns \ {i} : conns'[j] = conns[j]
  BY <1>0, <1>1, <1>2, StateWritten
<1>5. connecting' \in [Upstream -> Nat] /\ connecting'[up] = 0 /\ \A u \in Upstream \ {up} : connecting'[u] = connecting[u]
  BY <1>0, <1>2 DEF ToolTypes
<1>6. ToolTypes'
  BY <1>0, <1>4, <1>5 DEF ToolTypes
<1>7. \A u \in Upstream : instances[u] # 0 => upstreamOf[instances[u]] # i
  BY <1>1 DEF ToolInv, InstancesConnected
<1>8. InstancesConnected' /\ DeadIsRepaired'
  BY <1>0, <1>4, <1>7 DEF ToolInv, InstancesConnected, DeadIsRepaired
<1>9. OneOpener'
  <2>1. ASSUME NEW u \in Upstream, connecting'[u] # 0 PROVE Opening(conns', connecting'[u], u)
    <3>1. connecting'[u] = connecting[u] /\ Opening(conns, connecting[u], u) /\ connecting[u] # i
      BY <1>3, <1>5, <2>1 DEF ToolInv, OneOpener
    <3> QED BY <1>4, <3>1 DEF Opening
  <2>2. ASSUME NEW k \in chains
        PROVE  /\ k.instance \in DOMAIN upstreamOf
               /\ k.conn # 0 =>
                     /\ Opening(conns', k.conn, k.up)
                     /\ \A u \in Upstream : connecting'[u] # k.conn
                     /\ \A x \in chains : x.conn = k.conn => x = k
    <3>1. /\ k.instance \in DOMAIN upstreamOf
          /\ k.conn # 0 =>
                /\ Opening(conns, k.conn, k.up)
                /\ \A u \in Upstream : connecting[u] # k.conn
                /\ \A x \in chains : x.conn = k.conn => x = k
      BY DEF ToolInv, OneOpener
    <3>2. k.conn # 0 => Opening(conns', k.conn, k.up)
      BY <1>3, <1>4, <3>1 DEF Opening
    <3>3. k.conn # 0 => \A u \in Upstream : connecting'[u] # k.conn
      BY <1>5, <3>1
    <3> QED BY <3>1, <3>2, <3>3
  <2> QED BY <1>0, <2>1, <2>2 DEF OneOpener
<1>10. ChainsOwn'
  BY <1>0 DEF ToolInv, ChainsOwn
<1> QED BY <1>6, <1>8, <1>9, <1>10 DEF ToolInv

\* Two upstreams with an instance have different ones.
LEMMA InstancesDiffer ==
  ASSUME InstancesConnected, NEW u \in Upstream, NEW v \in Upstream,
         instances[u] # 0, instances[u] = instances[v]
  PROVE  u = v
BY DEF InstancesConnected

LEMMA ChainMade ==
  ASSUME ToolTypes, NEW up \in Upstream, NEW attempt \in Nat, NEW of \in Nat, instances[up] # 0
  PROVE  LET c == Chain(up, attempt, of)
         IN  c \in Chains /\ c.up = up /\ c.instance = instances[up] /\ c.conn = 0
<1>1. instances[up] \in Nat \ {0}
  BY DEF ToolTypes
<1> QED BY <1>1 DEF Chain, Chains

\* What became of connection i of an upstream is told to scheduleReconnect, while the
\* reconnections that are dropped are of the same upstream.
LEMMA ScheduledKeeps ==
  ASSUME ToolInv, NEW i \in DOMAIN conns, NEW up \in Upstream, conns[i].up = up,
         NEW state \in {"refused", "dropped", "open", "closed"},
         conns' = [conns EXCEPT ![i].state = state],
         \A u \in Upstream : connecting[u] # i,
         UNCHANGED <<upstreamOf, connecting>>,
         NEW others \in SUBSET Chains,
         \A k \in others :
            \/ k \in chains /\ k.conn # i
            \/ k.conn = 0 /\ k.up = up /\ k.instance = instances[up] /\ instances[up] # 0,
         \A k \in chains \ others : k.up = up,
         NEW attempt \in Nat, NEW of \in Nat, scheduleReconnect(up, attempt, of, others)
  PROVE  ToolInv'
<1>0. ToolTypes
  BY DEF ToolInv
<1>1. /\ conns' \in Seq(Conns)
      /\ DOMAIN conns' = DOMAIN conns
      /\ conns'[i].up = up /\ conns'[i].state = state
      /\ \A j \in DOMAIN conns \ {i} : conns'[j] = conns[j]
  BY <1>0, StateWritten
<1> DEFINE new == Chain(up, attempt, of)
<1>2. \/ chains' = others /\ instances[up] = 0 /\ instances' = instances
      \/ chains' = others /\ instances' = [instances EXCEPT ![up] = 0]
      \/ chains' = others \cup {new} /\ instances[up] # 0 /\ instances' = instances
  BY DEF scheduleReconnect
<1>3. instances[up] # 0 => new \in Chains /\ new.up = up /\ new.instance = instances[up] /\ new.conn = 0
  BY <1>0, ChainMade
<1> HIDE DEF new
<1>4. /\ instances' \in [Upstream -> Nat]
      /\ \A u \in Upstream : instances'[u] # 0 => instances'[u] = instances[u]
      /\ \A u \in Upstream \ {up} : instances'[u] = instances[u]
  <2>1. instances \in [Upstream -> Nat]
    BY <1>0 DEF ToolTypes
  <2>2. CASE instances' = instances
    BY <2>1, <2>2
  <2>3. CASE instances' = [instances EXCEPT ![up] = 0]
    BY <2>1, <2>3
  <2> QED BY <1>2, <2>2, <2>3
<1>5. chains' \subseteq Chains
  BY <1>2, <1>3
<1>6. \A k \in chains' :
         \/ k \in chains /\ k.conn # i
         \/ k.conn = 0 /\ k.up = up /\ k.instance = instances[up] /\ instances[up] # 0
  BY <1>2, <1>3
<1>7. ToolTypes'
  BY <1>0, <1>1, <1>4, <1>5 DEF ToolTypes
<1>8. InstancesConnected'
  <2> SUFFICES ASSUME NEW u \in Upstream, instances'[u] # 0
               PROVE  /\ instances'[u] \in DOMAIN upstreamOf
                      /\ upstreamOf[instances'[u]] \in DOMAIN conns'
                      /\ conns'[upstreamOf[instances'[u]]].up = u
                      /\ conns'[upstreamOf[instances'[u]]].state # "opening"
    BY DEF InstancesConnected
  <2>1. /\ instances'[u] = instances[u]
        /\ instances[u] \in DOMAIN upstreamOf
        /\ upstreamOf[instances[u]] \in DOMAIN conns
        /\ conns[upstreamOf[instances[u]]].up = u
        /\ conns[upstreamOf[instances[u]]].state # "opening"
    BY <1>4 DEF ToolInv, InstancesConnected
  <2> QED BY <1>1, <2>1
<1>9. OneOpener'
  <2>1. ASSUME NEW u \in Upstream, connecting[u] # 0 PROVE Opening(conns', connecting[u], u)
    <3>1. Opening(conns, connecting[u], u)
      BY <2>1 DEF ToolInv, OneOpener
    <3> QED BY <1>1, <3>1 DEF Opening
  <2>2. ASSUME NEW k \in chains'
        PROVE  /\ k.instance \in DOMAIN upstreamOf
               /\ k.conn # 0 =>
                     /\ Opening(conns', k.conn, k.up)
                     /\ \A u \in Upstream : connecting[u] # k.conn
                     /\ \A x \in chains' : x.conn = k.conn => x = k
    <3>1. CASE k.conn = 0 /\ k.up = up /\ k.instance = instances[up] /\ instances[up] # 0
      BY <3>1 DEF ToolInv, InstancesConnected
    <3>2. CASE k \in chains /\ k.conn # i
      <4>1. /\ k.instance \in DOMAIN upstreamOf
            /\ k.conn # 0 =>
                  /\ Opening(conns, k.conn, k.up)
                  /\ \A u \in Upstream : connecting[u] # k.conn
                  /\ \A x \in chains : x.conn = k.conn => x = k
        BY <3>2 DEF ToolInv, OneOpener
      <4>2. k.conn # 0 => Opening(conns', k.conn, k.up)
        BY <1>1, <3>2, <4>1 DEF Opening
      <4>3. k.conn # 0 => \A x \in chains' : x.conn = k.conn => x = k
        BY <1>6, <4>1
      <4> QED BY <4>1, <4>2, <4>3
    <3> QED BY <1>6, <3>1, <3>2
  <2> QED BY <2>1, <2>2 DEF OneOpener
<1>10. ChainsOwn'
  <2> SUFFICES ASSUME NEW k \in chains', NEW u \in Upstream, instances'[u] = k.instance PROVE k.up = u
    BY DEF ChainsOwn
  <2>1. k.instance # 0 /\ instances[u] = k.instance
    BY <1>4, <1>5 DEF Chains
  <2>2. CASE k \in chains
    BY <2>1, <2>2 DEF ToolInv, ChainsOwn
  <2>3. CASE k.up = up /\ k.instance = instances[up]
    BY <2>1, <2>3, InstancesDiffer DEF ToolInv
  <2> QED BY <1>6, <2>2, <2>3
<1>11. DeadIsRepaired'
  <2> SUFFICES ASSUME NEW u \in Upstream, instances'[u] # 0, conns'[upstreamOf[instances'[u]]].state # "open"
               PROVE  \E k \in chains' : k.up = u /\ k.instance = instances'[u]
    BY DEF DeadIsRepaired
  <2>1. CASE u = up
    <3>1. instances'[up] # 0 => chains' = others \cup {new} /\ instances[up] # 0 /\ instances' = instances
      BY <1>0, <1>2 DEF ToolTypes
    <3> QED BY <1>3, <2>1, <3>1
  <2>2. CASE u # up
    <3>1. instances'[u] = instances[u]
      BY <1>4, <2>2
    <3>2. upstreamOf[instances[u]] \in DOMAIN conns /\ conns[upstreamOf[instances[u]]].up = u
      BY <3>1 DEF ToolInv, InstancesConnected
    <3>3. conns[upstreamOf[instances[u]]].state # "open"
      BY <1>1, <2>2, <3>1, <3>2
    <3>4. PICK k \in chains : k.up = u /\ k.instance = instances[u]
      BY <3>1, <3>3 DEF ToolInv, DeadIsRepaired
    <3>5. k \in chains'
      BY <1>2, <2>2, <3>4
    <3> QED BY <3>1, <3>4, <3>5
  <2> QED BY <2>1, <2>2
<1> QED BY <1>7, <1>8, <1>9, <1>10, <1>11 DEF ToolInv

LEMMA DisconnectKeeps ==
  ASSUME ToolInv, NEW i \in DOMAIN conns, Disconnect(i)
  PROVE  ToolInv'
<1>0. conns \in Seq(Conns) /\ chains \subseteq Chains
  BY DEF ToolInv, ToolTypes
<1>1. /\ conns[i].state = "open" /\ conns' = [conns EXCEPT ![i].state = "closed"]
      /\ scheduleReconnect(conns[i].up, 1, i, chains) /\ UNCHANGED <<upstreamOf, connecting>>
  BY DEF Disconnect
<1>2. conns[i] \in Conns /\ conns[i].up \in Upstream /\ i \in Nat
  <2>1. conns[i] \in Conns /\ i \in Nat
    BY <1>0
  <2> QED BY <2>1 DEF Conns
<1>3. \A u \in Upstream : connecting[u] # i
  <2> SUFFICES ASSUME NEW u \in Upstream, connecting[u] = i PROVE FALSE
    OBVIOUS
  <2> QED BY <1>0, <1>1 DEF ToolInv, OneOpener, Opening
<1>4. \A k \in chains : k.conn # i
  <2> SUFFICES ASSUME NEW k \in chains, k.conn = i PROVE FALSE
    OBVIOUS
  <2> QED BY <1>0, <1>1 DEF ToolInv, OneOpener, Opening
<1> QED BY <1>0, <1>1, <1>2, <1>3, <1>4, ScheduledKeeps

LEMMA ReconnectFailsKeeps ==
  ASSUME ToolInv, NEW k \in chains, NEW state \in {"refused", "dropped", "open"}, ReconnectFails(k, state)
  PROVE  ToolInv'
<1> DEFINE told == IF state = "dropped" /\ instances[k.up] # 0 THEN {Chain(k.up, 1, k.conn)} ELSE {}
           others == (chains \ {k}) \cup told
           i == k.conn
<1>0. ToolTypes /\ chains \subseteq Chains
  BY DEF ToolInv, ToolTypes
<1>1. k.up \in Upstream /\ k.attempt \in Nat /\ i \in Nat
  BY <1>0 DEF Chains
<1>2. /\ i # 0 /\ conns' = [conns EXCEPT ![i].state = state]
      /\ scheduleReconnect(k.up, k.attempt + 1, i, others) /\ UNCHANGED <<upstreamOf, connecting>>
  BY DEF ReconnectFails
<1>3. /\ Opening(conns, i, k.up)
      /\ \A u \in Upstream : connecting[u] # i
      /\ \A x \in chains : x.conn = i => x = k
  BY <1>2 DEF ToolInv, OneOpener
<1>4. \A x \in told : x \in Chains /\ x.conn = 0 /\ x.up = k.up /\ x.instance = instances[k.up] /\ instances[k.up] # 0
  <2> SUFFICES ASSUME instances[k.up] # 0
               PROVE  LET c == Chain(k.up, 1, k.conn)
                      IN  c \in Chains /\ c.conn = 0 /\ c.up = k.up /\ c.instance = instances[k.up]
    OBVIOUS
  <2> QED BY <1>0, <1>1, ChainMade
<1>5. /\ others \in SUBSET Chains
      /\ \A x \in others : \/ x \in chains /\ x.conn # i
                           \/ x.conn = 0 /\ x.up = k.up /\ x.instance = instances[k.up] /\ instances[k.up] # 0
      /\ \A x \in chains \ others : x.up = k.up
  <2> HIDE DEF told
  <2> QED BY <1>0, <1>3, <1>4
<1> HIDE DEF others
<1>6. i \in DOMAIN conns /\ conns[i].up = k.up
  BY <1>3 DEF Opening
<1>7. k.attempt + 1 \in Nat
  BY <1>1
<1> HIDE DEF i
<1> QED BY <1>1, <1>2, <1>3, <1>5, <1>6, <1>7, ScheduledKeeps

\* A reconnection connects: the chain is another one, for the same instance.
LEMMA ReconnectKeeps ==
  ASSUME ToolInv, NEW k \in chains, Reconnect(k)
  PROVE  ToolInv'
<1> DEFINE n == Len(conns')
           new == [k EXCEPT !.conn = n]
<1>0. ToolTypes /\ k \in Chains /\ k.up \in Upstream
  <2>1. ToolTypes /\ k \in Chains
    BY DEF ToolInv, ToolTypes
  <2> QED BY <2>1 DEF Chains
<1>1. /\ connectUpstream(k.up) /\ chains' = (chains \ {k}) \cup {new}
      /\ UNCHANGED <<instances, upstreamOf, connecting>>
  BY DEF Reconnect
<1>2. /\ conns' \in Seq(Conns) /\ n \in Nat \ {0} /\ n \notin DOMAIN conns
      /\ DOMAIN conns' = DOMAIN conns \cup {n}
      /\ \A i \in DOMAIN conns : conns'[i] = conns[i]
      /\ Opening(conns', n, k.up)
  BY <1>0, <1>1, ConnectAppends
<1> HIDE DEF n
<1>3. new \in Chains /\ new.up = k.up /\ new.instance = k.instance /\ new.conn = n
  BY <1>0, <1>2 DEF Chains
<1> HIDE DEF new
<1>4. ToolTypes'
  BY <1>0, <1>1, <1>2, <1>3 DEF ToolTypes
<1>5. InstancesConnected'
  BY <1>1, <1>2 DEF ToolInv, InstancesConnected
<1>6. \A u \in Upstream : connecting[u] # n
  <2> SUFFICES ASSUME NEW u \in Upstream, connecting[u] = n PROVE FALSE
    OBVIOUS
  <2> QED BY <1>2 DEF ToolInv, OneOpener, Opening
<1>7. \A x \in chains : x.conn # n
  <2> SUFFICES ASSUME NEW x \in chains, x.conn = n PROVE FALSE
    OBVIOUS
  <2> QED BY <1>2 DEF ToolInv, OneOpener, Opening
<1>8. OneOpener'
  <2>1. ASSUME NEW u \in Upstream, connecting[u] # 0 PROVE Opening(conns', connecting[u], u)
    <3>1. Opening(conns, connecting[u], u)
      BY <2>1 DEF ToolInv, OneOpener
    <3> QED BY <1>2, <3>1 DEF Opening
  <2>2. ASSUME NEW y \in chains'
        PROVE  /\ y.instance \in DOMAIN upstreamOf
               /\ y.conn # 0 =>
                     /\ Opening(conns', y.conn, y.up)
                     /\ \A u \in Upstream : connecting[u] # y.conn
                     /\ \A x \in chains' : x.conn = y.conn => x = y
    <3>1. CASE y = new
      <4>1. y.instance \in DOMAIN upstreamOf
        BY <1>3, <3>1 DEF ToolInv, OneOpener
      <4>2. \A x \in chains' : x.conn = y.conn => x = y
        BY <1>1, <1>3, <1>7, <3>1
      <4> QED BY <1>2, <1>3, <1>6, <3>1, <4>1, <4>2
    <3>2. CASE y \in chains
      <4>1. /\ y.instance \in DOMAIN upstreamOf
            /\ y.conn # 0 =>
                  /\ Opening(conns, y.conn, y.up)
                  /\ \A u \in Upstream : connecting[u] # y.conn
                  /\ \A x \in chains : x.conn = y.conn => x = y
        BY <3>2 DEF ToolInv, OneOpener
      <4>2. y.conn # 0 => Opening(conns', y.conn, y.up)
        BY <1>2, <4>1 DEF Opening
      <4>3. y.conn # 0 => \A x \in chains' : x.conn = y.conn => x = y
        BY <1>1, <1>3, <1>7, <3>2, <4>1
      <4> QED BY <4>1, <4>2, <4>3
    <3> QED BY <1>1, <3>1, <3>2
  <2> QED BY <1>1, <2>1, <2>2 DEF OneOpener
<1>9. ChainsOwn'
  BY <1>1, <1>3 DEF ToolInv, ChainsOwn
<1>10. DeadIsRepaired'
  <2> SUFFICES ASSUME NEW u \in Upstream, instances[u] # 0, conns'[upstreamOf[instances[u]]].state # "open"
               PROVE  \E x \in chains' : x.up = u /\ x.instance = instances[u]
    BY <1>1 DEF DeadIsRepaired
  <2>1. conns[upstreamOf[instances[u]]].state # "open"
    BY <1>2 DEF ToolInv, InstancesConnected
  <2>2. PICK x \in chains : x.up = u /\ x.instance = instances[u]
    BY <2>1 DEF ToolInv, DeadIsRepaired
  <2> QED BY <1>1, <1>3, <2>2
<1> QED BY <1>4, <1>5, <1>8, <1>9, <1>10 DEF ToolInv

\* The reconnection that ends is of an instance that has an open connection now.
LEMMA ReconnectedKeeps ==
  ASSUME ToolInv, NEW k \in chains, NEW tools \in Offers, Reconnected(k, tools)
  PROVE  ToolInv'
<1> DEFINE i == k.conn
<1>0. ToolTypes /\ k \in Chains
  BY DEF ToolInv, ToolTypes
<1>1. k.up \in Upstream /\ i \in Nat /\ k.instance \in Nat \ {0}
  BY <1>0 DEF Chains
<1>2. /\ i # 0 /\ conns' = [conns EXCEPT ![i] = [up |-> k.up, state |-> "open", tools |-> tools]]
      /\ upstreamOf' = [upstreamOf EXCEPT ![k.instance] = i] /\ chains' = chains \ {k}
      /\ UNCHANGED <<instances, connecting>>
  BY DEF Reconnected
<1>3. /\ Opening(conns, i, k.up)
      /\ \A u \in Upstream : connecting[u] # i
      /\ \A x \in chains : x.conn = i => x = k
      /\ k.instance \in DOMAIN upstreamOf
  BY <1>2 DEF ToolInv, OneOpener
<1> HIDE DEF i
<1>4. i \in DOMAIN conns /\ conns[i].up = k.up /\ conns[i].state = "opening"
  BY <1>3 DEF Opening
<1>5. /\ conns' \in Seq(Conns)
      /\ DOMAIN conns' = DOMAIN conns
      /\ conns'[i].up = k.up /\ conns'[i].state = "open"
      /\ \A j \in DOMAIN conns \ {i} : conns'[j] = conns[j]
  <2>1. conns' = [conns EXCEPT ![i] = [up |-> conns[i].up, state |-> "open", tools |-> tools]]
    BY <1>2, <1>4
  <2> QED BY <1>0, <1>4, <2>1, ConnWritten
<1>6. /\ upstreamOf' \in Seq(Nat) /\ DOMAIN upstreamOf' = DOMAIN upstreamOf
      /\ upstreamOf'[k.instance] = i
      /\ \A x \in DOMAIN upstreamOf \ {k.instance} : upstreamOf'[x] = upstreamOf[x]
  BY <1>0, <1>1, <1>2, <1>3 DEF ToolTypes
<1>7. ToolTypes'
  BY <1>0, <1>2, <1>5, <1>6 DEF ToolTypes
<1>8. \A u \in Upstream : instances[u] = k.instance => k.up = u
  BY DEF ToolInv, ChainsOwn
<1>9. ASSUME NEW u \in Upstream, instances[u] # 0
      PROVE  /\ instances[u] \in DOMAIN upstreamOf
             /\ upstreamOf[instances[u]] \in DOMAIN conns
             /\ conns[upstreamOf[instances[u]]].up = u
             /\ conns[upstreamOf[instances[u]]].state # "opening"
  BY <1>9 DEF ToolInv, InstancesConnected
<1>10. InstancesConnected'
  <2> SUFFICES ASSUME NEW u \in Upstream, instances[u] # 0
               PROVE  /\ instances[u] \in DOMAIN upstreamOf'
                      /\ upstreamOf'[instances[u]] \in DOMAIN conns'
                      /\ conns'[upstreamOf'[instances[u]]].up = u
                      /\ conns'[upstreamOf'[instances[u]]].state # "opening"
    BY <1>2 DEF InstancesConnected
  <2>1. CASE instances[u] = k.instance
    BY <1>3, <1>4, <1>5, <1>6, <1>8, <2>1
  <2>2. CASE instances[u] # k.instance
    <3>1. upstreamOf'[instances[u]] = upstreamOf[instances[u]]
      BY <1>6, <1>9, <2>2
    <3>2. upstreamOf[instances[u]] \in DOMAIN conns \ {i}
      BY <1>4, <1>9
    <3>3. conns'[upstreamOf[instances[u]]] = conns[upstreamOf[instances[u]]]
      BY <1>5, <3>2
    <3> QED BY <1>5, <1>6, <1>9, <3>1, <3>2, <3>3
  <2> QED BY <2>1, <2>2
<1>11. OneOpener'
  <2>1. ASSUME NEW u \in Upstream, connecting[u] # 0 PROVE Opening(conns', connecting[u], u)
    <3>1. Opening(conns, connecting[u], u)
      BY <2>1 DEF ToolInv, OneOpener
    <3> QED BY <1>3, <1>5, <3>1 DEF Opening
  <2>2. ASSUME NEW y \in chains'
        PROVE  /\ y.instance \in DOMAIN upstreamOf'
               /\ y.conn # 0 =>
                     /\ Opening(conns', y.conn, y.up)
                     /\ \A u \in Upstream : connecting[u] # y.conn
                     /\ \A x \in chains' : x.conn = y.conn => x = y
    <3>1. y \in chains /\ y # k /\ y.conn # i
      BY <1>2, <1>3
    <3>2. /\ y.instance \in DOMAIN upstreamOf
          /\ y.conn # 0 =>
                /\ Opening(conns, y.conn, y.up)
                /\ \A u \in Upstream : connecting[u] # y.conn
                /\ \A x \in chains : x.conn = y.conn => x = y
      BY <3>1 DEF ToolInv, OneOpener
    <3>3. y.conn # 0 => Opening(conns', y.conn, y.up)
      BY <1>5, <3>1, <3>2 DEF Opening
    <3> QED BY <1>2, <1>6, <3>2, <3>3
  <2> QED BY <1>2, <2>1, <2>2 DEF OneOpener
<1>12. ChainsOwn'
  BY <1>2 DEF ToolInv, ChainsOwn
<1>13. DeadIsRepaired'
  <2> SUFFICES ASSUME NEW u \in Upstream, instances[u] # 0, conns'[upstreamOf'[instances[u]]].state # "open"
               PROVE  \E x \in chains' : x.up = u /\ x.instance = instances[u]
    BY <1>2 DEF DeadIsRepaired
  <2>1. instances[u] # k.instance
    BY <1>5, <1>6
  <2>2. conns[upstreamOf[instances[u]]].state # "open"
    BY <1>4, <1>5, <1>6, <1>9, <2>1
  <2>3. PICK x \in chains : x.up = u /\ x.instance = instances[u]
    BY <2>2 DEF ToolInv, DeadIsRepaired
  <2> QED BY <1>2, <2>1, <2>3
<1> QED BY <1>7, <1>10, <1>11, <1>12, <1>13 DEF ToolInv

\* Every connection in use that closes starts a reconnection.
LEMMA CloseAllKeeps ==
  ASSUME ToolInv, closeAll
  PROVE  ToolInv'
<1> DEFINE closed == {u \in Upstream : instances[u] # 0 /\ conns[upstreamOf[instances[u]]].state = "open"}
           Closing(i) == \E u \in closed : i = upstreamOf[instances[u]]
           started == {Chain(u, 1, upstreamOf[instances[u]]) : u \in closed}
<1>0. ToolTypes /\ conns \in Seq(Conns)
  BY DEF ToolInv, ToolTypes
<1>1. /\ conns' = [i \in DOMAIN conns |-> IF Closing(i) THEN [conns[i] EXCEPT !.state = "closed"] ELSE conns[i]]
      /\ chains' = chains \cup started
      /\ UNCHANGED <<instances, upstreamOf, connecting>>
  BY DEF closeAll
<1>2. ASSUME NEW i \in DOMAIN conns
      PROVE  /\ conns'[i] \in Conns /\ conns'[i].up = conns[i].up
             /\ Closing(i) => conns[i].state = "open" /\ conns'[i].state = "closed"
             /\ ~Closing(i) => conns'[i] = conns[i]
  <2>1. conns[i] \in Conns
    BY <1>0
  <2>2. CASE Closing(i)
    <3>1. conns'[i] = [conns[i] EXCEPT !.state = "closed"] /\ conns[i].state = "open"
      BY <1>1, <2>2
    <3> QED BY <2>1, <2>2, <3>1 DEF Conns
  <2>3. CASE ~Closing(i)
    BY <1>1, <2>1, <2>3
  <2> QED BY <2>2, <2>3
<1>3. conns' \in Seq(Conns) /\ DOMAIN conns' = DOMAIN conns
  <2>1. DOMAIN conns' = DOMAIN conns /\ DOMAIN conns = 1..Len(conns) /\ Len(conns) \in Nat
    BY <1>0, <1>1
  <2>2. conns' \in [1..Len(conns) -> Conns]
    BY <1>1, <1>2, <2>1
  <2> QED BY <2>1, <2>2
<1>4. \A x \in started : \E u \in closed : x \in Chains /\ x.up = u /\ x.instance = instances[u] /\ x.conn = 0
  <2> SUFFICES ASSUME NEW u \in closed
               PROVE  LET c == Chain(u, 1, upstreamOf[instances[u]])
                      IN  c \in Chains /\ c.up = u /\ c.instance = instances[u] /\ c.conn = 0
    OBVIOUS
  <2>1. instances[u] # 0 /\ u \in Upstream
    OBVIOUS
  <2>2. upstreamOf[instances[u]] \in Nat
    BY <1>0, <2>1 DEF ToolInv, ToolTypes, InstancesConnected
  <2> QED BY <1>0, <2>1, <2>2, ChainMade
<1>5. \A u \in closed : \E x \in started : x.up = u /\ x.instance = instances[u]
  <2> SUFFICES ASSUME NEW u \in closed
               PROVE  LET c == Chain(u, 1, upstreamOf[instances[u]]) IN c.up = u /\ c.instance = instances[u]
    OBVIOUS
  <2> QED BY DEF Chain
<1>6. ToolTypes'
  BY <1>0, <1>1, <1>3, <1>4 DEF ToolTypes
<1>7. \A i, u : Opening(conns, i, u) => Opening(conns', i, u)
  <2> HIDE DEF Closing
  <2> QED BY <1>2, <1>3 DEF Opening
<1> HIDE DEF started, Closing
<1>8. InstancesConnected'
  <2> SUFFICES ASSUME NEW u \in Upstream, instances[u] # 0
               PROVE  /\ instances[u] \in DOMAIN upstreamOf
                      /\ upstreamOf[instances[u]] \in DOMAIN conns'
                      /\ conns'[upstreamOf[instances[u]]].up = u
                      /\ conns'[upstreamOf[instances[u]]].state # "opening"
    BY <1>1 DEF InstancesConnected
  <2> QED BY <1>2, <1>3 DEF ToolInv, InstancesConnected
<1>9. OneOpener'
  <2>1. \A u \in Upstream : connecting[u] # 0 => Opening(conns', connecting[u], u)
    BY <1>7 DEF ToolInv, OneOpener
  <2>2. ASSUME NEW y \in chains'
        PROVE  /\ y.instance \in DOMAIN upstreamOf
               /\ y.conn # 0 =>
                     /\ Opening(conns', y.conn, y.up)
                     /\ \A u \in Upstream : connecting[u] # y.conn
                     /\ \A x \in chains' : x.conn = y.conn => x = y
    <3>1. CASE y \in started
      BY <1>4, <3>1 DEF ToolInv, InstancesConnected
    <3>2. CASE y \in chains
      <4>1. /\ y.instance \in DOMAIN upstreamOf
            /\ y.conn # 0 =>
                  /\ Opening(conns, y.conn, y.up)
                  /\ \A u \in Upstream : connecting[u] # y.conn
                  /\ \A x \in chains : x.conn = y.conn => x = y
        BY <3>2 DEF ToolInv, OneOpener
      <4> QED BY <1>1, <1>4, <1>7, <4>1
    <3> QED BY <1>1, <3>1, <3>2
  <2> QED BY <1>1, <2>1, <2>2 DEF OneOpener
<1>10. ChainsOwn'
  <2> SUFFICES ASSUME NEW k \in chains', NEW u \in Upstream, instances[u] = k.instance PROVE k.up = u
    BY <1>1 DEF ChainsOwn
  <2>1. CASE k \in chains
    BY <2>1 DEF ToolInv, ChainsOwn
  <2>2. CASE k \in started
    <3>1. PICK v \in closed : k.up = v /\ k.instance = instances[v]
      BY <1>4, <2>2
    <3>2. v \in Upstream /\ instances[v] # 0
      OBVIOUS
    <3> QED BY <3>1, <3>2, InstancesDiffer DEF ToolInv
  <2> QED BY <1>1, <2>1, <2>2
<1>11. DeadIsRepaired'
  <2> SUFFICES ASSUME NEW u \in Upstream, instances[u] # 0
               PROVE  \/ \E k \in chains' : k.up = u /\ k.instance = instances[u]
                      \/ conns'[upstreamOf[instances[u]]].state = "open"
    BY <1>1 DEF DeadIsRepaired
  <2>1. CASE u \in closed
    BY <1>1, <1>5, <2>1
  <2>2. CASE u \notin closed
    BY <1>1, <2>2 DEF ToolInv, DeadIsRepaired
  <2> QED BY <2>1, <2>2
<1> QED BY <1>6, <1>8, <1>9, <1>10, <1>11 DEF ToolInv

LEMMA ToolStep ==
  ToolInv /\ [ToolNext]_toolVars => ToolInv'
<1> SUFFICES ASSUME ToolInv, [ToolNext]_toolVars PROVE ToolInv'
  OBVIOUS
<1>1. ASSUME NEW c \in Call, NEW repo \in {"known", "other"}, NEW up \in Upstream,
             NEW input \in Inputs, NEW user \in Users, executeMcp(c, repo, up, input, user)
      PROVE  ToolInv'
  BY <1>1, ExecuteMcpKeeps
<1>2. ASSUME NEW c \in Call, callTool(c) \/ CreateApproval(c) PROVE ToolInv'
  <2>1. UNCHANGED <<instances, upstreamOf, conns, chains, connecting>>
    BY <1>2 DEF callTool, CreateApproval
  <2> QED BY <2>1, ToolQuiet
<1>3. ASSUME NEW c \in Call, NEW b \in BOOLEAN, LookUpCredentials(c, b) \/ executeUpstreamCall(c, b) PROVE ToolInv'
  <2>1. UNCHANGED <<instances, upstreamOf, conns, chains, connecting>>
    BY <1>3 DEF LookUpCredentials, executeUpstreamCall
  <2> QED BY <2>1, ToolQuiet
<1>4. ASSUME NEW up \in Upstream, connectConfiguredUpstreams(up) PROVE ToolInv'
  <2>1. /\ connectUpstream(up) /\ connecting' = [connecting EXCEPT ![up] = Len(conns')]
        /\ UNCHANGED <<instances, upstreamOf, chains>>
    BY <1>4 DEF connectConfiguredUpstreams
  <2> QED BY <2>1, FirstConnect
<1>5. ASSUME NEW up \in Upstream, NEW tools \in Offers, getInstance(up, tools) PROVE ToolInv'
  BY <1>5, GetInstanceKeeps
<1>6. ASSUME NEW up \in Upstream, NEW state \in {"refused", "dropped", "open"}, connectInstanceFails(up, state)
      PROVE  ToolInv'
  BY <1>6, ConnectFailsKeeps
<1>7. ASSUME NEW k \in chains, Reconnect(k) PROVE ToolInv'
  BY <1>7, ReconnectKeeps
<1>8. ASSUME NEW k \in chains, NEW tools \in Offers, Reconnected(k, tools) PROVE ToolInv'
  BY <1>8, ReconnectedKeeps
<1>9. ASSUME NEW k \in chains, NEW state \in {"refused", "dropped", "open"}, ReconnectFails(k, state) PROVE ToolInv'
  BY <1>9, ReconnectFailsKeeps
<1>10. ASSUME NEW i \in DOMAIN conns, Disconnect(i) PROVE ToolInv'
  BY <1>10, DisconnectKeeps
<1>11. ASSUME NEW next \in Configs, createConfigLoader(next) PROVE ToolInv'
  BY <1>11, ToolQuiet DEF createConfigLoader
<1>12. CASE closeAll
  BY <1>12, CloseAllKeeps
<1>13. CASE UNCHANGED toolVars
  BY <1>13, ToolQuiet DEF toolVars
<1> QED BY <1>1, <1>2, <1>3, <1>4, <1>5, <1>6, <1>7, <1>8, <1>9, <1>10, <1>11, <1>12, <1>13 DEF ToolNext

\* As long as calls are given an upstream's instance, a connection of it that is not open
\* is being reconnected (upstream.ts, scheduleReconnect), for any number of upstreams,
\* attempts and failures.
THEOREM DeadConnectionsAreRepaired == ToolSpec => []DeadIsRepaired
<1>1. ToolInv => DeadIsRepaired
  BY DEF ToolInv
<1> QED BY <1>1, ToolInitInv, ToolStep, PTL DEF ToolSpec

-----------------------------------------------------------------------------
(***************************************************************************)
(* Credentials                                                             *)
(***************************************************************************)

LEMMA CommandKind ==
  ASSUME NEW text
  PROVE  parseCommandText(text).kind \in Kinds
<1> DEFINE chain == <<
      <<text = <<>> \/ text = <<"help">>, [kind |-> "help"]>>,
      <<text # <<>> /\ text[1] = "connect", [kind |-> "modal", provider |-> Second(text)]>>,
      <<text # <<>> /\ text[1] = "status", [kind |-> "list"]>>,
      <<text # <<>> /\ text[1] = "disconnect" /\ Second(text) = "picker", [kind |-> "which"]>>,
      <<text # <<>> /\ text[1] = "disconnect", [kind |-> "delete", provider |-> Second(text)]>>,
      <<TRUE, [kind |-> "unknown"]>> >>
<1>1. DOMAIN chain = 1..6 /\ 6 \in Nat /\ 6 \in 1..6 /\ chain[6][1]
  OBVIOUS
<1>2. PICK c \in 1..6 : FirstOf(chain) = chain[c][2]
  <2> HIDE DEF chain
  <2> QED BY <1>1, FirstHolds, Zenon
<1>3. parseCommandText(text) = chain[c][2]
  BY <1>2, Zenon DEF parseCommandText
<1>4. \A x \in 1..6 : chain[x][2].kind \in Kinds
  <2>1. /\ chain[1][2].kind \in Kinds /\ chain[2][2].kind \in Kinds /\ chain[3][2].kind \in Kinds
        /\ chain[4][2].kind \in Kinds /\ chain[5][2].kind \in Kinds /\ chain[6][2].kind \in Kinds
    BY DEF Kinds
  <2> HIDE DEF chain
  <2> QED BY <2>1
<1> HIDE DEF chain
<1> QED BY <1>3, <1>4

LEMMA SubmissionKind ==
  ASSUME NEW form
  PROVE  handleSubmission(form).kind \in Kinds
<1> DEFINE chain == <<
      <<form.callback \notin EnrollProvider, [kind |-> "nothing"]>>,
      <<missing(form), [kind |-> "required"]>>,
      <<TRUE, [kind |-> "put", provider |-> form.callback, value |-> form.value]>> >>
<1>1. DOMAIN chain = 1..3 /\ 3 \in Nat /\ 3 \in 1..3 /\ chain[3][1]
  OBVIOUS
<1>2. PICK c \in 1..3 : FirstOf(chain) = chain[c][2]
  <2> HIDE DEF chain
  <2> QED BY <1>1, FirstHolds, Zenon
<1>3. handleSubmission(form) = chain[c][2]
  BY <1>2, Zenon DEF handleSubmission
<1>4. chain[1][2].kind \in Kinds /\ chain[2][2].kind \in Kinds /\ chain[3][2].kind \in Kinds
  BY DEF Kinds
<1> HIDE DEF chain
<1> QED BY <1>3, <1>4

LEMMA AskedKind ==
  ASSUME NEW what \in WhatIsAsked
  PROVE  what.kind \in Kinds
<1>1. \A p \in EnrollProvider : pickerAction(p).kind \in Kinds
  BY DEF pickerAction, Kinds
<1>2. perUserCall("salesforce").kind \in Kinds
  BY DEF perUserCall, Kinds
<1> QED BY <1>1, <1>2, CommandKind, SubmissionKind DEF WhatIsAsked

\* What was true of some files is true of more.
LEMMA TrueOfMore ==
  ASSUME NEW ask, NEW past, NEW more, past \subseteq more,
         RepliedTruly(ask, past), ToldTruly(ask, past)
  PROVE  RepliedTruly(ask, more) /\ ToldTruly(ask, more)
<1>1. \A k, v : HadIn(past, k, v) => HadIn(more, k, v)
  BY DEF HadIn
<1>2. \A k : LackedIn(past, k) => LackedIn(more, k)
  BY DEF LackedIn
<1>3. \A by : (SomeIn(past, by) => SomeIn(more, by)) /\ (NoneIn(past, by) => NoneIn(more, by))
  BY DEF SomeIn, NoneIn
<1>4. RepliedTruly(ask, more)
  BY <1>1, <1>2, <1>3 DEF RepliedTruly
<1>5. ToldTruly(ask, more)
  BY <1>1, <1>2, <1>3 DEF ToldTruly
<1> QED BY <1>4, <1>5

\* One ask changes; the others live through the same files, or one more.
LEMMA OneAskChanges ==
  ASSUME CredInv, NEW a \in Ask, NEW q \in Asked,
         asks' \in [Ask -> Unasked \cup Asked], asks'[a] = q,
         \A x \in Ask \ {a} : asks'[x] = asks[x],
         DOMAIN seen' = Ask,
         \A x \in Ask \ {a} : asks[x].stage # "idle" => seen[x] \subseteq seen'[x] /\ creds' \in seen'[x],
         creds' \in seen'[a],
         \A k \in DOMAIN creds' : creds'[k] \in Secrets,
         q.stage \in {"asked", "served"} => NeedsVault(q.what),
         RepliedTruly(q, seen'[a]), ToldTruly(q, seen'[a])
  PROVE  CredInv'
<1>1. CredTypes'
  BY DEF CredInv, CredTypes, NeedsVault
<1>2. FileSeen'
  BY DEF CredInv, FileSeen
<1>3. ASSUME NEW x \in Ask \ {a} PROVE RepliedTruly(asks[x], seen'[x]) /\ ToldTruly(asks[x], seen'[x])
  <2>1. CASE asks[x].stage = "idle"
    BY <2>1 DEF RepliedTruly, ToldTruly
  <2>2. CASE asks[x].stage # "idle"
    BY <2>2, TrueOfMore DEF CredInv
  <2> QED BY <2>1, <2>2
<1>4. \A x \in Ask : RepliedTruly(asks'[x], seen'[x]) /\ ToldTruly(asks'[x], seen'[x])
  BY <1>3
<1>5. (\A x \in Ask : RepliedTruly(asks[x], seen[x]) /\ ToldTruly(asks[x], seen[x]))'
  BY <1>4
<1> QED BY <1>1, <1>2, <1>5 DEF CredInv

\* The vault's answer is written, or what the person is told.
LEMMA ReplyWritten ==
  ASSUME CredTypes, NEW a \in Ask, asks[a].stage # "idle", NEW r \in Replies,
         asks' = [asks EXCEPT ![a].stage = "served", ![a].reply = r]
  PROVE  /\ asks'[a] \in Asked /\ asks' \in [Ask -> Unasked \cup Asked]
         /\ \A x \in Ask \ {a} : asks'[x] = asks[x]
         /\ asks'[a].stage = "served" /\ asks'[a].reply = r
         /\ asks'[a].by = asks[a].by /\ asks'[a].what = asks[a].what
<1>1. asks[a] \in Asked /\ asks \in [Ask -> Unasked \cup Asked]
  BY DEF CredTypes, Unasked
<1> DEFINE q == [asks[a] EXCEPT !.stage = "served", !.reply = r]
<1>2. asks' = [asks EXCEPT ![a] = q]
  BY <1>1
<1>3. /\ q \in Asked /\ q.stage = "served" /\ q.reply = r
      /\ q.by = asks[a].by /\ q.what = asks[a].what
  BY <1>1 DEF Asked
<1> HIDE DEF q
<1> QED BY <1>1, <1>2, <1>3

LEMMA ToldWritten ==
  ASSUME CredTypes, NEW a \in Ask, asks[a].stage # "idle", NEW t \in Sentences,
         asks' = [asks EXCEPT ![a].stage = "told", ![a].told = t]
  PROVE  /\ asks'[a] \in Asked /\ asks' \in [Ask -> Unasked \cup Asked]
         /\ \A x \in Ask \ {a} : asks'[x] = asks[x]
         /\ asks'[a].stage = "told" /\ asks'[a].told = t
         /\ asks'[a].by = asks[a].by /\ asks'[a].what = asks[a].what /\ asks'[a].reply = asks[a].reply
<1>1. asks[a] \in Asked /\ asks \in [Ask -> Unasked \cup Asked]
  BY DEF CredTypes, Unasked
<1> DEFINE q == [asks[a] EXCEPT !.stage = "told", !.told = t]
<1>2. asks' = [asks EXCEPT ![a] = q]
  BY <1>1
<1>3. /\ q \in Asked /\ q.stage = "told" /\ q.told = t
      /\ q.by = asks[a].by /\ q.what = asks[a].what /\ q.reply = asks[a].reply
  BY <1>1 DEF Asked
<1> HIDE DEF q
<1> QED BY <1>1, <1>2, <1>3

LEMMA ReceiveAskKeeps ==
  ASSUME CredInv, NEW a \in Ask, NEW by \in Person, NEW what \in WhatIsAsked, ReceiveAsk(a, by, what)
  PROVE  CredInv'
<1> DEFINE stage == IF NeedsVault(what) THEN "asked" ELSE IF what.kind = "modal" THEN "opening" ELSE "told"
           told == IF NeedsVault(what) \/ what.kind = "modal" THEN "" ELSE what.kind
           q == [by |-> by, what |-> what, reply |-> "", stage |-> stage, told |-> told]
<1>0. CredTypes /\ FileSeen
  BY DEF CredInv
<1>1. what.kind \in Kinds
  BY AskedKind
<1>2. /\ stage \in {"asked", "opening", "told"}
      /\ stage = "asked" => NeedsVault(what)
      /\ told \in Sentences
      /\ told \notin {"saved", "removed", "nothing to disconnect", "enroll", "called",
                     "connected", "nothing connected yet"}
  BY <1>1 DEF Kinds, Sentences
<1>3. asks' = [asks EXCEPT ![a] = q] /\ seen' = [seen EXCEPT ![a] = {creds}] /\ creds' = creds
  BY Zenon DEF ReceiveAsk
<1> HIDE DEF stage, told
<1>4. q \in Asked /\ q.stage = stage /\ q.what = what /\ q.told = told
  BY <1>2 DEF Asked, Replies
<1> HIDE DEF q
<1>5. /\ asks' \in [Ask -> Unasked \cup Asked] /\ asks'[a] = q
      /\ \A x \in Ask \ {a} : asks'[x] = asks[x]
      /\ DOMAIN seen' = Ask /\ seen'[a] = {creds} /\ \A x \in Ask \ {a} : seen'[x] = seen[x]
  BY <1>0, <1>3, <1>4 DEF CredTypes
<1>6. RepliedTruly(q, seen'[a]) /\ ToldTruly(q, seen'[a])
  BY <1>2, <1>4 DEF RepliedTruly, ToldTruly
<1>7. \A x \in Ask \ {a} : asks[x].stage # "idle" => creds \in seen[x]
  BY <1>0 DEF FileSeen
<1>8. \A k \in DOMAIN creds' : creds'[k] \in Secrets
  BY <1>0, <1>3 DEF FileSeen
<1> QED BY <1>2, <1>3, <1>4, <1>5, <1>6, <1>7, <1>8, OneAskChanges

\* The file that is saved is one more that every open ask has lived through.
LEMMA SavedSeen ==
  ASSUME CredInv, NEW file, Saved(file)
  PROVE  /\ creds' = file /\ DOMAIN seen' = Ask
         /\ \A x \in Ask : asks[x].stage # "idle" => seen[x] \subseteq seen'[x] /\ file \in seen'[x]
BY DEF Saved

\* An answer of the vault, with the file as it is before and after.
LEMMA ServedKeeps ==
  ASSUME CredInv, NEW a \in Ask, asks[a].stage \in {"asked", "served"}, NEW r \in Replies,
         asks' = [asks EXCEPT ![a].stage = "served", ![a].reply = r],
         NEW file, \A k \in DOMAIN file : file[k] \in Secrets,
         \/ Saved(file)
         \/ UNCHANGED <<creds, seen>> /\ file = creds,
         asks[a].what.kind = "put" /\ r = "ok" => KeyOf(asks[a]) \in DOMAIN file /\ file[KeyOf(asks[a])] = asks[a].what.value,
         asks[a].what.kind = "delete" /\ r = "ok" =>
            /\ KeyOf(asks[a]) \notin DOMAIN file
            /\ KeyOf(asks[a]) \in DOMAIN creds,
         asks[a].what.kind \in {"delete", "get"} /\ r = "not_found" => KeyOf(asks[a]) \notin DOMAIN file,
         asks[a].what.kind = "get" /\ r \notin {"not_found", "no answer", "answer lost"} =>
            KeyOf(asks[a]) \in DOMAIN file /\ file[KeyOf(asks[a])] = r,
         asks[a].what.kind = "list" /\ r = "some" =>
            \E p \in EnrollProvider : <<asks[a].by, p>> \in DOMAIN file,
         asks[a].what.kind = "list" /\ r = "none" =>
            \A p \in EnrollProvider : <<asks[a].by, p>> \notin DOMAIN file
  PROVE  CredInv'
<1>0. CredTypes /\ FileSeen /\ creds \in seen[a] /\ \A k \in DOMAIN creds : creds[k] \in Secrets
  BY DEF CredInv, FileSeen
<1> DEFINE q == asks'[a]
           key == KeyOf(asks[a])
<1>1. /\ q \in Asked /\ asks' \in [Ask -> Unasked \cup Asked]
      /\ \A x \in Ask \ {a} : asks'[x] = asks[x]
      /\ q.stage = "served" /\ q.reply = r /\ q.by = asks[a].by /\ q.what = asks[a].what
  BY <1>0, ReplyWritten
<1>2. /\ creds' = file /\ DOMAIN seen' = Ask
      /\ \A x \in Ask : asks[x].stage # "idle" => seen[x] \subseteq seen'[x] /\ file \in seen'[x]
  <2>1. CASE Saved(file)
    BY <2>1, SavedSeen
  <2>2. CASE UNCHANGED <<creds, seen>> /\ file = creds
    BY <1>0, <2>2 DEF CredTypes, FileSeen
  <2> QED BY <2>1, <2>2
<1>3. KeyOf(q) = key
  BY <1>1 DEF KeyOf
<1>4. file \in seen'[a] /\ creds \in seen'[a]
  BY <1>0, <1>2
<1> HIDE DEF q, key
<1>5. RepliedTruly(q, seen'[a])
  <2>1. q.what.kind = "put" /\ r = "ok" => HadIn(seen'[a], key, q.what.value)
    BY <1>1, <1>4 DEF HadIn, key
  <2>2. q.what.kind = "delete" /\ r = "ok" =>
           LackedIn(seen'[a], key) /\ \E v \in Secrets : HadIn(seen'[a], key, v)
    <3> SUFFICES ASSUME q.what.kind = "delete", r = "ok"
                 PROVE  LackedIn(seen'[a], key) /\ \E v \in Secrets : HadIn(seen'[a], key, v)
      OBVIOUS
    <3>1. LackedIn(seen'[a], key)
      BY <1>1, <1>4 DEF LackedIn, key
    <3>2. key \in DOMAIN creds /\ creds[key] \in Secrets
      BY <1>0, <1>1 DEF key
    <3>3. HadIn(seen'[a], key, creds[key])
      BY <1>4, <3>2 DEF HadIn
    <3> QED BY <3>1, <3>2, <3>3
  <2>3. q.what.kind \in {"delete", "get"} /\ r = "not_found" => LackedIn(seen'[a], key)
    BY <1>1, <1>4 DEF LackedIn, key
  <2>4. q.what.kind = "get" /\ r \notin {"not_found", "no answer", "answer lost"} => HadIn(seen'[a], key, r)
    BY <1>1, <1>4 DEF HadIn, key
  <2>5. /\ q.what.kind = "list" /\ r = "some" => SomeIn(seen'[a], q.by)
        /\ q.what.kind = "list" /\ r = "none" => NoneIn(seen'[a], q.by)
    BY <1>1, <1>4 DEF SomeIn, NoneIn
  <2> QED BY <1>1, <1>3, <2>1, <2>2, <2>3, <2>4, <2>5 DEF RepliedTruly
<1>6. ToldTruly(q, seen'[a])
  BY <1>1 DEF ToldTruly
<1>7. NeedsVault(q.what)
  BY <1>0, <1>1 DEF CredTypes
<1>8. asks[a].stage # "idle"
  OBVIOUS
<1> QED BY <1>1, <1>2, <1>4, <1>5, <1>6, <1>7, OneAskChanges DEF q

\* The file with a record more, and with one less.
WithKey(k, v) == [x \in DOMAIN creds \cup {k} |-> IF x = k THEN v ELSE creds[x]]
WithoutKey(k) == [x \in DOMAIN creds \ {k} |-> creds[x]]

LEMMA FilesOfSecrets ==
  ASSUME \A k \in DOMAIN creds : creds[k] \in Secrets, NEW key, NEW v \in Secrets
  PROVE  /\ \A k \in DOMAIN WithKey(key, v) : WithKey(key, v)[k] \in Secrets
         /\ \A k \in DOMAIN WithoutKey(key) : WithoutKey(key)[k] \in Secrets
         /\ key \in DOMAIN WithKey(key, v) /\ WithKey(key, v)[key] = v
         /\ key \notin DOMAIN WithoutKey(key)
BY DEF WithKey, WithoutKey

LEMMA PutKeeps ==
  ASSUME CredInv, NEW a \in Ask, vaultPut(a)
  PROVE  CredInv'
<1>0. \A k \in DOMAIN creds : creds[k] \in Secrets
  BY DEF CredInv, FileSeen
<1>1. asks[a].stage = "asked" /\ asks[a].what.kind = "put"
  BY DEF vaultPut
<1>2. CASE validateCred(asks[a].what)
  <2>1. asks[a].what.value \in Secrets
    BY <1>2 DEF validateCred
  <2>2. Saved(WithKey(KeyOf(asks[a]), asks[a].what.value))
    BY <1>2 DEF vaultPut, WithKey, KeyOf, Key
  <2>3. asks' = [asks EXCEPT ![a].stage = "served", ![a].reply = "ok"]
    BY <1>2 DEF vaultPut, Reply
  <2> DEFINE file == WithKey(KeyOf(asks[a]), asks[a].what.value)
  <2>4. /\ \A k \in DOMAIN file : file[k] \in Secrets
        /\ KeyOf(asks[a]) \in DOMAIN file /\ file[KeyOf(asks[a])] = asks[a].what.value
    BY <1>0, <2>1, FilesOfSecrets
  <2>5. Saved(file) /\ "ok" \in Replies
    BY <2>2 DEF Replies
  <2> HIDE DEF file
  <2> QED BY <1>1, <2>3, <2>4, <2>5, ServedKeeps
<1>3. CASE ~validateCred(asks[a].what)
  <2>1. asks' = [asks EXCEPT ![a].stage = "served", ![a].reply = "rejected"] /\ UNCHANGED <<creds, seen>>
    BY <1>3 DEF vaultPut, Reply
  <2>2. "rejected" \in Replies
    BY DEF Replies
  <2> QED BY <1>0, <1>1, <2>1, <2>2, ServedKeeps
<1> QED BY <1>2, <1>3

LEMMA DeleteKeeps ==
  ASSUME CredInv, NEW a \in Ask, vaultDelete(a)
  PROVE  CredInv'
<1> DEFINE key == KeyOf(asks[a])
<1>0. \A k \in DOMAIN creds : creds[k] \in Secrets
  BY DEF CredInv, FileSeen
<1>1. asks[a].stage = "asked" /\ asks[a].what.kind = "delete"
  BY DEF vaultDelete
<1>2. CASE key \in DOMAIN creds
  <2>1. Saved(WithoutKey(key))
    BY <1>2 DEF vaultDelete, WithoutKey, KeyOf, Key
  <2>2. asks' = [asks EXCEPT ![a].stage = "served", ![a].reply = "ok"]
    BY <1>2 DEF vaultDelete, Reply, KeyOf, Key
  <2>3. \A k \in DOMAIN WithoutKey(key) : WithoutKey(key)[k] \in Secrets
    BY <1>0 DEF WithoutKey
  <2>4. key \notin DOMAIN WithoutKey(key)
    BY DEF WithoutKey
  <2> QED BY <1>1, <1>2, <2>1, <2>2, <2>3, <2>4, ServedKeeps DEF Replies
<1>3. CASE key \notin DOMAIN creds
  <2>1. asks' = [asks EXCEPT ![a].stage = "served", ![a].reply = "not_found"] /\ UNCHANGED <<creds, seen>>
    BY <1>3 DEF vaultDelete, Reply, KeyOf, Key
  <2>2. "not_found" \in Replies
    BY DEF Replies
  <2> QED BY <1>0, <1>1, <1>3, <2>1, <2>2, ServedKeeps
<1> QED BY <1>2, <1>3

\* "not_found" is the vault's word for the absence of a record, and no record of it.
LEMMA GetKeeps ==
  ASSUME CredInv, "not_found" \notin Secrets, NEW a \in Ask, vaultGet(a)
  PROVE  CredInv'
<1> DEFINE key == KeyOf(asks[a])
           r == IF key \in DOMAIN creds THEN creds[key] ELSE "not_found"
<1>0. \A k \in DOMAIN creds : creds[k] \in Secrets
  BY DEF CredInv, FileSeen
<1>1. asks[a].stage = "asked" /\ asks[a].what.kind = "get" /\ UNCHANGED <<creds, seen>>
  BY DEF vaultGet
<1>2. asks' = [asks EXCEPT ![a].stage = "served", ![a].reply = r]
  BY DEF vaultGet, Reply, KeyOf, Key
<1>3. r \in Replies
  BY <1>0 DEF Replies
<1>4. r = "not_found" => key \notin DOMAIN creds
  BY <1>0
<1>5. r # "not_found" => key \in DOMAIN creds /\ creds[key] = r
  OBVIOUS
<1> HIDE DEF r
<1> QED BY <1>0, <1>1, <1>2, <1>3, <1>4, <1>5, ServedKeeps

LEMMA ListKeeps ==
  ASSUME CredInv, NEW a \in Ask, listByUser(a)
  PROVE  CredInv'
<1> DEFINE r == IF \E p \in EnrollProvider : <<asks[a].by, p>> \in DOMAIN creds THEN "some" ELSE "none"
<1>0. \A k \in DOMAIN creds : creds[k] \in Secrets
  BY DEF CredInv, FileSeen
<1>1. asks[a].stage = "asked" /\ asks[a].what.kind = "list" /\ UNCHANGED <<creds, seen>>
  BY DEF listByUser
<1>2. asks' = [asks EXCEPT ![a].stage = "served", ![a].reply = r]
  BY DEF listByUser, Reply
<1>3. /\ r \in {"some", "none"}
      /\ r = "some" => \E p \in EnrollProvider : <<asks[a].by, p>> \in DOMAIN creds
      /\ r = "none" => \A p \in EnrollProvider : <<asks[a].by, p>> \notin DOMAIN creds
  OBVIOUS
<1> HIDE DEF r
<1> QED BY <1>0, <1>1, <1>2, <1>3, ServedKeeps DEF Replies

LEMMA NoAnswerKeeps ==
  ASSUME CredInv, NEW a \in Ask, NoAnswer(a)
  PROVE  CredInv'
<1> DEFINE r == IF asks[a].reply = "" THEN "no answer" ELSE "answer lost"
<1>0. CredTypes /\ \A k \in DOMAIN creds : creds[k] \in Secrets
  BY DEF CredInv, FileSeen
<1>1. asks[a].stage \in {"asked", "served"} /\ UNCHANGED <<creds, seen>>
  BY DEF NoAnswer
<1>2. asks' = [asks EXCEPT ![a].stage = "served", ![a].reply = r]
  <2>1. asks[a] \in Asked
    BY <1>0, <1>1 DEF CredTypes, Unasked
  <2>2. asks' = [asks EXCEPT ![a].stage = "served", ![a].reply = IF @ = "" THEN "no answer" ELSE "answer lost"]
    BY DEF NoAnswer
  <2> QED BY <1>0, <2>1, <2>2 DEF CredTypes, Asked
<1>3. r \in {"no answer", "answer lost"}
  OBVIOUS
<1> HIDE DEF r
<1> QED BY <1>0, <1>1, <1>2, <1>3, ServedKeeps DEF Replies

\* Nobody's answer changes, but the file does.
LEMMA LateEffectKeeps ==
  ASSUME CredInv, NEW a \in Ask, LateEffect(a)
  PROVE  CredInv'
<1>0. CredTypes /\ \A k \in DOMAIN creds : creds[k] \in Secrets
  BY DEF CredInv, FileSeen
<1>1. asks' = asks /\ asks[a].stage \in {"served", "told"}
  BY DEF LateEffect
<1>2. \E file : Saved(file) /\ \A k \in DOMAIN file : file[k] \in Secrets
  <2>1. CASE /\ validateCred(asks[a].what)
             /\ Saved(WithKey(KeyOf(asks[a]), asks[a].what.value))
    <3>1. asks[a].what.value \in Secrets
      BY <2>1 DEF validateCred
    <3> QED BY <1>0, <2>1, <3>1, FilesOfSecrets
  <2>2. CASE Saved(WithoutKey(KeyOf(asks[a])))
    <3>1. \A k \in DOMAIN WithoutKey(KeyOf(asks[a])) : WithoutKey(KeyOf(asks[a]))[k] \in Secrets
      BY <1>0 DEF WithoutKey
    <3> QED BY <2>2, <3>1
  <2> QED BY <2>1, <2>2 DEF LateEffect, WithKey, WithoutKey, KeyOf, Key
<1>3. PICK file : Saved(file) /\ \A k \in DOMAIN file : file[k] \in Secrets
  BY <1>2
<1>4. /\ creds' = file /\ DOMAIN seen' = Ask
      /\ \A x \in Ask : asks[x].stage # "idle" => seen[x] \subseteq seen'[x] /\ file \in seen'[x]
  BY <1>3, SavedSeen
<1>5. asks[a] \in Asked /\ asks \in [Ask -> Unasked \cup Asked]
  BY <1>0, <1>1 DEF CredTypes, Unasked
<1>6. asks[a].stage \in {"asked", "served"} => NeedsVault(asks[a].what)
  BY <1>0 DEF CredTypes
<1>7. RepliedTruly(asks[a], seen'[a]) /\ ToldTruly(asks[a], seen'[a])
  BY <1>1, <1>4, TrueOfMore DEF CredInv
<1>8. asks[a].stage # "idle"
  BY <1>1
<1> QED BY <1>1, <1>3, <1>4, <1>5, <1>6, <1>7, <1>8, OneAskChanges

LEMMA TellKeeps ==
  ASSUME CredInv, NEW a \in Ask, Tell(a)
  PROVE  CredInv'
<1> DEFINE q == asks'[a]
           t == Sentence(asks[a].what, asks[a].reply)
<1>0. CredTypes /\ FileSeen /\ RepliedTruly(asks[a], seen[a]) /\ NeedsVault(asks[a].what) /\ DOMAIN seen = Ask
  BY DEF CredInv, CredTypes, Tell
<1>1. asks[a].stage = "served" /\ asks' = [asks EXCEPT ![a].stage = "told", ![a].told = t] /\ UNCHANGED <<creds, seen>>
  BY DEF Tell
<1>2. asks[a].what.kind \in {"list", "delete", "put", "get"}
  BY <1>0 DEF NeedsVault
<1>3. /\ t \in Sentences
      /\ t = "saved" => asks[a].what.kind = "put" /\ asks[a].reply = "ok"
      /\ t = "removed" => asks[a].what.kind = "delete" /\ asks[a].reply = "ok"
      /\ t \in {"nothing to disconnect", "enroll"} =>
            asks[a].what.kind \in {"delete", "get"} /\ asks[a].reply = "not_found"
      /\ t = "called" => asks[a].what.kind = "get" /\ asks[a].reply \notin {"not_found", "no answer", "answer lost"}
      /\ t = "connected" => asks[a].what.kind = "list" /\ asks[a].reply = "some"
      /\ t = "nothing connected yet" => asks[a].what.kind = "list"
  BY <1>2 DEF Sentence, Sentences
<1> HIDE DEF t
<1>4. /\ q \in Asked /\ asks' \in [Ask -> Unasked \cup Asked]
      /\ \A x \in Ask \ {a} : asks'[x] = asks[x]
      /\ q.stage = "told" /\ q.told = t
      /\ q.by = asks[a].by /\ q.what = asks[a].what /\ q.reply = asks[a].reply
  BY <1>0, <1>1, <1>3, ToldWritten
<1> HIDE DEF q
<1>5. ToldTruly(q, seen[a])
  <2>1. KeyOf(q) = KeyOf(asks[a])
    BY <1>4 DEF KeyOf
  <2> QED BY <1>0, <1>1, <1>3, <1>4, <2>1 DEF RepliedTruly, ToldTruly
<1>6. RepliedTruly(q, seen[a])
  BY <1>4 DEF RepliedTruly
<1>7. \A x \in Ask : asks[x].stage # "idle" => creds \in seen[x]
  BY <1>0 DEF FileSeen
<1>8. \A k \in DOMAIN creds : creds[k] \in Secrets
  BY <1>0 DEF FileSeen
<1> QED BY <1>0, <1>1, <1>4, <1>5, <1>6, <1>7, <1>8, OneAskChanges DEF q

LEMMA ModalKeeps ==
  ASSUME CredInv, NEW a \in Ask, NEW ok \in BOOLEAN, openEnrollmentModal(a, ok)
  PROVE  CredInv'
<1> DEFINE q == asks'[a]
           t == IF ok THEN "form" ELSE "could not open"
<1>0. CredTypes /\ FileSeen /\ DOMAIN seen = Ask
  BY DEF CredInv, CredTypes
<1>1. asks[a].stage = "opening" /\ asks' = [asks EXCEPT ![a].stage = "told", ![a].told = t] /\ UNCHANGED <<creds, seen>>
  BY DEF openEnrollmentModal
<1>2. t \in Sentences /\ t \in {"form", "could not open"}
  BY DEF Sentences
<1> HIDE DEF t
<1>3. /\ q \in Asked /\ asks' \in [Ask -> Unasked \cup Asked]
      /\ \A x \in Ask \ {a} : asks'[x] = asks[x]
      /\ q.stage = "told" /\ q.told = t
  BY <1>0, <1>1, <1>2, ToldWritten
<1> HIDE DEF q
<1>4. RepliedTruly(q, seen[a]) /\ ToldTruly(q, seen[a])
  BY <1>2, <1>3 DEF RepliedTruly, ToldTruly
<1>5. \A x \in Ask : asks[x].stage # "idle" => creds \in seen[x]
  BY <1>0 DEF FileSeen
<1>6. \A k \in DOMAIN creds : creds[k] \in Secrets
  BY <1>0 DEF FileSeen
<1> QED BY <1>0, <1>1, <1>3, <1>4, <1>5, <1>6, OneAskChanges DEF q

LEMMA CredQuiet ==
  ASSUME CredInv, UNCHANGED <<asks, creds, seen>>
  PROVE  CredInv'
BY DEF CredInv, CredTypes, FileSeen

LEMMA CredInitInv ==
  CredInit => CredInv
<1> SUFFICES ASSUME CredInit PROVE CredInv
  OBVIOUS
<1>1. /\ asks = [a \in Ask |-> [stage |-> "idle", what |-> [kind |-> "nothing"], reply |-> "", told |-> ""]]
      /\ creds = <<>> /\ seen = [a \in Ask |-> {}]
  BY DEF CredInit
<1>2. [stage |-> "idle", what |-> [kind |-> "nothing"], reply |-> "", told |-> ""] \in Unasked
  BY DEF Unasked
<1>3. CredTypes
  BY <1>1, <1>2 DEF CredTypes
<1>4. FileSeen
  <2>0. creds = <<>>
    BY <1>1
  <2>1. DOMAIN creds = {}
    BY <2>0
  <2>2. \A a \in Ask : asks[a].stage = "idle"
    BY <1>1
  <2> QED BY <2>1, <2>2 DEF FileSeen
<1>5. \A a \in Ask : RepliedTruly(asks[a], seen[a]) /\ ToldTruly(asks[a], seen[a])
  BY <1>1 DEF RepliedTruly, ToldTruly
<1> QED BY <1>3, <1>4, <1>5 DEF CredInv

LEMMA CredStep ==
  ASSUME "not_found" \notin Secrets
  PROVE  CredInv /\ [CredNext]_credVars => CredInv'
<1> SUFFICES ASSUME CredInv, [CredNext]_credVars PROVE CredInv'
  OBVIOUS
<1>1. ASSUME NEW a \in Ask, NEW by \in Person, NEW what \in WhatIsAsked, ReceiveAsk(a, by, what) PROVE CredInv'
  BY <1>1, ReceiveAskKeeps
<1>2. ASSUME NEW a \in Ask, NEW ok \in BOOLEAN, openEnrollmentModal(a, ok) PROVE CredInv'
  BY <1>2, ModalKeeps
<1>3. ASSUME NEW a \in Ask, vaultPut(a) PROVE CredInv'
  BY <1>3, PutKeeps
<1>4. ASSUME NEW a \in Ask, vaultDelete(a) PROVE CredInv'
  BY <1>4, DeleteKeeps
<1>5. ASSUME NEW a \in Ask, vaultGet(a) PROVE CredInv'
  BY <1>5, GetKeeps
<1>6. ASSUME NEW a \in Ask, listByUser(a) PROVE CredInv'
  BY <1>6, ListKeeps
<1>7. ASSUME NEW a \in Ask, NoAnswer(a) PROVE CredInv'
  BY <1>7, NoAnswerKeeps
<1>8. ASSUME NEW a \in Ask, LateEffect(a) PROVE CredInv'
  BY <1>8, LateEffectKeeps
<1>9. ASSUME NEW a \in Ask, Tell(a) PROVE CredInv'
  BY <1>9, TellKeeps
<1>10. CASE VaultStops \/ VaultStarts
  BY <1>10, CredQuiet DEF VaultStops, VaultStarts
<1>11. CASE UNCHANGED credVars
  BY <1>11, CredQuiet DEF credVars
<1> QED BY <1>1, <1>2, <1>3, <1>4, <1>5, <1>6, <1>7, <1>8, <1>9, <1>10, <1>11 DEF CredNext

\* Saved, removed, nothing to remove, not enrolled, the credentials a tool was called
\* with, and, when the vault answered, connected or not: what a person is told the vault
\* has was so at some moment since they asked (vault-client.ts, enrollment.ts), for any
\* number of people, asks and failures of the vault.
THEOREM CredentialAnswersTrue == CredSpec => []AnswersTrue
<1>1. CredInv => AnswersTrue
  <2> SUFFICES ASSUME CredInv, NEW a \in Ask, asks[a].stage = "told"
               PROVE  /\ asks[a].told = "saved" => Had(a, Key(a), asks[a].what.value)
                      /\ asks[a].told = "removed" => Lacked(a, Key(a)) /\ \E v \in Secrets : Had(a, Key(a), v)
                      /\ asks[a].told \in {"nothing to disconnect", "enroll"} => Lacked(a, Key(a))
                      /\ asks[a].told = "called" => Had(a, Key(a), asks[a].reply)
                      /\ asks[a].told = "connected" => Connected(a)
                      /\ asks[a].told = "nothing connected yet" /\ asks[a].reply = "none" => Unconnected(a)
    BY DEF AnswersTrue
  <2>1. ToldTruly(asks[a], seen[a])
    BY DEF CredInv
  <2>2. Key(a) = KeyOf(asks[a])
    BY DEF Key, KeyOf
  <2>3. /\ \A k, v : Had(a, k, v) <=> HadIn(seen[a], k, v)
        /\ \A k : Lacked(a, k) <=> LackedIn(seen[a], k)
    BY DEF Had, HadIn, Lacked, LackedIn
  <2>4. /\ Connected(a) <=> SomeIn(seen[a], asks[a].by)
        /\ Unconnected(a) <=> NoneIn(seen[a], asks[a].by)
    BY DEF Connected, Unconnected, SomeIn, NoneIn
  <2> QED BY <2>1, <2>2, <2>3, <2>4 DEF ToldTruly
<1> QED BY <1>1, CredInitInv, CredStep, CredAssumption, PTL DEF CredSpec

-----------------------------------------------------------------------------
(***************************************************************************)
(* Progress messages                                                       *)
(***************************************************************************)

\* Maps of entries: an entry more, entries less.
LEMMA MapsOfEntries ==
  ASSUME NEW f \in Maps
  PROVE  /\ DOMAIN f \subseteq Nat /\ \A n \in DOMAIN f : f[n] \in Statuses
         /\ \A S : Without(f, S) \in Maps /\ DOMAIN Without(f, S) = DOMAIN f \ S
                   /\ \A n \in DOMAIN f \ S : Without(f, S)[n] = f[n]
<1>1. PICK messages \in SUBSET Nat : f \in [messages -> Statuses]
  BY DEF Maps
<1>2. DOMAIN f = messages
  BY <1>1
<1>3. ASSUME NEW S
      PROVE  /\ Without(f, S) \in Maps /\ DOMAIN Without(f, S) = DOMAIN f \ S
             /\ \A n \in DOMAIN f \ S : Without(f, S)[n] = f[n]
  <2>1. Without(f, S) \in [messages \ S -> Statuses]
    BY <1>1, <1>2 DEF Without
  <2>2. messages \ S \in SUBSET Nat
    OBVIOUS
  <2>3. Without(f, S) \in Maps
    BY <2>1, <2>2 DEF Maps
  <2> QED BY <1>2, <2>3 DEF Without
<1> QED BY <1>1, <1>2, <1>3

\* What is evicted is an error.
LEMMA EvictedAreErrors ==
  ASSUME NEW f \in Maps
  PROVE  /\ evictExcessErrors(f) \in Maps
         /\ DOMAIN evictExcessErrors(f) \subseteq DOMAIN f
         /\ \A n \in DOMAIN f : n \in DOMAIN evictExcessErrors(f) \/ n \in Errors(f)
         /\ \A n \in DOMAIN evictExcessErrors(f) : evictExcessErrors(f)[n] = f[n]
<1> DEFINE X == {n \in Errors(f) : Cardinality({k \in Errors(f) : k > n}) >= ErrorsKept}
<1>1. X \subseteq Errors(f) /\ evictExcessErrors(f) = Without(f, X)
  BY DEF evictExcessErrors
<1> HIDE DEF X
<1>2. /\ Without(f, X) \in Maps /\ DOMAIN Without(f, X) = DOMAIN f \ X
      /\ \A n \in DOMAIN f \ X : Without(f, X)[n] = f[n]
  BY MapsOfEntries
<1> QED BY <1>1, <1>2

\* An update changes what a message says, and not which messages there are.
LEMMA ShowKeeps ==
  ASSUME slack \in Seq({"working", "done", "failed", "deleted"}),
         NEW m, NEW text \in {"working", "done", "failed"}, Show(m, text)
  PROVE  /\ slack' \in Seq({"working", "done", "failed", "deleted"})
         /\ DOMAIN slack' = DOMAIN slack /\ Visible' = Visible
<1>1. CASE slack' = slack
  BY <1>1 DEF Visible
<1>2. CASE slack[m] # "deleted" /\ slack' = [slack EXCEPT ![m] = text]
  <2>1. /\ slack' \in Seq({"working", "done", "failed", "deleted"})
        /\ DOMAIN slack' = DOMAIN slack
        /\ \A x \in DOMAIN slack : slack'[x] = IF x = m THEN text ELSE slack[x]
    <3>1. slack' = [x \in DOMAIN slack |-> IF x = m THEN text ELSE slack[x]]
      BY <1>2
    <3>2. DOMAIN slack = 1..Len(slack) /\ Len(slack) \in Nat
      OBVIOUS
    <3>3. slack' \in [1..Len(slack) -> {"working", "done", "failed", "deleted"}]
      BY <3>1, <3>2
    <3> QED BY <3>1, <3>2, <3>3
  <2>2. \A x \in DOMAIN slack : slack'[x] # "deleted" <=> slack[x] # "deleted"
    BY <1>2, <2>1
  <2> QED BY <2>1, <2>2 DEF Visible
<1> QED BY <1>1, <1>2 DEF Show

\* A stream goes on in another phase.
LEMMA GotoWritten ==
  ASSUME RelayTypes, NEW s \in Stream,
         NEW phase \in {"waiting", "reading", "posting", "updating", "finishing", "finished", "deleting",
                        "closed", "crossed"},
         StreamGoto(s, phase)
  PROVE  /\ streams' \in [Stream -> StreamRecords]
         /\ \A x \in Stream \ {s} : streams'[x] = streams[x]
         /\ streams'[s].phase = phase /\ streams'[s].id = streams[s].id
         /\ streams'[s].deleting = streams[s].deleting /\ streams'[s].thread = streams[s].thread
<1> DEFINE q == [streams[s] EXCEPT !.phase = phase]
<1>1. streams \in [Stream -> StreamRecords] /\ streams[s] \in StreamRecords
  BY DEF RelayTypes
<1>2. streams' = [streams EXCEPT ![s] = q]
  BY <1>1 DEF StreamGoto
<1>3. /\ q \in StreamRecords /\ q.phase = phase /\ q.id = streams[s].id
      /\ q.deleting = streams[s].deleting /\ q.thread = streams[s].thread
  BY <1>1 DEF StreamRecords
<1> HIDE DEF q
<1> QED BY <1>1, <1>2, <1>3

\* A stream that has not ended yet goes on: messages are posted, entries get their
\* status, and errors are put in them.
LEMMA RunsOn ==
  ASSUME RelayInv, NEW s \in Stream, streams[s].phase \notin {"deleting", "crossed"},
         streams' \in [Stream -> StreamRecords], Running(s)',
         streams'[s].deleting = streams[s].deleting,
         \A x \in Stream \ {s} : streams'[x] = streams[x],
         sessions' \in Seq(Sessions), active' \in 0..Len(sessions'), OwnerRuns',
         threads' \in Seq(Maps), DOMAIN threads \subseteq DOMAIN threads',
         mapped' \in 0..Len(threads'), mapped # 0 => mapped' = mapped,
         slack' \in Seq({"working", "done", "failed", "deleted"}), DOMAIN slack \subseteq DOMAIN slack',
         \A t \in DOMAIN threads' : DOMAIN threads'[t] \subseteq DOMAIN slack',
         slackFaults' \in Nat, slackFaults' >= slackFaults,
         marked \subseteq marked', ErrorsFailed',
         OldMapsEmpty => OldMapsEmpty',
         \A t \in DOMAIN threads : \A m \in DOMAIN threads[t] : m \in DOMAIN threads'[t] \/ m \in marked',
         \A m \in Visible' : m \in Visible \/ (m \notin DOMAIN slack /\ Registered(m)')
  PROVE  RelayInv'
<1>1. RelayTypes'
  BY DEF RelayInv, RelayTypes
<1>2. ASSUME NoneCrossed' PROVE OldMapsEmpty' /\ DeletesEntries' /\ WillGo'
  <2>1. NoneCrossed
    BY <1>2 DEF NoneCrossed, StreamAt
  <2>2. OldMapsEmpty /\ DeletesEntries /\ WillGo /\ RelayTypes
    BY <2>1 DEF RelayInv
  <2>3. DeletesEntries'
    <3> SUFFICES ASSUME NEW x \in Stream, streams'[x].phase = "deleting"
                 PROVE  /\ streams'[x].thread \in DOMAIN threads'
                        /\ \A m \in (streams'[x].deleting \cap Visible') \ marked' : m \in DOMAIN threads'[streams'[x].thread]
      BY DEF DeletesEntries, StreamAt
    <3>1. x # s
      BY DEF Running
    <3>2. streams'[x] = streams[x]
      BY <3>1
    <3>3. /\ streams[x].thread \in DOMAIN threads
          /\ \A m \in (streams[x].deleting \cap Visible) \ marked : m \in DOMAIN threads[streams[x].thread]
      BY <2>2, <3>2 DEF DeletesEntries, StreamAt
    <3>4. streams[x].deleting \subseteq DOMAIN slack
      BY <2>2 DEF RelayTypes
    <3> QED BY <3>2, <3>3, <3>4
  <2>4. WillGo'
    <3> SUFFICES ASSUME NEW m \in Visible', m \notin marked' PROVE Registered(m)'
      BY DEF WillGo
    <3>1. CASE m \in Visible
      <4>1. mapped # 0 /\ m \in DOMAIN threads[mapped] /\ mapped \in DOMAIN threads
        BY <2>2, <3>1 DEF WillGo, Registered, RelayTypes
      <4> QED BY <4>1 DEF Registered
    <3> QED BY <3>1
  <2> QED BY <2>2, <2>3, <2>4
<1> QED BY <1>1, <1>2 DEF RelayInv

\* The same, when only sessions change.
LEMMA RunsOnQuietly ==
  ASSUME RelayInv, NEW s \in Stream, streams[s].phase \notin {"deleting", "crossed"},
         streams' \in [Stream -> StreamRecords], Running(s)',
         streams'[s].deleting = streams[s].deleting,
         \A x \in Stream \ {s} : streams'[x] = streams[x],
         sessions' \in Seq(Sessions), active' \in 0..Len(sessions'), OwnerRuns',
         UNCHANGED <<threads, mapped, slack, marked, slackFaults>>
  PROVE  RelayInv'
<1>1. /\ threads \in Seq(Maps) /\ mapped \in 0..Len(threads)
      /\ slack \in Seq({"working", "done", "failed", "deleted"}) /\ slackFaults \in Nat
      /\ \A t \in DOMAIN threads : DOMAIN threads[t] \subseteq DOMAIN slack
  BY DEF RelayInv, RelayTypes
<1>2. ErrorsFailed' /\ (OldMapsEmpty => OldMapsEmpty') /\ Visible' = Visible /\ slackFaults' >= slackFaults
  BY <1>1 DEF RelayInv, ErrorsFailed, OldMapsEmpty, Visible
<1> QED BY <1>1, <1>2, RunsOn

\* The sessions with the one an event is for.
LEMMA FoundTyped ==
  ASSUME RelayTypes
  PROVE  /\ Found \in Seq(Sessions) /\ Target \in 1..Len(Found) /\ Target \in Nat
         /\ active # 0 => Found = sessions /\ Target = active
         /\ active = 0 => Found[Target].id = NoId
<1>1. sessions \in Seq(Sessions) /\ active \in 0..Len(sessions) /\ Len(sessions) \in Nat
  BY DEF RelayTypes
<1>2. CASE active # 0
  BY <1>1, <1>2 DEF Found, Target
<1>3. CASE active = 0
  <2>1. NewSession(NoId, {}) \in Sessions /\ NewSession(NoId, {}).id = NoId
    BY DEF NewSession, Sessions
  <2>2. Found = Append(sessions, NewSession(NoId, {})) /\ Target = Len(sessions) + 1
    BY <1>3 DEF Found, Target
  <2> QED BY <1>1, <1>3, <2>1, <2>2
<1> QED BY <1>2, <1>3

\* A session is written, but not its id.
LEMMA SessionWritten ==
  ASSUME NEW ss \in Seq(Sessions), NEW i \in 1..Len(ss), NEW q \in Sessions, q.id = ss[i].id,
         NEW tt, tt = [ss EXCEPT ![i] = q]
  PROVE  /\ tt \in Seq(Sessions) /\ Len(tt) = Len(ss)
         /\ \A j \in 1..Len(ss) : tt[j].id = ss[j].id
<1>1. tt \in Seq(Sessions) /\ Len(tt) = Len(ss)
  OBVIOUS
<1>2. \A j \in 1..Len(ss) : tt[j] = IF j = i THEN q ELSE ss[j]
  OBVIOUS
<1> QED BY <1>1, <1>2

\* The active session is the one found, or a new one that has no id; its stream still runs.
LEMMA OwnerStays ==
  ASSUME RelayInv, NEW s \in Stream, Running(s)', streams'[s].id = streams[s].id,
         \A x \in Stream \ {s} : streams'[x] = streams[x],
         sessions' \in Seq(Sessions), active' = Target,
         active # 0 => sessions'[active].id = sessions[active].id,
         active = 0 => sessions'[Target].id = NoId
  PROVE  OwnerRuns'
<1>1. CASE active = 0
  BY <1>1 DEF OwnerRuns
<1>2. CASE active # 0
  <2> SUFFICES ASSUME sessions'[active'].id # NoId
               PROVE  \E x \in Stream : Running(x)' /\ streams'[x].id = sessions'[active'].id
    BY DEF OwnerRuns
  <2>1. active' = active /\ sessions'[active'].id = sessions[active].id
    BY <1>2 DEF Target
  <2>2. PICK x \in Stream : Running(x) /\ streams[x].id = sessions[active].id
    BY <1>2, <2>1 DEF RelayInv, OwnerRuns
  <2>3. Running(x)'
    BY <2>2 DEF Running
  <2> QED BY <2>1, <2>2, <2>3
<1> QED BY <1>1, <1>2

\* A run that starts makes its session the active one.
LEMMA StartKeeps ==
  ASSUME RelayInv, NEW s \in Stream, Start(s)
  PROVE  RelayInv'
<1>a. PICK id \in SessionIds : /\ sessions' = Append(Abandoned, NewSession(id, {s}))
                               /\ streams' = [streams EXCEPT ![s].phase = "reading", ![s].id = id]
  BY DEF Start
<1> DEFINE new == NewSession(id, {s})
           q == [streams[s] EXCEPT !.phase = "reading", !.id = id]
<1>0. /\ RelayTypes /\ sessions \in Seq(Sessions) /\ active \in 0..Len(sessions) /\ Len(sessions) \in Nat
      /\ streams \in [Stream -> StreamRecords] /\ streams[s] \in StreamRecords
  BY DEF RelayInv, RelayTypes
<1>1. /\ streams[s].phase = "waiting" /\ sessions' = Append(Abandoned, new) /\ active' = Len(sessions')
      /\ UNCHANGED <<threads, mapped, slack, marked, slackFaults>>
  BY <1>a DEF Start, StreamAt
<1>2. new \in Sessions /\ new.id = id
  BY DEF NewSession, Sessions
<1>b. streams' = [streams EXCEPT ![s] = q]
  BY <1>a, <1>0
<1>c. q \in StreamRecords /\ q.phase = "reading" /\ q.id = id /\ q.deleting = streams[s].deleting
  BY <1>0 DEF StreamRecords
<1> HIDE DEF q
<1> HIDE DEF new
<1>3. Abandoned \in Seq(Sessions)
  <2>1. CASE active = 0
    BY <1>0, <2>1 DEF Abandoned
  <2>2. CASE active # 0
    <3>1. sessions[active] \in Sessions /\ active \in DOMAIN sessions
      BY <1>0, <2>2
    <3>2. [sessions[active] EXCEPT !.finished = TRUE] \in Sessions
      BY <3>1 DEF Sessions
    <3>3. Abandoned = [sessions EXCEPT ![active] = [sessions[active] EXCEPT !.finished = TRUE]]
      BY <2>2, <3>1 DEF Abandoned
    <3> QED BY <1>0, <3>1, <3>2, <3>3
  <2> QED BY <2>1, <2>2
<1>4. sessions' \in Seq(Sessions) /\ active' \in 0..Len(sessions') /\ sessions'[active'] = new
  BY <1>1, <1>2, <1>3
<1>5. /\ streams' \in [Stream -> StreamRecords] /\ streams'[s].phase = "reading" /\ streams'[s].id = id
      /\ streams'[s].deleting = streams[s].deleting
      /\ \A x \in Stream \ {s} : streams'[x] = streams[x]
  BY <1>0, <1>b, <1>c
<1>6. Running(s)'
  BY <1>5 DEF Running
<1>7. OwnerRuns'
  BY <1>2, <1>4, <1>5, <1>6 DEF OwnerRuns
<1> QED BY <1>1, <1>4, <1>5, <1>6, <1>7, RunsOnQuietly

LEMMA NoteKeeps ==
  ASSUME RelayInv, NEW s \in Stream, Note(s)
  PROVE  RelayInv'
<1> DEFINE q == [streams[s] EXCEPT !.tools = @ + 1]
<1>0. RelayTypes /\ streams \in [Stream -> StreamRecords] /\ streams[s] \in StreamRecords
  BY DEF RelayInv, RelayTypes
<1>1. /\ streams[s].phase = "reading" /\ sessions' = Found /\ active' = Target
      /\ UNCHANGED <<threads, mapped, slack, marked, slackFaults>>
  BY DEF Note, StreamAt
<1>2. streams' = [streams EXCEPT ![s] = q]
  BY <1>0 DEF Note
<1>3. q \in StreamRecords /\ q.phase = "reading" /\ q.id = streams[s].id /\ q.deleting = streams[s].deleting
  BY <1>0, <1>1 DEF StreamRecords
<1> HIDE DEF q
<1>4. streams' \in [Stream -> StreamRecords] /\ streams'[s] = q /\ \A x \in Stream \ {s} : streams'[x] = streams[x]
  BY <1>0, <1>2, <1>3
<1>5. Running(s)'
  BY <1>3, <1>4 DEF Running
<1>6. sessions' \in Seq(Sessions) /\ active' \in 0..Len(sessions')
  BY <1>0, <1>1, FoundTyped
<1>7. OwnerRuns'
  BY <1>0, <1>1, <1>3, <1>4, <1>5, <1>6, FoundTyped, OwnerStays
<1> QED BY <1>1, <1>3, <1>4, <1>5, <1>6, <1>7, RunsOnQuietly

LEMMA FlushKeeps ==
  ASSUME RelayInv, NEW s \in Stream, Flush(s)
  PROVE  RelayInv'
<1> DEFINE next == IF Found[Target].message # 0 THEN "updating" ELSE "posting"
           q == [streams[s] EXCEPT !.tools = @ + 1, !.session = Target, !.phase = next]
<1>0. RelayTypes /\ streams \in [Stream -> StreamRecords] /\ streams[s] \in StreamRecords
  BY DEF RelayInv, RelayTypes
<1>1. /\ streams[s].phase = "reading" /\ sessions' = [Found EXCEPT ![Target].met = TRUE] /\ active' = Target
      /\ UNCHANGED <<threads, mapped, slack, marked, slackFaults>>
  BY DEF Flush, StreamAt
<1>2. streams' = [streams EXCEPT ![s] = q]
  BY <1>0 DEF Flush
<1>3. next \in {"updating", "posting"}
  OBVIOUS
<1> HIDE DEF next
<1>4. q \in StreamRecords /\ q.phase = next /\ q.id = streams[s].id /\ q.deleting = streams[s].deleting
  <2>1. Target \in Nat
    BY <1>0, FoundTyped
  <2>2. streams[s].tools + 1 \in Nat
    BY <1>0 DEF StreamRecords
  <2> QED BY <1>0, <1>3, <2>1, <2>2 DEF StreamRecords
<1> HIDE DEF q
<1>5. streams' \in [Stream -> StreamRecords] /\ streams'[s] = q /\ \A x \in Stream \ {s} : streams'[x] = streams[x]
  BY <1>0, <1>2, <1>4
<1>6. Running(s)'
  BY <1>3, <1>4, <1>5 DEF Running
<1>7. /\ sessions' \in Seq(Sessions) /\ Len(sessions') = Len(Found)
      /\ \A j \in 1..Len(Found) : sessions'[j].id = Found[j].id
  <2> DEFINE f == [Found[Target] EXCEPT !.met = TRUE]
  <2>1. Found \in Seq(Sessions) /\ Target \in 1..Len(Found) /\ Found[Target] \in Sessions
    BY <1>0, FoundTyped
  <2>2. f \in Sessions /\ f.id = Found[Target].id
    BY <2>1 DEF Sessions
  <2>3. sessions' = [Found EXCEPT ![Target] = f]
    BY <1>1, <2>1
  <2> HIDE DEF f
  <2> QED BY <2>1, <2>2, <2>3, SessionWritten
<1>8. active' \in 0..Len(sessions') /\ Target \in 1..Len(Found)
  BY <1>0, <1>1, <1>7, FoundTyped
<1>9. OwnerRuns'
  BY <1>0, <1>1, <1>4, <1>5, <1>6, <1>7, <1>8, FoundTyped, OwnerStays
<1> QED BY <1>1, <1>4, <1>5, <1>6, <1>7, <1>8, <1>9, RunsOnQuietly

LEMMA FinishKeeps ==
  ASSUME RelayInv, NEW s \in Stream, NEW status \in {"completed", "error"}, Finish(s, status)
  PROVE  RelayInv'
<1> DEFINE next == IF ~Found[Target].finished /\ Found[Target].message # 0 THEN "finishing" ELSE "finished"
           q == [streams[s] EXCEPT !.session = Target, !.status = status, !.phase = next]
<1>0. RelayTypes /\ streams \in [Stream -> StreamRecords] /\ streams[s] \in StreamRecords
  BY DEF RelayInv, RelayTypes
<1>1. /\ streams[s].phase = "reading" /\ sessions' = [Found EXCEPT ![Target].finished = TRUE] /\ active' = Target
      /\ UNCHANGED <<threads, mapped, slack, marked, slackFaults>>
  BY DEF Finish, StreamAt
<1>2. streams' = [streams EXCEPT ![s] = q]
  BY <1>0 DEF Finish
<1>3. next \in {"finishing", "finished"}
  OBVIOUS
<1> HIDE DEF next
<1>4. q \in StreamRecords /\ q.phase = next /\ q.id = streams[s].id /\ q.deleting = streams[s].deleting
  BY <1>0, <1>3, FoundTyped DEF StreamRecords, Statuses
<1> HIDE DEF q
<1>5. streams' \in [Stream -> StreamRecords] /\ streams'[s] = q /\ \A x \in Stream \ {s} : streams'[x] = streams[x]
  BY <1>0, <1>2, <1>4
<1>6. Running(s)'
  BY <1>3, <1>4, <1>5 DEF Running
<1>7. /\ sessions' \in Seq(Sessions) /\ Len(sessions') = Len(Found)
      /\ \A j \in 1..Len(Found) : sessions'[j].id = Found[j].id
  <2> DEFINE f == [Found[Target] EXCEPT !.finished = TRUE]
  <2>1. Found \in Seq(Sessions) /\ Target \in 1..Len(Found) /\ Found[Target] \in Sessions
    BY <1>0, FoundTyped
  <2>2. f \in Sessions /\ f.id = Found[Target].id
    BY <2>1 DEF Sessions
  <2>3. sessions' = [Found EXCEPT ![Target] = f]
    BY <1>1, <2>1
  <2> HIDE DEF f
  <2> QED BY <2>1, <2>2, <2>3, SessionWritten
<1>8. active' \in 0..Len(sessions') /\ Target \in 1..Len(Found)
  BY <1>0, <1>1, <1>7, FoundTyped
<1>9. OwnerRuns'
  BY <1>0, <1>1, <1>4, <1>5, <1>6, <1>7, <1>8, FoundTyped, OwnerStays
<1> QED BY <1>1, <1>4, <1>5, <1>6, <1>7, <1>8, <1>9, RunsOnQuietly

\* A stream whose event does not change whose session is active.
LEMMA OwnerSame ==
  ASSUME RelayInv, NEW s \in Stream, Running(s)', streams'[s].id = streams[s].id,
         \A x \in Stream \ {s} : streams'[x] = streams[x],
         active' = active, active # 0 => sessions'[active].id = sessions[active].id
  PROVE  OwnerRuns'
<1> SUFFICES ASSUME active # 0, sessions[active].id # NoId
             PROVE  \E x \in Stream : Running(x)' /\ streams'[x].id = sessions[active].id
  BY DEF OwnerRuns
<1>1. PICK x \in Stream : Running(x) /\ streams[x].id = sessions[active].id
  BY DEF RelayInv, OwnerRuns
<1>2. Running(x)'
  BY <1>1 DEF Running
<1> QED BY <1>1, <1>2

\* A message that was posted is registered in the map in use, or in a new one.
LEMMA Registers ==
  ASSUME RelayTypes, ErrorsFailed, NEW m \in Nat, m \notin DOMAIN slack, registerProgress(m)
  PROVE  /\ threads' \in Seq(Maps) /\ DOMAIN threads \subseteq DOMAIN threads'
         /\ mapped' \in 1..Len(threads') /\ (mapped # 0 => mapped' = mapped)
         /\ \A t \in DOMAIN threads' : DOMAIN threads'[t] \subseteq DOMAIN slack \cup {m}
         /\ \A t \in DOMAIN threads' : Errors(threads'[t]) \subseteq marked
         /\ OldMapsEmpty => OldMapsEmpty'
         /\ \A t \in DOMAIN threads : DOMAIN threads[t] \subseteq DOMAIN threads'[t]
         /\ m \in DOMAIN threads'[mapped']
<1>0. /\ threads \in Seq(Maps) /\ mapped \in 0..Len(threads) /\ Len(threads) \in Nat
      /\ DOMAIN threads = 1..Len(threads)
      /\ \A t \in DOMAIN threads : DOMAIN threads[t] \subseteq DOMAIN slack
      /\ \A t \in DOMAIN threads : Errors(threads[t]) \subseteq marked
  BY DEF RelayTypes, ErrorsFailed
<1>1. CASE mapped = 0
  <2> DEFINE new == [n \in {m} |-> "in_progress"]
  <2>1. threads' = Append(threads, new) /\ mapped' = Len(threads')
    BY <1>1 DEF registerProgress
  <2>2. new \in Maps /\ DOMAIN new = {m} /\ Errors(new) = {}
    <3>1. new \in [{m} -> Statuses] /\ {m} \in SUBSET Nat
      BY DEF Statuses
    <3> QED BY <3>1 DEF Maps, Errors
  <2> HIDE DEF new
  <2>3. /\ threads' \in Seq(Maps) /\ Len(threads') = Len(threads) + 1 /\ DOMAIN threads' = 1..(Len(threads) + 1)
        /\ threads'[Len(threads) + 1] = new
        /\ \A t \in DOMAIN threads : threads'[t] = threads[t]
    BY <1>0, <2>1, <2>2
  <2>4. OldMapsEmpty => OldMapsEmpty'
    <3> SUFFICES ASSUME OldMapsEmpty, NEW t \in DOMAIN threads', t # mapped' PROVE DOMAIN threads'[t] = {}
      BY DEF OldMapsEmpty
    <3>1. t \in DOMAIN threads /\ t # mapped
      BY <1>0, <1>1, <2>1, <2>3
    <3> QED BY <2>3, <3>1 DEF OldMapsEmpty
  <2>5. \A t \in DOMAIN threads' : t \in DOMAIN threads \/ t = Len(threads) + 1
    BY <1>0, <2>3
  <2>6. \A t \in DOMAIN threads' : DOMAIN threads'[t] \subseteq DOMAIN slack \cup {m}
    BY <1>0, <2>2, <2>3, <2>5
  <2>7. \A t \in DOMAIN threads' : Errors(threads'[t]) \subseteq marked
    BY <1>0, <2>2, <2>3, <2>5
  <2> QED BY <1>0, <1>1, <2>1, <2>2, <2>3, <2>4, <2>6, <2>7
<1>2. CASE mapped # 0
  <2> DEFINE old == threads[mapped]
             new == [n \in DOMAIN old \cup {m} |-> IF n = m THEN "in_progress" ELSE old[n]]
  <2>1. mapped \in DOMAIN threads /\ old \in Maps
    BY <1>0, <1>2
  <2>2. threads' = [threads EXCEPT ![mapped] = new] /\ mapped' = mapped
    BY <1>2, <2>1 DEF registerProgress
  <2>3. DOMAIN old \subseteq Nat /\ \A n \in DOMAIN old : old[n] \in Statuses
    BY <2>1, MapsOfEntries
  <2>4. new \in Maps /\ DOMAIN new = DOMAIN old \cup {m} /\ Errors(new) \subseteq Errors(old)
    <3> HIDE DEF old
    <3>1. new \in [DOMAIN old \cup {m} -> Statuses]
      BY <2>3 DEF Statuses
    <3>2. DOMAIN old \cup {m} \in SUBSET Nat
      BY <2>3
    <3>3. new \in Maps
      BY <3>1, <3>2 DEF Maps
    <3> QED BY <3>3 DEF Errors
  <2> HIDE DEF new
  <2>5. /\ threads' \in Seq(Maps) /\ Len(threads') = Len(threads) /\ DOMAIN threads' = DOMAIN threads
        /\ threads'[mapped] = new
        /\ \A t \in DOMAIN threads \ {mapped} : threads'[t] = threads[t]
    BY <1>0, <2>1, <2>2, <2>4
  <2>6. OldMapsEmpty => OldMapsEmpty'
    BY <2>2, <2>5 DEF OldMapsEmpty
  <2>7. DOMAIN old \subseteq DOMAIN slack /\ Errors(old) \subseteq marked
    BY <1>0, <2>1
  <2> HIDE DEF old
  <2>8. \A t \in DOMAIN threads' : DOMAIN threads'[t] \subseteq DOMAIN slack \cup {m}
    BY <1>0, <2>4, <2>5, <2>7
  <2>9. \A t \in DOMAIN threads' : Errors(threads'[t]) \subseteq marked
    BY <1>0, <2>4, <2>5, <2>7
  <2>10. \A t \in DOMAIN threads : DOMAIN threads[t] \subseteq DOMAIN threads'[t]
    BY <2>4, <2>5 DEF old
  <2> QED BY <1>0, <1>2, <2>2, <2>4, <2>5, <2>6, <2>8, <2>9, <2>10
<1> QED BY <1>1, <1>2

\* An entry gets its status; what is evicted then is of marked runs.
LEMMA StatusWritten ==
  ASSUME RelayTypes, ErrorsFailed, NEW m, NEW status \in Statuses, updateProgressStatus(m, status)
  PROVE  /\ marked \subseteq marked'
         /\ threads' \in Seq(Maps) /\ Len(threads') = Len(threads) /\ DOMAIN threads' = DOMAIN threads
         /\ \A t \in DOMAIN threads : DOMAIN threads'[t] \subseteq DOMAIN threads[t]
         /\ \A t \in DOMAIN threads : \A x \in DOMAIN threads[t] : x \in DOMAIN threads'[t] \/ x \in marked'
         /\ ErrorsFailed'
<1>0. /\ threads \in Seq(Maps) /\ mapped \in 0..Len(threads) /\ Len(threads) \in Nat
      /\ \A t \in DOMAIN threads : Errors(threads[t]) \subseteq marked
  BY DEF RelayTypes, ErrorsFailed
<1>1. marked \subseteq marked' /\ (status = "error" => m \in marked')
  BY DEF updateProgressStatus
<1>2. CASE threads' = threads
  BY <1>0, <1>1, <1>2 DEF ErrorsFailed
<1>3. ASSUME mapped # 0, m \in DOMAIN threads[mapped],
             threads' = [threads EXCEPT ![mapped] =
                IF status = "error" THEN evictExcessErrors([threads[mapped] EXCEPT ![m] = status])
                ELSE [threads[mapped] EXCEPT ![m] = status]]
      PROVE  /\ threads' \in Seq(Maps) /\ Len(threads') = Len(threads) /\ DOMAIN threads' = DOMAIN threads
             /\ \A t \in DOMAIN threads : DOMAIN threads'[t] \subseteq DOMAIN threads[t]
             /\ \A t \in DOMAIN threads : \A x \in DOMAIN threads[t] : x \in DOMAIN threads'[t] \/ x \in marked'
             /\ ErrorsFailed'
  <2> DEFINE old == threads[mapped]
             set == [old EXCEPT ![m] = status]
             new == IF status = "error" THEN evictExcessErrors(set) ELSE set
  <2>1. mapped \in DOMAIN threads /\ old \in Maps /\ Errors(old) \subseteq marked
    BY <1>0, <1>3
  <2>2. threads' = [threads EXCEPT ![mapped] = new]
    BY <1>3
  <2>3. set \in Maps /\ DOMAIN set = DOMAIN old /\ Errors(set) \subseteq marked'
    <3>1. DOMAIN old \subseteq Nat /\ (\A n \in DOMAIN old : old[n] \in Statuses) /\ m \in DOMAIN old
      BY <1>3, <2>1, MapsOfEntries
    <3>2. PICK messages \in SUBSET Nat : old \in [messages -> Statuses]
      BY <2>1 DEF Maps
    <3> HIDE DEF old
    <3>3. set \in [messages -> Statuses] /\ DOMAIN set = DOMAIN old
      BY <3>2
    <3>4. set \in Maps
      BY <3>3 DEF Maps
    <3>5. \A n \in DOMAIN old : set[n] = IF n = m THEN status ELSE old[n]
      BY <3>2
    <3>6. Errors(set) \subseteq marked'
      BY <1>1, <2>1, <3>3, <3>5 DEF Errors
    <3> QED BY <3>3, <3>4, <3>6
  <2> HIDE DEF set
  <2>4. /\ new \in Maps /\ DOMAIN new \subseteq DOMAIN old
        /\ \A n \in DOMAIN old : n \in DOMAIN new \/ n \in marked'
        /\ Errors(new) \subseteq marked'
    <3>1. CASE status # "error"
      BY <2>3, <3>1
    <3>2. CASE status = "error"
      <4>1. new = evictExcessErrors(set)
        BY <3>2
      <4> HIDE DEF new
      <4>2. /\ new \in Maps /\ DOMAIN new \subseteq DOMAIN set
            /\ \A n \in DOMAIN set : n \in DOMAIN new \/ n \in Errors(set)
            /\ \A n \in DOMAIN new : new[n] = set[n]
        BY <2>3, <4>1, EvictedAreErrors
      <4>3. Errors(new) \subseteq Errors(set)
        BY <4>2 DEF Errors
      <4> QED BY <2>3, <4>2, <4>3
    <3> QED BY <3>1, <3>2
  <2> HIDE DEF new
  <2>5. /\ threads' \in Seq(Maps) /\ Len(threads') = Len(threads) /\ DOMAIN threads' = DOMAIN threads
        /\ threads'[mapped] = new
        /\ \A t \in DOMAIN threads \ {mapped} : threads'[t] = threads[t]
    BY <1>0, <2>1, <2>2, <2>4
  <2>6. ErrorsFailed'
    <3>1. \A t \in DOMAIN threads' : Errors(threads'[t]) \subseteq marked'
      BY <1>0, <1>1, <2>4, <2>5
    <3> QED BY <3>1 DEF ErrorsFailed
  <2> QED BY <1>0, <2>4, <2>5, <2>6
<1>4. \/ threads' = threads
      \/ /\ mapped # 0 /\ m \in DOMAIN threads[mapped]
         /\ threads' = [threads EXCEPT ![mapped] =
                IF status = "error" THEN evictExcessErrors([threads[mapped] EXCEPT ![m] = status])
                ELSE [threads[mapped] EXCEPT ![m] = status]]
  BY DEF updateProgressStatus
<1> QED BY <1>1, <1>2, <1>3, <1>4

LEMMA PostedKeeps ==
  ASSUME RelayInv, NEW s \in Stream, Posted(s)
  PROVE  RelayInv'
<1> DEFINE m == Len(slack')
           i == streams[s].session
<1>0. /\ RelayTypes /\ ErrorsFailed /\ sessions \in Seq(Sessions) /\ active \in 0..Len(sessions)
      /\ Len(sessions) \in Nat /\ slack \in Seq({"working", "done", "failed", "deleted"}) /\ slackFaults \in Nat
  BY DEF RelayInv, RelayTypes
<1>1. /\ streams[s].phase = "posting" /\ slack' = Append(slack, "working")
      /\ sessions' = [sessions EXCEPT ![i].message = m]
      /\ registerProgress(m) /\ StreamGoto(s, "reading")
      /\ UNCHANGED <<active, marked, slackFaults>>
  BY DEF Posted, StreamAt
<1>2. /\ slack' \in Seq({"working", "done", "failed", "deleted"})
      /\ m \in Nat /\ m \notin DOMAIN slack /\ DOMAIN slack' = DOMAIN slack \cup {m}
      /\ \A x \in DOMAIN slack : slack'[x] = slack[x]
  BY <1>0, <1>1
<1> HIDE DEF m
<1>3. /\ threads' \in Seq(Maps) /\ DOMAIN threads \subseteq DOMAIN threads'
      /\ mapped' \in 1..Len(threads') /\ (mapped # 0 => mapped' = mapped)
      /\ \A t \in DOMAIN threads' : DOMAIN threads'[t] \subseteq DOMAIN slack'
      /\ \A t \in DOMAIN threads' : Errors(threads'[t]) \subseteq marked'
      /\ OldMapsEmpty => OldMapsEmpty'
      /\ \A t \in DOMAIN threads : DOMAIN threads[t] \subseteq DOMAIN threads'[t]
      /\ m \in DOMAIN threads'[mapped']
  <2>1. m \in Nat /\ m \notin DOMAIN slack /\ registerProgress(m)
    BY <1>1, <1>2
  <2>2. /\ threads' \in Seq(Maps) /\ DOMAIN threads \subseteq DOMAIN threads'
        /\ mapped' \in 1..Len(threads') /\ (mapped # 0 => mapped' = mapped)
        /\ \A t \in DOMAIN threads' : DOMAIN threads'[t] \subseteq DOMAIN slack \cup {m}
        /\ \A t \in DOMAIN threads' : Errors(threads'[t]) \subseteq marked
        /\ OldMapsEmpty => OldMapsEmpty'
        /\ \A t \in DOMAIN threads : DOMAIN threads[t] \subseteq DOMAIN threads'[t]
        /\ m \in DOMAIN threads'[mapped']
    BY <1>0, <2>1, Registers, Zenon
  <2> QED BY <1>1, <1>2, <2>2
<1>4. ErrorsFailed'
  BY <1>3 DEF ErrorsFailed
<1>5. mapped' # 0 /\ mapped' \in 0..Len(threads')
  BY <1>3
<1>6. \A x \in Visible' : x \in Visible \/ (x \notin DOMAIN slack /\ Registered(x)')
  BY <1>2, <1>3, <1>5 DEF Visible, Registered
<1>7. /\ sessions' \in Seq(Sessions) /\ Len(sessions') = Len(sessions)
      /\ \A j \in 1..Len(sessions) : sessions'[j].id = sessions[j].id
  <2>1. CASE i \in 1..Len(sessions)
    <3> DEFINE f == [sessions[i] EXCEPT !.message = m]
    <3>1. sessions[i] \in Sessions
      BY <1>0, <2>1
    <3>2. f \in Sessions /\ f.id = sessions[i].id
      BY <1>2, <3>1 DEF Sessions
    <3>3. sessions' = [sessions EXCEPT ![i] = f]
      BY <1>0, <1>1, <2>1
    <3> HIDE DEF f
    <3> QED BY <1>0, <2>1, <3>2, <3>3, SessionWritten
  <2>2. CASE i \notin 1..Len(sessions)
    <3>1. DOMAIN sessions = 1..Len(sessions)
      BY <1>0
    <3>2. sessions' = [j \in DOMAIN sessions |-> sessions[j]]
      BY <1>1, <2>2, <3>1
    <3>3. sessions' \in [1..Len(sessions) -> Sessions]
      BY <1>0, <3>1, <3>2
    <3> QED BY <1>0, <3>1, <3>2, <3>3
  <2> QED BY <2>1, <2>2
<1> HIDE DEF i
<1>8. /\ streams' \in [Stream -> StreamRecords] /\ streams'[s].phase = "reading"
      /\ streams'[s].id = streams[s].id /\ streams'[s].deleting = streams[s].deleting
      /\ \A x \in Stream \ {s} : streams'[x] = streams[x]
  BY <1>0, <1>1, GotoWritten
<1>9. Running(s)'
  BY <1>8 DEF Running
<1>10. active' \in 0..Len(sessions') /\ (active # 0 => sessions'[active].id = sessions[active].id)
  BY <1>0, <1>1, <1>7
<1>11. OwnerRuns'
  BY <1>1, <1>8, <1>9, <1>10, OwnerSame
<1>12. slackFaults' \in Nat /\ slackFaults' >= slackFaults /\ marked \subseteq marked'
       /\ streams[s].phase \notin {"deleting", "crossed"} /\ DOMAIN slack \subseteq DOMAIN slack'
  BY <1>0, <1>1, <1>2
<1>13. \A t \in DOMAIN threads : \A x \in DOMAIN threads[t] : x \in DOMAIN threads'[t] \/ x \in marked'
  BY <1>3
<1> QED BY <1>2, <1>3, <1>4, <1>5, <1>6, <1>7, <1>8, <1>9, <1>10, <1>11, <1>12, <1>13, RunsOn

\* An update of a message, or none, and an entry's status, or not.
LEMMA UpdateKeeps ==
  ASSUME RelayInv, NEW s \in Stream, streams[s].phase \notin {"deleting", "crossed"},
         NEW phase \in {"reading", "finished"}, StreamGoto(s, phase),
         UNCHANGED <<sessions, active, mapped>>,
         slack' \in Seq({"working", "done", "failed", "deleted"}), DOMAIN slack' = DOMAIN slack, Visible' = Visible,
         slackFaults' \in Nat, slackFaults' >= slackFaults,
         \/ UNCHANGED <<threads, marked>>
         \/ \E m : \E status \in Statuses : updateProgressStatus(m, status)
  PROVE  RelayInv'
<1>0. /\ RelayTypes /\ ErrorsFailed /\ sessions \in Seq(Sessions) /\ active \in 0..Len(sessions)
      /\ threads \in Seq(Maps) /\ mapped \in 0..Len(threads)
      /\ \A t \in DOMAIN threads : DOMAIN threads[t] \subseteq DOMAIN slack
  BY DEF RelayInv, RelayTypes
<1>1. /\ marked \subseteq marked'
      /\ threads' \in Seq(Maps) /\ Len(threads') = Len(threads) /\ DOMAIN threads' = DOMAIN threads
      /\ \A t \in DOMAIN threads : DOMAIN threads'[t] \subseteq DOMAIN threads[t]
      /\ \A t \in DOMAIN threads : \A x \in DOMAIN threads[t] : x \in DOMAIN threads'[t] \/ x \in marked'
      /\ ErrorsFailed'
  <2>1. CASE UNCHANGED <<threads, marked>>
    BY <1>0, <2>1 DEF ErrorsFailed
  <2>2. ASSUME NEW m, NEW status \in Statuses, updateProgressStatus(m, status)
        PROVE  /\ marked \subseteq marked'
               /\ threads' \in Seq(Maps) /\ Len(threads') = Len(threads) /\ DOMAIN threads' = DOMAIN threads
               /\ \A t \in DOMAIN threads : DOMAIN threads'[t] \subseteq DOMAIN threads[t]
               /\ \A t \in DOMAIN threads : \A x \in DOMAIN threads[t] : x \in DOMAIN threads'[t] \/ x \in marked'
               /\ ErrorsFailed'
    BY <1>0, <2>2, StatusWritten
  <2> QED BY <2>1, <2>2
<1>2. OldMapsEmpty => OldMapsEmpty'
  BY <1>1 DEF OldMapsEmpty
<1>3. \A t \in DOMAIN threads' : DOMAIN threads'[t] \subseteq DOMAIN slack'
  BY <1>0, <1>1
<1>4. /\ streams' \in [Stream -> StreamRecords] /\ streams'[s].phase = phase
      /\ streams'[s].id = streams[s].id /\ streams'[s].deleting = streams[s].deleting
      /\ \A x \in Stream \ {s} : streams'[x] = streams[x]
  BY <1>0, GotoWritten
<1>5. Running(s)'
  BY <1>4 DEF Running
<1>6. OwnerRuns'
  BY <1>4, <1>5, OwnerSame
<1>7. mapped' \in 0..Len(threads') /\ active' \in 0..Len(sessions')
  BY <1>0, <1>1
<1> QED BY <1>0, <1>1, <1>2, <1>3, <1>4, <1>5, <1>6, <1>7, RunsOn

LEMMA UpdatedKeeps ==
  ASSUME RelayInv, NEW s \in Stream, Updated(s)
  PROVE  RelayInv'
<1>0. slack \in Seq({"working", "done", "failed", "deleted"}) /\ slackFaults \in Nat
  BY DEF RelayInv, RelayTypes
<1>1. /\ streams[s].phase = "updating" /\ Show(sessions[streams[s].session].message, "working")
      /\ StreamGoto(s, "reading") /\ UNCHANGED <<sessions, active, threads, mapped, marked, slackFaults>>
  BY DEF Updated, StreamAt
<1>2. /\ slack' \in Seq({"working", "done", "failed", "deleted"})
      /\ DOMAIN slack' = DOMAIN slack /\ Visible' = Visible
  BY <1>0, <1>1, ShowKeeps
<1>3. slackFaults' \in Nat /\ slackFaults' >= slackFaults
  BY <1>0, <1>1
<1> QED BY <1>1, <1>2, <1>3, UpdateKeeps

LEMMA FinalUpdateKeeps ==
  ASSUME RelayInv, NEW s \in Stream, FinalUpdate(s)
  PROVE  RelayInv'
<1> DEFINE m == sessions[streams[s].session].message
           text == IF streams[s].status = "error" THEN "failed" ELSE "done"
<1>0. /\ slack \in Seq({"working", "done", "failed", "deleted"}) /\ slackFaults \in Nat
      /\ streams[s].status \in Statuses
  <2>1. streams[s] \in StreamRecords
    BY DEF RelayInv, RelayTypes
  <2> QED BY <2>1 DEF RelayInv, RelayTypes, StreamRecords
<1>1. /\ streams[s].phase = "finishing" /\ Show(m, text) /\ updateProgressStatus(m, streams[s].status)
      /\ StreamGoto(s, "finished") /\ UNCHANGED <<sessions, active, mapped, slackFaults>>
  BY DEF FinalUpdate, StreamAt
<1>2. text \in {"working", "done", "failed"}
  OBVIOUS
<1> HIDE DEF m, text
<1>3. /\ slack' \in Seq({"working", "done", "failed", "deleted"})
      /\ DOMAIN slack' = DOMAIN slack /\ Visible' = Visible
  BY <1>0, <1>1, <1>2, ShowKeeps
<1>4. slackFaults' \in Nat /\ slackFaults' >= slackFaults
  BY <1>0, <1>1
<1> QED BY <1>0, <1>1, <1>3, <1>4, UpdateKeeps

LEMMA SlackFailsKeeps ==
  ASSUME RelayInv, NEW s \in Stream, SlackFails(s)
  PROVE  RelayInv'
<1>0. /\ slack \in Seq({"working", "done", "failed", "deleted"}) /\ slackFaults \in Nat
      /\ streams[s].status \in Statuses
  <2>1. streams[s] \in StreamRecords
    BY DEF RelayInv, RelayTypes
  <2> QED BY <2>1 DEF RelayInv, RelayTypes, StreamRecords
<1>1. slackFaults' = slackFaults + 1 /\ UNCHANGED <<sessions, active, mapped, slack>>
  BY DEF SlackFails, SlackFault
<1>2. /\ slack' \in Seq({"working", "done", "failed", "deleted"})
      /\ DOMAIN slack' = DOMAIN slack /\ Visible' = Visible
      /\ slackFaults' \in Nat /\ slackFaults' >= slackFaults
  BY <1>0, <1>1 DEF Visible
<1>3. CASE /\ streams[s].phase \in {"posting", "updating"} /\ StreamGoto(s, "reading")
           /\ UNCHANGED <<threads, marked>>
  BY <1>1, <1>2, <1>3, UpdateKeeps
<1>4. CASE /\ streams[s].phase = "finishing"
           /\ updateProgressStatus(sessions[streams[s].session].message, streams[s].status)
           /\ StreamGoto(s, "finished")
  BY <1>0, <1>1, <1>2, <1>4, UpdateKeeps
<1> QED BY <1>3, <1>4 DEF SlackFails, StreamAt

\* A ticker's update changes no entry and no stream.
LEMMA TickKeeps ==
  ASSUME RelayInv, NEW x \in DOMAIN sessions, Tick(x) \/ TickLands(x)
  PROVE  RelayInv'
<1>0. slack \in Seq({"working", "done", "failed", "deleted"})
  BY DEF RelayInv, RelayTypes
<1>1. UNCHANGED <<streams, sessions, active, threads, mapped, marked, slackFaults>>
  BY DEF Tick, TickLands
<1>2. /\ slack' \in Seq({"working", "done", "failed", "deleted"})
      /\ DOMAIN slack' = DOMAIN slack /\ Visible' = Visible
  <2>1. CASE slack' = slack
    BY <1>0, <2>1 DEF Visible
  <2>2. CASE Show(sessions[x].message, "working")
    BY <1>0, <2>2, ShowKeeps
  <2> QED BY <2>1, <2>2 DEF Tick, TickLands
<1>3. RelayTypes' /\ OwnerRuns' /\ ErrorsFailed'
  BY <1>1, <1>2 DEF RelayInv, RelayTypes, OwnerRuns, Running, ErrorsFailed
<1>4. ASSUME NoneCrossed' PROVE OldMapsEmpty' /\ DeletesEntries' /\ WillGo'
  <2>1. OldMapsEmpty /\ DeletesEntries /\ WillGo
    BY <1>1, <1>4 DEF RelayInv, NoneCrossed, StreamAt
  <2>2. OldMapsEmpty'
    BY <1>1, <2>1 DEF OldMapsEmpty
  <2>3. DeletesEntries'
    BY <1>1, <1>2, <2>1 DEF DeletesEntries, StreamAt
  <2>4. WillGo'
    BY <1>1, <1>2, <2>1 DEF WillGo, Registered, Running, StreamAt
  <2> QED BY <2>2, <2>3, <2>4
<1> QED BY <1>3, <1>4 DEF RelayInv

\* The end of a stream that is ignored leaves the stream that owns the session.
LEMMA DoneIgnoredKeeps ==
  ASSUME RelayInv, NEW s \in Stream, DoneIgnored(s)
  PROVE  RelayInv'
<1>0. RelayTypes
  BY DEF RelayInv
<1>1. /\ streams[s].phase = "reading" /\ Mismatch(s) /\ StreamGoto(s, "closed")
      /\ UNCHANGED <<sessions, active, threads, mapped, slack, marked, slackFaults>>
  BY DEF DoneIgnored, StreamAt
<1>2. /\ streams' \in [Stream -> StreamRecords] /\ streams'[s].phase = "closed"
      /\ streams'[s].deleting = streams[s].deleting
      /\ \A x \in Stream \ {s} : streams'[x] = streams[x]
  BY <1>0, <1>1, GotoWritten
<1>3. active # 0 /\ sessions[active].id \notin {NoId, streams[s].id}
  BY <1>0, <1>1, FoundTyped DEF Mismatch
<1>4. PICK o \in Stream : Running(o) /\ streams[o].id = sessions[active].id
  BY <1>3 DEF RelayInv, OwnerRuns
<1>5. o # s /\ Running(o)' /\ streams'[o].id = streams[o].id
  BY <1>2, <1>3, <1>4 DEF Running
<1>6. RelayTypes'
  BY <1>0, <1>1, <1>2 DEF RelayTypes
<1>7. OwnerRuns' /\ ErrorsFailed'
  BY <1>1, <1>4, <1>5 DEF RelayInv, OwnerRuns, ErrorsFailed
<1>8. ASSUME NoneCrossed' PROVE OldMapsEmpty' /\ DeletesEntries' /\ WillGo'
  <2>1. NoneCrossed
    BY <1>1, <1>2, <1>8 DEF NoneCrossed, StreamAt
  <2>2. OldMapsEmpty /\ DeletesEntries /\ WillGo
    BY <2>1 DEF RelayInv
  <2>3. OldMapsEmpty'
    BY <1>1, <2>2 DEF OldMapsEmpty
  <2>4. DeletesEntries'
    BY <1>1, <1>2, <2>2 DEF DeletesEntries, StreamAt, Visible
  <2>5. WillGo'
    BY <1>1, <1>5, <2>2 DEF WillGo, Registered, Visible
  <2> QED BY <2>3, <2>4, <2>5
<1> QED BY <1>6, <1>7, <1>8 DEF RelayInv

\* A clean-up takes on every message that is to go.
LEMMA CleanupKeeps ==
  ASSUME RelayInv, NEW s \in Stream, cleanupProgressMessages(s)
  PROVE  RelayInv'
<1>0. /\ RelayTypes /\ ErrorsFailed /\ streams \in [Stream -> StreamRecords] /\ streams[s] \in StreamRecords
      /\ threads \in Seq(Maps) /\ mapped \in 0..Len(threads) /\ mapped \in Nat
      /\ \A t \in DOMAIN threads : DOMAIN threads[t] \subseteq DOMAIN slack
      /\ DOMAIN slack \subseteq Nat /\ sessions \in Seq(Sessions)
  BY DEF RelayInv, RelayTypes
<1>1. /\ streams[s].phase = "finished" /\ active' = 0
      /\ UNCHANGED <<sessions, threads, mapped, slack, marked, slackFaults>>
  BY DEF cleanupProgressMessages, StreamAt
<1>2. OwnerRuns' /\ ErrorsFailed' /\ active' \in 0..Len(sessions')
  BY <1>0, <1>1 DEF RelayInv, OwnerRuns, ErrorsFailed
<1>3. CASE mapped = 0
  <2>1. /\ streams' \in [Stream -> StreamRecords] /\ streams'[s].phase = "closed"
        /\ streams'[s].deleting = streams[s].deleting
        /\ \A x \in Stream \ {s} : streams'[x] = streams[x]
    BY <1>0, <1>3, GotoWritten DEF cleanupProgressMessages
  <2>2. RelayTypes'
    BY <1>0, <1>1, <1>2, <2>1 DEF RelayTypes
  <2>3. ASSUME NoneCrossed' PROVE OldMapsEmpty' /\ DeletesEntries' /\ WillGo'
    <3>1. OldMapsEmpty /\ DeletesEntries /\ WillGo
      BY <1>1, <2>1, <2>3 DEF RelayInv, NoneCrossed, StreamAt
    <3>2. OldMapsEmpty'
      BY <1>1, <3>1 DEF OldMapsEmpty
    <3>3. DeletesEntries'
      BY <1>1, <2>1, <3>1 DEF DeletesEntries, StreamAt, Visible
    <3>4. Visible' \ marked' = {}
      BY <1>1, <1>3, <3>1 DEF WillGo, Registered, Visible
    <3> QED BY <3>2, <3>3, <3>4 DEF WillGo
  <2> QED BY <1>2, <2>2, <2>3 DEF RelayInv
<1>4. CASE mapped # 0
  <2> DEFINE entries == DOMAIN threads[mapped] \ Errors(threads[mapped])
             q == [streams[s] EXCEPT !.phase = "deleting", !.thread = mapped, !.deleting = entries]
  <2>1. streams' = [streams EXCEPT ![s] = q]
    BY <1>0, <1>4 DEF cleanupProgressMessages
  <2>2. mapped \in DOMAIN threads /\ entries \subseteq DOMAIN slack /\ entries \in SUBSET Nat
    BY <1>0, <1>4
  <2>3. \A m \in DOMAIN threads[mapped] : m \in entries \/ m \in marked
    BY <1>0, <2>2 DEF ErrorsFailed
  <2>4. \A m \in entries : m \in DOMAIN threads[mapped]
    OBVIOUS
  <2> HIDE DEF entries
  <2>5. q \in StreamRecords /\ q.phase = "deleting" /\ q.thread = mapped /\ q.deleting = entries
    BY <1>0, <2>2 DEF StreamRecords
  <2> HIDE DEF q
  <2>6. streams' \in [Stream -> StreamRecords] /\ streams'[s] = q /\ \A x \in Stream \ {s} : streams'[x] = streams[x]
    BY <1>0, <2>1, <2>5
  <2>7. RelayTypes'
    BY <1>0, <1>1, <1>2, <2>2, <2>5, <2>6 DEF RelayTypes
  <2>8. ASSUME NoneCrossed' PROVE OldMapsEmpty' /\ DeletesEntries' /\ WillGo'
    <3>1. OldMapsEmpty /\ DeletesEntries /\ WillGo
      BY <1>1, <2>6, <2>8 DEF RelayInv, NoneCrossed, StreamAt
    <3>2. OldMapsEmpty'
      BY <1>1, <3>1 DEF OldMapsEmpty
    <3>3. DeletesEntries'
      <4> SUFFICES ASSUME NEW x \in Stream, streams'[x].phase = "deleting"
                   PROVE  /\ streams'[x].thread \in DOMAIN threads
                          /\ \A m \in (streams'[x].deleting \cap Visible) \ marked : m \in DOMAIN threads[streams'[x].thread]
        BY <1>1 DEF DeletesEntries, StreamAt, Visible
      <4>1. CASE x = s
        BY <2>2, <2>4, <2>5, <2>6, <4>1
      <4>2. CASE x # s
        BY <2>6, <3>1, <4>2 DEF DeletesEntries, StreamAt
      <4> QED BY <4>1, <4>2
    <3>4. WillGo'
      <4> SUFFICES ASSUME NEW m \in Visible, m \notin marked
                   PROVE  Registered(m) /\ streams'[s].phase = "deleting" /\ m \in streams'[s].deleting
        BY <1>1 DEF WillGo, StreamAt, Registered, Visible
      <4>1. Registered(m)
        BY <3>1 DEF WillGo
      <4>2. m \in entries
        BY <2>3, <4>1 DEF Registered
      <4> QED BY <2>5, <2>6, <4>1, <4>2
    <3> QED BY <3>2, <3>3, <3>4
  <2> QED BY <1>2, <2>7, <2>8 DEF RelayInv
<1> QED BY <1>3, <1>4

\* The entries of one map become fewer.
LEMMA MapWritten ==
  ASSUME RelayTypes, NEW t \in DOMAIN threads, NEW f \in Maps, DOMAIN f \subseteq DOMAIN threads[t],
         \A n \in DOMAIN f : f[n] = threads[t][n],
         threads' = [threads EXCEPT ![t] = f]
  PROVE  /\ threads' \in Seq(Maps) /\ Len(threads') = Len(threads) /\ DOMAIN threads' = DOMAIN threads
         /\ threads'[t] = f /\ \A x \in DOMAIN threads \ {t} : threads'[x] = threads[x]
         /\ \A x \in DOMAIN threads : DOMAIN threads'[x] \subseteq DOMAIN threads[x]
         /\ \A x \in DOMAIN threads : Errors(threads'[x]) \subseteq Errors(threads[x])
<1>1. threads \in Seq(Maps)
  BY DEF RelayTypes
<1>2. /\ threads' \in Seq(Maps) /\ Len(threads') = Len(threads) /\ DOMAIN threads' = DOMAIN threads
      /\ threads'[t] = f /\ \A x \in DOMAIN threads \ {t} : threads'[x] = threads[x]
  BY <1>1
<1>3. Errors(f) \subseteq Errors(threads[t])
  BY DEF Errors
<1> QED BY <1>2, <1>3

\* A stream takes a message from those it is to delete.
LEMMA DeletingWritten ==
  ASSUME RelayTypes, NEW s \in Stream, NEW m, streams' = [streams EXCEPT ![s].deleting = @ \ {m}]
  PROVE  /\ streams' \in [Stream -> StreamRecords]
         /\ \A x \in Stream \ {s} : streams'[x] = streams[x]
         /\ streams'[s].phase = streams[s].phase /\ streams'[s].id = streams[s].id /\ streams'[s].thread = streams[s].thread
         /\ streams'[s].deleting = streams[s].deleting \ {m}
<1> DEFINE q == [streams[s] EXCEPT !.deleting = @ \ {m}]
<1>1. streams \in [Stream -> StreamRecords] /\ streams[s] \in StreamRecords
  BY DEF RelayTypes
<1>2. streams' = [streams EXCEPT ![s] = q]
  BY <1>1
<1>3. /\ q \in StreamRecords /\ q.phase = streams[s].phase /\ q.thread = streams[s].thread
      /\ q.id = streams[s].id /\ q.deleting = streams[s].deleting \ {m}
  BY <1>1 DEF StreamRecords
<1> HIDE DEF q
<1> QED BY <1>1, <1>2, <1>3

LEMMA DeletedKeeps ==
  ASSUME RelayInv, NEW s \in Stream, NEW m \in streams[s].deleting, Deleted(s, m)
  PROVE  RelayInv'
<1> DEFINE t == streams[s].thread
<1>0. /\ RelayTypes /\ threads \in Seq(Maps) /\ slack \in Seq({"working", "done", "failed", "deleted"})
      /\ mapped \in 0..Len(threads) /\ m \in DOMAIN slack
  BY DEF RelayInv, RelayTypes
<1>1. /\ streams[s].phase = "deleting" /\ slack' = [slack EXCEPT ![m] = "deleted"] /\ Forget(s, m)
      /\ UNCHANGED <<sessions, active, mapped, marked, slackFaults>>
  BY DEF Deleted, StreamAt
<1>2. /\ slack' \in Seq({"working", "done", "failed", "deleted"}) /\ DOMAIN slack' = DOMAIN slack
      /\ slack'[m] = "deleted" /\ \A x \in DOMAIN slack \ {m} : slack'[x] = slack[x]
  BY <1>0, <1>1
<1>3. Visible' = Visible \ {m}
  BY <1>2 DEF Visible
<1>4. /\ streams' \in [Stream -> StreamRecords]
      /\ \A x \in Stream \ {s} : streams'[x] = streams[x]
      /\ streams'[s].phase = "deleting" /\ streams'[s].id = streams[s].id /\ streams'[s].thread = t
      /\ streams'[s].deleting = streams[s].deleting \ {m}
  BY <1>0, <1>1, DeletingWritten DEF Forget
<1>5. \A x \in Stream : /\ streams'[x].phase = streams[x].phase /\ streams'[x].id = streams[x].id
                        /\ streams'[x].thread = streams[x].thread
                        /\ streams'[x].deleting \subseteq streams[x].deleting
                        /\ streams[x].deleting \subseteq streams'[x].deleting \cup {m}
  BY <1>1, <1>4
<1> HIDE DEF t
<1>6. /\ threads' \in Seq(Maps) /\ Len(threads') = Len(threads) /\ DOMAIN threads' = DOMAIN threads
      /\ \A x \in DOMAIN threads : DOMAIN threads'[x] \subseteq DOMAIN threads[x]
      /\ \A x \in DOMAIN threads : DOMAIN threads[x] \subseteq DOMAIN threads'[x] \cup {m}
      /\ \A x \in DOMAIN threads : Errors(threads'[x]) \subseteq Errors(threads[x])
  <2>1. CASE t \in DOMAIN threads
    <3> DEFINE f == Without(threads[t], {m})
    <3>1. threads' = [threads EXCEPT ![t] = f]
      BY <1>0, <1>1, <2>1 DEF Forget, t
    <3>2. threads[t] \in Maps
      BY <1>0, <2>1
    <3>3. f \in Maps /\ DOMAIN f = DOMAIN threads[t] \ {m} /\ \A n \in DOMAIN f : f[n] = threads[t][n]
      <4>1. /\ Without(threads[t], {m}) \in Maps /\ DOMAIN Without(threads[t], {m}) = DOMAIN threads[t] \ {m}
            /\ \A n \in DOMAIN threads[t] \ {m} : Without(threads[t], {m})[n] = threads[t][n]
        BY <3>2, MapsOfEntries
      <4> QED BY <4>1
    <3> HIDE DEF f
    <3>4. /\ threads' \in Seq(Maps) /\ Len(threads') = Len(threads) /\ DOMAIN threads' = DOMAIN threads
          /\ threads'[t] = f /\ \A x \in DOMAIN threads \ {t} : threads'[x] = threads[x]
          /\ \A x \in DOMAIN threads : DOMAIN threads'[x] \subseteq DOMAIN threads[x]
          /\ \A x \in DOMAIN threads : Errors(threads'[x]) \subseteq Errors(threads[x])
      BY <1>0, <2>1, <3>1, <3>3, MapWritten
    <3> QED BY <3>3, <3>4
  <2>2. CASE t \notin DOMAIN threads
    <3>1. threads' = [x \in DOMAIN threads |-> threads[x]]
      BY <1>1, <2>2 DEF Forget, t
    <3>2. threads' \in [1..Len(threads) -> Maps] /\ DOMAIN threads = 1..Len(threads) /\ Len(threads) \in Nat
      BY <1>0, <3>1
    <3>3. \A x \in DOMAIN threads : threads'[x] = threads[x]
      BY <3>1
    <3> QED BY <3>2, <3>3
  <2> QED BY <2>1, <2>2
<1>7. RelayTypes'
  BY <1>0, <1>1, <1>2, <1>4, <1>5, <1>6 DEF RelayTypes
<1>8. OwnerRuns' /\ ErrorsFailed'
  <2>1. OwnerRuns'
    BY <1>1, <1>5 DEF RelayInv, OwnerRuns, Running
  <2>2. ErrorsFailed'
    BY <1>1, <1>6 DEF RelayInv, ErrorsFailed
  <2> QED BY <2>1, <2>2
<1>9. ASSUME NoneCrossed' PROVE OldMapsEmpty' /\ DeletesEntries' /\ WillGo'
  <2>1. OldMapsEmpty /\ DeletesEntries /\ WillGo
    BY <1>5, <1>9 DEF RelayInv, NoneCrossed, StreamAt
  <2>2. OldMapsEmpty'
    BY <1>1, <1>6, <2>1 DEF OldMapsEmpty
  <2>3. DeletesEntries'
    <3> SUFFICES ASSUME NEW x \in Stream, streams'[x].phase = "deleting"
                 PROVE  /\ streams'[x].thread \in DOMAIN threads'
                        /\ \A y \in (streams'[x].deleting \cap Visible') \ marked : y \in DOMAIN threads'[streams'[x].thread]
      BY <1>1 DEF DeletesEntries, StreamAt
    <3>1. /\ streams[x].thread \in DOMAIN threads
          /\ \A y \in (streams[x].deleting \cap Visible) \ marked : y \in DOMAIN threads[streams[x].thread]
      BY <1>5, <2>1 DEF DeletesEntries, StreamAt
    <3> QED BY <1>3, <1>5, <1>6, <3>1
  <2>4. WillGo'
    <3> SUFFICES ASSUME NEW y \in Visible, y # m, y \notin marked
                 PROVE  /\ Registered(y)'
                        /\ \/ slackFaults > 0
                           \/ \E x \in Stream : Running(x)'
                           \/ \E x \in Stream : streams'[x].phase = "deleting" /\ y \in streams'[x].deleting
      BY <1>1, <1>3 DEF WillGo, StreamAt
    <3>1. /\ mapped # 0 /\ y \in DOMAIN threads[mapped]
          /\ \/ slackFaults > 0
             \/ \E x \in Stream : Running(x)
             \/ \E x \in Stream : streams[x].phase = "deleting" /\ y \in streams[x].deleting
      BY <2>1 DEF WillGo, Registered, StreamAt
    <3>2. mapped \in DOMAIN threads
      BY <1>0, <3>1
    <3>3. Registered(y)'
      BY <1>1, <1>6, <3>1, <3>2 DEF Registered
    <3>4. \A x \in Stream : Running(x) => Running(x)'
      BY <1>5 DEF Running
    <3> QED BY <1>5, <3>1, <3>3, <3>4
  <2> QED BY <2>2, <2>3, <2>4
<1> QED BY <1>7, <1>8, <1>9 DEF RelayInv

\* What could not be deleted stays registered.
LEMMA DeleteFailsKeeps ==
  ASSUME RelayInv, NEW s \in Stream, NEW m \in streams[s].deleting, DeleteFails(s, m)
  PROVE  RelayInv'
<1>0. RelayTypes /\ slackFaults \in Nat
  BY DEF RelayInv, RelayTypes
<1>1. /\ streams[s].phase = "deleting" /\ streams' = [streams EXCEPT ![s].deleting = @ \ {m}]
      /\ slackFaults' = slackFaults + 1
      /\ UNCHANGED <<sessions, active, threads, mapped, slack, marked>>
  BY DEF DeleteFails, StreamAt, SlackFault
<1>2. /\ streams' \in [Stream -> StreamRecords]
      /\ \A x \in Stream \ {s} : streams'[x] = streams[x]
      /\ streams'[s].phase = streams[s].phase /\ streams'[s].thread = streams[s].thread
      /\ streams'[s].deleting = streams[s].deleting \ {m}
  BY <1>0, <1>1, DeletingWritten
<1>3. \A x \in Stream : /\ streams'[x].phase = streams[x].phase /\ streams'[x].thread = streams[x].thread
                        /\ streams'[x].deleting \subseteq streams[x].deleting
  BY <1>2
<1>4. RelayTypes'
  BY <1>0, <1>1, <1>2, <1>3 DEF RelayTypes
<1>5. OwnerRuns' /\ ErrorsFailed'
  BY <1>1, <1>3 DEF RelayInv, OwnerRuns, Running, ErrorsFailed
<1>6. ASSUME NoneCrossed' PROVE OldMapsEmpty' /\ DeletesEntries' /\ WillGo'
  <2>1. OldMapsEmpty /\ DeletesEntries /\ WillGo
    BY <1>3, <1>6 DEF RelayInv, NoneCrossed, StreamAt
  <2>2. OldMapsEmpty'
    BY <1>1, <2>1 DEF OldMapsEmpty
  <2>3. DeletesEntries'
    BY <1>1, <1>3, <2>1 DEF DeletesEntries, StreamAt, Visible
  <2>4. slackFaults' > 0
    BY <1>0, <1>1
  <2>5. WillGo'
    BY <1>1, <2>1, <2>4 DEF WillGo, Registered, Visible
  <2> QED BY <2>2, <2>3, <2>5
<1> QED BY <1>4, <1>5, <1>6 DEF RelayInv

\* Only a map without entries is dropped, and it is the one in use unless clean-ups cross.
LEMMA CleanedUpKeeps ==
  ASSUME RelayInv, NEW s \in Stream, CleanedUp(s)
  PROVE  RelayInv'
<1> DEFINE t == streams[s].thread
           left == evictExcessErrors(threads[t])
           next == IF left = <<>> /\ mapped \notin {0, t} THEN "crossed" ELSE "closed"
<1>0. /\ RelayTypes /\ ErrorsFailed /\ threads \in Seq(Maps) /\ Len(threads) \in Nat
      /\ mapped \in 0..Len(threads)
  BY DEF RelayInv, RelayTypes
<1>1. /\ streams[s].phase = "deleting" /\ streams[s].deleting = {}
      /\ threads' = [threads EXCEPT ![t] = left] /\ mapped' = (IF left = <<>> THEN 0 ELSE mapped)
      /\ StreamGoto(s, next)
      /\ UNCHANGED <<sessions, active, slack, marked, slackFaults>>
  BY DEF CleanedUp, StreamAt
<1>2. next \in {"crossed", "closed"} /\ (next = "closed" => left # <<>> \/ mapped \in {0, t})
  OBVIOUS
<1> HIDE DEF next
<1>3. /\ streams' \in [Stream -> StreamRecords]
      /\ \A x \in Stream \ {s} : streams'[x] = streams[x]
      /\ streams'[s].phase = next
      /\ streams'[s].deleting = streams[s].deleting /\ streams'[s].thread = streams[s].thread
  BY <1>0, <1>1, <1>2, GotoWritten
<1>4. \A x \in Stream : Running(x) => x # s /\ Running(x)' /\ streams'[x].id = streams[x].id
  BY <1>1, <1>3 DEF Running
<1>5. left = <<>> => DOMAIN left = {}
  <2> HIDE DEF left
  <2> QED OBVIOUS
<1>6. t \in DOMAIN threads => left \in Maps /\ DOMAIN left \subseteq DOMAIN threads[t]
                              /\ (\A n \in DOMAIN threads[t] : n \in DOMAIN left \/ n \in Errors(threads[t]))
                              /\ \A n \in DOMAIN left : left[n] = threads[t][n]
  BY <1>0, EvictedAreErrors
<1> HIDE DEF left, t
<1>7. /\ threads' \in Seq(Maps) /\ Len(threads') = Len(threads) /\ DOMAIN threads' = DOMAIN threads
      /\ \A x \in DOMAIN threads : DOMAIN threads'[x] \subseteq DOMAIN threads[x]
      /\ \A x \in DOMAIN threads : \A n \in DOMAIN threads[x] : n \in DOMAIN threads'[x] \/ n \in marked
      /\ \A x \in DOMAIN threads : Errors(threads'[x]) \subseteq Errors(threads[x])
      /\ t \in DOMAIN threads => threads'[t] = left
  <2>1. CASE t \in DOMAIN threads
    <3>1. /\ threads' \in Seq(Maps) /\ Len(threads') = Len(threads) /\ DOMAIN threads' = DOMAIN threads
          /\ threads'[t] = left /\ \A x \in DOMAIN threads \ {t} : threads'[x] = threads[x]
          /\ \A x \in DOMAIN threads : DOMAIN threads'[x] \subseteq DOMAIN threads[x]
          /\ \A x \in DOMAIN threads : Errors(threads'[x]) \subseteq Errors(threads[x])
      BY <1>0, <1>1, <1>6, <2>1, MapWritten
    <3>2. Errors(threads[t]) \subseteq marked
      BY <1>0, <2>1 DEF ErrorsFailed
    <3> QED BY <1>6, <2>1, <3>1, <3>2
  <2>2. CASE t \notin DOMAIN threads
    <3>1. threads' = [x \in DOMAIN threads |-> threads[x]]
      BY <1>1, <2>2
    <3>2. threads' \in [1..Len(threads) -> Maps] /\ DOMAIN threads = 1..Len(threads) /\ Len(threads) \in Nat
      BY <1>0, <3>1
    <3>3. \A x \in DOMAIN threads : threads'[x] = threads[x]
      BY <3>1
    <3> QED BY <2>2, <3>2, <3>3
  <2> QED BY <2>1, <2>2
<1>8. mapped' \in 0..Len(threads') /\ mapped' \in {0, mapped}
  BY <1>0, <1>1, <1>7
<1>9. RelayTypes'
  BY <1>0, <1>1, <1>3, <1>7, <1>8 DEF RelayTypes
<1>10. OwnerRuns' /\ ErrorsFailed'
  <2>1. OwnerRuns'
    BY <1>1, <1>4 DEF RelayInv, OwnerRuns
  <2>2. ErrorsFailed'
    BY <1>1, <1>7 DEF RelayInv, ErrorsFailed
  <2> QED BY <2>1, <2>2
<1>11. ASSUME NoneCrossed' PROVE OldMapsEmpty' /\ DeletesEntries' /\ WillGo'
  <2>1. next = "closed" /\ NoneCrossed
    BY <1>1, <1>2, <1>3, <1>11 DEF NoneCrossed, StreamAt
  <2>2. OldMapsEmpty /\ DeletesEntries /\ WillGo
    BY <2>1 DEF RelayInv
  <2>3. t \in DOMAIN threads
    BY <1>1, <2>2 DEF DeletesEntries, StreamAt, t
  <2>4. OldMapsEmpty'
    <3> SUFFICES ASSUME NEW x \in DOMAIN threads, x # mapped' PROVE DOMAIN threads'[x] = {}
      BY <1>7 DEF OldMapsEmpty
    <3>1. CASE x # mapped
      BY <1>7, <2>2, <3>1 DEF OldMapsEmpty
    <3>2. CASE x = mapped
      <4>1. left = <<>> /\ mapped # 0
        BY <1>1, <3>2
      <4>2. mapped = t
        BY <1>2, <2>1, <4>1
      <4> QED BY <1>5, <1>7, <2>3, <3>2, <4>1, <4>2
    <3> QED BY <3>1, <3>2
  <2>5. DeletesEntries'
    <3> SUFFICES ASSUME NEW x \in Stream, streams'[x].phase = "deleting"
                 PROVE  /\ streams'[x].thread \in DOMAIN threads'
                        /\ \A y \in (streams'[x].deleting \cap Visible) \ marked : y \in DOMAIN threads'[streams'[x].thread]
      BY <1>1 DEF DeletesEntries, StreamAt, Visible
    <3>1. x # s /\ streams'[x] = streams[x]
      BY <1>3, <2>1
    <3>2. /\ streams[x].thread \in DOMAIN threads
          /\ \A y \in (streams[x].deleting \cap Visible) \ marked : y \in DOMAIN threads[streams[x].thread]
      BY <2>2, <3>1 DEF DeletesEntries, StreamAt
    <3> QED BY <1>7, <3>1, <3>2
  <2>6. WillGo'
    <3> SUFFICES ASSUME NEW y \in Visible, y \notin marked
                 PROVE  /\ Registered(y)'
                        /\ \/ slackFaults > 0
                           \/ \E x \in Stream : Running(x)'
                           \/ \E x \in Stream : streams'[x].phase = "deleting" /\ y \in streams'[x].deleting
      BY <1>1 DEF WillGo, StreamAt, Visible
    <3>1. /\ mapped # 0 /\ y \in DOMAIN threads[mapped]
          /\ \/ slackFaults > 0
             \/ \E x \in Stream : Running(x)
             \/ \E x \in Stream : streams[x].phase = "deleting" /\ y \in streams[x].deleting
      BY <2>2 DEF WillGo, Registered, StreamAt
    <3>2. mapped \in DOMAIN threads
      BY <1>0, <3>1
    <3>3. y \in DOMAIN threads'[mapped]
      BY <1>7, <3>1, <3>2
    <3>4. left # <<>>
      <4> SUFFICES ASSUME left = <<>> PROVE FALSE
        OBVIOUS
      <4>1. mapped = t
        BY <1>2, <2>1, <3>1
      <4> QED BY <1>5, <1>7, <2>3, <3>3, <4>1
    <3>5. Registered(y)'
      BY <1>1, <3>1, <3>3, <3>4 DEF Registered
    <3>6. \A x \in Stream : y \in streams[x].deleting => streams'[x] = streams[x]
      BY <1>1, <1>3
    <3> QED BY <1>4, <3>1, <3>5, <3>6
  <2> QED BY <2>4, <2>5, <2>6
<1> QED BY <1>9, <1>10, <1>11 DEF RelayInv

LEMMA RelayInitInv ==
  RelayInit => RelayInv
<1> SUFFICES ASSUME RelayInit PROVE RelayInv
  OBVIOUS
<1>1. /\ streams = [s \in Stream |-> IdleStream] /\ sessions = <<>> /\ active = 0 /\ threads = <<>>
      /\ mapped = 0 /\ slack = <<>> /\ slackFaults = 0
  BY DEF RelayInit
<1>2. IdleStream \in StreamRecords /\ IdleStream.phase = "waiting" /\ IdleStream.deleting = {}
  BY DEF IdleStream, StreamRecords, Statuses
<1>3. RelayTypes
  <2>1. streams \in [Stream -> StreamRecords] /\ \A s \in Stream : streams[s].deleting = {}
    BY <1>1, <1>2
  <2>2. DOMAIN threads = {}
    <3>1. threads = <<>>
      BY <1>1
    <3> QED BY <3>1
  <2>3. /\ sessions \in Seq(Sessions) /\ active \in 0..Len(sessions)
        /\ threads \in Seq(Maps) /\ mapped \in 0..Len(threads)
        /\ slack \in Seq({"working", "done", "failed", "deleted"}) /\ slackFaults \in Nat
    <3>1. sessions = <<>> /\ threads = <<>> /\ slack = <<>> /\ active = 0 /\ mapped = 0 /\ slackFaults = 0
      BY <1>1
    <3> QED BY <3>1
  <2> QED BY <2>1, <2>2, <2>3 DEF RelayTypes
<1>4. DOMAIN threads = {} /\ Visible = {}
  <2>1. threads = <<>> /\ slack = <<>>
    BY <1>1
  <2> QED BY <2>1 DEF Visible
<1>5. OwnerRuns /\ ErrorsFailed /\ OldMapsEmpty /\ WillGo
  BY <1>1, <1>4 DEF OwnerRuns, ErrorsFailed, OldMapsEmpty, WillGo
<1>6. DeletesEntries
  BY <1>1, <1>2 DEF DeletesEntries, StreamAt
<1> QED BY <1>3, <1>5, <1>6 DEF RelayInv

LEMMA RelayStep ==
  RelayInv /\ [RelayNext]_relayVars => RelayInv'
<1> SUFFICES ASSUME RelayInv, [RelayNext]_relayVars PROVE RelayInv'
  OBVIOUS
<1>1. ASSUME NEW s \in Stream, Start(s) PROVE RelayInv'
  BY <1>1, StartKeeps
<1>2. ASSUME NEW s \in Stream, Note(s) PROVE RelayInv'
  BY <1>2, NoteKeeps
<1>3. ASSUME NEW s \in Stream, Flush(s) PROVE RelayInv'
  BY <1>3, FlushKeeps
<1>4. ASSUME NEW s \in Stream, Posted(s) PROVE RelayInv'
  BY <1>4, PostedKeeps
<1>5. ASSUME NEW s \in Stream, Updated(s) PROVE RelayInv'
  BY <1>5, UpdatedKeeps
<1>6. ASSUME NEW s \in Stream, DoneIgnored(s) PROVE RelayInv'
  BY <1>6, DoneIgnoredKeeps
<1>7. ASSUME NEW s \in Stream, Done(s) \/ Broken(s) PROVE RelayInv'
  BY <1>7, FinishKeeps DEF Done, Broken, Ends
<1>8. ASSUME NEW s \in Stream, FinalUpdate(s) PROVE RelayInv'
  BY <1>8, FinalUpdateKeeps
<1>9. ASSUME NEW s \in Stream, cleanupProgressMessages(s) PROVE RelayInv'
  BY <1>9, CleanupKeeps
<1>10. ASSUME NEW s \in Stream, CleanedUp(s) PROVE RelayInv'
  BY <1>10, CleanedUpKeeps
<1>11. ASSUME NEW s \in Stream, SlackFails(s) PROVE RelayInv'
  BY <1>11, SlackFailsKeeps
<1>12. ASSUME NEW s \in Stream, NEW m \in streams[s].deleting, Deleted(s, m) PROVE RelayInv'
  BY <1>12, DeletedKeeps
<1>13. ASSUME NEW s \in Stream, NEW m \in streams[s].deleting, DeleteFails(s, m) PROVE RelayInv'
  BY <1>13, DeleteFailsKeeps
<1>14. ASSUME NEW x \in DOMAIN sessions, Tick(x) \/ TickLands(x) PROVE RelayInv'
  BY <1>14, TickKeeps
<1>15. CASE UNCHANGED relayVars
  BY <1>15 DEF relayVars, RelayInv, RelayTypes, OwnerRuns, Running, ErrorsFailed, NoneCrossed, OldMapsEmpty,
               DeletesEntries, WillGo, StreamAt, Registered, Visible
<1> QED BY <1>1, <1>2, <1>3, <1>4, <1>5, <1>6, <1>7, <1>8, <1>9, <1>10, <1>11, <1>12, <1>13, <1>14, <1>15 DEF RelayNext

\* When all streams of a thread have ended, every message is deleted but those an error
\* was put in, by the end of its own run or of another stream, and those Slack refused to
\* delete, which are registered for the next clean-up (progress-manager.ts:270); for any
\* number of streams that overlap in any way, whatever ids their sessions have, as long as
\* no two clean-ups crossed.
THEOREM NoMessageIsLeftBehind == RelaySpec => []NothingLeftBehind
<1>1. RelayInv => NothingLeftBehind
  <2> SUFFICES ASSUME RelayInv, AllQuiet, NoneCrossed, NEW m \in Visible \ marked
               PROVE  slackFaults > 0 /\ Registered(m)
    BY DEF NothingLeftBehind, NoneCrossed
  <2>1. WillGo
    BY DEF RelayInv
  <2>2. \A s \in Stream : ~Running(s) /\ ~StreamAt(s, "deleting")
    BY DEF AllQuiet, Running, StreamAt
  <2> QED BY <2>1, <2>2 DEF WillGo
<1> QED BY <1>1, RelayInitInv, RelayStep, PTL DEF RelaySpec

=============================================================================
