------------------------------- MODULE Intake -------------------------------
(***************************************************************************)
(* What comes in from outside: POST /slack/events, /github/webhook and     *)
(* /cron of src/packages/gateway/src/app.ts.                               *)
(*                                                                         *)
(* A behaviour is about one subject: a post in Slack, an event at GitHub,  *)
(* or two runs of a cron job.  A post that mentions the bot is sent as two *)
(* events, and every event may be delivered again, at once or when the     *)
(* answer does not come.  A handler decides, writes a queue file and       *)
(* answers; what it decided is kept in the webhook history.  Pushes        *)
(* are PushSync's subject, and what becomes of the files EventQueue's.     *)
(***************************************************************************)
EXTENDS Naturals, Sequences, Rules

CONSTANTS
    MaxDeliveries,  \* bound: requests
    MaxMishaps       \* bound: writes that fail, crashes of the gateway

VARIABLES
    subject,     \* what is sent
    following,     \* the thread or branch it belongs to has a session
    webhooks,    \* the requests with their handlers
    files,       \* the queue files written so far
    archive,     \* the entries of the webhook history
    mishaps      \* writes that failed, and crashes

intakeVars == <<subject, following, webhooks, files, archive, mishaps>>

-----------------------------------------------------------------------------
(***************************************************************************)
(* Slack                                                                   *)
(***************************************************************************)

\* How far a request gets before it is an event: badly signed or stale, no JSON,
\* Slack's challenge, something no schema fits.
SlackForms == {"unsigned", "garbled", "challenge", "unknown", "event"}

\* subtype "other" stands for edits, joins and all that is not written by a user.
SlackPosts ==
    [kind : {"slack"}, form : SlackForms, bot : BOOLEAN, allowed : BOOLEAN,
     self : BOOLEAN, text : {"none", "plain", "mention"}, files : BOOLEAN,
     subtype : {"none", "file_share", "thread_broadcast", "other"}]

\* Slack sends a post that mentions the bot twice, and its reactions.
SlackEvents(p) ==
    {"message", "reaction"} \cup (IF p.text = "mention" THEN {"app_mention"} ELSE {})

isForwardableSlackMessage(p) == p.subtype \in {"none", "file_share", "thread_broadcast"}

\* Mutant of MentionDuplicate: every event of a post is looked at for itself.
NoMentionDuplicate(p) == FALSE

\* Slack sends the mention of the bot as an app_mention too.
MentionDuplicate(p) == p.text = "mention"

\* handleSlackEventsWebhook
SlackVerdict(p, event) ==
    FirstOf(<<
        <<p.form = "unsigned", "refused">>,
        <<p.form # "event", "ignored">>,
        <<~p.bot, "ignored">>,
        <<event # "reaction" /\ p.text = "none"
            /\ ~(event = "message" /\ p.subtype = "file_share" /\ p.files), "ignored">>,
        <<p.self, "ignored">>,
        <<event # "reaction" /\ ~p.allowed, "ignored">>,
        <<event = "app_mention", "queue">>,
        <<event = "reaction" \/ ~isForwardableSlackMessage(p), "ignored">>,
        <<MentionDuplicate(p), "ignored">>,
        <<~following, "ignored">>,
        <<TRUE, "queue">> >>)

-----------------------------------------------------------------------------
(***************************************************************************)
(* GitHub                                                                  *)
(***************************************************************************)

GitHubTypes == {"issue_comment", "review_comment", "review", "closed", "check_suite"}

\* "other_header": the payload is of another type than the header says.
GitHubForms == {"unsigned", "unsupported", "garbled", "unknown", "unmapped",
                "other_header", "event"}

\* onPr: the issue is a pull request; byBot: the pull request is the bot's.
GitHubEvents ==
    [kind : {"github"}, form : GitHubForms, type : GitHubTypes, onPr : BOOLEAN,
     self : BOOLEAN, body : {"empty", "plain", "mention"}, byBot : BOOLEAN,
     branch : BOOLEAN]

shouldIgnoreGitHubEvent(g) ==
    CASE g.type = "issue_comment" -> ~g.onPr \/ g.self \/ g.body # "mention"
      [] g.type = "review_comment" -> g.self \/ (g.body # "mention" /\ ~g.byBot)
      [] g.type = "review" ->
            g.body = "empty" \/ g.self \/ (g.body # "mention" /\ ~g.byBot)
      [] OTHER -> FALSE

\* handleGitHubWebhook, up to the gate of a check suite
GitHubVerdict(g) ==
    FirstOf(<<
        <<g.form = "unsigned", "refused">>,
        <<g.form # "event", "ignored">>,
        <<shouldIgnoreGitHubEvent(g), "ignored">>,
        <<g.type = "check_suite" /\ ~g.branch, "ignored">>,
        <<g.type \in {"closed", "check_suite"} /\ ~following, "ignored">>,
        <<g.type = "check_suite", "gate">>,
        <<TRUE, "queue">> >>)

\* Comments on issues do not say the branch; it is looked up later.
GitHubKey(g) == IF g.type = "issue_comment" THEN "pending" ELSE "branch"

\* verifyThorAuthoredSha: the commit is there and is the bot's.
verifyThorAuthoredSha(answer) == answer = "ours"

GateAnswers == {"ours", "missing", "foreign", "failed"}

-----------------------------------------------------------------------------
(***************************************************************************)
(* Cron                                                                    *)
(***************************************************************************)

\* CRON_SECRET may not be set, or not be the caller's; the request may not parse.
CronForms == {"unsigned", "garbled", "event"}

CronJobs == [kind : {"cron"}, form : CronForms, keyed : BOOLEAN]

CronVerdict(c) ==
    FirstOf(<< <<c.form # "event", "refused">>, <<TRUE, "queue">> >>)

\* The second in which a job without a key runs is part of the key; the
\* millisecond is its id.
deriveCronCorrelationKey(c, time) == IF c.keyed THEN "given" ELSE <<"cron", time>>

-----------------------------------------------------------------------------
(***************************************************************************)
(* Requests                                                                *)
(***************************************************************************)

Subjects ==
    {p \in SlackPosts : p.form # "event" =>
        p.bot /\ p.allowed /\ ~p.self /\ p.text = "plain" /\ ~p.files /\ p.subtype = "none"}
    \cup {g \in GitHubEvents : g.form # "event" =>
        g.type = "review" /\ g.onPr /\ ~g.self /\ g.body = "mention" /\ g.byBot /\ g.branch}
    \cup CronJobs

IntakeInit ==
    /\ subject \in Subjects
    /\ following \in BOOLEAN
    /\ webhooks = <<>>
    /\ files = {}
    /\ archive = {}
    /\ mishaps = 0

\* The events a subject is sent as; of a job, the milliseconds in which it runs.
EventsOf(s) ==
    CASE s.kind = "slack" -> SlackEvents(s)
      [] s.kind = "github" -> {"delivery"}
      [] s.kind = "cron" -> {1, 2}

Verdict(s, event) ==
    CASE s.kind = "slack" -> SlackVerdict(s, event)
      [] s.kind = "github" -> GitHubVerdict(s)
      [] s.kind = "cron" -> CronVerdict(s)

\* A file is named by the time and id of its event, which are the same when it
\* is delivered again; a job has both from the clock.
Enqueued(s, event) ==
    CASE s.kind = "slack" ->
            [name |-> event, key |-> "thread", interrupt |-> event = "app_mention"]
      [] s.kind = "github" ->
            [name |-> event, key |-> GitHubKey(s),
             interrupt |-> s.type \notin {"closed", "check_suite"}]
      [] s.kind = "cron" ->
            [name |-> event, key |-> deriveCronCorrelationKey(s, event), interrupt |-> FALSE]

WebhookAt(i, phase) == webhooks[i].phase = phase

\* The entry of request i in the history, written when its handler has answered
\* or thrown; GitHub's history keeps apart what was ingested.
Entry(i, answer) ==
    IF subject.kind = "cron" THEN {}
    ELSE {[request |-> i, ingested |-> subject.kind = "github" /\ answer = "ok"]}

Answer(i, answer) ==
    /\ webhooks' = [webhooks EXCEPT ![i].phase = "done", ![i].answer = answer]
    /\ archive' = archive \cup Entry(i, answer)

Arrive(event) ==
    /\ Len(webhooks) < MaxDeliveries
    /\ webhooks' = Append(webhooks, [event |-> event, phase |-> "new", answer |-> "none"])
    /\ UNCHANGED <<subject, following, files, archive, mishaps>>

\* The session of the thread or branch is bound.
Engage ==
    /\ ~following
    /\ following' = TRUE
    /\ UNCHANGED <<subject, webhooks, files, archive, mishaps>>

\* 401, 400, or 200 with ignored: true
Decline(i) ==
    /\ WebhookAt(i, "new")
    /\ Verdict(subject, webhooks[i].event) \notin {"queue", "gate"}
    /\ Answer(i, Verdict(subject, webhooks[i].event))
    /\ UNCHANGED <<subject, following, files, mishaps>>

Admit(i) ==
    /\ WebhookAt(i, "new")
    /\ LET verdict == Verdict(subject, webhooks[i].event)
       IN  /\ verdict \in {"queue", "gate"}
           /\ webhooks' = [webhooks EXCEPT ![i].phase = verdict]
    /\ UNCHANGED <<subject, following, files, archive, mishaps>>

\* Git says whose the commit of a check suite is, or cannot be asked.
Gate(i) ==
    /\ WebhookAt(i, "gate")
    /\ \E answer \in GateAnswers :
          IF verifyThorAuthoredSha(answer)
          THEN webhooks' = [webhooks EXCEPT ![i].phase = "queue"] /\ UNCHANGED archive
          ELSE Answer(i, "ignored")
    /\ UNCHANGED <<subject, following, files, mishaps>>

\* Mutant of Enqueue: the request is answered before the file is written.
EnqueueAnswersFirst(i) ==
    /\ WebhookAt(i, "queue")
    /\ webhooks' = [webhooks EXCEPT ![i].phase = "written"]
    /\ UNCHANGED <<subject, following, files, archive, mishaps>>

Enqueue(i) ==
    /\ WebhookAt(i, "queue")
    /\ files' = files \cup {Enqueued(subject, webhooks[i].event)}
    /\ webhooks' = [webhooks EXCEPT ![i].phase = "written"]
    /\ UNCHANGED <<subject, following, archive, mishaps>>

\* The file cannot be written: the handler throws, and 500 is answered.
EnqueueFails(i) ==
    /\ WebhookAt(i, "queue")
    /\ mishaps < MaxMishaps
    /\ mishaps' = mishaps + 1
    /\ Answer(i, "error")
    /\ UNCHANGED <<subject, following, files>>

Accept(i) ==
    /\ WebhookAt(i, "written")
    /\ Answer(i, "ok")
    /\ UNCHANGED <<subject, following, files, mishaps>>

CrashGateway ==
    /\ mishaps < MaxMishaps
    /\ mishaps' = mishaps + 1
    /\ webhooks' = [i \in DOMAIN webhooks |-> [webhooks[i] EXCEPT !.phase = "done"]]
    /\ UNCHANGED <<subject, following, files, archive>>

IntakeNext ==
    \/ \E event \in EventsOf(subject) : Arrive(event)
    \/ Engage
    \/ \E i \in DOMAIN webhooks :
          \/ Decline(i) \/ Admit(i) \/ Gate(i)
          \/ Enqueue(i) \/ EnqueueFails(i) \/ Accept(i)
    \/ CrashGateway

IntakeSpec == IntakeInit /\ [][IntakeNext]_intakeVars

-----------------------------------------------------------------------------
(***************************************************************************)
(* Properties                                                              *)
(***************************************************************************)

\* A post wakes its session once, although Slack sends a post that mentions the
\* bot as two events and each of them any number of times, and whether or not the
\* thread gets its session in between (app.ts:1300).
OneFilePerPost ==
    subject.kind = "slack" =>
        \A f, g \in files : f.name = g.name

\* What was accepted has a file, whatever fails or crashes, and the history calls
\* an event ingested when it has one: when all handlers are done and none was cut
\* off, the two agree (app.ts:1934).
AnswersAgree ==
    /\ \A i \in DOMAIN webhooks :
          webhooks[i].answer = "ok" => \E f \in files : f.name = webhooks[i].event
    /\ \A e \in archive :
          e.ingested => \E f \in files : f.name = webhooks[e.request].event
    /\ subject.kind = "github" /\ mishaps = 0 /\ (\A i \in DOMAIN webhooks : WebhookAt(i, "done"))
          => (files # {} <=> \E e \in archive : e.ingested)

=============================================================================
