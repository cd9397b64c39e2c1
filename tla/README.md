# Kally: TLA+ models and proofs

This directory specifies the parts of Kally in which order, failure and
concurrency decide whether the program is right. Every definition is translated
from the TypeScript under `src/packages`; `PROJECT.json` says for each one which
lines it stands for, and lists the runs, the mutants that show that each property
can fail, the findings, the hazards and the theorems.

| Module | What it is |
| --- | --- |
| `EventQueue` | the gateway's directory queue (`gateway/src/queue.ts`) |
| `EventInbox` | what the queue promises: an at-least-once inbox |
| `AliasLog` | `aliases.jsonl` and the copies three processes keep of it (`common/src/event-log.ts`, `correlation.ts`) |
| `Approval` | one approval: record, resolution, clicks, outcomes (`remote-cli/src/mcp-handler.ts`, `approval-store.ts`, `gateway/src/app.ts`, `service.ts`) |
| `RunnerTrigger` | `POST /trigger` for one conversation, with the event bus and the session log (`runner/src/index.ts`, `event-bus.ts`) |
| `GatewayDispatch` | from the queue to the runner: plan, reroute, trigger, ack (`gateway/src/app.ts`, `service.ts`) |
| `Intake`, `PushSync` | Slack, GitHub and cron requests; pushes and their worktree (`gateway/src/app.ts`, `slack.ts`, `github.ts`, `cron.ts`) |
| `ProgressRelay` | the progress messages of a Slack thread (`gateway/src/progress-manager.ts`) |
| `CommandArgs`, `GitPolicy`, `GhPolicy` | command lines and the policies on them (`remote-cli/src/policy*.ts`) |
| `CommandExec` | the `/exec` endpoints and what they bind (`remote-cli/src/index.ts`, `correlation.ts`) |
| `Sandbox` | one Daytona machine per worktree (`remote-cli/src/sandbox.ts`) |
| `UserCredentials` | `/kally`, the vault's client and the vault (`gateway/src/enrollment.ts`, `common/src/vault-client.ts`, `vault/src`) |
| `ToolAccess` | MCP upstreams and the calls to them (`remote-cli/src/mcp-handler.ts`, `upstream.ts`) |
| `Rules` | chains of early returns |
| `MC*` | the same, instantiated for TLC; `MCServices` extends the parts that share no state, and each behaviour moves one of them |
| `EventQueueProofs`, `AliasLogProofs`, `ApprovalProofs`, `RunnerTriggerProofs`, `GatewayDispatchProofs` | theorems about the module each is named after, and their proofs |
| `WorktreeProofs` | theorems about `PushSync` and `Sandbox` |
| `CommandProofs` | theorems about `CommandExec`, and lemmas about `CommandArgs` |
| `ServiceProofs` | theorems about `Intake`, `ProgressRelay`, `UserCredentials` and `ToolAccess` |

Run a model with `tlc -config X.cfg MCModule`, a proof with `tlapm XProofs.tla`.

# 1. The system

Kally is a Slack and GitHub bot around OpenCode. Webhooks, cron jobs and button
clicks reach the **gateway**, which writes each accepted event to a file in a queue
directory, groups the files by conversation, and posts batches to the **runner**.
The runner finds or creates the conversation's OpenCode session, sends the
prompt, follows the session's events and streams progress back. OpenCode's agent
works through **remote-cli**, which holds all credentials: it runs git, gh and
other commands under policies, forwards MCP tool calls, and parks the dangerous
ones as approvals until somebody presses a button in Slack. The three processes
share a work directory; the **vault** keeps per-user credentials.

What they share is: HTTP calls; the alias log, which says which anchor (logical
conversation) a Slack thread, a branch or a session belongs to; session logs;
approval records.

## Inventory

**Event queue** (`gateway/src/queue.ts`). State: one file per event, named by
source time and id; `dead-letter/`; in memory the batch in flight under each lock
key, and a scan timer. Operations: `enqueue`, `scan`, and the handler's `ack`,
`reject`, plain return, or throw. Hard: lock keys are looked up again on every
scan while other processes bind keys; `ack` works on file names; crashes half way
through deleting; batches that are put off. Correct when no conversation is
handled twice at once, nothing accepted vanishes, and everything accepted is
settled. *Modelled.*

**Alias log and correlation keys** (`common/src/event-log.ts`,
`correlation.ts`). State: an append-only file; in each process a copy and the size
it was loaded at. Operations: look-up, `ensureAnchorForCorrelationKey`,
`appendAlias`. Hard: three processes interleave between file calls, and the size
is the only signature. Correct when a copy holds nothing the file does not say,
answers do not go back in time, no process mints twice for a key, and a thread
stays with its anchor (which it does not, section 5). *Modelled;
the reverse map and the trigger slices only as far as `RunnerTrigger` needs them.*

**Approvals** (`remote-cli/src/mcp-handler.ts`, `approval-store.ts`,
`gateway/src/app.ts`, `service.ts`). State: a JSON record per action; the
resolutions in flight; the gateway's attempts per click; the Slack card.
Operations: `resolveApproval` with its retries, the upstream call, outcome events,
card updates. Hard: double clicks and changes of mind, retries of attempts that
are still running, crashes between the upstream call and the record. Correct when
one decision is taken, carried out once, and told to the session. *Modelled.*

**Runner triggers and event bus** (`runner/src/index.ts`, `event-bus.ts`).
State: triggers in flight, key locks, one event stream per directory with its
subscriptions, session logs. Operations: `POST /trigger`, shutdown. Hard: the busy
check is made after the lock is released, events arrive later than answers,
streams die, several parties end one trigger. Correct when the log, the map and
the answers agree, one session is created per conversation, a request is answered,
and "completed" means completed. *Modelled.*

**Gateway dispatch** (`gateway/src/app.ts` 980-1130, `service.ts` 190-710). State:
none of its own besides the queue and the answers it waits for. Operations: planning a
batch, resolving pending branch keys and rerouting, triggering the runner,
acking or rejecting. Hard: a crash between re-enqueueing and acking, errors that
put a batch off, a prompt accepted although the acceptance is not seen.
Correct when a batch is acked only once the runner has it or it cannot be used,
and a rerouted event ends up in the queue. *Modelled.*

**Gateway intake** (`app.ts`, `slack.ts`, `github.ts`, `github-gate.ts`,
`cron.ts`). State: the queue files, the webhook history, and, for pushes, a
worktree. Operations: the three webhooks. Hard: Slack sends a mention as two events
and repeats what is not answered; writes fail between decision and answer; push
handlers run git commands on one worktree while the agent uses it. Correct when a
post wakes its session once, what was answered as accepted is in the queue, and a
worktree ends up with its branch. *Modelled, apart from signatures.*

**Progress messages** (`gateway/src/progress-manager.ts`). State: a session per
thread with a message, tickers and a registry. Hard: posts in flight when a
session is superseded, a late `done`, an error that names no session. Correct when
no run that succeeded leaves a message behind and a late event of an old run does
not finish a new one (which it does, section 5).
*Modelled for the gateway; slack-mcp's older copy is not.*

**Command policies** (`remote-cli/src/policy*.ts`). Pure decisions on argument
lists. **Command execution** (`index.ts`, `exec.ts`): what is allowed is rewritten
(a disclaimer in what gh posts), run, and bound to the session. Hard: policy,
rewriting and binding each read the argument list for themselves, and must agree.
*Modelled.*

**MCP tool access** (`mcp-handler.ts`, `upstream.ts`, `policy-mcp.ts`). State: one
connection per upstream, shared by all calls. Hard: connections that close while
others are being made, retries and their end, calls that wait for a connection.
Correct when nobody is given a dead connection that is not being repaired. *Modelled,
apart from connections per user.*

**Sandboxes** (`sandbox.ts`, `index.ts` 346-456 and 634-800). State: a remote
machine per worktree with the commit it was last filled with as a label. Hard: two
commands at once, a step of several failing, changes on both sides. Correct when a
worktree has one sandbox and a command runs on the worktree's files. *Modelled.*

**Vault and enrollment** (`vault/src`, `common/src/vault-client.ts`,
`gateway/src/enrollment.ts`). State: one encrypted file behind a mutex, an audit
log. Hard: interleaved reads and writes, answers that are lost or late. Correct
when people are told what is so. *Modelled, without the cryptography.*

**Not modelled**, because they keep no state that outlives a call, are pure
I/O or formatting, or are not used: health check, Slack clients, the token cache
for GitHub (its lock only saves work), Slack, Salesforce and Google MCP servers,
work log, tracing, session notes, admin and dashboard pages, the OpenCode wrapper,
the credential proxy, container images and scripts. `PROJECT.json` lists each with
its reason.

# 2. What is modelled, and how it corresponds to the code

All modelled processes are Node programs: what runs between two awaits is one
step, and other steps come in between. Files are written by synchronous calls, so
that processes interleave between file calls where more than one has the file
(`AliasLog`), and a process's stretch of code is one step where it has it alone
(`EventQueue`).

## EventQueue

| Code | Model |
| --- | --- |
| files in the queue directory | `files`: what each name holds |
| `readyAt <= now` | `ripe`; `Ripen` is time passing |
| `processing` | `inflight`: lock key to batch |
| `enqueue`, with `ensureAnchorForCorrelationKey` | `Enqueue` |
| `scan`, group, order, readiness, launch | `Scan`, `ScanUnreadable` |
| handler calls `ack` / `reject` | `HandlerAck`, `HandlerReject` |
| handler returns / throws | `HandlerReturn`, `HandlerThrow` |
| other processes binding keys | `BindElsewhere`, and `MoveAlias`, which `moved` remembers |
| process death, also in the middle of `ack` or `reject` | `Crash`, `CrashInAck`, `CrashInReject` |

An interrupt event makes its group ready; without one the whole group has to be
ready. The key's binding and the file's write are one step, because no await is
between them. `HandlerThrow` is part of the queue's contract although the
gateway's own handler catches everything.

`EventInbox` is the abstract specification: events are pending or settled, settling
may be repeated, nothing disappears. `ImplementsInbox` maps pending to the
directory and settled to the outcomes.

## AliasLog

The file is a sequence of records; a copy holds, for each key, the place of the
record it has. Stat, read, append and re-stat are steps of their own. Records stand
for bytes: sizes are only compared for equality, and each record makes the file
longer. `StatFails` and `ReadFails` are a stat or a read whose failure the code takes
for an empty file, `RestatFails` one after an append, where the size is kept. The
constants say which processes bind unbound keys (`Ensurers`: the gateway and the
runner) and which rebind (`Rebinders`: the runner for its sessions, remote-cli for the
threads and branches a session works on). `basis` is history: whether a copy rests on
the file, on that and a record of its own process, or on a load that failed.

## Approval

One action, because actions share nothing. A request is a click and the number of
the gateway's attempt; `wire` holds those remote-cli has not received. `resolving`,
`phase` and `waiters` are the entry of `resolvingApprovals` and the requests that
share its promise; the upstream call is connect, call, write. `cut` remembers
clicks of which an attempt got no answer. The channel for the outcome event is
always there; the reviewer that the record keeps is not modelled (a later click
with the same decision gets the stored result, whoever pressed).

## RunnerTrigger

One conversation whose key is bound, so that all its requests take one lock. `pc`
follows a request from await to await:

    locking -> getting -> checking -> seenBusy -> aborting -> aborted -> settling
        \-> creating -> binding \-> attaching -> prompting -> streaming

`created`, `running` and the events are OpenCode, modelled from how the runner uses
it: a session works on the prompts it has been sent and then publishes `idle`; an
abort ends them and publishes `error`, `idle` or both. Calls answer at once, events
are read from the stream later (`wire`), and then wait in the subscription's
buffer (`queue`). `Listen` and `Unlisten` are `subscribe` and `close`, with the
bus closing when its last subscription goes. `AttachFails` and `PromptFails` leave
the subscription open, as the code does. The log has the trigger records of
each session; `SliceStatus` is `readTriggerSlice`.

Not modelled: requests that name a session (the gateway sends none), subsessions,
the progress written to the answer before its end.

## GatewayDispatch

The queue is the inbox `EventQueue` is shown to implement, with entries
`[event, key]`; a key is its own lock. `phase` follows the handler of a key from
await to await: `TakePending` and the branch's lookup (`HeadFound`, or `HeadNotFound`,
which rejects: every failed lookup is final), `Reroute` one event at a time and
`RerouteDone`, which acks; `TakeAndPost` and the runner's answer (`RunnerAccepts`
and `Accepted`, which acks, or busy, refused, failed, lost); `TakeAndDrop`, which
rejects a batch without a directory or with more than one. A crash leaves the files.

## Intake and PushSync

`Intake` is about one subject: a Slack post in all its forms, a GitHub event, or
two runs of a cron job. Its verdicts are chains of early returns in the code's
order (`Rules`), then come the queue file, the history and the answer as steps
of their own. `PushSync` runs the four git commands of a push handler one by one
in a worktree that other handlers, the agent, and others at GitHub change;
`FETCH_HEAD` is the worktree's, not the handler's. A commit is the sequence of
commits up to it, so that being an ancestor is being a prefix.

## ProgressRelay

`streams` are the runner's answers, read one event at a time; `sessions` the
`ProgressSession` objects, `active` and `mapped` the two registries. Wherever the
code awaits Slack, other streams and tickers go on. A stream carries the id of an
OpenCode session, which the runs of a thread share or not. An error of any stream ends
the session that is active, as completed when it speaks of an abort.
`marked` is history: the messages an error was put in. Time is not modelled: a
threshold is met by tools or by an event, and a ticker may run at any time.

## CommandArgs, GitPolicy, GhPolicy, CommandExec

An argument is a word, a flag or a flag with an inline value; words are split at
slashes. Each validator is a predicate on the whole line. `CommandExec` takes one
request through policy, rewriting, run and binding; `bound` has the keys that
are bound to the session's anchor.

Each loop over the arguments (`Scans`, `Kept`, `BodySeen`) is a recursive function that
gives what the loop has found after each argument, so that the proofs can speak of a
loop half way through. A flag without an inline value has nothing else (`Arg`).

## Sandbox

A commit is its tree, a tree gives each file its content. `stage` follows a
request: wait for the lock, find or create, fill or synchronise, label, `git
status`, overlay, run, pull. The agent edits, commits and restores in between.
Daytona's `create` is one step; a label of the commit is on the machine before
the commit is (`sandbox.ts:81`).

## UserCredentials

An ask is a command, a button, a form or a tool call of one person. The vault
serves one request at a time (its mutex covers load, change and an atomic
replacement, so a request is one step); the client may give up before or after
that, and a request it gave up on may still be carried out (`LateEffect`). `seen`
remembers the vault's files since each ask was made.

## ToolAccess

`conns` are all connections ever made, `instances` what calls are given, `chains`
the reconnection timers. Connecting and listing the tools are one step that may
fail before the connection is there (`refused`), with it (`dropped`, which also
starts a reconnection of its own), or leave it open. The policy is validated for
the first connection of an instance only.

# 3. What the runs check

| Run | Instance | Shows |
| --- | --- | --- |
| `queue` | a mention and a push, delivered twice; the push's key is bound by others, to the mention's anchor or another, and moved; a crash, also in the middle of settling, an unreadable file | `SerialPerConversation`, `AckedPerDelivery`, `NoSilentLoss`, `ImplementsInbox`, `EventuallySettled`, `MentionNotDelayed` |
| `queue_moved` | both keys move | `NotDispatchedTwice` fails |
| `alias` | gateway and runner bind, runner rebinds, 2 keys, 3 records, a crash or a failed stat or read | `CacheFromLog`, `FreshAnswers`, `MintsOnce`, `MonotonicAnswers` |
| `alias_stale` | gateway binds, remote-cli rebinds, no failures | `MintsForUnbound` fails |
| `approval` | Approve and Reject by two people, 3 attempts, a crash, a fault | `DecisionFinal`, `ExecutedAsDecided`, `OutcomesAgree`, `SessionTold`, `EveryClickAnswered` |
| `approval_card` | three clicks, no failures | `CardAgrees` fails |
| `runner` | a message and a mention, 2 sessions, a crash, a shutdown, a death of the stream, a fault, an unwritten end | `OneEndPerStart`, `OpenIffInFlight`, `AnswersAgreeWithLog`, `NoDuplicateSessions`, `SliceFinal`, `EveryTriggerAnswered` |
| `runner_early` | no failures | `CompletedMeansDone` fails |
| `dispatch` | a comment that waits for its branch, a push on it, a cron job, a crash, a failure | `NothingDropped`, `PromptedPerDelivery`, `ImplementsInbox`, `EventuallySettled` |
| `services` | `PushSync`: 3 pushes, 2 commits, a failure; `Intake`: 3 requests, a failure; `ProgressRelay`: 2 streams, a failure; `CommandExec`: all lines in `MCCommand`; `Sandbox`: 2 requests, 2 files, 2 edits, a failure; `UserCredentials`: 2 asks, a failure; `ToolAccess`: a call, 4 connections, 3 failures | `Aligned`, `OneFilePerPost`, `AnswersAgree`, `NothingLeftBehind`, `DisclaimerPlaced`, `KeyIsBranch`, `OneSandboxPerWorktree`, `AnswersTrue`, `DeadIsRepaired` |
| `progress_other_error` | 2 runs that resume one session, no failures of Slack | `OnlyFailuresStay` fails |
| `sandbox_overlay` | 2 commands, no failures | `OverlayMatches` fails |

The first run of each of the five core components checks its type invariant too.

**Queue.** The property that is easiest to lose is `SerialPerConversation`: a
batch is in flight under a key that was not bound when it was formed, the key is
bound, and the next scan finds the same files, or new ones of the same
conversation, under the anchor. It holds because a key that can be bound is bound
before its first file is written. It holds while other keys are moved, too, and these
may share batches with the one in question: what is excepted (`Unmoved`) is only an event
whose own key has been moved, for which it fails (`queue_moved`). `AckedPerDelivery`,
with the same exception, compares acks with deliveries: a stale handler
cannot settle a batch that another has been given. `ImplementsInbox` covers every
order of crashes, unreadable files and moved keys at once, without an exception.

**Alias log.** Both runs have two writing processes, as every deployment does. The
copies are then *not* coherent: after its own append a process takes the file's size for
the size of its copy, though another process may have appended in between, and it goes on
to mint for a key that is bound (`alias_stale`). What holds all the
same, with any number of writers: answers never go back (`MonotonicAnswers`), even
where an append is put over a newer record; a lookup misses a binding that was there
when it began in two situations only, after an append of its own process or after a
failed stat or read, each until the next line of anybody (`FreshAnswers`); and no
process mints twice for one key, through crashes at any point (`MintsOnce`), which
limits what a race can do to one anchor for each process. `MintsOnce` and
`MonotonicAnswers` except failed stats and reads, with which they do not hold. That a
key stays with its anchor is stated (`BoundOnce`) and not claimed (section 5).

**Approval.** `ExecutedAsDecided` counts upstream executions against crashes and
faults: the only way to carry a call out twice is a failure between the call and
the record. `SessionTold` excludes the cut connections in which the code really
loses the outcome (an answer lost in the third attempt).

**Runner.** `OneEndPerStart` and `AnswersAgreeWithLog` are about four parties that
end a trigger: its loop, its error path, the request that interrupts it and the
shutdown handler. `NoDuplicateSessions` is the promise of the key lock.
`SliceFinal` says that the viewer's verdict on a trigger that is over is final,
although a superseded trigger may still append its end. `EveryTriggerAnswered`
excepts the death of the stream: subscribers are not told of it and wait until
another request reopens the stream and the session goes idle again.

**Dispatch.** `NothingDropped` says of each delivered event that it is on disk,
prompted or in the dead letters; the interesting case is the reroute, where the
new file must be there before the old one goes. `PromptedPerDelivery` is the other
side: repeats are counted against deliveries, lost answers and crashes.
`ImplementsInbox` is the queue's abstract specification again, one level up:
prompted or dead-lettered is settled.

**Services.** `Aligned`: in whatever order pushes are delivered, and however
handlers share `FETCH_HEAD`, the worktree ends up with the branch, unless a command
failed or the agent pushed or fetched at a bad moment. `OneFilePerPost` and
`AnswersAgree` are about repeats and failures of webhooks. `NothingLeftBehind`
relates all streams of a thread to the messages Slack still shows: when all have
ended, what is left is a message an error was put in, or one Slack refused to delete
that is registered for the next time. It does not say that the error was that of the
message's own run, because it need not be (`progress_other_error`).
`DisclaimerPlaced` and `KeyIsBranch` compare two readings of one argument list:
the policy's scanner against the rewriting and against the raw arguments the
branch key is computed from. `OneSandboxPerWorktree` is the promise of the
worktree's lock, through crashes that leave machines behind. `AnswersTrue`
holds the sentences that say what the vault did or has against the vault's files since
the person asked; of the status it asks this when the vault answered (`StatusTrue` has
the other case, section 5).
`DeadIsRepaired` is the invariant of reconnecting: a dead connection in use has a
timer running for it. The parts share nothing, so that one run stands for seven:
`MCInit` chooses the part that moves, and the others stay in one of their initial
states, where their invariants hold.

## Bounds, and why they are enough

Two or three events, keys, requests or clicks are the fewest for which every pair
of actions meets on one conversation. Failures are bounded by one of each kind, so
that a run contains every pair of different failures at every point; what two
failures of one kind do is left to the proofs. In `alias` a crash and a failed stat or
read exclude each other (`OneMishap`, the constraint of `MCAliasLog`); together they are left
to the proofs, which know no such bound. The mutants, each a single slip in
the code, are all found within these bounds.
Names of bounds are `MaxDeliveries`, `MaxCrashes`, `MaxFaults`, `MaxRecords`,
`MaxShutdowns`, `MaxDrops`, `MaxUnwritten`, `MaxSessions` (as many as there are
requests, so that creation is never blocked). `MaxAttempts` is the code's
own 3. `MaxFailures` (git commands), `MaxMishaps` (writes and crashes of webhooks),
`MaxSlackFaults`, `MaxVaultFaults` and `MaxToolFaults` bound the failures of the
services, and `MaxCommits`, `MaxPushes`, `MaxTools`, `MaxEdits` and `MaxConns` what
their environment does: two commits and three pushes are enough for
two handlers to overlap with a third that is late, four connections for a
reconnection that fails and two that cross. `ProgressRelay` has two streams in the
run, whose sessions have one id or two; three are left to the proof. All safety
properties of passing runs are also proved, for all values of the constants. Approvals and triggers are finite stories: they stop when all clicks are
dealt with and all requests answered, so deadlock is not checked there. It is
checked for the queue and the alias log.

## Fairness

- *Queue.* The scan timer fires every 100 ms; a handler returns, because its calls
  end in an answer or an error; a batch that is offered again and again is not
  put off for ever. Only interrupt events are sure to ripen; `EventuallySettled`
  adds the assumption that conversations go quiet (`EventsRipen`).
- *Approval.* remote-cli's event loop gets to every request; an upstream call ends
  (the MCP client times it out); the gateway's timers fire; a connection to a
  process that is gone is found broken. No fairness for failures.
- *Runner.* OpenCode answers calls and gets through with its prompts, the stream
  carries what was published while it lives, timers fire. No fairness for
  crashes, shutdowns, restarts or new requests.
- *Dispatch.* A handler's next step happens, as its calls end; the runner gets
  through with what it works on. Busy, refusing and failing runners are fair
  only in that they are bounded.
- *Services.* Safety only; no fairness.

# 4. What is proved

All theorems hold for every value of the constants, under the assumptions named in
the modules (`QueueAssumption`, `AliasAssumption`, `ApprovalAssumption`,
`RunnerAssumption`, `DispatchAssumption`, `PushAssumption`, `SandboxAssumption`,
`CredAssumption`, `ExecAssumption`). TLC evaluates each of them in the runs. They say
what kind of thing a constant is: a commit is a sequence of numbers, a path a sequence
of strings, a request's arguments a sequence of words and flags. `CredAssumption` says
that `"not_found"`, the answer of a vault that has nothing, is no secret: the model
keeps both in one field where the code has a status and a body. The one with content
is in `DispatchAssumption`: only events from GitHub have a key that waits for a branch,
because only GitHub's intake makes such keys.

| Theorem | Assumes besides | By |
| --- | --- | --- |
| `TypeCorrect` | | induction |
| `SerialDispatch` | | `SerialInv` |
| `AcksAccountedFor` | | `AckInv` |
| `QueueImplementsInbox`, `NothingLost` | `UniqueNames` | `HeldInv`, step by step |
| `AliasTypeCorrect` | | induction |
| `CopiesComeFromTheLog` | | `CacheInv` |
| `AnswersAreMonotonic` | | `MonoInv` |
| `LookupsAreFresh` | | `FreshInv` |
| `ProcessMintsOnce` | | `MintInv` |
| `ApprovalTypeCorrect` | | `TypeInv` |
| `DecisionsAreFinal` | | `FlightInv` |
| `ExecutionsAccountedFor` | | `ExecInv` |
| `OutcomesAgreeWithRecord` | | `AnswerInv` |
| `SessionHearsOfDecision` | | `NetInv`, `ToldInv` |
| `RunnerTypeCorrect` | | induction |
| `TriggersEndOnce`, `MapAgreesWithLog`, `AnswersAgree` | | `RecordInv` |
| `OneSessionEach` | | `SessionInv` |
| `VerdictsAreFinal` | | `RecordInv`, and that logs only grow |
| `DispatchTypeCorrect` | | `FlowInv` |
| `NothingIsDropped` | | `FlowInv` |
| `DispatchImplementsInbox` | | `FlowInv`, step by step |
| `PromptsArePaidFor` | | `FlowInv`, `PromptBudget` |
| `WorktreesAligned` | | `PushInv` |
| `WorktreesHaveOneSandbox` | | `SandboxInv` |
| `DisclaimersArePlaced` | | `ExecInv` of `CommandProofs`, and the loops in step |
| `KeysNameTheBranch` | | the same |
| `PostsWakeOnce`, `WebhookAnswersAgree` | | `IntakeInv` |
| `NoMessageIsLeftBehind` | | `RelayInv` |
| `CredentialAnswersTrue` | | `CredInv` |
| `DeadConnectionsAreRepaired` | | `ToolInv` |

Why the invariants are stronger than the properties:

- `SerialInv`. That no two batches of one conversation are in flight depends on
  what the *directory* holds: an event whose key can be bound is bound before its
  file is there, so no file or batch is under an unbound, bindable key. From then on the
  binding stays until somebody moves the key, which `moved` remembers; moving one key
  leaves alone where the events of all others are in flight.
- `AckInv`. An event that is in the directory, or in a batch that has not been
  settled, is owed one more ack than it has had; deliveries are what allows it.
- `HeldInv`. What is in flight was delivered, and with `UniqueNames` a file name
  stands for one event: deleting names deletes exactly the batch's events, so each
  of the queue's steps is `Accept`, `Settle` or a stutter of the inbox.
- `CacheInv` says the same of the place an operation is about to apply as of the
  places in the copy; `MonoInv` that what the file's current reader has, or will
  load, is not older than what it was answered from. `FreshInv`: a copy that rests on
  the file is at least as new as the size it is filed under, and the size a load took
  is not before the look-up's beginning. `MintInv`: the copy of a process, however
  stale, knows every key the process itself has minted for, and a load under way will
  see them all; so whatever it is about to mint for is none of them. Neither assumes
  anything of how many processes write.
- `FlightInv`: an approval in flight means that the record is pending (or torn),
  so no second decision can be taken beside it. `ExecInv` carries the count
  through the phases of the call. `AnswerInv` ties answers on their way to the
  record. `NetInv` says where the request of each click is, `ToldInv` that an
  answer or outcome that tells of the decision is still on its way.
- `RecordInv` has two parts. `LogInv`: a trigger's records are in the log of its
  own session, one of each type, the end after the start. `PlaceInv`: where a
  request is in `pc`, and whether it is in the map of open triggers, says what the
  logs have of it; only with this is it known, when one of the four parties writes
  an end, that there is none yet. Each of the ways in which a step can touch the
  logs (a start, an end, the flush of a shutdown) has a lemma that says what it
  changes, and each action is one of them or leaves the logs alone.
- `SessionInv`: one request at a time is between looking the binding up and
  writing it (`Lock`), and sessions are counted against what may have lost one. A
  process that is closing has its shutdown counted already (`Exiting`), so its
  exit may cost a session without a further mishap.
- `VerdictsAreFinal`: the viewer's verdict is that of the first record that closes
  the slice, and what is appended later comes after it.

- `FlowInv`. That nothing is dropped depends on where a file can be: under the key
  intake gave it or, after a reroute, under the branch's key (`FilesAtHome`); that a
  batch is still on disk when its handler settles it (`BatchOnDisk`), that what is
  acked was prompted (`AcceptedPrompted`), and that what a reroute acks has its copy,
  or a copy of it has been settled in the meantime (`ReroutedKept`).
- `PromptBudget` counts with each event's prompts the files from which another may
  come (`Live`): a delivery makes one, a lost answer or a crash leaves one whose
  prompt has been counted, and a reroute that is cut off leaves two.
- `PushInv`. `Aligned` speaks of the end only. On the way, a worktree behind its
  branch has a handler that has yet to fetch (`Due`) or one that has fetched and will
  reset, and if what was fetched is not the tip any more then another is `Due`
  (`Followed`): each push sends its own webhook, which arrives after it.
  `Undisturbed` says that until the agent disturbs a handler, the tips around are made
  of commits there have been, so that a new commit differs from all of them, and that
  a handler with an older tip in hand does not meet a HEAD that is up to date already.
- `SandboxInv`. Whoever has got past the wait holds the worktree's lock (`HoldsLock`),
  so that what was found to be absent still is when the sandbox is made (`NoneYet`).
- `IntakeInv`. Only the one event of a post that can wake a session gets past the
  verdict (`OnlyWaking`), so all its files have one name; a handler says ok, and the
  history ingested, after its file is there (`WrittenFirst`); and a file whose writer
  has neither failed nor spoken has a writer that will (`FileAnswered`).
- `RelayInv`. A message no error was put in is registered, and some stream of
  the thread runs or some clean-up has it on its list (`WillGo`). It takes that some
  stream with the id of the active session runs (`OwnerRuns`), that what a clean-up
  passes over as an error had one put in (`ErrorsFailed`), that a list is of the map
  the clean-up works on (`DeletesEntries`), and that a map that was dropped has nothing
  in it (`OldMapsEmpty`): this is where clean-ups that cross break it, and why the
  property excepts them.
- `CredInv`. The file an answer was made from is among those there have been since the
  person asked (`FileSeen`), so that an answer is true when the vault gives it
  (`RepliedTruly`) and its sentence when it is told (`ToldTruly`), whatever is changed
  in between.
- `ToolInv`. A connection being made is in nobody's use and one party waits for it
  (`OneOpener`): two that cross can never mark the same connection. Instances are
  numbered once, so a timer found for an instance's number is of that upstream
  (`ChainsOwn`), and an instance has a connection that was made (`InstancesConnected`).

- `ExecInv` in `CommandProofs` is short: what runs is what was allowed, with what the
  endpoint adds, and nothing is bound before. All the work is in what a line can be
  that the policy allows. The policy, the rewriting and the correlation each
  loop over the arguments in their own way, and a line may be of any length. What the
  loops have in common after each argument is an invariant of them, as what holds after
  each step is one of a specification; `Upwards` carries it to the end of the line. It
  is not induction with the library's theorems, which the provers cannot instantiate:
  the positions at which a fact fails are a set of numbers, and if there were any there
  would be a smallest (`Smallest`, from the well-foundedness of `<` in the library),
  whose predecessor has the fact.
  - *The body.* `PlacesMatch`: when the policy's scan has found its one value of the
    body, the rewriting has found one place, and it is that value's; before, neither has
    found any. The two get out of step at a value that the scan is waiting for and
    that is spelt like a flag of a body, which is why `SpeltLikeBody` is excepted: it is
    read off a scan with the flags of the command in hand, so that `-r` takes a value in
    `gh pr create` and none in `gh pr review`. `SignedBody` follows the
    scan of the signed line beside that of the line as it was (`SameButOne`).
  - *The branch.* `WordsKept`: as long as no flag awaits a value, the words of a scan are
    the arguments without a dash. `NewBranchFirst`: the first `-b` is never the value of
    an earlier one, because that would be a `-b` too.

`UniqueNames` is about the names the producers make. It holds for Slack and GitHub
events, whose ids are unique. Cron events are named from the clock alone
(`app.ts:2025`), so that two within one millisecond are one file: there the
assumption, and with it `NoSilentLoss`, fails.

Only model-checked:

- The liveness properties `EventuallySettled`, `MentionNotDelayed`,
  `EveryClickAnswered` and `EveryTriggerAnswered`: fairness and `ENABLED` are out of
  this prover's reach.

The properties that the code does not keep have no theorem. Neither have the
types of the services a row of their own: they are part of the invariants above.

# 5. Where the code and its documents disagree

- `queue_moved`: "Prevents one session/key from dispatching twice" (`queue.ts:109`)
  is not kept when a bound key is moved while its batch is in flight.
- `approval_card`: the failure text of a refused click replaces the ✅ or ❌ of
  the decision.
- `runner_early`: an idle event of an earlier prompt, read late, ends a request
  whose prompt OpenCode has just begun to work on.
- `sandbox_overlay`: "to match the local worktree's uncommitted state"
  (`sandbox.ts:172`): what a command changed, and the agent has taken back since,
  is still there when the next command runs, because only files that are dirty now
  are sent and the sandbox is reset only when HEAD has moved.
- `alias_stale`: "cheap and consistent with append-only semantics"
  (`event-flow.md:319`). A process that appends takes the new size for its copy, which
  may miss another's line, and mints an anchor for a key that has one.
- `progress_other_error`: "Delete all non-error progress messages"
  (`progress-manager.ts:245`). The break of an older stream puts its error in the message
  of a newer run, which stays although that run completes.

Met while modelling, and stated in the modules without a run of their own:

- `BoundOnce`: "it binds forever" (`event-flow.md:377`) is not so when two processes mint
  at once (`correlation.ts:121`), when a stale copy mints again, when a session posts to
  another's thread (`slack-post-message.ts:256`), and when a process cannot stat or read
  the file, which it takes for an empty one (`event-log.ts:320`, 489).
- `LateDoneIgnored`: "A late `done` from a superseded stream must not finish the
  current session" (`progress-manager.ts:655`). What is compared are the ids of OpenCode
  sessions, and the runs of a thread resume one (`runner/src/index.ts:697`).
- `StatusTrue`: `/kally status` says "You haven't connected any services yet"
  when the vault does not answer (`app.ts:1585`; `vault-client.ts:9` wants "try again").
- `ExitLeavesNoneOpen`: "the log can never end with an open `trigger_start`"
  (`event-flow.md:223`); a request may start its trigger after the shutdown
  handler has flushed the map.
- `OwnPushNeverWakes`: a session is not to be woken by its own push
  (`docker/opencode/config/agents/build.md:193`). The handler compares heads only: when
  the agent has committed again since, its own push resets the worktree and wakes it.
- `FailureShown`: "Always post errors" (`progress-manager.ts:501`). A ticker's
  update in flight arrives after the failure and shows the run as going on.
- `OneTicker`: the `done` of a stream that has no session of its own drops a newer
  session without finishing it, so its ticker goes on.
- Clean-ups that cross: the end of a clean-up drops the thread's registry by name
  (`progress-manager.ts:301`). When another clean-up has dropped it before and a
  newer run has made a new one, that one goes, and its message is never deleted.
  It takes three streams in a thread; `NothingLeftBehind` excepts it.
- A form whose answer is lost shows "vault rejected", although the vault may have
  saved what it was given; `AnswersTrue` asks nothing of sentences that own to a failure.
- A put or a delete that was given up may be carried out after the opposite was asked
  for and confirmed (`LateEffect`). What was told was true when it was told.
- `SpeltLikeBody`: where the command in hand takes an argument for the value of another
  of its flags and that argument is spelt `--body` or `-b`, as in `gh pr create --title
  --body`, it is taken for the body's flag by the rewriting. `DisclaimerPlaced`
  excepts it.
- An `api` call with an argument that only speaks of replies to a comment, and is not
  such a call, is refused for want of a body, or has the disclaimer put in the value of
  another flag (`index.ts:185`). It posts nothing, so `DisclaimerPlaced` asks nothing of it (`Posts`).
- In production a policy that names a tool the upstream lacks passes with a warning
  before it is looked at for tools that are both allowed and to be approved
  (`policy-mcp.ts:9`).
- A connection whose tools cannot be listed, or do not fit the policy, is never
  closed; and closing all connections at shutdown starts to reconnect them.
- The label of a new sandbox names the commit before it has been uploaded
  (`sandbox.ts:81`); a crash in between leaves a sandbox that every later command
  takes for filled. Two worktrees whose names differ in `/` and `-` only get the
  same sandbox name.
- `git push --dry-run` binds its branch; a gh command binds none. A reply in a
  thread that arrives between the mention and its binding is ignored.
- The error for a missing Atlassian token is filed under a field the form does not
  have (`at_api_token`, the form's is `at_token`).

The HTTP response to a click is sent before the resolution, and the outcome is
enqueued before the card is updated; `event-flow.md` §1.3 and §1.4 draw it the
other way round. `Approval` follows the code.

# 6. What is left out of the modelled parts

Contents of events, prompts, tool arguments and messages; the order of files in a
batch (it decides the prompt's text, not who is handled when); disk errors when a
queue file is written, in `EventQueue` (`Intake` has them); malformed lines of the
alias log, which are skipped; the `flush()` and `close()` of the queue, which tests
and shutdown use; listing and status of approvals, which only read; signatures of
webhooks beyond good and bad; what the programs behind `/exec` print; the guidance in
denials; the layout of Slack forms; encryption in the vault and its time stamps.

Connections per user (`mcp-handler.ts` 311-370, `creds_injection: "connection"`) and
their eviction are not modelled, because no entry of `PROXY_REGISTRY` asks for
them: the code cannot be reached.

# 7. Plan

1. More theorems where the modules have theorems already: what section 5 says of
   properties that fail in one situation only, with that situation excluded
   (`FailureShown` without a ticker's update in flight), checked by TLC first.
2. More about the policies, with the lemmas on scans of `CommandProofs`: a line that
   `validatePush` accepts names no protected branch however it is read.
3. `Conversation`: queue, dispatch and runner composed for one thread, against an
   abstract specification in which a prompt reaches the session at least once.
4. `SessionLog`: slices and active triggers over several sessions of an anchor,
   against reference definitions over all short logs.
