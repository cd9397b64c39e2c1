------------------------------ MODULE Approval ------------------------------
(***************************************************************************)
(* One approval action: its record in remote-cli's store, the resolution   *)
(* remote-cli has in flight for it, and the Slack button clicks that the   *)
(* gateway forwards to it (src/packages/remote-cli/src/mcp-handler.ts,     *)
(* approval-store.ts; src/packages/gateway/src/app.ts, service.ts).        *)
(*                                                                         *)
(* Actions share nothing but the process, so one is enough.  remote-cli    *)
(* runs each stretch of a handler between two awaits without interruption, *)
(* and such a stretch is a step.  A request is a click and the number of   *)
(* the gateway's attempt; the network may delay it, reorder it, or cut its *)
(* connection, and a request whose connection is gone is still handled.    *)
(***************************************************************************)
EXTENDS Integers

CONSTANTS
    Reviewer,
    Click,        \* the button presses, told apart by who, what and a number
    MaxAttempts,  \* APPROVAL_RESOLVE_MAX_ATTEMPTS
    MaxCrashes,   \* bound: crashes of remote-cli
    MaxFaults     \* bound: failed connects, upstream calls and file writes

Decision == {"approved", "rejected"}

ASSUME ApprovalAssumption ==
    /\ Click \subseteq [decision : Decision, reviewer : Reviewer, number : Nat]
    /\ MaxAttempts \in Nat \ {0}
    /\ MaxCrashes \in Nat
    /\ MaxFaults \in Nat

VARIABLES
    status,      \* the record's status in the file; torn: it does not parse
    resolving,   \* resolvingApprovals: the click whose approval is in flight
    phase,       \* how far it is
    waiters,     \* the requests that wait for its promise
    executions,  \* history: times the upstream carried the tool call out
    wire,        \* requests remote-cli has not received yet
    pc,          \* where the gateway is with each click
    attempt,     \* the attempt it is at
    answer,      \* remote-cli's answer to that attempt, once it has come
    outcome,     \* the result in the outcome event enqueued for the click
    card,        \* what the Slack message shows
    cut,         \* history: clicks of which an attempt got no answer
    crashes,
    faults

store == <<status, resolving, phase, waiters, executions>>
gateway == <<pc, attempt, outcome, card, cut>>
vars == <<store, wire, gateway, answer, crashes, faults>>

Nobody == [decision |-> "none"]

Request == Click \X (1..MaxAttempts)

Answer == {"ok", "failed", "refused", "error"}

TypeOK ==
    /\ status \in {"pending", "torn"} \cup Decision
    /\ resolving \in Click \cup {Nobody}
    /\ phase \in {"none", "connecting", "calling", "called"}
    /\ waiters \subseteq Request
    /\ executions \in Nat
    /\ wire \subseteq Request
    /\ pc \in [Click -> {"idle", "calling", "backoff", "failed", "resolved",
                         "enqueued", "done", "lost"}]
    /\ attempt \in [Click -> 0..MaxAttempts]
    /\ answer \in [Click -> Answer \cup {"none"}]
    /\ outcome \in [Click -> {"none", "ok", "failed"}]
    /\ card \in {"buttons", "failed"} \cup Decision
    /\ cut \subseteq Click
    /\ crashes \in 0..MaxCrashes
    /\ faults \in 0..MaxFaults

\* The record create() wrote, before anybody has clicked.
Init ==
    /\ status = "pending"
    /\ resolving = Nobody
    /\ phase = "none"
    /\ waiters = {}
    /\ executions = 0
    /\ wire = {}
    /\ pc = [c \in Click |-> "idle"]
    /\ attempt = [c \in Click |-> 0]
    /\ answer = [c \in Click |-> "none"]
    /\ outcome = [c \in Click |-> "none"]
    /\ card = "buttons"
    /\ cut = {}
    /\ crashes = 0
    /\ faults = 0

Fault ==
    /\ faults < MaxFaults
    /\ faults' = faults + 1

-----------------------------------------------------------------------------
(***************************************************************************)
(* remote-cli                                                              *)
(***************************************************************************)

\* The requests of W whose connection is still open are answered.
Reply(W, kind) ==
    answer' = [c \in Click |->
                 IF pc[c] = "calling" /\ <<c, attempt[c]>> \in W
                 THEN kind ELSE answer[c]]

Receive(r) ==
    /\ r \in wire
    /\ wire' = wire \ {r}
    /\ UNCHANGED <<gateway, crashes, faults>>

\* Mutant of InFlight: nobody looks at resolvingApprovals.
NoInFlight == FALSE

InFlight == resolving # Nobody

Same(c, d) == c.decision = d.decision /\ c.reviewer = d.reviewer

\* An equal resolution is in flight: the request shares its promise.
Join(r) ==
    /\ InFlight /\ Same(r[1], resolving)
    /\ Receive(r)
    /\ waiters' = waiters \cup {r}
    /\ UNCHANGED <<status, resolving, phase, executions, answer>>

\* Another decision or reviewer is being resolved, the record does not load,
\* or it is resolved the other way.
Conflict(c) ==
    IF InFlight THEN ~ Same(c, resolving)
    ELSE status \notin {"pending", c.decision}

Refuse(r) ==
    /\ Conflict(r[1])
    /\ Receive(r)
    /\ Reply({r}, "refused")
    /\ UNCHANGED store

\* Mutant of Stored: a resolved record answers whatever was decided.
StoredAny(r) ==
    /\ ~ InFlight /\ status \in Decision
    /\ Receive(r)
    /\ Reply({r}, "ok")
    /\ UNCHANGED store

\* Resolved this way before: the stored result.
Stored(r) ==
    /\ ~ InFlight /\ status = r[1].decision
    /\ Receive(r)
    /\ Reply({r}, "ok")
    /\ UNCHANGED store

\* A rejection does not wait for anything.
Reject(r) ==
    /\ ~ InFlight /\ status = "pending" /\ r[1].decision = "rejected"
    /\ Receive(r)
    /\ status' = "rejected"
    /\ Reply({r}, "ok")
    /\ UNCHANGED <<resolving, phase, waiters, executions>>

\* Mutant of StartApproval: an approved action is executed again.
StartApprovalAgain(r) ==
    /\ ~ InFlight /\ status \in {"pending", "approved"}
    /\ r[1].decision = "approved"
    /\ Receive(r)
    /\ resolving' = r[1]
    /\ phase' = "connecting"
    /\ waiters' = {r}
    /\ UNCHANGED <<status, executions, answer>>

\* An approval takes the action and waits for the upstream's connection.
StartApproval(r) ==
    /\ ~ InFlight /\ status = "pending" /\ r[1].decision = "approved"
    /\ Receive(r)
    /\ resolving' = r[1]
    /\ phase' = "connecting"
    /\ waiters' = {r}
    /\ UNCHANGED <<status, executions, answer>>

Settle(kind) ==
    /\ Reply(waiters, kind)
    /\ resolving' = Nobody
    /\ phase' = "none"
    /\ waiters' = {}
    /\ UNCHANGED <<executions, wire, gateway, crashes>>

\* getInstance has the upstream's client: the tool is called.
Connect ==
    /\ phase = "connecting"
    /\ phase' = "calling"
    /\ UNCHANGED <<status, resolving, waiters, executions, wire, gateway,
                   answer, crashes, faults>>

ConnectFails ==
    /\ phase = "connecting"
    /\ Fault
    /\ Settle("error")
    /\ UNCHANGED status

\* The upstream carries the call out; its answer is on the way.
Execute ==
    /\ phase = "calling"
    /\ phase' = "called"
    /\ executions' = executions + 1
    /\ UNCHANGED <<status, resolving, waiters, wire, gateway, answer,
                   crashes, faults>>

\* The upstream's answer: approveLoaded, and the result to all who wait.
Approve ==
    /\ phase = "called"
    /\ status' = "approved"
    /\ Settle("ok")
    /\ UNCHANGED faults

\* The call fails before or after the upstream carried it out.  The error goes
\* into the record, which stays pending.
CallFails ==
    /\ phase \in {"calling", "called"}
    /\ Fault
    /\ Settle("failed")
    /\ UNCHANGED status

\* The write of the result, or of the error, fails; writeFileSync has
\* truncated the file or not.
WriteFails ==
    /\ phase \in {"calling", "called"}
    /\ Fault
    /\ status' \in {"pending", "torn"}
    /\ Settle("error")

RejectFails(r) ==
    /\ ~ InFlight /\ status = "pending" /\ r[1].decision = "rejected"
    /\ r \in wire
    /\ wire' = wire \ {r}
    /\ Fault
    /\ status' \in {"pending", "torn"}
    /\ Reply({r}, "error")
    /\ UNCHANGED <<resolving, phase, waiters, executions, gateway, crashes>>

\* The process dies, with its connections and whatever it has received, and
\* perhaps half way through a write of the record.
Writing ==
    \/ phase \in {"calling", "called"}
    \/ ~ InFlight /\ status = "pending"
       /\ \E r \in wire : r[1].decision = "rejected"

Crash ==
    /\ crashes < MaxCrashes
    /\ crashes' = crashes + 1
    /\ status' \in {status} \cup (IF Writing THEN {"torn"} ELSE {})
    /\ resolving' = Nobody
    /\ phase' = "none"
    /\ waiters' = {}
    /\ wire' = {}
    /\ UNCHANGED <<executions, gateway, answer, faults>>

-----------------------------------------------------------------------------
(***************************************************************************)
(* The gateway                                                             *)
(***************************************************************************)

Send(c) ==
    /\ attempt' = [attempt EXCEPT ![c] = @ + 1]
    /\ wire' = wire \cup {<<c, attempt[c] + 1>>}
    /\ pc' = [pc EXCEPT ![c] = "calling"]
    /\ UNCHANGED <<store, answer, outcome, card, cut, crashes, faults>>

\* handleApprovalAction answers Slack and calls remote-cli in the background.
Press(c) ==
    /\ pc[c] = "idle"
    /\ Send(c)

\* Mutant of Retry: one attempt fewer than RetryOrGiveUp counts on.
RetryShort(c) ==
    /\ pc[c] = "backoff"
    /\ attempt[c] + 1 < MaxAttempts
    /\ Send(c)

Retry(c) ==
    /\ pc[c] = "backoff"
    /\ Send(c)

\* Mutant of RetryOrGiveUp: counts the attempts from zero.
RetryOnceMore(c) ==
    pc' = [pc EXCEPT ![c] = IF attempt[c] <= MaxAttempts
                            THEN "backoff" ELSE "failed"]

RetryOrGiveUp(c) ==
    pc' = [pc EXCEPT ![c] = IF attempt[c] < MaxAttempts
                            THEN "backoff" ELSE "failed"]

\* The attempt's connection fails or times out, answered or not.
Disconnect(c) ==
    /\ pc[c] = "calling"
    /\ RetryOrGiveUp(c)
    /\ answer' = [answer EXCEPT ![c] = "none"]
    /\ cut' = cut \cup {c}
    /\ UNCHANGED <<store, wire, attempt, outcome, card, crashes, faults>>

\* What an answer leads to: only a 5xx is retried; a refusal is a failure; an
\* execution, failed or not, re-enters the session.
Answered(c) ==
    /\ pc[c] = "calling" /\ answer[c] # "none"
    /\ \/ answer[c] = "error" /\ RetryOrGiveUp(c)
       \/ answer[c] = "refused" /\ pc' = [pc EXCEPT ![c] = "failed"]
       \/ answer[c] \in {"ok", "failed"}
          /\ pc' = [pc EXCEPT ![c] = "resolved"]
    /\ answer' = [answer EXCEPT
                    ![c] = IF @ \in {"ok", "failed"} THEN @ ELSE "none"]
    /\ UNCHANGED <<store, wire, attempt, outcome, card, cut, crashes, faults>>

\* Mutant of EnqueueOutcome: one outcome per action, the first one.
EnqueueFirstOutcome(c) ==
    /\ pc[c] = "resolved"
    /\ pc' = [pc EXCEPT ![c] = "enqueued"]
    /\ outcome' = IF \E d \in Click : outcome[d] # "none"
                  THEN outcome ELSE [outcome EXCEPT ![c] = answer[c]]
    /\ UNCHANGED <<store, wire, attempt, answer, card, cut, crashes, faults>>

\* The outcome event is on disk before the card is touched.
EnqueueOutcome(c) ==
    /\ pc[c] = "resolved"
    /\ pc' = [pc EXCEPT ![c] = "enqueued"]
    /\ outcome' = [outcome EXCEPT ![c] = answer[c]]
    /\ UNCHANGED <<store, wire, attempt, answer, card, cut, crashes, faults>>

\* An exception in the background is logged and the click forgotten.
EnqueueFails(c) ==
    /\ pc[c] = "resolved"
    /\ Fault
    /\ pc' = [pc EXCEPT ![c] = "lost"]
    /\ answer' = [answer EXCEPT ![c] = "none"]
    /\ UNCHANGED <<store, wire, attempt, outcome, card, cut, crashes>>

UpdateCard(c) ==
    /\ pc[c] \in {"enqueued", "failed"}
    /\ pc' = [pc EXCEPT ![c] = "done"]
    /\ card' = IF pc[c] = "enqueued" /\ answer[c] = "ok"
               THEN c.decision ELSE "failed"
    /\ answer' = [answer EXCEPT ![c] = "none"]
    /\ UNCHANGED <<store, wire, attempt, outcome, cut, crashes, faults>>

\* A Slack API error is logged and the card stays.
CardFails(c) ==
    /\ pc[c] \in {"enqueued", "failed"}
    /\ Fault
    /\ pc' = [pc EXCEPT ![c] = "done"]
    /\ answer' = [answer EXCEPT ![c] = "none"]
    /\ UNCHANGED <<store, wire, attempt, outcome, card, cut, crashes>>

Busy(c) == pc[c] \notin {"idle", "done", "lost"}

\* A gateway that dies forgets the clicks it has answered to Slack.
GatewayCrash ==
    /\ \E c \in Click : Busy(c)
    /\ pc' = [c \in Click |-> IF Busy(c) THEN "lost" ELSE pc[c]]
    /\ answer' = [c \in Click |-> "none"]
    /\ UNCHANGED <<store, wire, attempt, outcome, card, cut, crashes, faults>>

-----------------------------------------------------------------------------

Handle(r) ==
    Join(r) \/ Refuse(r) \/ Stored(r) \/ Reject(r) \/ StartApproval(r)

Upstream == Connect \/ Execute \/ Approve

Follow(c) == Retry(c) \/ Answered(c) \/ EnqueueOutcome(c) \/ UpdateCard(c)

Next ==
    \/ \E r \in wire : Handle(r) \/ RejectFails(r)
    \/ Upstream
    \/ ConnectFails
    \/ CallFails
    \/ WriteFails
    \/ Crash
    \/ \E c \in Click :
          \/ Press(c)
          \/ Disconnect(c)
          \/ Follow(c)
          \/ EnqueueFails(c)
          \/ CardFails(c)
    \/ GatewayCrash

Spec == Init /\ [][Next]_vars

\* remote-cli's event loop gets to every request, a call to the upstream ends
\* (the MCP client times it out), the gateway's timers fire and its promises
\* settle, and a connection to a process that is gone is found broken.
Gone(c) == answer[c] = "none" /\ <<c, attempt[c]>> \notin wire \cup waiters

Fairness ==
    /\ \A r \in Request : WF_vars(Handle(r))
    /\ WF_vars(Upstream)
    /\ \A c \in Click : WF_vars(Follow(c))
    /\ \A c \in Click : WF_vars(Gone(c) /\ Disconnect(c))

FairSpec == Spec /\ Fairness

-----------------------------------------------------------------------------
(***************************************************************************)
(* Properties                                                              *)
(***************************************************************************)

\* Whatever clicks, retries, lost connections, failed writes and restarts
\* come in whatever order, a decision that is on record stays on record.
DecisionFinal ==
    [][(status \in Decision) => (status' = status)]_vars

\* The upstream carries the call out once, and once more only after a crash
\* or a failure; a record says approved only if it was carried out.  So a
\* rejected action was not, unless an earlier approval failed half way.
ExecutedAsDecided ==
    /\ executions <= crashes + faults
                       + IF status = "approved" \/ phase = "called" THEN 1 ELSE 0
    /\ status = "approved" => executions >= 1

\* A session is told that its action was approved, or rejected, only if the
\* record says so, for good.
OutcomesAgree ==
    \A c \in Click : outcome[c] = "ok" => status = c.decision

\* When all clicks are dealt with and no attempt went unanswered, a decision
\* on record has reached the session.
SessionTold ==
    /\ \A c \in Click : pc[c] \in {"idle", "done"}
    /\ cut = {}
    /\ status \in Decision
    => \E c \in Click : outcome[c] = "ok"

\* A click that Slack was told about ends in an outcome or a failure card,
\* unless the gateway dies or cannot write its queue.
EveryClickAnswered ==
    \A c \in Click : pc[c] = "calling" ~> pc[c] \in {"done", "lost"}

\* The card shows the decision once everything has calmed down.  The code
\* does not keep this: see the README.
CardAgrees ==
    /\ \A c \in Click : pc[c] \in {"idle", "done"}
    /\ faults = 0 /\ crashes = 0 /\ cut = {}
    /\ status \in Decision
    => card = status

=============================================================================
