--------------------------- MODULE ApprovalProofs ---------------------------
(***************************************************************************)
(* Proofs about Approval, for every set of clicks and every bound.         *)
(***************************************************************************)
EXTENDS Approval, TLAPS

USE ApprovalAssumption

-----------------------------------------------------------------------------
(***************************************************************************)
(* Types                                                                   *)
(***************************************************************************)

\* What the types of attempt and outcome rest on: the attempts a click has
\* left, the answer it goes on with, and that it has one outcome at most.
ClickInv ==
    \A c \in Click :
        /\ pc[c] = "idle" => attempt[c] = 0 /\ answer[c] = "none"
        /\ pc[c] = "backoff" => attempt[c] < MaxAttempts /\ answer[c] = "none"
        /\ pc[c] = "resolved" => answer[c] \in {"ok", "failed"}
        /\ outcome[c] # "none" => pc[c] \in {"enqueued", "done", "lost"}

TypeInv == TypeOK /\ ClickInv

LEMMA RequestParts ==
    ASSUME NEW r \in Request
    PROVE  r[1] \in Click /\ r[2] \in 1..MaxAttempts
  BY DEF Request

LEMMA ReplyType ==
    ASSUME TypeOK, NEW W, NEW kind \in Answer, Reply(W, kind)
    PROVE  /\ answer' \in [Click -> Answer \cup {"none"}]
           /\ \A c \in Click : pc[c] # "calling" => answer'[c] = answer[c]
  BY DEF TypeOK, Reply

LEMMA InitTypes == Init => TypeInv
  BY DEF Init, TypeInv, TypeOK, ClickInv, Nobody, Decision, Answer

LEMMA HandleTypes ==
    ASSUME TypeInv, NEW r \in wire, Handle(r) \/ RejectFails(r)
    PROVE  TypeInv'
  <1>0. r \in Request /\ r[1] \in Click
    BY RequestParts DEF TypeInv, TypeOK
  <1>1. CASE Join(r)
    BY <1>0, <1>1 DEF Join, Receive, gateway, TypeInv, TypeOK, ClickInv
  <1>2. CASE Refuse(r)
    <2>1. /\ answer' \in [Click -> Answer \cup {"none"}]
          /\ \A c \in Click : pc[c] # "calling" => answer'[c] = answer[c]
      BY <1>2, ReplyType DEF Refuse, Answer, TypeInv
    <2>2. QED
      BY <1>0, <1>2, <2>1
         DEF Refuse, Receive, gateway, store, TypeInv, TypeOK, ClickInv
  <1>3. CASE Stored(r)
    <2>1. /\ answer' \in [Click -> Answer \cup {"none"}]
          /\ \A c \in Click : pc[c] # "calling" => answer'[c] = answer[c]
      BY <1>3, ReplyType DEF Stored, Answer, TypeInv
    <2>2. QED
      BY <1>0, <1>3, <2>1
         DEF Stored, Receive, gateway, store, TypeInv, TypeOK, ClickInv
  <1>4. CASE Reject(r)
    <2>1. /\ answer' \in [Click -> Answer \cup {"none"}]
          /\ \A c \in Click : pc[c] # "calling" => answer'[c] = answer[c]
      BY <1>4, ReplyType DEF Reject, Answer, TypeInv
    <2>2. QED
      BY <1>0, <1>4, <2>1
         DEF Reject, Receive, gateway, Decision, TypeInv, TypeOK, ClickInv
  <1>5. CASE StartApproval(r)
    BY <1>0, <1>5
       DEF StartApproval, Receive, gateway, TypeInv, TypeOK, ClickInv
  <1>6. CASE RejectFails(r)
    <2>1. /\ answer' \in [Click -> Answer \cup {"none"}]
          /\ \A c \in Click : pc[c] # "calling" => answer'[c] = answer[c]
      BY <1>6, ReplyType DEF RejectFails, Answer, TypeInv
    <2>2. QED
      BY <1>0, <1>6, <2>1
         DEF RejectFails, Fault, gateway, TypeInv, TypeOK, ClickInv
  <1>7. QED
    BY <1>1, <1>2, <1>3, <1>4, <1>5, <1>6 DEF Handle

LEMMA ServerTypes ==
    ASSUME TypeInv,
           Upstream \/ ConnectFails \/ CallFails \/ WriteFails \/ Crash
    PROVE  TypeInv'
  <1>1. CASE Connect
    BY <1>1 DEF Connect, gateway, TypeInv, TypeOK, ClickInv
  <1>2. CASE Execute
    BY <1>2 DEF Execute, gateway, TypeInv, TypeOK, ClickInv
  <1>3. ASSUME NEW kind \in Answer, Settle(kind),
               status' \in {"pending", "torn"} \cup Decision,
               faults' \in 0..MaxFaults
        PROVE  TypeInv'
    <2>1. /\ answer' \in [Click -> Answer \cup {"none"}]
          /\ \A c \in Click : pc[c] # "calling" => answer'[c] = answer[c]
      BY <1>3, ReplyType DEF Settle, TypeInv
    <2>2. QED
      BY <1>3, <2>1 DEF Settle, gateway, TypeInv, TypeOK, ClickInv
  <1>4. CASE Approve
    BY <1>3, <1>4 DEF Approve, Answer, Decision, TypeInv, TypeOK
  <1>5. CASE ConnectFails
    BY <1>3, <1>5 DEF ConnectFails, Fault, Answer, TypeInv, TypeOK
  <1>6. CASE CallFails
    BY <1>3, <1>6 DEF CallFails, Fault, Answer, TypeInv, TypeOK
  <1>7. CASE WriteFails
    BY <1>3, <1>7 DEF WriteFails, Fault, Answer, TypeInv, TypeOK
  <1>8. CASE Crash
    BY <1>8 DEF Crash, gateway, TypeInv, TypeOK, ClickInv
  <1>9. QED
    BY <1>1, <1>2, <1>4, <1>5, <1>6, <1>7, <1>8 DEF Upstream

LEMMA GatewayTypes ==
    ASSUME TypeInv, NEW c \in Click,
           Press(c) \/ Disconnect(c) \/ Follow(c) \/ EnqueueFails(c)
             \/ CardFails(c)
    PROVE  TypeInv'
  <1>1. CASE Press(c) \/ Retry(c)
    <2>1. attempt[c] + 1 \in 1..MaxAttempts
      BY <1>1 DEF Press, Retry, TypeInv, TypeOK, ClickInv
    <2>2. <<c, attempt[c] + 1>> \in Request
      BY <2>1 DEF Request
    <2>3. Send(c)
      BY <1>1 DEF Press, Retry
    <2>4. wire' \subseteq Request
      BY <2>2, <2>3 DEF Send, TypeInv, TypeOK
    <2>5. TypeOK'
      BY <2>1, <2>3, <2>4 DEF Send, store, TypeInv, TypeOK
    <2>6. ClickInv'
      <3>1. pc[c] \in {"idle", "backoff"} /\ pc'[c] = "calling"
              /\ UNCHANGED <<answer, outcome>>
        BY <1>1, <2>3 DEF Press, Retry, Send, TypeInv, TypeOK
      <3>2. \A d \in Click \ {c} : pc'[d] = pc[d] /\ attempt'[d] = attempt[d]
        BY <2>3 DEF Send, TypeInv, TypeOK
      <3>3. outcome[c] = "none"
        BY <3>1 DEF TypeInv, ClickInv
      <3>4. QED
        BY <3>1, <3>2, <3>3 DEF TypeInv, ClickInv
    <2>7. QED
      BY <2>5, <2>6 DEF TypeInv
  <1>2. CASE Disconnect(c)
    BY <1>2 DEF Disconnect, RetryOrGiveUp, store, TypeInv, TypeOK, ClickInv
  <1>3. CASE Answered(c)
    BY <1>3 DEF Answered, RetryOrGiveUp, store, TypeInv, TypeOK, ClickInv
  <1>4. CASE EnqueueOutcome(c)
    <2>1. answer[c] \in {"ok", "failed"}
      BY <1>4 DEF EnqueueOutcome, TypeInv, ClickInv
    <2>2. QED
      BY <1>4, <2>1 DEF EnqueueOutcome, store, TypeInv, TypeOK, ClickInv
  <1>5. CASE UpdateCard(c)
    BY <1>5 DEF UpdateCard, store, TypeInv, TypeOK, ClickInv
  <1>6. CASE EnqueueFails(c)
    BY <1>6 DEF EnqueueFails, Fault, store, TypeInv, TypeOK, ClickInv
  <1>7. CASE CardFails(c)
    BY <1>7 DEF CardFails, Fault, store, TypeInv, TypeOK, ClickInv
  <1>8. QED
    BY <1>1, <1>2, <1>3, <1>4, <1>5, <1>6, <1>7 DEF Follow

LEMMA NextTypes ==
    ASSUME TypeInv, [Next]_vars
    PROVE  TypeInv'
  <1>1. CASE GatewayCrash
    BY <1>1 DEF GatewayCrash, Busy, store, TypeInv, TypeOK, ClickInv
  <1>2. CASE UNCHANGED vars
    BY <1>2 DEF vars, store, gateway, TypeInv, TypeOK, ClickInv
  <1>3. QED
    BY <1>1, <1>2, HandleTypes, ServerTypes, GatewayTypes DEF Next

\* Every variable keeps its type.
THEOREM ApprovalTypeCorrect == Spec => []TypeOK
  <1>1. TypeInv => TypeOK
    BY DEF TypeInv
  <1>2. QED
    BY <1>1, InitTypes, NextTypes, PTL DEF Spec

LEMMA TypesHold == Spec => []TypeInv
  BY InitTypes, NextTypes, PTL DEF Spec

-----------------------------------------------------------------------------
(***************************************************************************)
(* The resolution in flight                                                *)
(***************************************************************************)

\* Only an approval of a pending action is ever in flight, and those who wait
\* for it want what it does.
FlightInv ==
    /\ phase = "none" <=> resolving = Nobody
    /\ phase # "none" => status = "pending" /\ resolving.decision = "approved"
    /\ \A r \in waiters : InFlight /\ Same(r[1], resolving)

\* Clicks are told from the absence of one by their decision.
LEMMA ClickIsSomebody ==
    ASSUME NEW c \in Click
    PROVE  c # Nobody /\ c.decision \in Decision
  BY DEF Nobody, Decision

LEMMA InitFlight == Init => FlightInv
  BY DEF Init, FlightInv

LEMMA FlightStep ==
    ASSUME TypeInv, FlightInv, [Next]_vars
    PROVE  FlightInv'
  <1>1. ASSUME NEW r \in wire, Handle(r) \/ RejectFails(r)
        PROVE  FlightInv'
    <2>0. r \in Request /\ r[1] \in Click
      BY <1>1, RequestParts DEF TypeInv, TypeOK
    <2>1. CASE Join(r)
      BY <2>1 DEF Join, FlightInv, InFlight
    <2>2. CASE Refuse(r) \/ Stored(r)
      BY <2>2 DEF Refuse, Stored, store, FlightInv, InFlight
    <2>3. CASE Reject(r) \/ RejectFails(r)
      BY <2>3 DEF Reject, RejectFails, FlightInv, InFlight
    <2>4. CASE StartApproval(r)
      BY <2>0, <2>4, ClickIsSomebody DEF StartApproval, FlightInv, InFlight, Same
    <2>5. QED
      BY <1>1, <2>1, <2>2, <2>3, <2>4 DEF Handle
  <1>2. CASE Connect \/ Execute
    BY <1>2 DEF Connect, Execute, FlightInv, InFlight
  <1>3. CASE Approve \/ ConnectFails \/ CallFails \/ WriteFails
    BY <1>3 DEF Approve, ConnectFails, CallFails, WriteFails, Settle,
                FlightInv, InFlight
  <1>4. CASE Crash
    BY <1>4 DEF Crash, FlightInv, InFlight
  <1>5. CASE UNCHANGED store
    BY <1>5 DEF store, FlightInv, InFlight
  <1>6. ASSUME NEW c \in Click,
               Press(c) \/ Disconnect(c) \/ Follow(c) \/ EnqueueFails(c)
                 \/ CardFails(c)
        PROVE  UNCHANGED store
    BY <1>6 DEF Press, Disconnect, Follow, EnqueueFails, CardFails, Retry,
                Send, Answered, EnqueueOutcome, UpdateCard
  <1>7. GatewayCrash \/ UNCHANGED vars => UNCHANGED store
    BY DEF GatewayCrash, vars
  <1>8. QED
    BY <1>1, <1>2, <1>3, <1>4, <1>5, <1>6, <1>7 DEF Next, Upstream

\* The gateway leaves remote-cli's store alone.
LEMMA GatewayKeepsStore ==
    ASSUME NEW c \in Click,
           Press(c) \/ Disconnect(c) \/ Follow(c) \/ EnqueueFails(c)
             \/ CardFails(c)
    PROVE  UNCHANGED <<store, crashes>> /\ faults' \in {faults, faults + 1}
  BY DEF Press, Disconnect, Follow, EnqueueFails, CardFails, Retry, Fault,
         Send, Answered, EnqueueOutcome, UpdateCard

LEMMA DecisionStays ==
    ASSUME FlightInv, [Next]_vars, status \in Decision
    PROVE  status' = status
  <1>0. status \notin {"pending", "torn"} /\ phase = "none"
    BY DEF FlightInv, Decision
  <1>1. ASSUME NEW r \in wire, Handle(r) \/ RejectFails(r)
        PROVE  status' = status
    BY <1>0, <1>1 DEF Handle, Join, Refuse, Stored, Reject, StartApproval,
                      RejectFails, store
  <1>2. CASE Upstream \/ ConnectFails \/ CallFails \/ WriteFails
    BY <1>0, <1>2 DEF Upstream, Connect, Execute, Approve, ConnectFails,
                      CallFails, WriteFails
  <1>3. CASE Crash
    BY <1>0, <1>3 DEF Crash, Writing
  <1>4. CASE GatewayCrash \/ UNCHANGED vars
    BY <1>4 DEF GatewayCrash, vars, store
  <1>5. QED
    BY <1>1, <1>2, <1>3, <1>4, GatewayKeepsStore DEF Next, store

LEMMA FlightHolds == Spec => []FlightInv
  <1>1. TypeInv /\ FlightInv /\ [Next]_vars => FlightInv'
    BY FlightStep
  <1>2. QED
    BY <1>1, InitFlight, TypesHold, PTL DEF Spec

\* A decision on record is final, for any clicks, retries and crashes.
THEOREM DecisionsAreFinal == Spec => DecisionFinal
  <1>1. FlightInv /\ [Next]_vars
          => [(status \in Decision) => (status' = status)]_vars
    BY DecisionStays
  <1>2. QED
    BY <1>1, FlightHolds, PTL DEF Spec, DecisionFinal

-----------------------------------------------------------------------------
(***************************************************************************)
(* Executions                                                              *)
(***************************************************************************)

\* The upstream has carried out a call whose answer is on the way.
ExecInv == ExecutedAsDecided /\ (phase = "called" => executions >= 1)

LEMMA ExecStep ==
    ASSUME TypeInv, FlightInv, ExecInv, [Next]_vars
    PROVE  ExecInv'
  <1>0. executions \in Nat /\ crashes \in Nat /\ faults \in Nat
    BY DEF TypeInv, TypeOK
  <1>1. ASSUME NEW r \in wire, Handle(r) \/ RejectFails(r)
        PROVE  ExecInv'
    <2>1. CASE Join(r) \/ Refuse(r) \/ Stored(r)
      BY <2>1 DEF Join, Refuse, Stored, Receive, store, ExecInv,
                  ExecutedAsDecided
    <2>2. CASE Reject(r) \/ StartApproval(r)
      BY <1>0, <2>2 DEF Reject, StartApproval, Receive, InFlight, FlightInv,
                        ExecInv, ExecutedAsDecided
    <2>3. CASE RejectFails(r)
      BY <1>0, <2>3 DEF RejectFails, Fault, InFlight, FlightInv, ExecInv,
                        ExecutedAsDecided
    <2>4. QED
      BY <1>1, <2>1, <2>2, <2>3 DEF Handle
  <1>2. CASE Connect \/ Execute
    BY <1>0, <1>2 DEF Connect, Execute, FlightInv, ExecInv, ExecutedAsDecided
  <1>3. CASE Approve
    BY <1>0, <1>3 DEF Approve, Settle, ExecInv, ExecutedAsDecided
  <1>4. CASE ConnectFails \/ CallFails \/ WriteFails
    BY <1>0, <1>4 DEF ConnectFails, CallFails, WriteFails, Fault, Settle,
                      FlightInv, ExecInv, ExecutedAsDecided
  <1>5. CASE Crash
    BY <1>0, <1>5 DEF Crash, ExecInv, ExecutedAsDecided
  <1>6. ASSUME UNCHANGED <<store, crashes>>, faults' \in {faults, faults + 1}
        PROVE  ExecInv'
    <2>1. UNCHANGED <<status, phase, executions, crashes>>
      BY <1>6 DEF store
    <2>2. CASE faults' = faults
      BY <1>0, <2>1, <2>2 DEF ExecInv, ExecutedAsDecided
    <2>3. CASE faults' = faults + 1
      BY <1>0, <2>1, <2>3 DEF ExecInv, ExecutedAsDecided
    <2>4. QED
      BY <1>6, <2>2, <2>3
  <1>7. GatewayCrash \/ UNCHANGED vars
          => UNCHANGED <<store, crashes>> /\ faults' = faults
    BY DEF GatewayCrash, vars
  <1>8. QED
    BY <1>1, <1>2, <1>3, <1>4, <1>5, <1>6, <1>7, GatewayKeepsStore
       DEF Next, Upstream

\* The upstream carries an approved action out once, plus at most once for
\* every crash and failure, and never for an action rejected from the start.
THEOREM ExecutionsAccountedFor == Spec => []ExecutedAsDecided
  <1>1. Init => ExecInv
    BY DEF Init, ExecInv, ExecutedAsDecided
  <1>2. TypeInv /\ FlightInv /\ ExecInv /\ [Next]_vars => ExecInv'
    BY ExecStep
  <1>3. ExecInv => ExecutedAsDecided
    BY DEF ExecInv
  <1>4. QED
    BY <1>1, <1>2, <1>3, TypesHold, FlightHolds, PTL DEF Spec

-----------------------------------------------------------------------------
(***************************************************************************)
(* Answers and outcomes                                                    *)
(***************************************************************************)

\* An ok, on its way or in an outcome, says what is on record.
AnswerInv ==
    \A c \in Click :
        answer[c] = "ok" \/ outcome[c] = "ok" => status = c.decision

LEMMA AnswerStep ==
    ASSUME TypeInv, FlightInv, AnswerInv, [Next]_vars
    PROVE  AnswerInv'
  <1>0. \A c \in Click : status = c.decision => status' = c.decision
    BY DecisionStays, ClickIsSomebody
  <1>1. ASSUME UNCHANGED outcome, answer' = answer
        PROVE  AnswerInv'
    BY <1>0, <1>1 DEF AnswerInv
  <1>2. ASSUME NEW W, NEW kind, Reply(W, kind), UNCHANGED outcome,
               \A c \in Click : kind = "ok" /\ <<c, attempt[c]>> \in W
                                => status' = c.decision
        PROVE  AnswerInv'
    BY <1>0, <1>2 DEF AnswerInv, Reply, TypeInv, TypeOK
  <1>3. ASSUME NEW r \in wire, Handle(r) \/ RejectFails(r)
        PROVE  AnswerInv'
    <2>1. CASE Join(r) \/ StartApproval(r)
      BY <1>1, <2>1 DEF Join, StartApproval, Receive, gateway
    <2>2. CASE Refuse(r)
      BY <1>2, <2>2 DEF Refuse, Receive, gateway
    <2>3. CASE Stored(r)
      BY <1>2, <2>3 DEF Stored, Receive, gateway, store
    <2>4. CASE Reject(r)
      BY <1>2, <2>4 DEF Reject, Receive, gateway
    <2>5. CASE RejectFails(r)
      BY <1>2, <2>5 DEF RejectFails, gateway
    <2>6. QED
      BY <1>3, <2>1, <2>2, <2>3, <2>4, <2>5 DEF Handle
  <1>4. CASE Connect \/ Execute \/ Crash
    BY <1>1, <1>4 DEF Connect, Execute, Crash, gateway
  <1>5. CASE Approve
    <2>1. \A c \in Click : <<c, attempt[c]>> \in waiters
                            => c.decision = "approved"
      BY <1>5 DEF Approve, FlightInv, Same
    <2>2. QED
      BY <1>2, <1>5, <2>1 DEF Approve, Settle, gateway
  <1>6. CASE ConnectFails \/ CallFails \/ WriteFails
    BY <1>2, <1>6 DEF ConnectFails, CallFails, WriteFails, Settle, gateway
  <1>7. ASSUME NEW c \in Click, Press(c) \/ Retry(c)
        PROVE  AnswerInv'
    BY <1>1, <1>7 DEF Press, Retry, Send
  <1>8. ASSUME NEW c \in Click,
               Disconnect(c) \/ Answered(c) \/ EnqueueFails(c)
                 \/ UpdateCard(c) \/ CardFails(c)
        PROVE  AnswerInv'
    <2>1. outcome' = outcome /\ answer' \in {answer, [answer EXCEPT ![c] = "none"]}
      BY <1>8 DEF Disconnect, Answered, EnqueueFails, UpdateCard, CardFails,
                  TypeInv, TypeOK
    <2>2. QED
      BY <1>0, <2>1 DEF AnswerInv, TypeInv, TypeOK
  <1>9. ASSUME NEW c \in Click, EnqueueOutcome(c)
        PROVE  AnswerInv'
    BY <1>0, <1>9 DEF EnqueueOutcome, AnswerInv, TypeInv, TypeOK
  <1>10. CASE GatewayCrash
    BY <1>0, <1>10 DEF GatewayCrash, AnswerInv
  <1>11. CASE UNCHANGED vars
    BY <1>1, <1>11 DEF vars, gateway
  <1>12. QED
    BY <1>3, <1>4, <1>5, <1>6, <1>7, <1>8, <1>9, <1>10, <1>11
       DEF Next, Upstream, Follow

\* What a session is told about its action is what is on record.
THEOREM OutcomesAgreeWithRecord == Spec => []OutcomesAgree
  <1>1. Init => AnswerInv
    BY DEF Init, AnswerInv
  <1>2. TypeInv /\ FlightInv /\ AnswerInv /\ [Next]_vars => AnswerInv'
    BY AnswerStep
  <1>3. AnswerInv => OutcomesAgree
    BY DEF AnswerInv, OutcomesAgree
  <1>4. QED
    BY <1>1, <1>2, <1>3, TypesHold, FlightHolds, PTL DEF Spec

-----------------------------------------------------------------------------
(***************************************************************************)
(* The session hears of the decision                                       *)
(***************************************************************************)

\* The gateway is still waiting for the answer to this very request.
Current(r) == pc[r[1]] = "calling" /\ attempt[r[1]] = r[2]

\* A request is in one place, and somebody waits for it unless its connection
\* was cut or the gateway has died.
NetInv ==
    /\ wire \cap waiters = {}
    /\ \A r \in wire \cup waiters :
          /\ r[2] <= attempt[r[1]]
          /\ Current(r) => answer[r[1]] = "none"
          /\ r[1] \in cut \/ pc[r[1]] = "lost" \/ Current(r)

LEMMA Requests ==
    ASSUME TypeInv, NEW r \in wire \cup waiters
    PROVE  r \in Request /\ r[1] \in Click /\ r[2] \in 1..MaxAttempts
             /\ r = <<r[1], r[2]>>
  BY DEF Request, TypeInv, TypeOK

\* Answering requests that are neither on the wire nor waiting any more.
LEMMA ReplyKeepsNet ==
    ASSUME TypeInv, NetInv, NEW W, NEW kind, Reply(W, kind),
           W \subseteq wire \cup waiters, UNCHANGED gateway,
           wire' \cup waiters' \subseteq (wire \cup waiters) \ W,
           wire' \cap waiters' = {}
    PROVE  NetInv'
  <1>1. ASSUME NEW r \in wire' \cup waiters'
        PROVE  /\ r[2] <= attempt'[r[1]]
               /\ Current(r)' => answer'[r[1]] = "none"
               /\ r[1] \in cut' \/ pc'[r[1]] = "lost" \/ Current(r)'
    <2>1. r \in wire \cup waiters /\ r \notin W
      BY <1>1
    <2>2. r[1] \in Click /\ r = <<r[1], r[2]>>
      BY <2>1, Requests
    <2>3. Current(r)' = Current(r)
      BY DEF Current, gateway
    <2>4. Current(r) => answer'[r[1]] = answer[r[1]]
      BY <2>1, <2>2 DEF Current, Reply
    <2>5. QED
      BY <2>1, <2>3, <2>4 DEF NetInv, gateway
  <1>2. QED
    BY <1>1 DEF NetInv

\* Requests move or vanish, and nothing else happens to them.
LEMMA MoveKeepsNet ==
    ASSUME NetInv, UNCHANGED <<gateway, answer>>,
           wire' \cup waiters' \subseteq wire \cup waiters,
           wire' \cap waiters' = {}
    PROVE  NetInv'
  BY DEF NetInv, Current, gateway

LEMMA ServerKeepsNet ==
    ASSUME TypeInv, FlightInv, NetInv,
           \/ \E r \in wire : Handle(r) \/ RejectFails(r)
           \/ Upstream \/ ConnectFails \/ CallFails \/ WriteFails \/ Crash
    PROVE  NetInv'
  <1>1. ASSUME NEW r \in wire, Handle(r) \/ RejectFails(r)
        PROVE  NetInv'
    <2>1. r \notin waiters /\ wire \cap waiters = {}
      BY DEF NetInv
    <2>2. CASE Join(r)
      BY <2>1, <2>2, MoveKeepsNet DEF Join, Receive
    <2>3. CASE StartApproval(r)
      BY <2>1, <2>3, MoveKeepsNet DEF StartApproval, Receive
    <2>4. CASE Refuse(r)
      BY <2>1, <2>4, ReplyKeepsNet DEF Refuse, Receive, store
    <2>5. CASE Stored(r)
      BY <2>1, <2>5, ReplyKeepsNet DEF Stored, Receive, store
    <2>6. CASE Reject(r)
      BY <2>1, <2>6, ReplyKeepsNet DEF Reject, Receive
    <2>7. CASE RejectFails(r)
      BY <2>1, <2>7, ReplyKeepsNet DEF RejectFails
    <2>8. QED
      BY <1>1, <2>2, <2>3, <2>4, <2>5, <2>6, <2>7 DEF Handle
  <1>2. CASE Connect \/ Execute
    BY <1>2, MoveKeepsNet DEF Connect, Execute, NetInv
  <1>3. CASE Crash
    BY <1>3, MoveKeepsNet DEF Crash
  <1>4. ASSUME NEW kind, Settle(kind)
        PROVE  NetInv'
    BY <1>4, ReplyKeepsNet DEF Settle, NetInv
  <1>5. CASE Approve \/ ConnectFails \/ CallFails \/ WriteFails
    BY <1>4, <1>5 DEF Approve, ConnectFails, CallFails, WriteFails
  <1>6. QED
    BY <1>1, <1>2, <1>3, <1>5 DEF Upstream

LEMMA GatewayKeepsNet ==
    ASSUME TypeInv, NetInv, NEW c \in Click,
           Press(c) \/ Disconnect(c) \/ Follow(c) \/ EnqueueFails(c)
             \/ CardFails(c)
    PROVE  NetInv'
  <1>0. \A r \in wire \cup waiters : r[1] \in Click /\ r[2] \in Nat
                                      /\ r = <<r[1], r[2]>>
    BY Requests
  <1>1. CASE Press(c) \/ Retry(c)
    <2>1. Send(c) /\ pc[c] # "calling" /\ pc[c] # "lost"
      BY <1>1 DEF Press, Retry
    <2>2. attempt[c] \in Nat /\ attempt' = [attempt EXCEPT ![c] = @ + 1]
      BY <2>1 DEF Send, TypeInv, TypeOK
    <2>3. waiters' = waiters /\ wire' = wire \cup {<<c, attempt[c] + 1>>}
            /\ answer' = answer /\ cut' = cut
      BY <2>1 DEF Send, store
    <2>4. <<c, attempt[c] + 1>> \notin wire \cup waiters
      BY <2>2 DEF NetInv
    <2>5. ASSUME NEW r \in wire \cup waiters
          PROVE  /\ r[2] <= attempt'[r[1]]
                 /\ ~ (r[1] = c /\ Current(r)')
                 /\ r[1] = c => c \in cut
      BY <1>0, <2>1, <2>2, <2>5 DEF NetInv, Current, Send, TypeInv, TypeOK
    <2>6. ASSUME NEW r \in wire \cup waiters, r[1] # c
          PROVE  Current(r)' = Current(r) /\ pc'[r[1]] = pc[r[1]]
      BY <1>0, <2>1, <2>2, <2>6 DEF Current, Send, TypeInv, TypeOK
    <2>7. answer[c] = "none"
      BY <1>1 DEF Press, Retry, TypeInv, ClickInv
    <2>8. pc'[c] = "calling" /\ attempt'[c] = attempt[c] + 1
      BY <2>1, <2>2 DEF Send, TypeInv, TypeOK
    <2>9. ASSUME NEW r \in wire' \cup waiters'
          PROVE  /\ r[2] <= attempt'[r[1]]
                 /\ Current(r)' => answer'[r[1]] = "none"
                 /\ r[1] \in cut' \/ pc'[r[1]] = "lost" \/ Current(r)'
      <3>1. CASE r = <<c, attempt[c] + 1>>
        <4>1. r[1] = c /\ r[2] = attempt'[c] /\ attempt'[c] \in Int
          BY <2>2, <2>8, <3>1
        <4>2. Current(r)'
          BY <2>8, <4>1 DEF Current
        <4>3. QED
          BY <2>3, <2>7, <4>1, <4>2
      <3>2. CASE r \in wire \cup waiters
        BY <2>3, <2>5, <2>6, <3>2 DEF NetInv
      <3>3. QED
        BY <2>3, <2>9, <3>1, <3>2
    <2>10. wire' \cap waiters' = {}
      BY <2>3, <2>4 DEF NetInv
    <2>11. QED
      BY <2>9, <2>10 DEF NetInv
  <1>2. ASSUME pc'[c] # "calling",
               \A d \in Click \ {c} : pc'[d] = pc[d] /\ answer'[d] = answer[d],
               UNCHANGED <<wire, waiters, attempt>>, cut \subseteq cut',
               \A r \in wire \cup waiters :
                  r[1] = c => c \in cut' \/ pc'[c] = "lost"
        PROVE  NetInv'
    <2>1. ASSUME NEW r \in wire \cup waiters
          PROVE  /\ r[2] <= attempt'[r[1]]
                 /\ Current(r)' => answer'[r[1]] = "none"
                 /\ r[1] \in cut' \/ pc'[r[1]] = "lost" \/ Current(r)'
      <3>1. CASE r[1] = c
        BY <1>2, <3>1 DEF NetInv, Current
      <3>2. CASE r[1] # c
        BY <1>0, <1>2, <3>2 DEF NetInv, Current
      <3>3. QED
        BY <3>1, <3>2
    <2>2. QED
      BY <1>2, <2>1 DEF NetInv
  <1>3. CASE Disconnect(c)
    <2>1. pc' = [pc EXCEPT ![c] = pc'[c]] /\ pc'[c] \in {"backoff", "failed"}
      BY <1>3 DEF Disconnect, RetryOrGiveUp, TypeInv, TypeOK
    <2>2. QED
      BY <1>2, <1>3, <2>1 DEF Disconnect, store, TypeInv, TypeOK
  <1>4. CASE Answered(c)
    <2>1. /\ pc' = [pc EXCEPT ![c] = pc'[c]]
          /\ pc'[c] \in {"backoff", "failed", "resolved"}
      BY <1>4 DEF Answered, RetryOrGiveUp, TypeInv, TypeOK
    <2>2. \A r \in wire \cup waiters : r[1] = c => c \in cut
      BY <1>4 DEF Answered, NetInv
    <2>3. QED
      BY <1>2, <1>4, <2>1, <2>2 DEF Answered, store, TypeInv, TypeOK
  <1>5. CASE EnqueueOutcome(c) \/ EnqueueFails(c) \/ UpdateCard(c) \/ CardFails(c)
    <2>1. pc[c] \in {"resolved", "enqueued", "failed"}
      BY <1>5 DEF EnqueueOutcome, EnqueueFails, UpdateCard, CardFails
    <2>2. \A r \in wire \cup waiters : r[1] = c => c \in cut
      BY <2>1 DEF NetInv, Current
    <2>3. /\ pc' = [pc EXCEPT ![c] = pc'[c]]
          /\ pc'[c] \in {"enqueued", "done", "lost"}
          /\ answer' \in {answer, [answer EXCEPT ![c] = "none"]}
          /\ UNCHANGED <<wire, waiters, attempt, cut>>
      BY <1>5 DEF EnqueueOutcome, EnqueueFails, UpdateCard, CardFails, store,
                  TypeInv, TypeOK
    <2>4. QED
      BY <1>2, <2>2, <2>3 DEF TypeInv, TypeOK
  <1>6. QED
    BY <1>1, <1>3, <1>4, <1>5 DEF Follow

LEMMA NetStep ==
    ASSUME TypeInv, FlightInv, NetInv, [Next]_vars
    PROVE  NetInv'
  <1>1. CASE GatewayCrash
    <2>1. \A r \in wire \cup waiters : r[1] \in Click
      BY Requests
    <2>2. ASSUME NEW r \in wire \cup waiters
          PROVE  /\ ~ Current(r)'
                 /\ r[1] \in cut \/ pc'[r[1]] = "lost"
      BY <1>1, <2>1 DEF GatewayCrash, Busy, NetInv, Current
    <2>3. QED
      BY <1>1, <2>2 DEF GatewayCrash, store, NetInv
  <1>2. CASE UNCHANGED vars
    BY <1>2, MoveKeepsNet DEF vars, store, NetInv
  <1>3. QED
    BY <1>1, <1>2, ServerKeepsNet, GatewayKeepsNet DEF Next

\* What has become of the click that put the decision on record.
Told(c) ==
    \/ outcome[c] = "ok" \/ c \in cut \/ pc[c] = "lost"
    \/ answer[c] = "ok" /\ pc[c] \in {"calling", "resolved"}

ToldInv ==
    /\ phase # "none" => waiters # {}
    /\ status \in Decision => \E c \in Click : Told(c)

\* The gateway does not forget what it has been told.
LEMMA ToldStays ==
    ASSUME TypeInv, NetInv, [Next]_vars, NEW c \in Click, Told(c)
    PROVE  Told(c)'
  <1>1. ASSUME UNCHANGED gateway, answer[c] = "ok" => answer'[c] = "ok"
        PROVE  Told(c)'
    BY <1>1 DEF Told, gateway
  <1>2. ASSUME NEW W, NEW kind, W \subseteq wire \cup waiters, Reply(W, kind),
               UNCHANGED gateway
        PROVE  Told(c)'
    <2>1. <<c, attempt[c]>> \in W /\ pc[c] = "calling" => answer[c] = "none"
      BY <1>2 DEF NetInv, Current
    <2>2. QED
      BY <1>1, <1>2, <2>1 DEF Reply
  <1>3. ASSUME NEW r \in wire, Handle(r) \/ RejectFails(r)
        PROVE  Told(c)'
    BY <1>1, <1>2, <1>3 DEF Handle, Join, Refuse, Stored, Reject, StartApproval,
                            RejectFails, Receive
  <1>4. CASE Connect \/ Execute \/ Crash
    BY <1>1, <1>4 DEF Connect, Execute, Crash
  <1>5. CASE Approve \/ ConnectFails \/ CallFails \/ WriteFails
    BY <1>2, <1>5 DEF Approve, ConnectFails, CallFails, WriteFails, Settle
  <1>6. ASSUME NEW d \in Click,
               Press(d) \/ Disconnect(d) \/ Follow(d) \/ EnqueueFails(d)
                 \/ CardFails(d)
        PROVE  Told(c)'
    <2>1. CASE Press(d) \/ Retry(d)
      BY <2>1 DEF Press, Retry, Send, Told, TypeInv, TypeOK, ClickInv
    <2>2. CASE Disconnect(d)
      BY <2>2 DEF Disconnect, RetryOrGiveUp, Told, TypeInv, TypeOK
    <2>3. CASE Answered(d)
      <3>1. /\ UNCHANGED <<outcome, cut>>
            /\ \A e \in Click \ {d} : pc'[e] = pc[e] /\ answer'[e] = answer[e]
        BY <2>3 DEF Answered, RetryOrGiveUp, TypeInv, TypeOK
      <3>2. CASE c = d
        <4>1. pc[c] = "calling"
          BY <2>3, <3>2 DEF Answered
        <4>2. answer[c] = "ok" => answer'[c] = "ok" /\ pc'[c] = "resolved"
          BY <2>3, <3>2 DEF Answered, TypeInv, TypeOK
        <4>3. QED
          BY <3>1, <4>1, <4>2 DEF Told
      <3>3. CASE c # d
        BY <3>1, <3>3 DEF Told
      <3>4. QED
        BY <3>2, <3>3
    <2>4. CASE EnqueueOutcome(d)
      <3>1. /\ UNCHANGED <<answer, cut>>
            /\ \A e \in Click \ {d} : pc'[e] = pc[e] /\ outcome'[e] = outcome[e]
        BY <2>4 DEF EnqueueOutcome, TypeInv, TypeOK
      <3>2. CASE c = d
        <4>1. pc[d] = "resolved" /\ outcome[d] = "none"
          BY <2>4 DEF EnqueueOutcome, TypeInv, TypeOK, ClickInv
        <4>2. outcome'[d] = answer[d]
          BY <2>4 DEF EnqueueOutcome, TypeInv, TypeOK
        <4>3. QED
          BY <3>1, <3>2, <4>1, <4>2 DEF Told
      <3>3. CASE c # d
        BY <3>1, <3>3 DEF Told
      <3>4. QED
        BY <3>2, <3>3
    <2>5. CASE EnqueueFails(d) \/ UpdateCard(d) \/ CardFails(d)
      <3>1. /\ UNCHANGED <<outcome, cut>>
            /\ \A e \in Click \ {d} : pc'[e] = pc[e] /\ answer'[e] = answer[e]
        BY <2>5 DEF EnqueueFails, UpdateCard, CardFails, TypeInv, TypeOK
      <3>2. CASE c = d
        <4>1. EnqueueFails(d) => pc'[d] = "lost"
          BY DEF EnqueueFails, TypeInv, TypeOK
        <4>2. UpdateCard(d) \/ CardFails(d) => pc[d] \in {"enqueued", "failed"}
          BY DEF UpdateCard, CardFails
        <4>3. QED
          BY <2>5, <3>1, <3>2, <4>1, <4>2 DEF Told
      <3>3. CASE c # d
        BY <3>1, <3>3 DEF Told
      <3>4. QED
        BY <3>2, <3>3
    <2>6. QED
      BY <1>6, <2>1, <2>2, <2>3, <2>4, <2>5 DEF Follow
  <1>7. CASE GatewayCrash
    BY <1>7 DEF GatewayCrash, Busy, Told, TypeInv, TypeOK
  <1>8. CASE UNCHANGED vars
    BY <1>1, <1>8 DEF vars
  <1>9. QED
    BY <1>3, <1>4, <1>5, <1>6, <1>7, <1>8 DEF Next, Upstream

\* Of the requests that are answered ok, one was being waited for, cut or lost.
LEMMA ReplyTells ==
    ASSUME TypeInv, NetInv, NEW W, W \subseteq wire \cup waiters, W # {},
           Reply(W, "ok"), UNCHANGED gateway
    PROVE  \E c \in Click : Told(c)'
  <1>1. PICK r \in W : r \in wire \cup waiters
    OBVIOUS
  <1>2. r[1] \in Click /\ r = <<r[1], r[2]>>
    BY <1>1, Requests
  <1>3. Current(r) => answer'[r[1]] = "ok"
    BY <1>1, <1>2 DEF Current, Reply
  <1>4. Told(r[1])'
    BY <1>1, <1>3 DEF NetInv, Current, Told, gateway
  <1>5. QED
    BY <1>2, <1>4

LEMMA ToldStep ==
    ASSUME TypeInv, FlightInv, NetInv, ToldInv, [Next]_vars
    PROVE  ToldInv'
  <1>1. ASSUME status' = status, phase' # "none" => waiters' # {}
        PROVE  ToldInv'
    BY <1>1, ToldStays DEF ToldInv
  <1>2. ASSUME NEW r \in wire, Handle(r) \/ RejectFails(r)
        PROVE  ToldInv'
    <2>1. CASE Join(r) \/ Refuse(r) \/ Stored(r) \/ StartApproval(r)
      BY <1>1, <2>1 DEF Join, Refuse, Stored, StartApproval, store, ToldInv
    <2>2. CASE Reject(r)
      <3>1. \E c \in Click : Told(c)'
        BY <2>2, ReplyTells DEF Reject, Receive
      <3>2. phase' = "none"
        BY <2>2 DEF Reject, FlightInv, InFlight
      <3>3. QED
        BY <3>1, <3>2 DEF ToldInv
    <2>3. CASE RejectFails(r)
      BY <2>3 DEF RejectFails, FlightInv, InFlight, ToldInv, Decision
    <2>4. QED
      BY <1>2, <2>1, <2>2, <2>3 DEF Handle
  <1>3. CASE Approve
    <2>1. \E c \in Click : Told(c)'
      BY <1>3, ReplyTells DEF Approve, Settle, ToldInv
    <2>2. QED
      BY <1>3, <2>1 DEF Approve, Settle, ToldInv
  <1>4. CASE Connect \/ Execute \/ ConnectFails \/ CallFails
    BY <1>1, <1>4 DEF Connect, Execute, ConnectFails, CallFails, Settle, ToldInv
  <1>5. CASE WriteFails
    BY <1>5 DEF WriteFails, Settle, ToldInv, Decision
  <1>6. CASE Crash
    <2>1. phase' = "none" /\ status' \in {status, "torn"}
      BY <1>6 DEF Crash
    <2>2. CASE status' = status
      BY <1>1, <2>1, <2>2
    <2>3. CASE status' = "torn"
      BY <2>1, <2>3 DEF ToldInv, Decision
    <2>4. QED
      BY <2>1, <2>2, <2>3
  <1>7. CASE UNCHANGED store
    BY <1>1, <1>7 DEF store, ToldInv
  <1>8. QED
    BY <1>2, <1>3, <1>4, <1>5, <1>6, <1>7, GatewayKeepsStore
       DEF Next, Upstream, GatewayCrash, vars

\* Unless a connection is cut, a decision on record reaches the session once
\* all clicks are dealt with.
THEOREM SessionHearsOfDecision == Spec => []SessionTold
  <1>1. Init => NetInv /\ ToldInv
    BY DEF Init, NetInv, ToldInv, Decision
  <1>2. TypeInv /\ FlightInv /\ NetInv /\ ToldInv /\ [Next]_vars
          => NetInv' /\ ToldInv'
    BY NetStep, ToldStep
  <1>3. ToldInv => SessionTold
    BY DEF ToldInv, Told, SessionTold
  <1>4. QED
    BY <1>1, <1>2, <1>3, TypesHold, FlightHolds, PTL DEF Spec

=============================================================================
