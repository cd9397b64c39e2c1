------------------------ MODULE RunnerTriggerProofs ------------------------
(***************************************************************************)
(* Theorems about the runner's triggers, for every set of requests and     *)
(* every value of the bounds.                                              *)
(***************************************************************************)
EXTENDS RunnerTrigger, FiniteSetTheorems, WellFoundedInduction, TLAPS

USE RunnerAssumption DEF Session

-----------------------------------------------------------------------------
(***************************************************************************)
(* Types                                                                   *)
(***************************************************************************)

RecordsType ==
    /\ inflight \subseteq Trigger
    /\ log \in [Session -> Seq(Record)]
    /\ unwritten \subseteq Trigger

StreamType ==
    /\ connected \in BOOLEAN
    /\ wire \in Seq([session : Session, kind : Kind])
    /\ listening \in [Trigger -> 0..MaxSessions]
    /\ queue \in [Trigger -> Seq(Kind)]

LEMMA HeadTail ==
    ASSUME NEW S, NEW q \in Seq(S), q # <<>>
    PROVE  Head(q) \in S /\ Tail(q) \in Seq(S)
  OBVIOUS

LEMMA NoEvents ==
    ASSUME NEW S
    PROVE  <<>> \in Seq(S)
  OBVIOUS

LEMMA Concatenated ==
    ASSUME NEW S, NEW q \in Seq(S), NEW r \in Seq(S)
    PROVE  /\ Len(q) \in Nat /\ Len(r) \in Nat
           /\ q \o r \in Seq(S)
           /\ Len(q \o r) = Len(q) + Len(r)
           /\ \A i \in 1..Len(q) : (q \o r)[i] = q[i]
           /\ \A i \in 1..Len(r) : (q \o r)[Len(q) + i] = r[i]
  OBVIOUS

LEMMA EndTypes ==
    ASSUME TypeOK, NEW t \in Trigger, t \in inflight => sess[t] # 0,
           NEW status \in EndStatus, EndTrigger(t, status)
    PROVE  RecordsType'
<1>1. EndOf(t, status) \in Record
  BY DEF EndOf, Record
<1>2. t \in inflight => log[sess[t]] \in Seq(Record)
  BY DEF TypeOK
<1>3. t \in inflight => Append(log[sess[t]], EndOf(t, status)) \in Seq(Record)
  BY <1>1, <1>2
<1> QED
  BY <1>3 DEF TypeOK, RecordsType, EndTrigger, Owned

LEMMA StartTypes ==
    ASSUME TypeOK, NEW t \in Trigger, sess[t] # 0, StartTrigger(t)
    PROVE  RecordsType'
<1>1. StartOf(t) \in Record
  BY DEF StartOf, Record
<1>2. Append(log[sess[t]], StartOf(t)) \in Seq(Record)
  BY <1>1 DEF TypeOK
<1> QED
  BY <1>2 DEF TypeOK, RecordsType, StartTrigger

LEMMA ListenTypes ==
    ASSUME TypeOK, NEW t \in Trigger, Listen(t) \/ Unlisten(t)
    PROVE  StreamType'
<1>1. sess[t] \in 0..MaxSessions
  BY DEF TypeOK
<1>2. CASE Listen(t)
  BY <1>1, <1>2 DEF TypeOK, StreamType, Listen
<1>3. CASE Unlisten(t)
  BY <1>3 DEF TypeOK, StreamType, Unlisten, InUse
<1> QED
  BY <1>2, <1>3

LEMMA PublishTypes ==
    ASSUME TypeOK, NEW s \in Session, NEW kinds \in Seq(Kind), Publish(s, kinds)
    PROVE  StreamType'
<1> DEFINE events == [i \in DOMAIN kinds |-> [session |-> s, kind |-> kinds[i]]]
<1>1. events \in Seq([session : Session, kind : Kind])
  <2>1. /\ Len(kinds) \in Nat
        /\ DOMAIN kinds = 1..Len(kinds)
        /\ \A i \in 1..Len(kinds) : kinds[i] \in Kind
    OBVIOUS
  <2>2. events \in [1..Len(kinds) -> [session : Session, kind : Kind]]
    BY <2>1
  <2> QED
    BY <2>1, <2>2
<1> HIDE DEF events
<1>2. wire \o events \in Seq([session : Session, kind : Kind])
  BY <1>1 DEF TypeOK
<1> QED
  BY <1>2 DEF Publish, TypeOK, StreamType, events

LEMMA KindSequences ==
    /\ {<<"idle">>, <<"error", "idle">>} \subseteq Seq(Kind)
    /\ {<<"error">>, <<"error", "part">>} \subseteq Seq(Kind)
    /\ {<<"error">>, <<"idle">>, <<"error", "idle">>} \subseteq Seq(Kind)
    /\ {<<>>, <<"idle">>} \subseteq Seq(Kind)
  BY DEF Kind

\* The parts of TypeOK that the other lemmas do not speak of.
ControlType ==
    /\ created \in 0..MaxSessions
    /\ running \in [Session -> SUBSET Trigger]
    /\ server \in {"up", "closing", "down"}
    /\ pc \in [Trigger -> {"idle"} \cup Working \cup Answered]
    /\ sess \in [Trigger -> 0..created]
    /\ \A t \in Trigger : pc[t] \in HasSession => sess[t] # 0
    /\ failing \in [Trigger -> BOOLEAN]
    /\ bound \in 0..created
    /\ crashes \in 0..MaxCrashes
    /\ shutdowns \in 0..MaxShutdowns
    /\ drops \in 0..MaxDrops
    /\ faults \in 0..MaxFaults

LEMMA TypeParts == TypeOK <=> ControlType /\ StreamType /\ RecordsType
  BY DEF TypeOK, ControlType, StreamType, RecordsType

LEMMA TypePartsNext == TypeOK' <=> ControlType' /\ StreamType' /\ RecordsType'
  BY DEF TypeOK, ControlType, StreamType, RecordsType

LEMMA InitTypes == Init => TypeOK
<1> SUFFICES ASSUME Init PROVE TypeOK
  OBVIOUS
<1>1. ControlType
  BY DEF Init, ControlType, HasSession, Working
<1>2. wire \in Seq([session : Session, kind : Kind])
  BY NoEvents DEF Init
<1>3. queue \in [Trigger -> Seq(Kind)]
  BY NoEvents DEF Init
<1>4. StreamType
  <2>1. MaxSessions \in Nat
    OBVIOUS
  <2>2. listening \in [Trigger -> 0..MaxSessions]
    BY <2>1 DEF Init
  <2>3. connected \in BOOLEAN
    BY DEF Init
  <2> QED
    BY <1>2, <1>3, <2>2, <2>3 DEF StreamType
<1>5. log \in [Session -> Seq(Record)]
  BY NoEvents DEF Init
<1>6. RecordsType
  BY <1>5 DEF Init, RecordsType
<1> QED
  BY <1>1, <1>4, <1>6, TypeParts

LEMMA NonzeroSession ==
    ASSUME TypeOK, NEW t \in Trigger, sess[t] # 0
    PROVE  sess[t] \in Session
<1>1. sess[t] \in 0..created /\ created \in 0..MaxSessions
  BY DEF TypeOK
<1> QED
  BY <1>1

LEMMA SessionType ==
    ASSUME TypeOK, NEW t \in Trigger, pc[t] \in HasSession
    PROVE  sess[t] # 0 /\ sess[t] \in Session
<1>1. sess[t] # 0
  BY DEF TypeOK
<1> QED
  BY <1>1, NonzeroSession

LEMMA ServeTypes ==
    ASSUME TypeOK, NEW t \in Trigger, Receive(t) \/ Serve(t)
    PROVE  TypeOK'
<1> USE DEF opencode, stream, records, bounds, Goto
<1>0. ControlType /\ StreamType /\ RecordsType
  BY TypeParts
<1>1. CASE Receive(t)
  BY <1>1, <1>0, TypePartsNext
     DEF Receive, ControlType, StreamType, RecordsType, Working, HasSession
<1>2. CASE Resolve(t)
  BY <1>2, <1>0, TypePartsNext
     DEF Resolve, HasCandidate, ControlType, StreamType, RecordsType, Working, HasSession
<1>3. CASE GetSession(t)
  BY <1>3, <1>0, TypePartsNext
     DEF GetSession, ControlType, StreamType, RecordsType, Working, HasSession
<1>4. CASE CreateSession(t)
  <2>1. created' \in 0..MaxSessions /\ created \in Nat /\ created' = created + 1
    BY <1>4 DEF CreateSession, TypeOK
  <2>2. sess' \in [Trigger -> 0..created + 1] /\ bound' \in 0..created + 1
    <3>1. 0..created \subseteq 0..created + 1 /\ created + 1 \in 0..created + 1
      BY <2>1
    <3>2. sess \in [Trigger -> 0..created] /\ bound \in 0..created
      BY DEF TypeOK
    <3>3. sess' = [sess EXCEPT ![t] = created + 1] /\ bound' = bound
      BY <1>4 DEF CreateSession
    <3> QED
      BY <3>1, <3>2, <3>3
  <2>3. /\ pc' \in [Trigger -> {"idle"} \cup Working \cup Answered]
        /\ \A u \in Trigger : pc'[u] \in HasSession => sess'[u] # 0
    <3>1. pc' \in [Trigger -> {"idle"} \cup Working \cup Answered]
      BY <1>4, <1>0 DEF CreateSession, ControlType, Working
    <3>2. sess'[t] = created + 1 /\ created + 1 # 0
      BY <1>4, <1>0, <2>1 DEF CreateSession, ControlType
    <3>3. \A u \in Trigger \ {t} : pc'[u] = pc[u] /\ sess'[u] = sess[u]
      BY <1>4, <1>0 DEF CreateSession, ControlType
    <3> QED
      BY <1>0, <3>1, <3>2, <3>3 DEF ControlType
  <2>4. ControlType'
    BY <1>4, <1>0, <2>1, <2>2, <2>3 DEF CreateSession, ControlType
  <2>5. StreamType' /\ RecordsType'
    BY <1>4, <1>0 DEF CreateSession, StreamType, RecordsType
  <2> QED
    BY <2>4, <2>5, TypePartsNext
<1>5. CASE BindSession(t)
  BY <1>5, <1>0, TypePartsNext
     DEF BindSession, ControlType, StreamType, RecordsType, Working, HasSession
<1>6. CASE CheckStatus(t)
  BY <1>6, <1>0, TypePartsNext
     DEF CheckStatus, ControlType, StreamType, RecordsType, Working, HasSession
<1>7. CASE AnswerBusy(t)
  BY <1>7, <1>0, TypePartsNext
     DEF AnswerBusy, ControlType, StreamType, RecordsType, Working, HasSession, Answered
<1>8. CASE EndPrior(t)
  <2>1. sess[t] # 0
    BY <1>8 DEF EndPrior, TypeOK, HasSession, Working
  <2>2. RecordsType'
    <3>1. CASE UNCHANGED records
      BY <1>0, <3>1 DEF RecordsType
    <3>2. CASE \E p \in Trigger : IsPrior(sess[t], p) /\ EndTrigger(p, "aborted")
      <4>1. PICK p \in Trigger : IsPrior(sess[t], p) /\ EndTrigger(p, "aborted")
        BY <3>2
      <4> QED
        BY <4>1, <2>1, EndTypes DEF IsPrior, InflightOf, EndStatus
    <3> QED
      BY <1>8, <3>1, <3>2 DEF EndPrior
  <2>3. ControlType' /\ StreamType'
    BY <1>8, <1>0, <2>1
       DEF EndPrior, ControlType, StreamType, Working, HasSession
  <2> QED
    BY <2>2, <2>3, TypePartsNext
<1>9. CASE AbortSession(t)
  <2>1. sess[t] \in Session
    BY <1>9, SessionType DEF AbortSession, HasSession, Working
  <2>2. StreamType'
    BY <1>9, <2>1, PublishTypes, KindSequences DEF AbortSession
  <2>3. ControlType' /\ RecordsType'
    BY <1>9, <1>0, <2>1
       DEF AbortSession, ControlType, RecordsType, Working, HasSession
  <2> QED
    BY <2>2, <2>3, TypePartsNext
<1>10. CASE AwaitSettled(t) \/ Settled(t) \/ SettleTimeout(t)
  <2>1. StreamType'
    BY <1>10, ListenTypes DEF AwaitSettled, Settled, SettleTimeout
  <2>2. ControlType' /\ RecordsType'
    BY <1>10, <1>0
       DEF AwaitSettled, Settled, SettleTimeout, ControlType, RecordsType,
           Working, HasSession, Answered
  <2> QED
    BY <2>1, <2>2, TypePartsNext
<1>11. CASE Attach(t)
  <2>1. StreamType'
    BY <1>11, ListenTypes DEF Attach
  <2>2. RecordsType'
    BY <1>11, StartTypes DEF Attach, TypeOK, HasSession, Working
  <2>3. ControlType'
    BY <1>11, <1>0 DEF Attach, ControlType, Working, HasSession
  <2> QED
    BY <2>1, <2>2, <2>3, TypePartsNext
<1>12. CASE Prompt(t)
  <2>1. sess[t] \in Session
    BY <1>12, SessionType DEF Prompt, HasSession, Working
  <2>2. running' \in [Session -> SUBSET Trigger]
    BY <1>12, <2>1 DEF Prompt, TypeOK
  <2> QED
    BY <1>12, <1>0, <2>2, TypePartsNext
       DEF Prompt, ControlType, StreamType, RecordsType, Working, HasSession
<1>13. ASSUME Finish(t), pc[t] = "streaming",
              UNCHANGED <<opencode, server, sess, failing, bound, bounds>>
       PROVE  TypeOK'
  <2>1. sess[t] # 0
    BY <1>13 DEF TypeOK, HasSession, Working
  <2>2. StreamType'
    BY <1>13, ListenTypes DEF Finish
  <2>3. RecordsType'
    BY <1>13, <2>1, EndTypes DEF Finish, EndStatus
  <2>4. ControlType'
    BY <1>13, <1>0 DEF Finish, ControlType, HasSession, Working, Answered
  <2> QED
    BY <2>2, <2>3, <2>4, TypePartsNext
<1>14. CASE NextEvent(t)
  <2>1. CASE Head(queue[t]) = "idle"
    BY <1>13, <1>14, <2>1 DEF NextEvent
  <2>2. CASE Head(queue[t]) # "idle"
    <3>1. Tail(queue[t]) \in Seq(Kind)
      BY <1>14 DEF NextEvent, TypeOK
    <3> QED
      BY <1>14, <2>2, <1>0, <3>1, TypePartsNext
         DEF NextEvent, ControlType, StreamType, RecordsType
  <2> QED
    BY <2>1, <2>2
<1>15. CASE GraceOver(t)
  BY <1>13, <1>15 DEF GraceOver
<1> QED
  BY <1>1, <1>2, <1>3, <1>4, <1>5, <1>6, <1>7, <1>8, <1>9, <1>10, <1>11, <1>12,
     <1>14, <1>15 DEF Serve

LEMMA FaultType ==
    ASSUME TypeOK, Fault
    PROVE  /\ faults' \in 0..MaxFaults
           /\ UNCHANGED <<crashes, shutdowns, drops>>
<1>1. faults \in 0..MaxFaults /\ MaxFaults \in Nat
  BY DEF TypeOK
<1> QED
  BY <1>1 DEF Fault

LEMMA FailTypes ==
    ASSUME TypeOK, NEW t \in Trigger, Fail(t)
    PROVE  TypeOK'
<1> USE DEF opencode, stream, records, bounds, Goto, Fault
<1>0. ControlType /\ StreamType /\ RecordsType
  BY TypeParts
<1>1. ASSUME NEW place \in {"creating", "attaching", "aborted", "failed"},
             pc[t] \in Working, place \in HasSession => pc[t] \in HasSession,
             Goto(t, place), Fault,
             UNCHANGED <<opencode, stream, server, sess, failing, records, bound>>
      PROVE  TypeOK'
  <2>1. pc' \in [Trigger -> {"idle"} \cup Working \cup Answered]
    BY <1>1 DEF TypeOK, Working, Answered
  <2>2. faults' \in 0..MaxFaults
    BY <1>1, FaultType
  <2>3. \A u \in Trigger : pc'[u] \in HasSession => sess'[u] # 0
    BY <1>1 DEF TypeOK
  <2>4. ControlType'
    BY <1>1, <1>0, <2>1, <2>2, <2>3 DEF ControlType
  <2>5. StreamType' /\ RecordsType'
    BY <1>1, <1>0 DEF StreamType, RecordsType
  <2> QED
    BY <2>4, <2>5, TypePartsNext
<1>5. CASE GetSessionFails(t) \/ CheckStatusFails(t) \/ AbortSessionFails(t)
           \/ CallFails(t)
  BY <1>1, <1>5
     DEF GetSessionFails, CheckStatusFails, AbortSessionFails, CallFails,
         Working, HasSession
<1>2. CASE AttachFails(t)
  <2>1. StreamType'
    BY <1>2, ListenTypes DEF AttachFails
  <2>2. ControlType' /\ RecordsType'
    BY <1>2, <1>0
       DEF AttachFails, ControlType, RecordsType, Working, HasSession, Answered
  <2> QED
    BY <2>1, <2>2, TypePartsNext
<1>3. CASE PromptFails(t)
  <2>1. sess[t] \in Session
    BY <1>3, SessionType DEF PromptFails, HasSession, Working
  <2>2. running' \in [Session -> SUBSET Trigger]
    BY <1>3, <2>1 DEF PromptFails, TypeOK
  <2>3. RecordsType'
    BY <1>3, <2>1, EndTypes DEF PromptFails, EndInError, EndStatus
  <2>4. faults' \in 0..MaxFaults
    BY <1>3, FaultType DEF PromptFails
  <2>5. ControlType'
    BY <1>3, <1>0, <2>2, <2>4
       DEF PromptFails, ControlType, Working, HasSession, Answered
  <2>6. StreamType'
    BY <1>3, <1>0 DEF PromptFails, StreamType
  <2> QED
    BY <2>3, <2>5, <2>6, TypePartsNext
<1>4. CASE EventNotWritten(t)
  <2>1. sess[t] # 0
    BY <1>4 DEF EventNotWritten, TypeOK, HasSession, Working
  <2>2. StreamType'
    BY <1>4, ListenTypes DEF EventNotWritten
  <2>3. RecordsType'
    BY <1>4, <2>1, EndTypes DEF EventNotWritten, EndInError, EndStatus
  <2>4. ControlType'
    BY <1>4, <1>0 DEF EventNotWritten, ControlType, Working, HasSession, Answered
  <2> QED
    BY <2>2, <2>3, <2>4, TypePartsNext
<1> QED
  BY <1>2, <1>3, <1>4, <1>5 DEF Fail

LEMMA EnvironmentTypes ==
    ASSUME TypeOK,
           \/ \E s \in Session : OpencodeFinish(s) \/ OpencodeError(s)
           \/ Deliver \/ Drop
    PROVE  TypeOK'
<1> USE DEF opencode, stream, records, bounds, Fault
<1>0. ControlType /\ StreamType /\ RecordsType
  BY TypeParts
<1>1. ASSUME NEW s \in Session, OpencodeFinish(s) \/ OpencodeError(s)
      PROVE  TypeOK'
  <2>1. StreamType'
    BY <1>1, PublishTypes, KindSequences DEF OpencodeFinish, OpencodeError
  <2>2. running' \in [Session -> SUBSET Trigger]
    BY <1>1 DEF OpencodeFinish, OpencodeError, TypeOK
  <2>3. faults' \in 0..MaxFaults
    BY <1>1, FaultType DEF OpencodeFinish, OpencodeError, TypeOK
  <2>4. ControlType'
    BY <1>1, <1>0, <2>2, <2>3 DEF OpencodeFinish, OpencodeError, ControlType
  <2>5. RecordsType'
    BY <1>1, <1>0 DEF OpencodeFinish, OpencodeError, RecordsType
  <2> QED
    BY <2>1, <2>4, <2>5, TypePartsNext
<1>2. CASE Deliver
  <2>1. wire \in Seq([session : Session, kind : Kind]) /\ wire # <<>>
    BY <1>2 DEF Deliver, TypeOK
  <2>2. /\ Head(wire) \in [session : Session, kind : Kind]
        /\ Tail(wire) \in Seq([session : Session, kind : Kind])
    <3> HIDE DEF Session
    <3> QED
      BY <2>1, HeadTail
  <2>3. ASSUME NEW t \in Trigger
        PROVE  Append(queue[t], Head(wire).kind) \in Seq(Kind)
    <3>1. queue[t] \in Seq(Kind) /\ Head(wire).kind \in Kind
      BY <2>2 DEF TypeOK
    <3> QED
      BY <3>1
  <2>4. queue' \in [Trigger -> Seq(Kind)]
    BY <1>2, <1>0, <2>3 DEF Deliver, StreamType
  <2> QED
    BY <1>2, <1>0, <2>2, <2>4, TypePartsNext
       DEF Deliver, ControlType, StreamType, RecordsType
<1>3. CASE Drop
  <2>1. <<>> \in Seq([session : Session, kind : Kind])
    OBVIOUS
  <2>2. StreamType'
    BY <1>3, <1>0, <2>1 DEF Drop, StreamType
  <2>3. ControlType' /\ RecordsType'
    BY <1>3, <1>0 DEF Drop, ControlType, RecordsType
  <2> QED
    BY <2>2, <2>3, TypePartsNext
<1> QED
  BY <1>1, <1>2, <1>3

\* What the shutdown handler appends to the log of a session.
Flushed(order) == [i \in DOMAIN order |-> EndOf(order[i], "aborted")]

LEMMA FlushedIsRecords ==
    ASSUME NEW order \in Orders
    PROVE  /\ order \in Seq(Trigger)
           /\ Flushed(order) \in Seq(Record)
           /\ Len(Flushed(order)) = Len(order)
           /\ \A i \in 1..Len(order) :
                  Flushed(order)[i] = EndOf(order[i], "aborted")
<1>1. Cardinality(Trigger) \in Nat
  BY FS_CardinalityType
<1>2. PICK n \in 0..Cardinality(Trigger) : order \in [1..n -> Trigger]
  BY DEF Orders
<1>3. n \in Nat
  BY <1>1
<1>4. Flushed(order) \in [1..n -> Record]
  BY <1>2, <1>3 DEF Flushed, EndOf, Record, EndStatus
<1> QED
  BY <1>2, <1>3, <1>4 DEF Flushed

LEMMA ProcessTypes ==
    ASSUME TypeOK, Shutdown \/ Exit \/ Crash \/ Restart
    PROVE  TypeOK'
<1> USE DEF opencode, stream, records, bounds
<1>0. ControlType /\ StreamType /\ RecordsType
  BY TypeParts
<1>1. CASE Shutdown
  <2>1. PICK order \in [Session -> Orders] :
            log' = [s \in Session |-> log[s] \o Flushed(order[s])]
    BY <1>1 DEF Shutdown, Flushed
  <2>2. ASSUME NEW s \in Session
        PROVE  log[s] \o Flushed(order[s]) \in Seq(Record)
    <3>1. log[s] \in Seq(Record) /\ Flushed(order[s]) \in Seq(Record)
      BY FlushedIsRecords DEF TypeOK
    <3> QED
      BY <3>1, Concatenated
  <2>3. log' \in [Session -> Seq(Record)]
    BY <2>1, <2>2
  <2>4. RecordsType'
    BY <1>1, <1>0, <2>3 DEF Shutdown, RecordsType, MapAfterFlush
  <2>5. ControlType' /\ StreamType'
    BY <1>1, <1>0 DEF Shutdown, ControlType, StreamType
  <2> QED
    BY <2>4, <2>5, TypePartsNext
<1>2. CASE Exit \/ Crash
  <2>1. ControlType'
    <3>1. \A t \in Trigger : pc'[t] = IF pc[t] \in Working THEN "lost" ELSE pc[t]
      BY <1>2 DEF Exit, Crash, Die
    <3>2. /\ pc' \in [Trigger -> {"idle"} \cup Working \cup Answered]
          /\ \A t \in Trigger : pc'[t] \in HasSession => pc[t] \in HasSession
      BY <1>2, <1>0, <3>1
         DEF Exit, Crash, Die, ControlType, Working, HasSession, Answered
    <3>3. crashes' \in 0..MaxCrashes
      BY <1>2, <1>0 DEF Exit, Crash, ControlType
    <3>4. server' \in {"up", "closing", "down"}
      BY <1>2 DEF Exit, Crash, Die
    <3>5. UNCHANGED <<created, running, sess, failing, bound, shutdowns, drops, faults>>
      BY <1>2 DEF Exit, Crash, Die
    <3> QED
      BY <1>0, <3>2, <3>3, <3>4, <3>5 DEF ControlType
  <2>2. wire' = <<>> /\ wire' \in Seq([session : Session, kind : Kind])
    BY <1>2, NoEvents DEF Exit, Crash, Die
  <2>3. queue' = [t \in Trigger |-> <<>>] /\ queue' \in [Trigger -> Seq(Kind)]
    BY <1>2, NoEvents DEF Exit, Crash, Die
  <2>5. listening' \in [Trigger -> 0..MaxSessions]
    BY <1>2 DEF Exit, Crash, Die
  <2>6. connected' \in BOOLEAN
    BY <1>2 DEF Exit, Crash, Die
  <2>7. StreamType'
    BY <2>2, <2>3, <2>5, <2>6 DEF StreamType
  <2>4. RecordsType'
    BY <1>2, <1>0 DEF Exit, Crash, Die, RecordsType
  <2> QED
    BY <2>1, <2>4, <2>7, TypePartsNext
<1>3. CASE Restart
  BY <1>3, <1>0, TypePartsNext
     DEF Restart, ControlType, StreamType, RecordsType
<1> QED
  BY <1>1, <1>2, <1>3

LEMMA TypeStep ==
    ASSUME TypeOK, [Next]_vars
    PROVE  TypeOK'
<1>1. CASE UNCHANGED vars
  BY <1>1 DEF vars, opencode, stream, records, bounds, TypeOK
<1> QED
  BY <1>1, ServeTypes, FailTypes, EnvironmentTypes, ProcessTypes DEF Next

\* Every variable keeps its type.
THEOREM RunnerTypeCorrect == Spec => []TypeOK
  BY InitTypes, TypeStep, PTL DEF Spec

-----------------------------------------------------------------------------
(***************************************************************************)
(* What is in the logs                                                     *)
(***************************************************************************)

HIDE RunnerAssumption DEF Session

HasStart(t) ==
    \E s \in Session : \E i \in 1..Len(log[s]) : log[s][i] = StartOf(t)

Ends(t) ==
    {status \in EndStatus :
        \E s \in Session : \E i \in 1..Len(log[s]) :
            log[s][i] = EndOf(t, status)}

Quiet == (Working \ {"prompting", "streaming"}) \cup {"idle", "busy", "unsettled"}

Open == {"prompting", "streaming"}

\* Records of a trigger are in the log of its session, there is one of each
\* type, and the end comes after the start.
LogInv ==
    \A s \in Session :
        /\ \A i \in 1..Len(log[s]) : sess[log[s][i].trigger] = s
        /\ \A i, j \in 1..Len(log[s]) :
               log[s][i].trigger = log[s][j].trigger
               /\ log[s][i].type = log[s][j].type => i = j
        /\ \A j \in 1..Len(log[s]) :
               log[s][j].type = "end" =>
                   \E i \in 1..Len(log[s]) :
                       i < j /\ log[s][i] = StartOf(log[s][j].trigger)

\* Where a request is says what the logs have of it.
Placed(t) ==
    /\ pc[t] \in Quiet => ~HasStart(t) /\ Ends(t) = {}
    /\ pc[t] \in Open \cup {"completed", "error"} => HasStart(t)
    /\ t \in inflight => pc[t] \in Open /\ Ends(t) = {}
    /\ HasStart(t) /\ Ends(t) = {} =>
           t \in inflight \/ pc[t] = "lost" \/ t \in unwritten
    /\ pc[t] \in Open => Ends(t) \subseteq {"aborted"}
    /\ pc[t] \in {"completed", "error"} => Ends(t) \subseteq {pc[t], "aborted"}
    /\ pc[t] = "failed" => Ends(t) \subseteq {"error", "aborted"}

PlaceInv == \A t \in Trigger : Placed(t)

RecordInv == LogInv /\ PlaceInv

LEMMA RecordFields ==
    ASSUME NEW r \in Record
    PROVE  /\ r.trigger \in Trigger
           /\ r.type \in {"start", "end"}
           /\ r.type = "start" => r = StartOf(r.trigger)
           /\ r.type = "end" => /\ r.status \in EndStatus
                                /\ r = EndOf(r.trigger, r.status)
  BY DEF Record, StartOf, EndOf

LEMMA StartFields ==
    ASSUME NEW t
    PROVE  /\ StartOf(t).type = "start" /\ StartOf(t).trigger = t
           /\ \A u : StartOf(t) = StartOf(u) => t = u
           /\ \A u, status : StartOf(t) # EndOf(u, status)
  BY DEF StartOf, EndOf

LEMMA EndFields ==
    ASSUME NEW t, NEW status
    PROVE  /\ EndOf(t, status).type = "end"
           /\ EndOf(t, status).trigger = t
           /\ EndOf(t, status).status = status
           /\ \A u, st : EndOf(t, status) = EndOf(u, st) => t = u /\ status = st
  BY DEF EndOf

LEMMA LogTypes ==
    ASSUME TypeOK, NEW s \in Session
    PROVE  /\ Len(log[s]) \in Nat
           /\ \A i \in 1..Len(log[s]) : log[s][i] \in Record
<1>1. log[s] \in Seq(Record)
  BY DEF TypeOK
<1> QED
  BY <1>1

\* A request of which nothing is said has no record anywhere.
LEMMA Unrecorded ==
    ASSUME TypeOK, NEW t \in Trigger, ~HasStart(t), Ends(t) = {}
    PROVE  \A s \in Session : \A i \in 1..Len(log[s]) : log[s][i].trigger # t
<1> SUFFICES ASSUME NEW s \in Session, NEW i \in 1..Len(log[s]),
                    log[s][i].trigger = t
             PROVE  FALSE
  OBVIOUS
<1>1. log[s][i] \in Record
  BY LogTypes
<1>2. CASE log[s][i].type = "start"
  BY <1>1, <1>2, RecordFields DEF HasStart
<1>3. CASE log[s][i].type = "end"
  BY <1>1, <1>3, RecordFields DEF Ends
<1> QED
  BY <1>1, <1>2, <1>3, RecordFields

\* One record is appended to one log.
LEMMA Appended ==
    ASSUME TypeOK, NEW s \in Session, NEW r \in Record,
           log' = [log EXCEPT ![s] = Append(@, r)]
    PROVE  /\ Len(log[s]) \in Nat
           /\ Len(log'[s]) = Len(log[s]) + 1
           /\ log'[s][Len(log[s]) + 1] = r
           /\ \A i \in 1..Len(log[s]) : log'[s][i] = log[s][i]
           /\ \A u \in Session \ {s} : log'[u] = log[u]
<1>1. log[s] \in Seq(Record)
  BY DEF TypeOK
<1>2. log'[s] = Append(log[s], r) /\ \A u \in Session \ {s} : log'[u] = log[u]
  BY DEF TypeOK
<1> QED
  BY <1>1, <1>2

LEMMA AppendedSays ==
    ASSUME TypeOK, NEW s \in Session, NEW r \in Record,
           log' = [log EXCEPT ![s] = Append(@, r)], NEW t \in Trigger
    PROVE  /\ HasStart(t)' <=> HasStart(t) \/ r = StartOf(t)
           /\ \A status \in EndStatus :
                  status \in Ends(t)' <=> status \in Ends(t) \/ r = EndOf(t, status)
<1> DEFINE Is(x) == \E u \in Session : \E i \in 1..Len(log[u]) : log[u][i] = x
           Was(x) == \E u \in Session : \E i \in 1..Len(log'[u]) : log'[u][i] = x
<1>1. ASSUME NEW x PROVE Was(x) <=> Is(x) \/ r = x
  <2>1. ASSUME Is(x) PROVE Was(x)
    <3>0. PICK u \in Session : \E i \in 1..Len(log[u]) : log[u][i] = x
      BY <2>1
    <3>1. PICK i \in 1..Len(log[u]) : log[u][i] = x
      BY <3>0
    <3>2. i \in 1..Len(log'[u]) /\ log'[u][i] = x
      BY <3>1, Appended
    <3> QED
      BY <3>2
  <2>2. ASSUME r = x PROVE Was(x)
    <3>1. Len(log[s]) + 1 \in 1..Len(log'[s])
      <4>1. Len(log[s]) \in Nat /\ Len(log'[s]) = Len(log[s]) + 1
        BY Appended
      <4> QED
        BY <4>1
    <3>2. log'[s][Len(log[s]) + 1] = x
      BY <2>2, Appended
    <3> QED
      BY <3>1, <3>2
  <2>3. ASSUME Was(x), r # x PROVE Is(x)
    <3>0. PICK u \in Session : \E i \in 1..Len(log'[u]) : log'[u][i] = x
      BY <2>3
    <3>1. PICK i \in 1..Len(log'[u]) : log'[u][i] = x
      BY <3>0
    <3>2. i \in 1..Len(log[u]) /\ log[u][i] = x
      BY <2>3, <3>1, Appended
    <3> QED
      BY <3>2
  <2> QED
    BY <2>1, <2>2, <2>3
<1> QED
  BY <1>1 DEF HasStart, Ends

\* The start of a trigger is appended to the log of its session.
LEMMA StartEffect ==
    ASSUME TypeOK, LogInv, NEW t \in Trigger, sess[t] # 0, sess' = sess,
           ~HasStart(t), Ends(t) = {}, StartTrigger(t)
    PROVE  /\ LogInv'
           /\ HasStart(t)'
           /\ \A u \in Trigger \ {t} : HasStart(u)' <=> HasStart(u)
           /\ \A u \in Trigger : Ends(u)' = Ends(u)
<1> DEFINE s == sess[t]
           n == Len(log[s])
<1>1. s \in Session
  BY NonzeroSession
<1>2. StartOf(t) \in Record /\ log' = [log EXCEPT ![s] = Append(@, StartOf(t))]
  BY DEF StartTrigger, StartOf, Record
<1> HIDE DEF s
<1>3. /\ n \in Nat
      /\ Len(log'[s]) = n + 1
      /\ log'[s][n + 1] = StartOf(t)
      /\ \A i \in 1..n : log'[s][i] = log[s][i]
      /\ \A u \in Session \ {s} : log'[u] = log[u]
  BY <1>1, <1>2, Appended
<1>4. \A u \in Session : \A i \in 1..Len(log[u]) : log[u][i].trigger # t
  BY Unrecorded
<1>5. LogInv'
  <2> SUFFICES ASSUME NEW u \in Session
               PROVE  /\ \A i \in 1..Len(log'[u]) : sess[log'[u][i].trigger] = u
                      /\ \A i, j \in 1..Len(log'[u]) :
                             log'[u][i].trigger = log'[u][j].trigger
                             /\ log'[u][i].type = log'[u][j].type => i = j
                      /\ \A j \in 1..Len(log'[u]) :
                             log'[u][j].type = "end" =>
                                 \E i \in 1..Len(log'[u]) :
                                     i < j /\ log'[u][i] = StartOf(log'[u][j].trigger)
    BY DEF LogInv
  <2>1. CASE u # s
    BY <1>3, <2>1 DEF LogInv
  <2>2. CASE u = s
    <3>1. \A i \in 1..Len(log'[u]) : i \in 1..n \/ i = n + 1
      BY <1>3, <2>2
    <3>2. \A i \in 1..n : i \in 1..Len(log'[u])
      BY <1>3, <2>2
    <3> HIDE DEF n
    <3>3. \A i \in 1..Len(log'[u]) : sess[log'[u][i].trigger] = u
      <4>1. log'[u][n + 1].trigger = t
        BY <1>3, <2>2, StartFields
      <4>2. \A i \in 1..n : sess[log'[u][i].trigger] = u
        BY <1>3, <2>2 DEF LogInv, n
      <4> QED
        BY <2>2, <3>1, <4>1, <4>2 DEF s
    <3>4. \A i, j \in 1..Len(log'[u]) :
              log'[u][i].trigger = log'[u][j].trigger
              /\ log'[u][i].type = log'[u][j].type => i = j
      <4>1. /\ \A i \in 1..n : log'[u][i].trigger # t
            /\ log'[u][n + 1].trigger = t
        BY <1>1, <1>3, <1>4, <2>2, StartFields DEF n
      <4>2. \A i, j \in 1..n :
                log'[u][i].trigger = log'[u][j].trigger
                /\ log'[u][i].type = log'[u][j].type => i = j
        <5>1. \A i, j \in 1..n :
                  log[u][i].trigger = log[u][j].trigger
                  /\ log[u][i].type = log[u][j].type => i = j
          BY <2>2 DEF LogInv, n
        <5> QED
          BY <1>3, <2>2, <5>1
      <4> QED
        BY <3>1, <4>1, <4>2
    <3>5. ASSUME NEW j \in 1..Len(log'[u]), log'[u][j].type = "end"
          PROVE  \E i \in 1..Len(log'[u]) :
                     i < j /\ log'[u][i] = StartOf(log'[u][j].trigger)
      <4>1. j \in 1..n /\ log[u][j] = log'[u][j]
        BY <1>3, <2>2, <3>1, <3>5, StartFields
      <4>2. PICK i \in 1..n : i < j /\ log[u][i] = StartOf(log[u][j].trigger)
        BY <2>2, <3>5, <4>1 DEF LogInv, n
      <4> QED
        BY <1>3, <2>2, <3>2, <4>1, <4>2
    <3> QED
      BY <3>3, <3>4, <3>5
  <2> QED
    BY <2>1, <2>2
<1>6. \A u \in Trigger :
          /\ HasStart(u)' <=> HasStart(u) \/ StartOf(t) = StartOf(u)
          /\ \A status \in EndStatus :
                 status \in Ends(u)' <=>
                     status \in Ends(u) \/ StartOf(t) = EndOf(u, status)
  BY <1>1, <1>2, AppendedSays
<1>7. \A u \in Trigger : Ends(u)' = Ends(u)
  <2>1. \A u : Ends(u) \subseteq EndStatus /\ Ends(u)' \subseteq EndStatus
    BY DEF Ends
  <2> QED
    BY <1>6, <2>1, StartFields
<1> QED
  BY <1>5, <1>6, <1>7, StartFields

\* An end is appended to the log of its trigger's session.
LEMMA EndEffect ==
    ASSUME TypeOK, LogInv, NEW t \in Trigger, sess[t] # 0, sess' = sess,
           NEW status \in EndStatus, HasStart(t), Ends(t) = {},
           log' = [log EXCEPT ![sess[t]] = Append(@, EndOf(t, status))]
    PROVE  /\ LogInv'
           /\ \A u \in Trigger : HasStart(u)' <=> HasStart(u)
           /\ \A u \in Trigger \ {t} : Ends(u)' = Ends(u)
           /\ Ends(t)' = {status}
<1> DEFINE s == sess[t]
           n == Len(log[s])
           r == EndOf(t, status)
<1>1. s \in Session
  BY NonzeroSession
<1>2. r \in Record /\ log' = [log EXCEPT ![s] = Append(@, r)]
  BY DEF EndOf, Record
<1> HIDE DEF s
<1>3. /\ n \in Nat
      /\ Len(log'[s]) = n + 1
      /\ log'[s][n + 1] = r
      /\ \A i \in 1..n : log'[s][i] = log[s][i]
      /\ \A u \in Session \ {s} : log'[u] = log[u]
  BY <1>1, <1>2, Appended
<1>0. r.type = "end" /\ r.trigger = t
  BY EndFields
<1> HIDE DEF r
<1>4. \A i \in 1..n : log[s][i].trigger = t => log[s][i].type # "end"
  <2> SUFFICES ASSUME NEW i \in 1..n, log[s][i].trigger = t, log[s][i].type = "end"
               PROVE  FALSE
    OBVIOUS
  <2>1. log[s][i] = EndOf(t, log[s][i].status) /\ log[s][i].status \in EndStatus
    BY <1>1, LogTypes, RecordFields
  <2> QED
    BY <1>1, <2>1 DEF Ends
<1>5. \E i \in 1..n : log[s][i] = StartOf(t)
  <2>1. PICK u \in Session : \E i \in 1..Len(log[u]) : log[u][i] = StartOf(t)
    BY DEF HasStart
  <2>2. PICK i \in 1..Len(log[u]) : log[u][i] = StartOf(t)
    BY <2>1
  <2>3. u = s
    BY <2>2, StartFields DEF LogInv, s
  <2> QED
    BY <2>2, <2>3
<1>6. LogInv'
  <2> SUFFICES ASSUME NEW u \in Session
               PROVE  /\ \A i \in 1..Len(log'[u]) : sess[log'[u][i].trigger] = u
                      /\ \A i, j \in 1..Len(log'[u]) :
                             log'[u][i].trigger = log'[u][j].trigger
                             /\ log'[u][i].type = log'[u][j].type => i = j
                      /\ \A j \in 1..Len(log'[u]) :
                             log'[u][j].type = "end" =>
                                 \E i \in 1..Len(log'[u]) :
                                     i < j /\ log'[u][i] = StartOf(log'[u][j].trigger)
    BY DEF LogInv
  <2>1. CASE u # s
    BY <1>3, <2>1 DEF LogInv
  <2>2. CASE u = s
    <3>1. \A i \in 1..Len(log'[u]) : i \in 1..n \/ i = n + 1
      BY <1>3, <2>2
    <3>2. \A i \in 1..n : i \in 1..Len(log'[u]) /\ i < n + 1
      BY <1>3, <2>2
    <3> HIDE DEF n
    <3>3. \A i \in 1..Len(log'[u]) : sess[log'[u][i].trigger] = u
      BY <1>0, <1>3, <2>2, <3>1 DEF LogInv, n, s
    <3>4. \A i, j \in 1..Len(log'[u]) :
              log'[u][i].trigger = log'[u][j].trigger
              /\ log'[u][i].type = log'[u][j].type => i = j
      BY <1>0, <1>1, <1>3, <1>4, <2>2, <3>1 DEF LogInv, n
    <3>5. ASSUME NEW j \in 1..Len(log'[u]), log'[u][j].type = "end"
          PROVE  \E i \in 1..Len(log'[u]) :
                     i < j /\ log'[u][i] = StartOf(log'[u][j].trigger)
      <4>1. CASE j = n + 1
        BY <1>0, <1>3, <1>5, <2>2, <3>2, <4>1
      <4>2. CASE j \in 1..n
        <5>1. PICK i \in 1..n : i < j /\ log[u][i] = StartOf(log[u][j].trigger)
          BY <1>3, <2>2, <3>5, <4>2 DEF LogInv, n
        <5> QED
          BY <1>3, <2>2, <3>2, <4>2, <5>1
      <4> QED
        BY <3>1, <4>1, <4>2
    <3> QED
      BY <3>3, <3>4, <3>5
  <2> QED
    BY <2>1, <2>2
<1>7. \A u \in Trigger :
          /\ HasStart(u)' <=> HasStart(u) \/ r = StartOf(u)
          /\ \A st \in EndStatus :
                 st \in Ends(u)' <=> st \in Ends(u) \/ r = EndOf(u, st)
  BY <1>1, <1>2, AppendedSays
<1>8. /\ \A u : r # StartOf(u)
      /\ \A u, st : r = EndOf(u, st) <=> u = t /\ st = status
  BY StartFields, EndFields DEF r
<1>9. \A u : Ends(u) \subseteq EndStatus /\ Ends(u)' \subseteq EndStatus
  BY DEF Ends
<1>10. \A u \in Trigger \ {t} : Ends(u)' = Ends(u)
  BY <1>7, <1>8, <1>9
<1>11. Ends(t)' = {status}
  BY <1>7, <1>8, <1>9
<1> QED
  BY <1>6, <1>7, <1>8, <1>10, <1>11

\* The shutdown handler appends an end for each trigger in flight.
LEMMA FlushEffect ==
    ASSUME TypeOK, LogInv,
           \A t \in inflight : sess[t] # 0 /\ HasStart(t) /\ Ends(t) = {},
           sess' = sess, NEW order \in [Session -> Orders],
           \A s \in Session : FlushOrder(s, order[s]),
           log' = [s \in Session |-> log[s] \o Flushed(order[s])]
    PROVE  /\ LogInv'
           /\ \A t \in Trigger : HasStart(t)' <=> HasStart(t)
           /\ \A t \in Trigger \ inflight : Ends(t)' = Ends(t)
           /\ \A t \in inflight : Ends(t)' = {"aborted"}
<1>1. ASSUME NEW s \in Session
      PROVE  /\ Len(log[s]) \in Nat /\ Len(order[s]) \in Nat
             /\ Len(log'[s]) = Len(log[s]) + Len(order[s])
             /\ \A i \in 1..Len(log[s]) : log'[s][i] = log[s][i]
             /\ \A k \in 1..Len(order[s]) :
                    log'[s][Len(log[s]) + k] = EndOf(order[s][k], "aborted")
  <2>1. log[s] \in Seq(Record) /\ log'[s] = log[s] \o Flushed(order[s])
    BY DEF TypeOK
  <2>2. /\ order[s] \in Seq(Trigger) /\ Flushed(order[s]) \in Seq(Record)
        /\ Len(Flushed(order[s])) = Len(order[s])
        /\ \A k \in 1..Len(order[s]) :
               Flushed(order[s])[k] = EndOf(order[s][k], "aborted")
    BY FlushedIsRecords
  <2> DEFINE q == log[s]
             r == Flushed(order[s])
  <2>3. /\ Len(q) \in Nat /\ Len(r) \in Nat
        /\ Len(q \o r) = Len(q) + Len(r)
        /\ \A i \in 1..Len(q) : (q \o r)[i] = q[i]
        /\ \A k \in 1..Len(r) : (q \o r)[Len(q) + k] = r[k]
    <3>1. q \in Seq(Record) /\ r \in Seq(Record)
      BY <2>1, <2>2
    <3> HIDE DEF q, r
    <3> QED
      BY <3>1, Concatenated
  <2> QED
    BY <2>1, <2>2, <2>3
<1>2. ASSUME NEW s \in Session, NEW i \in 1..Len(log'[s])
      PROVE  \/ i \in 1..Len(log[s])
             \/ \E k \in 1..Len(order[s]) : i = Len(log[s]) + k
  <2>1. i \notin 1..Len(log[s]) => i - Len(log[s]) \in 1..Len(order[s])
    BY <1>1
  <2>2. i = Len(log[s]) + (i - Len(log[s]))
    BY <1>1
  <2> QED
    BY <2>1, <2>2
<1>3. ASSUME NEW s \in Session
      PROVE  /\ \A i \in 1..Len(log[s]) : i \in 1..Len(log'[s])
             /\ \A k \in 1..Len(order[s]) : Len(log[s]) + k \in 1..Len(log'[s])
             /\ \A i \in 1..Len(log[s]), k \in 1..Len(order[s]) : i < Len(log[s]) + k
  BY <1>1
<1>4. ASSUME NEW s \in Session, NEW k \in 1..Len(order[s])
      PROVE  /\ order[s][k] \in inflight /\ order[s][k] \in Trigger
             /\ sess[order[s][k]] = s
             /\ log'[s][Len(log[s]) + k] = EndOf(order[s][k], "aborted")
             /\ log'[s][Len(log[s]) + k].trigger = order[s][k]
             /\ log'[s][Len(log[s]) + k].type = "end"
  <2>1. order[s] \in Seq(Trigger) /\ FlushOrder(s, order[s])
    BY FlushedIsRecords
  <2>2. DOMAIN order[s] = 1..Len(order[s])
    BY <2>1
  <2>3. order[s][k] \in InflightOf(s)
    BY <2>1, <2>2 DEF FlushOrder
  <2>4. log'[s][Len(log[s]) + k] = EndOf(order[s][k], "aborted")
    BY <1>1
  <2>5. /\ log'[s][Len(log[s]) + k].trigger = order[s][k]
        /\ log'[s][Len(log[s]) + k].type = "end"
    <3>1. /\ EndOf(order[s][k], "aborted").trigger = order[s][k]
          /\ EndOf(order[s][k], "aborted").type = "end"
      BY EndFields
    <3> QED
      BY <2>4, <3>1, Zenon
  <2>6. order[s][k] \in inflight /\ order[s][k] \in Trigger /\ sess[order[s][k]] = s
    BY <2>3 DEF InflightOf, TypeOK
  <2> QED
    BY <2>4, <2>5, <2>6
<1>5. ASSUME NEW s \in Session, NEW k \in 1..Len(order[s]), NEW l \in 1..Len(order[s]),
             order[s][k] = order[s][l]
      PROVE  k = l
  <2>1. order[s] \in Seq(Trigger) /\ FlushOrder(s, order[s])
    BY FlushedIsRecords
  <2>2. DOMAIN order[s] = 1..Len(order[s])
    BY <2>1
  <2>3. \A u : ~EarlierIn(s, u, u)
    <3>1. \A i \in 1..Len(log[s]) : i \in 1..i
      BY <1>1
    <3> QED
      BY <3>1 DEF EarlierIn
  <2>4. ~(k < l) /\ ~(l < k)
    BY <1>5, <2>1, <2>2, <2>3 DEF FlushOrder
  <2> QED
    BY <1>1, <2>4
<1>6. ASSUME NEW t \in inflight
      PROVE  /\ \A s \in Session : \A i \in 1..Len(log[s]) :
                    log[s][i].trigger = t => log[s][i].type # "end"
             /\ sess[t] \in Session
             /\ \E i \in 1..Len(log[sess[t]]) : log[sess[t]][i] = StartOf(t)
             /\ \E k \in 1..Len(order[sess[t]]) : order[sess[t]][k] = t
  <2>0. t \in Trigger /\ sess[t] \in Session
    BY NonzeroSession DEF TypeOK
  <2>1. ASSUME NEW s \in Session, NEW i \in 1..Len(log[s]),
               log[s][i].trigger = t, log[s][i].type = "end"
        PROVE  FALSE
    <3>1. log[s][i] = EndOf(t, log[s][i].status) /\ log[s][i].status \in EndStatus
      BY <2>1, LogTypes, RecordFields
    <3> QED
      BY <3>1 DEF Ends
  <2>2. PICK u \in Session : \E i \in 1..Len(log[u]) : log[u][i] = StartOf(t)
    BY DEF HasStart
  <2>3. PICK i \in 1..Len(log[u]) : log[u][i] = StartOf(t)
    BY <2>2
  <2>4. u = sess[t]
    <3>1. log[u][i].trigger = t
      BY <2>3, StartFields
    <3> QED
      BY <3>1 DEF LogInv
  <2>5. order[sess[t]] \in Seq(Trigger) /\ FlushOrder(sess[t], order[sess[t]])
    BY <2>0, FlushedIsRecords
  <2>6. DOMAIN order[sess[t]] = 1..Len(order[sess[t]])
    BY <2>5
  <2>7. t \in InflightOf(sess[t])
    BY DEF InflightOf
  <2>8. \E k \in 1..Len(order[sess[t]]) : order[sess[t]][k] = t
    BY <2>5, <2>6, <2>7 DEF FlushOrder
  <2> QED
    BY <2>0, <2>1, <2>3, <2>4, <2>8
<1>7. LogInv'
  <2> SUFFICES ASSUME NEW s \in Session
               PROVE  /\ \A i \in 1..Len(log'[s]) : sess[log'[s][i].trigger] = s
                      /\ \A i, j \in 1..Len(log'[s]) :
                             log'[s][i].trigger = log'[s][j].trigger
                             /\ log'[s][i].type = log'[s][j].type => i = j
                      /\ \A j \in 1..Len(log'[s]) :
                             log'[s][j].type = "end" =>
                                 \E i \in 1..Len(log'[s]) :
                                     i < j /\ log'[s][i] = StartOf(log'[s][j].trigger)
    BY DEF LogInv
  <2>1. ASSUME NEW i \in 1..Len(log'[s]) PROVE sess[log'[s][i].trigger] = s
    <3>1. CASE i \in 1..Len(log[s])
      BY <1>1, <3>1 DEF LogInv
    <3>2. ASSUME NEW k \in 1..Len(order[s]), i = Len(log[s]) + k
          PROVE  sess[log'[s][i].trigger] = s
      <4>1. log'[s][i].trigger = order[s][k]
        BY <1>4, <3>2, Zenon
      <4>2. sess[order[s][k]] = s
        BY <1>4, Zenon
      <4> QED
        BY <4>1, <4>2, Zenon
    <3> QED
      BY <1>2, <3>1, <3>2
  <2>2. ASSUME NEW i \in 1..Len(log'[s]), NEW j \in 1..Len(log'[s]),
               log'[s][i].trigger = log'[s][j].trigger,
               log'[s][i].type = log'[s][j].type
        PROVE  i = j
    <3>1. CASE i \in 1..Len(log[s]) /\ j \in 1..Len(log[s])
      BY <1>1, <2>2, <3>1 DEF LogInv
    <3>2. ASSUME NEW a \in 1..Len(log[s]), NEW k \in 1..Len(order[s]),
                 log'[s][a].trigger = log'[s][Len(log[s]) + k].trigger,
                 log'[s][a].type = log'[s][Len(log[s]) + k].type
          PROVE  FALSE
      <4>1. log[s][a].trigger = order[s][k] /\ log[s][a].type = "end"
        <5>1. log'[s][a] = log[s][a]
          BY <1>1
        <5> QED
          BY <1>4, <3>2, <5>1, Zenon
      <4> QED
        BY <1>4, <1>6, <4>1
    <3>3. ASSUME NEW k \in 1..Len(order[s]), NEW l \in 1..Len(order[s]),
                 log'[s][Len(log[s]) + k].trigger = log'[s][Len(log[s]) + l].trigger
          PROVE  k = l
      <4>1. order[s][k] = order[s][l]
        BY <1>4, <3>3, Zenon
      <4> QED
        BY <1>5, <4>1
    <3>4. CASE i \in 1..Len(log[s])
      BY <1>2, <2>2, <3>1, <3>2, <3>4
    <3>5. CASE j \in 1..Len(log[s])
      BY <1>2, <2>2, <3>1, <3>2, <3>5
    <3>6. ASSUME NEW k \in 1..Len(order[s]), NEW l \in 1..Len(order[s]),
                 i = Len(log[s]) + k, j = Len(log[s]) + l
          PROVE  i = j
      BY <2>2, <3>3, <3>6
    <3> QED
      BY <1>2, <3>4, <3>5, <3>6
  <2>3. ASSUME NEW j \in 1..Len(log'[s]), log'[s][j].type = "end"
        PROVE  \E i \in 1..Len(log'[s]) :
                   i < j /\ log'[s][i] = StartOf(log'[s][j].trigger)
    <3>1. CASE j \in 1..Len(log[s])
      <4>1. PICK i \in 1..Len(log[s]) :
                i < j /\ log[s][i] = StartOf(log[s][j].trigger)
        BY <1>1, <2>3, <3>1 DEF LogInv
      <4> QED
        BY <1>1, <1>3, <3>1, <4>1
    <3>2. ASSUME NEW k \in 1..Len(order[s]), j = Len(log[s]) + k
          PROVE  \E i \in 1..Len(log'[s]) :
                     i < j /\ log'[s][i] = StartOf(log'[s][j].trigger)
      <4>0. order[s][k] \in inflight /\ sess[order[s][k]] = s
        BY <1>4, Zenon
      <4>1. PICK i \in 1..Len(log[s]) : log[s][i] = StartOf(order[s][k])
        BY <1>6, <4>0
      <4>2. i \in 1..Len(log'[s]) /\ i < j /\ log'[s][i] = log[s][i]
        BY <1>1, <1>3, <3>2
      <4>3. log'[s][j].trigger = order[s][k]
        BY <1>4, <3>2, Zenon
      <4> QED
        BY <4>1, <4>2, <4>3
    <3> QED
      BY <1>2, <3>1, <3>2
  <2> QED
    BY <2>1, <2>2, <2>3
<1>8. ASSUME NEW s \in Session, NEW i \in 1..Len(log[s])
      PROVE  i \in 1..Len(log'[s]) /\ log'[s][i] = log[s][i]
  BY <1>1, <1>3
<1>9. ASSUME NEW s \in Session, NEW i \in 1..Len(log'[s])
      PROVE  \/ i \in 1..Len(log[s]) /\ log'[s][i] = log[s][i]
             \/ \E t \in inflight : log'[s][i] = EndOf(t, "aborted")
  <2>1. CASE i \in 1..Len(log[s])
    BY <1>8, <2>1
  <2>2. ASSUME NEW k \in 1..Len(order[s]), i = Len(log[s]) + k
        PROVE  \E t \in inflight : log'[s][i] = EndOf(t, "aborted")
    BY <1>4, <2>2
  <2> QED
    BY <1>2, <2>1, <2>2
<1>10. ASSUME NEW t \in Trigger PROVE HasStart(t)' <=> HasStart(t)
  <2>1. ASSUME HasStart(t) PROVE HasStart(t)'
    <3>1. PICK s \in Session : \E i \in 1..Len(log[s]) : log[s][i] = StartOf(t)
      BY <2>1 DEF HasStart
    <3>2. \E i \in 1..Len(log'[s]) : log'[s][i] = StartOf(t)
      BY <1>8, <3>1
    <3> QED
      BY <3>2 DEF HasStart
  <2>2. ASSUME HasStart(t)' PROVE HasStart(t)
    <3>1. PICK s \in Session : \E i \in 1..Len(log'[s]) : log'[s][i] = StartOf(t)
      BY <2>2 DEF HasStart
    <3>2. \E i \in 1..Len(log[s]) : log[s][i] = StartOf(t)
      BY <1>9, <3>1, StartFields
    <3> QED
      BY <3>2 DEF HasStart
  <2> QED
    BY <2>1, <2>2
<1>11. ASSUME NEW t \in Trigger, NEW status \in EndStatus
       PROVE  status \in Ends(t)' <=>
                  status \in Ends(t) \/ (t \in inflight /\ status = "aborted")
  <2>1. ASSUME status \in Ends(t) PROVE status \in Ends(t)'
    <3>1. PICK s \in Session : \E i \in 1..Len(log[s]) : log[s][i] = EndOf(t, status)
      BY <2>1 DEF Ends
    <3>2. \E i \in 1..Len(log'[s]) : log'[s][i] = EndOf(t, status)
      BY <1>8, <3>1
    <3> QED
      BY <3>2 DEF Ends
  <2>2. ASSUME t \in inflight, status = "aborted" PROVE status \in Ends(t)'
    <3> DEFINE s == sess[t]
    <3>1. s \in Session /\ \E k \in 1..Len(order[s]) : order[s][k] = t
      BY <1>6, <2>2
    <3> HIDE DEF s
    <3>2. PICK k \in 1..Len(order[s]) : order[s][k] = t
      BY <3>1
    <3>3. log'[s][Len(log[s]) + k] = EndOf(t, status)
      <4>1. log'[s][Len(log[s]) + k] = EndOf(order[s][k], "aborted")
        BY <1>4, <3>1, Zenon
      <4> QED
        BY <2>2, <3>2, <4>1, Zenon
    <3>4. Len(log[s]) + k \in 1..Len(log'[s])
      BY <1>3, <3>1
    <3> QED
      BY <3>1, <3>3, <3>4, Zenon DEF Ends
  <2>3. ASSUME status \in Ends(t)', ~(t \in inflight /\ status = "aborted")
        PROVE  status \in Ends(t)
    <3>1. PICK s \in Session : \E i \in 1..Len(log'[s]) : log'[s][i] = EndOf(t, status)
      BY <2>3 DEF Ends
    <3>2. \E i \in 1..Len(log[s]) : log[s][i] = EndOf(t, status)
      BY <1>9, <2>3, <3>1, EndFields
    <3> QED
      BY <3>2 DEF Ends
  <2> QED
    BY <2>1, <2>2, <2>3
<1>12. \A t : Ends(t) \subseteq EndStatus /\ Ends(t)' \subseteq EndStatus
  BY DEF Ends
<1>13. \A t \in Trigger \ inflight : Ends(t)' = Ends(t)
  BY <1>11, <1>12
<1>14. \A t \in inflight : Ends(t)' = {"aborted"}
  <2> SUFFICES ASSUME NEW t \in inflight PROVE Ends(t)' = {"aborted"}
    OBVIOUS
  <2>1. t \in Trigger /\ Ends(t) = {} /\ "aborted" \in EndStatus
    BY DEF TypeOK, EndStatus
  <2>2. \A status \in EndStatus : status \in Ends(t)' <=> status = "aborted"
    BY <1>11, <2>1
  <2> QED
    BY <1>12, <2>1, <2>2
<1> QED
  BY <1>7, <1>10, <1>13, <1>14

-----------------------------------------------------------------------------
(***************************************************************************)
(* RecordInv is an invariant                                               *)
(***************************************************************************)

\* A request that has no trigger yet goes on, or is turned away.
LEMMA QuietMove ==
    ASSUME TypeOK, RecordInv, NEW t \in Trigger, pc[t] \in Quiet,
           NEW place \in Quiet \cup {"failed"}, Goto(t, place),
           \A u \in Trigger \ {t} : sess'[u] = sess[u],
           UNCHANGED records
    PROVE  RecordInv'
<1>1. log' = log /\ inflight' = inflight /\ unwritten' = unwritten
  BY DEF records
<1>2. \A u : (HasStart(u)' <=> HasStart(u)) /\ Ends(u)' = Ends(u)
  BY <1>1 DEF HasStart, Ends
<1>3. pc'[t] = place /\ \A u \in Trigger \ {t} : pc'[u] = pc[u]
  BY DEF Goto, TypeOK
<1>4. ~HasStart(t) /\ Ends(t) = {} /\ t \notin inflight
  BY DEF RecordInv, PlaceInv, Placed, Quiet, Open, Working
<1>5. \A s \in Session : \A i \in 1..Len(log[s]) :
          log[s][i].trigger # t /\ log[s][i].trigger \in Trigger
  BY <1>4, Unrecorded, LogTypes, RecordFields
<1>6. LogInv'
  BY <1>1, <1>5 DEF RecordInv, LogInv
<1>7. PlaceInv'
  BY <1>1, <1>2, <1>3, <1>4 DEF RecordInv, PlaceInv, Placed, Quiet, Open, Working
<1> QED
  BY <1>6, <1>7 DEF RecordInv

LEMMA Unmoved ==
    ASSUME RecordInv, UNCHANGED <<records, pc, sess>>
    PROVE  RecordInv'
<1>1. \A u : (HasStart(u)' <=> HasStart(u)) /\ Ends(u)' = Ends(u)
  BY DEF HasStart, Ends, records
<1>2. LogInv'
  BY DEF RecordInv, LogInv, records
<1>3. PlaceInv'
  BY <1>1 DEF RecordInv, PlaceInv, Placed, records
<1> QED
  BY <1>2, <1>3 DEF RecordInv

\* endTrigger, whatever is in the map and whether or not the log is written.
LEMMA EndTriggerEffect ==
    ASSUME TypeOK, RecordInv, NEW t \in Trigger, sess' = sess,
           NEW status \in EndStatus, EndTrigger(t, status)
    PROVE  /\ LogInv'
           /\ \A u \in Trigger : HasStart(u)' <=> HasStart(u)
           /\ \A u \in Trigger \ {t} : Ends(u)' = Ends(u)
           /\ inflight' = inflight \ {t}
           /\ unwritten \subseteq unwritten'
           /\ t \notin inflight => Ends(t)' = Ends(t)
           /\ t \in inflight => \/ Ends(t)' = {status}
                                \/ Ends(t)' = Ends(t) /\ t \in unwritten'
<1>1. CASE t \in inflight /\ log' # log
  <2>1. /\ log' = [log EXCEPT ![sess[t]] = Append(@, EndOf(t, status))]
        /\ inflight' = inflight \ {t} /\ unwritten' = unwritten
    BY <1>1 DEF EndTrigger, Owned
  <2>2. HasStart(t) /\ Ends(t) = {} /\ sess[t] # 0
    BY <1>1 DEF RecordInv, PlaceInv, Placed, Open, TypeOK, HasSession, Working
  <2> QED
    BY <1>1, <2>1, <2>2, EndEffect DEF RecordInv
<1>2. CASE log' = log
  <2>1. \A u : (HasStart(u)' <=> HasStart(u)) /\ Ends(u)' = Ends(u)
    BY <1>2 DEF HasStart, Ends
  <2>2. LogInv'
    BY <1>2 DEF RecordInv, LogInv
  <2>3. /\ inflight' = inflight \ {t}
        /\ unwritten \subseteq unwritten'
        /\ t \in inflight => t \in unwritten' \/ Ends(t)' = {status}
    <3>1. CASE t \in inflight /\ log' = [log EXCEPT ![sess[t]] = Append(@, EndOf(t, status))]
      <4>1. HasStart(t) /\ Ends(t) = {} /\ sess[t] # 0
        BY <3>1 DEF RecordInv, PlaceInv, Placed, Open, TypeOK, HasSession, Working
      <4>2. Ends(t)' = {status}
        BY <3>1, <4>1, EndEffect DEF RecordInv
      <4> QED
        BY <4>2 DEF EndTrigger
    <3> QED
      BY <3>1 DEF EndTrigger, Owned
  <2> QED
    BY <2>1, <2>2, <2>3
<1>3. t \notin inflight => log' = log
  BY DEF EndTrigger, Owned
<1> QED
  BY <1>1, <1>2, <1>3

\* A request in the event loop or on its error path ends its own trigger.
LEMMA OwnEnd ==
    ASSUME TypeOK, RecordInv, NEW t \in Trigger, pc[t] \in Open, sess' = sess,
           NEW status \in EndStatus, EndTrigger(t, status),
           NEW place, Goto(t, place),
           \/ place = status /\ status \in {"completed", "error"}
           \/ place = "failed" /\ status = "error"
    PROVE  RecordInv'
<1>1. /\ LogInv'
      /\ \A u \in Trigger : HasStart(u)' <=> HasStart(u)
      /\ \A u \in Trigger \ {t} : Ends(u)' = Ends(u)
      /\ inflight' = inflight \ {t}
      /\ unwritten \subseteq unwritten'
      /\ t \notin inflight => Ends(t)' = Ends(t)
      /\ t \in inflight => \/ Ends(t)' = {status}
                           \/ Ends(t)' = Ends(t) /\ t \in unwritten'
  BY EndTriggerEffect
<1>2. pc'[t] = place /\ \A u \in Trigger \ {t} : pc'[u] = pc[u]
  BY DEF Goto, TypeOK
<1>3. ASSUME NEW u \in Trigger \ {t} PROVE Placed(u)'
  <2>1. /\ pc'[u] = pc[u] /\ (HasStart(u)' <=> HasStart(u)) /\ Ends(u)' = Ends(u)
        /\ u \in inflight' <=> u \in inflight
        /\ u \in unwritten => u \in unwritten'
    BY <1>1, <1>2
  <2> QED
    BY <2>1 DEF RecordInv, PlaceInv, Placed
<1>4. /\ t \notin inflight' /\ HasStart(t)'
      /\ Ends(t)' = {} => t \in unwritten'
      /\ Ends(t)' \subseteq {status, "aborted"}
  <2>1. HasStart(t) /\ Ends(t) \subseteq {"aborted"}
    BY DEF RecordInv, PlaceInv, Placed
  <2>2. t \notin inflight => Ends(t) # {} \/ t \in unwritten
    BY <2>1 DEF RecordInv, PlaceInv, Placed, Open
  <2> QED
    BY <1>1, <2>1, <2>2
<1>5. place \notin Quiet /\ place \notin Open
  BY DEF Quiet, Open, Working
<1>6. Placed(t)'
  BY <1>2, <1>4, <1>5 DEF Placed
<1>7. PlaceInv'
  BY <1>3, <1>6 DEF PlaceInv
<1> QED
  BY <1>1, <1>7 DEF RecordInv

\* The request that interrupts a session ends its first trigger.
LEMMA PriorEnd ==
    ASSUME TypeOK, RecordInv, NEW t \in Trigger, EndPrior(t)
    PROVE  RecordInv'
<1>1. pc[t] = "seenBusy" /\ Goto(t, "aborting") /\ sess' = sess
  BY DEF EndPrior
<1>2. CASE UNCHANGED records
  BY <1>1, <1>2, QuietMove DEF Quiet, Working
<1>3. CASE \E p \in Trigger : IsPrior(sess[t], p) /\ EndTrigger(p, "aborted")
  <2>1. PICK p \in Trigger : IsPrior(sess[t], p) /\ EndTrigger(p, "aborted")
    BY <1>3
  <2>2. p \in inflight
    BY <2>1 DEF IsPrior, InflightOf
  <2>3. pc[p] \in Open /\ p # t /\ HasStart(p)
    BY <1>1, <2>2 DEF RecordInv, PlaceInv, Placed, Open
  <2>4. /\ LogInv'
        /\ \A u \in Trigger : HasStart(u)' <=> HasStart(u)
        /\ \A u \in Trigger \ {p} : Ends(u)' = Ends(u)
        /\ inflight' = inflight \ {p}
        /\ unwritten \subseteq unwritten'
        /\ \/ Ends(p)' = {"aborted"}
           \/ Ends(p)' = Ends(p) /\ p \in unwritten'
    BY <1>1, <2>1, <2>2, EndTriggerEffect DEF EndStatus
  <2>5. pc'[t] = "aborting" /\ \A u \in Trigger \ {t} : pc'[u] = pc[u]
    BY <1>1 DEF Goto, TypeOK
  <2>6. Placed(p)'
    BY <2>2, <2>3, <2>4, <2>5 DEF RecordInv, PlaceInv, Placed, Quiet, Open, Working
  <2>7. Placed(t)'
    <3>1. ~HasStart(t) /\ Ends(t) = {} /\ t \notin inflight
      BY <1>1 DEF RecordInv, PlaceInv, Placed, Quiet, Open, Working
    <3> QED
      BY <2>3, <2>4, <2>5, <3>1 DEF Placed, Open
  <2>8. ASSUME NEW u \in Trigger \ {p, t} PROVE Placed(u)'
    <3>1. /\ pc'[u] = pc[u] /\ (HasStart(u)' <=> HasStart(u)) /\ Ends(u)' = Ends(u)
          /\ u \in inflight' <=> u \in inflight
          /\ u \in unwritten => u \in unwritten'
      BY <2>4, <2>5
    <3> QED
      BY <3>1 DEF RecordInv, PlaceInv, Placed
  <2> QED
    BY <2>4, <2>6, <2>7, <2>8 DEF RecordInv, PlaceInv
<1> QED
  BY <1>2, <1>3 DEF EndPrior

LEMMA AttachStarts ==
    ASSUME TypeOK, RecordInv, NEW t \in Trigger, Attach(t)
    PROVE  RecordInv'
<1>1. pc[t] = "attaching" /\ StartTrigger(t) /\ Goto(t, "prompting") /\ sess' = sess
  BY DEF Attach
<1>2. ~HasStart(t) /\ Ends(t) = {}
  BY <1>1 DEF RecordInv, PlaceInv, Placed, Quiet, Working
<1>3. sess[t] # 0
  BY <1>1, SessionType DEF HasSession, Working
<1>4. /\ LogInv'
      /\ HasStart(t)'
      /\ \A u \in Trigger \ {t} : HasStart(u)' <=> HasStart(u)
      /\ \A u \in Trigger : Ends(u)' = Ends(u)
  BY <1>1, <1>2, <1>3, StartEffect DEF RecordInv
<1>5. inflight' = inflight \cup {t} /\ unwritten' = unwritten
  BY <1>1 DEF StartTrigger
<1>6. pc'[t] = "prompting" /\ \A u \in Trigger \ {t} : pc'[u] = pc[u]
  BY <1>1 DEF Goto, TypeOK
<1>7. Placed(t)'
  BY <1>2, <1>4, <1>5, <1>6 DEF Placed, Quiet, Open, Working
<1>8. ASSUME NEW u \in Trigger \ {t} PROVE Placed(u)'
  <2>1. /\ pc'[u] = pc[u] /\ (HasStart(u)' <=> HasStart(u)) /\ Ends(u)' = Ends(u)
        /\ u \in inflight' <=> u \in inflight
        /\ unwritten' = unwritten
    BY <1>4, <1>5, <1>6
  <2> QED
    BY <2>1 DEF RecordInv, PlaceInv, Placed
<1> QED
  BY <1>4, <1>7, <1>8 DEF RecordInv, PlaceInv

LEMMA PromptSent ==
    ASSUME TypeOK, RecordInv, NEW t \in Trigger, pc[t] = "prompting",
           Goto(t, "streaming"), UNCHANGED <<records, sess>>
    PROVE  RecordInv'
<1>1. \A u : (HasStart(u)' <=> HasStart(u)) /\ Ends(u)' = Ends(u)
  BY DEF HasStart, Ends, records
<1>2. LogInv'
  BY DEF RecordInv, LogInv, records
<1>3. pc'[t] = "streaming" /\ \A u \in Trigger \ {t} : pc'[u] = pc[u]
  BY DEF Goto, TypeOK
<1>4. PlaceInv'
  BY <1>1, <1>3 DEF RecordInv, PlaceInv, Placed, records, Quiet, Open, Working
<1> QED
  BY <1>2, <1>4 DEF RecordInv

LEMMA ServeRecords ==
    ASSUME TypeOK, RecordInv, NEW t \in Trigger, Receive(t) \/ Serve(t)
    PROVE  RecordInv'
<1>1. CASE \/ Receive(t) \/ Resolve(t) \/ GetSession(t) \/ CreateSession(t)
           \/ BindSession(t) \/ CheckStatus(t) \/ AnswerBusy(t)
           \/ AbortSession(t) \/ AwaitSettled(t) \/ Settled(t) \/ SettleTimeout(t)
  <2>1. PICK place \in Quiet : Goto(t, place)
    BY <1>1 DEF Receive, Resolve, GetSession, CreateSession, BindSession,
                CheckStatus, AnswerBusy, AbortSession, AwaitSettled, Settled,
                SettleTimeout, Quiet, Working
  <2>2. pc[t] \in Quiet
    BY <1>1 DEF Receive, Resolve, GetSession, CreateSession, BindSession,
                CheckStatus, AnswerBusy, AbortSession, AwaitSettled, Settled,
                SettleTimeout, Quiet, Working
  <2>3. UNCHANGED records /\ \A u \in Trigger \ {t} : sess'[u] = sess[u]
    BY <1>1 DEF Receive, Resolve, GetSession, CreateSession, BindSession,
                CheckStatus, AnswerBusy, AbortSession, AwaitSettled, Settled,
                SettleTimeout, TypeOK
  <2> QED
    BY <2>1, <2>2, <2>3, QuietMove
<1>2. CASE EndPrior(t)
  BY <1>2, PriorEnd
<1>3. CASE Attach(t)
  BY <1>3, AttachStarts
<1>4. CASE Prompt(t)
  BY <1>4, PromptSent DEF Prompt
<1>5. ASSUME pc[t] = "streaming", sess' = sess, Finish(t) PROVE RecordInv'
  BY <1>5, OwnEnd DEF Finish, EndStatus, Open
<1>6. CASE NextEvent(t)
  <2>1. CASE Finish(t)
    BY <1>5, <1>6, <2>1 DEF NextEvent
  <2>2. CASE UNCHANGED <<pc, records>>
    BY <1>6, <2>2, Unmoved DEF NextEvent
  <2> QED
    BY <1>6, <2>1, <2>2 DEF NextEvent
<1>7. CASE GraceOver(t)
  BY <1>5, <1>7 DEF GraceOver
<1> QED
  BY <1>1, <1>2, <1>3, <1>4, <1>6, <1>7 DEF Serve

LEMMA FailRecords ==
    ASSUME TypeOK, RecordInv, NEW t \in Trigger, Fail(t)
    PROVE  RecordInv'
<1>1. CASE \/ GetSessionFails(t) \/ CheckStatusFails(t) \/ AbortSessionFails(t)
           \/ AttachFails(t) \/ CallFails(t)
  <2>1. PICK place \in Quiet \cup {"failed"} : Goto(t, place)
    BY <1>1 DEF GetSessionFails, CheckStatusFails, AbortSessionFails, AttachFails,
                CallFails, Quiet, Working
  <2>2. pc[t] \in Quiet
    BY <1>1 DEF GetSessionFails, CheckStatusFails, AbortSessionFails, AttachFails,
                CallFails, Quiet, Working
  <2>3. UNCHANGED <<records, sess>>
    BY <1>1 DEF GetSessionFails, CheckStatusFails, AbortSessionFails, AttachFails,
                CallFails
  <2> QED
    BY <2>1, <2>2, <2>3, QuietMove
<1>2. CASE PromptFails(t)
  BY <1>2, OwnEnd DEF PromptFails, EndInError, EndStatus, Open
<1>3. CASE EventNotWritten(t)
  BY <1>3, OwnEnd DEF EventNotWritten, EndInError, EndStatus, Open
<1> QED
  BY <1>1, <1>2, <1>3 DEF Fail

LEMMA ProcessRecords ==
    ASSUME TypeOK, RecordInv, Shutdown \/ Exit \/ Crash \/ Restart
    PROVE  RecordInv'
<1>1. CASE Shutdown
  <2>1. PICK order \in [Session -> Orders] :
            /\ \A s \in Session : FlushOrder(s, order[s])
            /\ log' = [s \in Session |-> log[s] \o Flushed(order[s])]
    BY <1>1 DEF Shutdown, Flushed
  <2>2. UNCHANGED <<pc, sess, unwritten>> /\ inflight' = {}
    BY <1>1 DEF Shutdown, MapAfterFlush
  <2>3. \A t \in inflight : sess[t] # 0 /\ HasStart(t) /\ Ends(t) = {}
    BY DEF RecordInv, PlaceInv, Placed, Open, TypeOK, HasSession, Working
  <2>4. /\ LogInv'
        /\ \A t \in Trigger : HasStart(t)' <=> HasStart(t)
        /\ \A t \in Trigger \ inflight : Ends(t)' = Ends(t)
        /\ \A t \in inflight : Ends(t)' = {"aborted"}
    BY <2>1, <2>2, <2>3, FlushEffect DEF RecordInv
  <2>5. ASSUME NEW t \in Trigger, t \in inflight PROVE Placed(t)'
    <3>1. pc'[t] \in Open /\ HasStart(t)' /\ Ends(t)' = {"aborted"} /\ t \notin inflight'
      BY <2>2, <2>3, <2>4, <2>5 DEF RecordInv, PlaceInv, Placed
    <3> QED
      BY <3>1 DEF Placed, Quiet, Open, Working
  <2>6. ASSUME NEW t \in Trigger, t \notin inflight PROVE Placed(t)'
    <3>1. /\ pc'[t] = pc[t] /\ (HasStart(t)' <=> HasStart(t)) /\ Ends(t)' = Ends(t)
          /\ t \notin inflight' /\ unwritten' = unwritten
      BY <2>2, <2>4, <2>6
    <3> QED
      BY <2>6, <3>1 DEF RecordInv, PlaceInv, Placed
  <2> QED
    BY <2>4, <2>5, <2>6 DEF RecordInv, PlaceInv
<1>2. CASE Exit \/ Crash
  <2>1. UNCHANGED <<log, sess, unwritten>> /\ inflight' = {}
    BY <1>2 DEF Exit, Crash, Die
  <2>2. \A t \in Trigger : pc'[t] = IF pc[t] \in Working THEN "lost" ELSE pc[t]
    BY <1>2 DEF Exit, Crash, Die
  <2>3. \A t : (HasStart(t)' <=> HasStart(t)) /\ Ends(t)' = Ends(t)
    BY <2>1 DEF HasStart, Ends
  <2>4. LogInv'
    BY <2>1 DEF RecordInv, LogInv
  <2>5. PlaceInv'
    BY <2>1, <2>2, <2>3
       DEF RecordInv, PlaceInv, Placed, Quiet, Open, Working
  <2> QED
    BY <2>4, <2>5 DEF RecordInv
<1>3. CASE Restart
  BY <1>3, Unmoved DEF Restart
<1> QED
  BY <1>1, <1>2, <1>3

LEMMA RecordStep ==
    ASSUME TypeOK, RecordInv, [Next]_vars
    PROVE  RecordInv'
<1>1. CASE \/ \E s \in Session : OpencodeFinish(s) \/ OpencodeError(s)
           \/ Deliver \/ Drop
  BY <1>1, Unmoved DEF OpencodeFinish, OpencodeError, Deliver, Drop
<1>2. CASE UNCHANGED vars
  BY <1>2, Unmoved DEF vars
<1> QED
  BY <1>1, <1>2, ServeRecords, FailRecords, ProcessRecords DEF Next

LEMMA InitRecords == Init => RecordInv
<1> SUFFICES ASSUME Init PROVE RecordInv
  OBVIOUS
<1>1. \A s \in Session : Len(log[s]) = 0
  BY DEF Init
<1>2. \A s \in Session : 1..Len(log[s]) = {}
  BY <1>1
<1>3. \A t : ~HasStart(t) /\ Ends(t) = {}
  BY <1>2 DEF HasStart, Ends
<1>4. LogInv
  BY <1>2 DEF LogInv
<1>5. PlaceInv
  BY <1>3 DEF Init, PlaceInv, Placed, Open
<1> QED
  BY <1>4, <1>5 DEF RecordInv

LEMMA RecordsInvariant == Spec => [](TypeOK /\ RecordInv)
  BY InitTypes, TypeStep, InitRecords, RecordStep, PTL DEF Spec

-----------------------------------------------------------------------------
(***************************************************************************)
(* What follows from RecordInv                                             *)
(***************************************************************************)

LEMMA StartedEnded ==
    ASSUME TypeOK, LogInv, NEW t \in Trigger
    PROVE  /\ Started(t) <=> HasStart(t)
           /\ Ended(t) <=> Ends(t) # {}
           /\ sess[t] # 0 => \A i \in EndIndexes(t) : log[sess[t]][i].status \in Ends(t)
<1>1. 0 \notin Session
  BY DEF Session
<1>2. ASSUME HasStart(t) PROVE Started(t)
  <2>1. PICK s \in Session : \E i \in 1..Len(log[s]) : log[s][i] = StartOf(t)
    BY <1>2 DEF HasStart
  <2>2. sess[t] = s
    BY <2>1, StartFields DEF LogInv
  <2> QED
    BY <1>1, <2>1, <2>2 DEF Started, StartIndexes
<1>3. ASSUME Started(t) PROVE HasStart(t)
  BY <1>3, NonzeroSession DEF Started, StartIndexes, HasStart
<1>4. ASSUME Ends(t) # {} PROVE Ended(t)
  <2>1. PICK status \in EndStatus : \E s \in Session : \E i \in 1..Len(log[s]) :
            log[s][i] = EndOf(t, status)
    BY <1>4 DEF Ends
  <2>2. PICK s \in Session : \E i \in 1..Len(log[s]) : log[s][i] = EndOf(t, status)
    BY <2>1
  <2>3. sess[t] = s
    BY <2>2, EndFields DEF LogInv
  <2> QED
    BY <1>1, <2>2, <2>3, EndFields DEF Ended, EndIndexes
<1>5. ASSUME sess[t] # 0, NEW i \in EndIndexes(t)
      PROVE  log[sess[t]][i].status \in Ends(t)
  <2>1. /\ sess[t] \in Session /\ i \in 1..Len(log[sess[t]])
        /\ log[sess[t]][i].type = "end" /\ log[sess[t]][i].trigger = t
    BY <1>5, NonzeroSession DEF EndIndexes
  <2>2. log[sess[t]][i].status \in EndStatus
        /\ log[sess[t]][i] = EndOf(t, log[sess[t]][i].status)
    BY <2>1, LogTypes, RecordFields
  <2> QED
    BY <2>1, <2>2 DEF Ends
<1> QED
  BY <1>2, <1>3, <1>4, <1>5 DEF Ended

LEMMA AtMostOne ==
    ASSUME NEW S, \A x, y \in S : x = y
    PROVE  Cardinality(S) <= 1
<1>1. CASE S = {}
  BY <1>1, FS_EmptySet
<1>2. ASSUME NEW x \in S PROVE Cardinality(S) <= 1
  <2>1. S = {x}
    BY <1>2
  <2> QED
    BY <2>1, FS_Singleton
<1> QED
  BY <1>1, <1>2

LEMMA OneEndHolds ==
    ASSUME TypeOK, RecordInv
    PROVE  OneEndPerStart
<1> SUFFICES ASSUME NEW t \in Trigger, sess[t] # 0
             PROVE  /\ Cardinality(StartIndexes(t)) <= 1
                    /\ Cardinality(EndIndexes(t)) <= 1
                    /\ \A j \in EndIndexes(t) : \E i \in StartIndexes(t) : i < j
  BY DEF OneEndPerStart
<1> DEFINE s == sess[t]
<1>1. s \in Session
  BY NonzeroSession
<1>2. \A i, j \in 1..Len(log[s]) :
          log[s][i].trigger = log[s][j].trigger
          /\ log[s][i].type = log[s][j].type => i = j
  BY <1>1 DEF RecordInv, LogInv
<1>3. \A i, j \in StartIndexes(t) : i = j
  BY <1>2, StartFields DEF StartIndexes
<1>4. \A i, j \in EndIndexes(t) : i = j
  BY <1>2 DEF EndIndexes
<1>5. ASSUME NEW j \in EndIndexes(t) PROVE \E i \in StartIndexes(t) : i < j
  <2>1. PICK i \in 1..Len(log[s]) : i < j /\ log[s][i] = StartOf(log[s][j].trigger)
    BY <1>1 DEF RecordInv, LogInv, EndIndexes
  <2> QED
    BY <2>1 DEF StartIndexes, EndIndexes
<1> QED
  BY <1>3, <1>4, <1>5, AtMostOne

LEMMA OpenHolds ==
    ASSUME TypeOK, RecordInv
    PROVE  OpenIffInFlight
<1> SUFFICES ASSUME NEW t \in Trigger
             PROVE  /\ t \in inflight => Started(t) /\ ~Ended(t)
                    /\ Started(t) /\ ~Ended(t) =>
                           t \in inflight \/ pc[t] = "lost" \/ t \in unwritten
  BY DEF OpenIffInFlight
<1>1. (Started(t) <=> HasStart(t)) /\ (Ended(t) <=> Ends(t) # {})
  BY StartedEnded DEF RecordInv
<1>2. Placed(t)
  BY DEF RecordInv, PlaceInv
<1> QED
  BY <1>1, <1>2 DEF Placed

LEMMA AnswersHold ==
    ASSUME TypeOK, RecordInv
    PROVE  AnswersAgreeWithLog
<1> SUFFICES ASSUME NEW t \in Trigger
             PROVE  /\ pc[t] \in {"completed", "error", "failed"} =>
                           /\ t \notin inflight
                           /\ sess[t] # 0 => \A i \in EndIndexes(t) :
                                  log[sess[t]][i].status \in
                                      {IF pc[t] = "failed" THEN "error" ELSE pc[t],
                                       "aborted"}
                    /\ pc[t] \in {"busy", "unsettled"} => ~Started(t)
  BY DEF AnswersAgreeWithLog
<1>1. /\ Started(t) <=> HasStart(t)
      /\ sess[t] # 0 => \A i \in EndIndexes(t) : log[sess[t]][i].status \in Ends(t)
  BY StartedEnded DEF RecordInv
<1>2. Placed(t)
  BY DEF RecordInv, PlaceInv
<1>3. pc[t] \in {"completed", "error", "failed"} =>
          /\ t \notin inflight
          /\ Ends(t) \subseteq {IF pc[t] = "failed" THEN "error" ELSE pc[t], "aborted"}
  BY <1>2 DEF Placed, Open
<1>4. pc[t] \in {"busy", "unsettled"} => ~HasStart(t)
  BY <1>2 DEF Placed, Quiet
<1> QED
  BY <1>1, <1>3, <1>4

\* A trigger has one start and one end at most in its session's log, in this
\* order, however many parties end it.
THEOREM TriggersEndOnce == Spec => []OneEndPerStart
  BY RecordsInvariant, OneEndHolds, PTL

\* The map of triggers in flight and the log's open triggers are the same, up
\* to processes that died and ends that were not written.
THEOREM MapAgreesWithLog == Spec => []OpenIffInFlight
  BY RecordsInvariant, OpenHolds, PTL

\* What a request was answered agrees with what its trigger's end says.
THEOREM AnswersAgree == Spec => []AnswersAgreeWithLog
  BY RecordsInvariant, AnswersHold, PTL

-----------------------------------------------------------------------------
(***************************************************************************)
(* One session per conversation                                            *)
(***************************************************************************)

Resolving == {"getting", "creating", "binding"}

Lock == \A t, u \in Trigger :
            pc[t] \in Resolving /\ pc[u] \in Resolving => t = u

\* A shutdown that has not led to the exit yet: it still may cost a session.
Exiting == IF server = "closing" THEN 1 ELSE 0

Mishaps == faults + crashes + shutdowns

\* A session is created only after a mishap, or as the first one.
SessionInv ==
    /\ Lock
    /\ created + Exiting <= 1 + Mishaps
    /\ bound = 0 /\ (\A t \in Trigger : pc[t] # "binding") =>
           created + Exiting <= Mishaps
    /\ \A t \in Trigger : pc[t] = "creating" => created + Exiting <= Mishaps

LEMMA CountsAreNumbers ==
    ASSUME TypeOK
    PROVE  /\ created \in Nat /\ faults \in Nat /\ crashes \in Nat /\ shutdowns \in Nat
           /\ Exiting \in Nat /\ Exiting <= 1 /\ Mishaps \in Nat
<1>1. created \in Nat /\ faults \in Nat /\ crashes \in Nat /\ shutdowns \in Nat
  BY RunnerAssumption DEF TypeOK
<1> QED
  BY <1>1 DEF Exiting, Mishaps

\* Nothing is created, and no request enters the lock.  The step costs d
\* mishaps, and x is what Exiting becomes; a request that gives up between
\* creating and binding must have cost one.
LEMMA NoNewSession ==
    ASSUME TypeOK, SessionInv, NEW d \in Nat, NEW x \in Nat,
           Mishaps' = Mishaps + d, Exiting' = x, x <= d + Exiting,
           \A t \in Trigger : pc'[t] \in Resolving => pc'[t] = pc[t],
           (\E t \in Trigger : pc[t] = "binding" /\ pc'[t] # "binding") =>
               bound' # 0 \/ x < d + Exiting,
           bound' = 0 => bound = 0,
           created' = created
    PROVE  SessionInv'
<1>1. created \in Nat /\ Exiting \in Nat /\ Mishaps \in Nat
  BY CountsAreNumbers
<1>2. Lock'
  BY DEF SessionInv, Lock
<1>3. created + Exiting <= 1 + Mishaps
  BY DEF SessionInv
<1>4. created + x <= 1 + (Mishaps + d)
  BY <1>1, <1>3
<1>5. created + Exiting <= Mishaps => created + x <= Mishaps + d
  BY <1>1
<1>6. x < d + Exiting => created + x <= Mishaps + d
  BY <1>1, <1>3
<1>7. ASSUME bound' = 0, \A t \in Trigger : pc'[t] # "binding"
      PROVE  created + x <= Mishaps + d
  <2>1. CASE \A t \in Trigger : pc[t] # "binding"
    BY <1>5, <1>7, <2>1 DEF SessionInv
  <2>2. CASE \E t \in Trigger : pc[t] = "binding"
    BY <1>6, <1>7, <2>2
  <2> QED
    BY <2>1, <2>2
<1>8. ASSUME NEW t \in Trigger, pc'[t] = "creating"
      PROVE  created + x <= Mishaps + d
  BY <1>5, <1>8 DEF SessionInv, Resolving
<1>9. created' + Exiting' <= 1 + Mishaps'
  BY <1>4
<1>10. (created + x <= Mishaps + d) => created' + Exiting' <= Mishaps'
  OBVIOUS
<1> QED
  BY <1>2, <1>7, <1>8, <1>9, <1>10 DEF SessionInv

LEMMA Counts ==
    ASSUME TypeOK
    PROVE  /\ UNCHANGED <<bounds, server>> => Mishaps' = Mishaps + 0 /\ Exiting' = Exiting
           /\ Fault /\ server' = server => Mishaps' = Mishaps + 1 /\ Exiting' = Exiting
           /\ Shutdown => Mishaps' = Mishaps + 1 /\ Exiting' = 1
           /\ Exit => Mishaps' = Mishaps + 0 /\ Exiting' = 0 /\ Exiting = 1
           /\ Crash => Mishaps' = Mishaps + 1 /\ Exiting' = 0
           /\ Restart => Mishaps' = Mishaps + 0 /\ Exiting' = 0 /\ Exiting = 0
<1>1. faults \in Nat /\ crashes \in Nat /\ shutdowns \in Nat
  BY CountsAreNumbers
<1>2. ASSUME UNCHANGED <<bounds, server>>
      PROVE  Mishaps' = Mishaps + 0 /\ Exiting' = Exiting
  BY <1>1, <1>2 DEF bounds, Mishaps, Exiting
<1>3. ASSUME Fault, server' = server
      PROVE  Mishaps' = Mishaps + 1 /\ Exiting' = Exiting
  BY <1>1, <1>3 DEF Fault, Mishaps, Exiting
<1>4. ASSUME Shutdown PROVE Mishaps' = Mishaps + 1 /\ Exiting' = 1
  BY <1>1, <1>4 DEF Shutdown, Mishaps, Exiting
<1>5. ASSUME Exit PROVE Mishaps' = Mishaps + 0 /\ Exiting' = 0 /\ Exiting = 1
  BY <1>1, <1>5 DEF Exit, Die, bounds, Mishaps, Exiting
<1>6. ASSUME Crash PROVE Mishaps' = Mishaps + 1 /\ Exiting' = 0
  BY <1>1, <1>6 DEF Crash, Die, Mishaps, Exiting
<1>7. ASSUME Restart PROVE Mishaps' = Mishaps + 0 /\ Exiting' = 0 /\ Exiting = 0
  BY <1>1, <1>7 DEF Restart, bounds, Mishaps, Exiting
<1> QED
  BY <1>2, <1>3, <1>4, <1>5, <1>6, <1>7

\* A step without a mishap that keeps out of the lock, or leaves it for good.
LEMMA QuietStep ==
    ASSUME TypeOK, SessionInv, UNCHANGED <<bounds, server, created>>,
           \A t \in Trigger : pc'[t] \in Resolving => pc'[t] = pc[t],
           (\E t \in Trigger : pc[t] = "binding" /\ pc'[t] # "binding") => bound' # 0,
           bound' = 0 => bound = 0
    PROVE  SessionInv'
<1>1. Exiting \in Nat /\ Exiting <= 0 + Exiting /\ 0 \in Nat
  BY CountsAreNumbers
<1>2. Mishaps' = Mishaps + 0 /\ Exiting' = Exiting
  BY Counts
<1> QED
  BY <1>1, <1>2, NoNewSession

LEMMA FaultStep ==
    ASSUME TypeOK, SessionInv, Fault, UNCHANGED <<server, created, bound>>,
           \A t \in Trigger : pc'[t] \in Resolving => pc'[t] = pc[t]
    PROVE  SessionInv'
<1>1. Exiting \in Nat /\ Exiting <= 1 + Exiting /\ Exiting < 1 + Exiting /\ 1 \in Nat
  BY CountsAreNumbers
<1>2. Mishaps' = Mishaps + 1 /\ Exiting' = Exiting
  BY Counts
<1> QED
  BY <1>1, <1>2, NoNewSession

LEMMA ServeSessions ==
    ASSUME TypeOK, SessionInv, NEW t \in Trigger, Receive(t) \/ Serve(t)
    PROVE  SessionInv'
<1> USE DEF Goto
<1>0. Mishaps \in Nat /\ created \in Nat /\ Exiting \in Nat
  BY CountsAreNumbers
<1>1. CASE Resolve(t)
  <2>1. /\ \A u \in Trigger : pc[u] \notin Resolving
        /\ \A u \in Trigger \ {t} : pc'[u] = pc[u]
        /\ pc'[t] = IF bound # 0 THEN "getting" ELSE "creating"
    BY <1>1 DEF Resolve, LockFree, HasCandidate, Resolving, TypeOK
  <2>2. Mishaps' = Mishaps /\ Exiting' = Exiting /\ created' = created /\ bound' = bound
    BY <1>0, <1>1, Counts DEF Resolve, opencode
  <2>3. Lock'
    BY <2>1 DEF Lock
  <2>4. created + Exiting <= 1 + Mishaps
    BY DEF SessionInv
  <2>5. bound = 0 => created + Exiting <= Mishaps
    BY <2>1 DEF SessionInv, Resolving
  <2>6. \A u \in Trigger : pc'[u] = "creating" => bound = 0
    BY <2>1 DEF Resolving
  <2> QED
    BY <2>2, <2>3, <2>4, <2>5, <2>6 DEF SessionInv
<1>2. CASE CreateSession(t)
  <2>1. /\ pc[t] = "creating" /\ pc'[t] = "binding"
        /\ \A u \in Trigger \ {t} : pc'[u] = pc[u] /\ pc[u] \notin Resolving
    BY <1>2 DEF CreateSession, SessionInv, Lock, Resolving, TypeOK
  <2>2. Mishaps' = Mishaps /\ Exiting' = Exiting /\ created' = created + 1
    BY <1>0, <1>2, Counts DEF CreateSession
  <2>3. Lock'
    BY <2>1 DEF Lock
  <2>4. created + Exiting <= Mishaps
    BY <2>1 DEF SessionInv
  <2>5. (created + 1) + Exiting <= 1 + Mishaps
    BY <1>0, <2>4
  <2>6. \A u \in Trigger : pc'[u] # "creating"
    BY <2>1 DEF Resolving
  <2> QED
    BY <2>1, <2>2, <2>3, <2>5, <2>6 DEF SessionInv
<1>3. CASE BindSession(t)
  <2>1. sess[t] # 0
    BY <1>3, SessionType DEF BindSession, HasSession, Working
  <2> QED
    BY <1>3, <2>1, QuietStep DEF BindSession, Resolving, opencode, TypeOK
<1>4. CASE GetSession(t)
  BY <1>4, QuietStep DEF GetSession, Resolving, opencode, TypeOK
<1>5. CASE Receive(t) \/ CheckStatus(t) \/ AnswerBusy(t)
  BY <1>5, QuietStep DEF Receive, CheckStatus, AnswerBusy, Resolving, opencode, TypeOK
<1>6. CASE EndPrior(t) \/ AbortSession(t) \/ AwaitSettled(t)
  BY <1>6, QuietStep
     DEF EndPrior, AbortSession, AwaitSettled, Resolving, opencode, TypeOK
<1>7. CASE Settled(t) \/ SettleTimeout(t) \/ Attach(t) \/ Prompt(t)
  BY <1>7, QuietStep
     DEF Settled, SettleTimeout, Attach, Prompt, Resolving, opencode, TypeOK
<1>8. ASSUME pc[t] = "streaming", Finish(t),
             UNCHANGED <<opencode, server, sess, bound, bounds>>
      PROVE  SessionInv'
  BY <1>8, QuietStep DEF Finish, Resolving, opencode, TypeOK
<1>9. CASE NextEvent(t)
  <2>1. CASE Finish(t)
    BY <1>8, <1>9, <2>1 DEF NextEvent
  <2>2. CASE pc' = pc
    BY <1>9, <2>2, QuietStep DEF NextEvent, opencode
  <2> QED
    BY <1>9, <2>1, <2>2 DEF NextEvent
<1>10. CASE GraceOver(t)
  BY <1>8, <1>10 DEF GraceOver
<1> QED
  BY <1>1, <1>2, <1>3, <1>4, <1>5, <1>6, <1>7, <1>9, <1>10 DEF Serve

LEMMA FailSessions ==
    ASSUME TypeOK, SessionInv, NEW t \in Trigger, Fail(t)
    PROVE  SessionInv'
<1> USE DEF Goto
<1>0. Mishaps \in Nat /\ created \in Nat /\ Exiting \in Nat
  BY CountsAreNumbers
<1>1. CASE GetSessionFails(t)
  <2>1. /\ pc[t] = "getting" /\ pc'[t] = "creating"
        /\ \A u \in Trigger \ {t} : pc'[u] = pc[u] /\ pc[u] \notin Resolving
    BY <1>1 DEF GetSessionFails, SessionInv, Lock, Resolving, TypeOK
  <2>2. Mishaps' = Mishaps + 1 /\ Exiting' = Exiting /\ created' = created
    BY <1>1, Counts DEF GetSessionFails, opencode
  <2>3. Lock'
    BY <2>1 DEF Lock
  <2>4. created + Exiting <= 1 + Mishaps
    BY DEF SessionInv
  <2>5. created + Exiting <= Mishaps + 1 /\ created + Exiting <= 1 + (Mishaps + 1)
    BY <1>0, <2>4
  <2> QED
    BY <2>2, <2>3, <2>5 DEF SessionInv
<1>2. CASE CheckStatusFails(t) \/ AbortSessionFails(t) \/ AttachFails(t) \/ CallFails(t)
  BY <1>2, FaultStep
     DEF CheckStatusFails, AbortSessionFails, AttachFails, CallFails, Resolving,
         opencode, TypeOK
<1>3. CASE PromptFails(t) \/ EventNotWritten(t)
  BY <1>3, FaultStep DEF PromptFails, EventNotWritten, Resolving, opencode, TypeOK
<1> QED
  BY <1>1, <1>2, <1>3 DEF Fail

LEMMA ProcessSessions ==
    ASSUME TypeOK, SessionInv, Shutdown \/ Exit \/ Crash \/ Restart
    PROVE  SessionInv'
<1>0. Exiting \in Nat
  BY CountsAreNumbers
<1>1. CASE Shutdown
  <2>1. UNCHANGED <<pc, created, bound>>
    BY <1>1 DEF Shutdown, opencode
  <2>2. Mishaps' = Mishaps + 1 /\ Exiting' = 1
    BY <1>1, Counts
  <2>3. 1 \in Nat /\ 1 <= 1 + Exiting
    BY <1>0
  <2> QED
    BY <2>1, <2>2, <2>3, NoNewSession
<1>2. ASSUME Exit \/ Crash
      PROVE  /\ UNCHANGED <<created, bound>>
             /\ \A t \in Trigger : pc'[t] \in Resolving => pc'[t] = pc[t]
  BY <1>2 DEF Exit, Crash, Die, opencode, Resolving
<1>3. CASE Exit
  <2>1. Mishaps' = Mishaps + 0 /\ Exiting' = 0 /\ Exiting = 1
    BY <1>3, Counts
  <2>2. 0 \in Nat /\ 0 <= 0 + Exiting /\ 0 < 0 + Exiting
    BY <2>1
  <2> QED
    BY <1>2, <1>3, <2>1, <2>2, NoNewSession
<1>4. CASE Crash
  <2>1. Mishaps' = Mishaps + 1 /\ Exiting' = 0
    BY <1>4, Counts
  <2>2. 0 \in Nat /\ 1 \in Nat /\ 0 <= 1 + Exiting /\ 0 < 1 + Exiting
    BY <1>0
  <2> QED
    BY <1>2, <1>4, <2>1, <2>2, NoNewSession
<1>5. CASE Restart
  <2>1. Mishaps' = Mishaps + 0 /\ Exiting' = 0 /\ Exiting = 0
    BY <1>5, Counts
  <2>2. 0 \in Nat /\ 0 <= 0 + Exiting
    BY <1>0
  <2>3. UNCHANGED <<pc, created, bound>>
    BY <1>5 DEF Restart, opencode
  <2> QED
    BY <2>1, <2>2, <2>3, NoNewSession
<1> QED
  BY <1>1, <1>3, <1>4, <1>5

LEMMA SessionStep ==
    ASSUME TypeOK, SessionInv, [Next]_vars
    PROVE  SessionInv'
<1>1. CASE Deliver \/ UNCHANGED vars
  BY <1>1, QuietStep DEF Deliver, vars, opencode
<1>2. CASE Drop
  <2>1. UNCHANGED <<pc, created, bound, server, faults, crashes, shutdowns>>
    BY <1>2 DEF Drop, opencode
  <2>2. Mishaps' = Mishaps /\ Exiting' = Exiting
    BY <2>1 DEF Mishaps, Exiting
  <2> QED
    BY <2>1, <2>2 DEF SessionInv, Lock
<1>3. ASSUME NEW s \in Session, OpencodeFinish(s) PROVE SessionInv'
  BY <1>3, QuietStep DEF OpencodeFinish
<1>4. ASSUME NEW s \in Session, OpencodeError(s) PROVE SessionInv'
  BY <1>4, FaultStep DEF OpencodeError, opencode
<1> QED
  BY <1>1, <1>2, <1>3, <1>4, ServeSessions, FailSessions, ProcessSessions DEF Next

LEMMA InitSessions == Init => SessionInv
<1> SUFFICES ASSUME Init PROVE SessionInv
  OBVIOUS
<1>1. created = 0 /\ Exiting = 0 /\ Mishaps = 0
  BY DEF Init, Exiting, Mishaps
<1>2. \A t \in Trigger : pc[t] \notin Resolving
  BY DEF Init, Resolving
<1> QED
  BY <1>1, <1>2 DEF SessionInv, Lock, Resolving

\* Requests of one conversation share a session: there is one, and one more
\* at most for each call, write or process that failed.
THEOREM OneSessionEach == Spec => []NoDuplicateSessions
<1>1. TypeOK /\ SessionInv => NoDuplicateSessions
  <2> SUFFICES ASSUME TypeOK, SessionInv PROVE NoDuplicateSessions
    OBVIOUS
  <2>1. created \in Nat /\ Exiting \in Nat /\ Mishaps \in Nat
    BY CountsAreNumbers
  <2>2. created + Exiting <= 1 + Mishaps
    BY DEF SessionInv
  <2>3. created <= 1 + Mishaps
    BY <2>1, <2>2
  <2>4. faults \in Nat /\ crashes \in Nat /\ shutdowns \in Nat
    BY CountsAreNumbers
  <2> QED
    BY <2>3, <2>4 DEF NoDuplicateSessions, Mishaps
<1> QED
  BY <1>1, InitTypes, TypeStep, InitSessions, SessionStep, PTL DEF Spec

-----------------------------------------------------------------------------
(***************************************************************************)
(* The viewer's verdict                                                    *)
(***************************************************************************)

Extends(own, longer) ==
    /\ longer \in Seq(Record)
    /\ Len(own) <= Len(longer)
    /\ \A i \in 1..Len(own) : longer[i] = own[i]

StartsIn(own, t) == {i \in 1..Len(own) : own[i] = StartOf(t)}

ClosingIn(own, t, from) ==
    {i \in from + 1..Len(own) : own[i].type = "start" \/ own[i].trigger = t}

From(own, t) == CHOOSE i \in StartsIn(own, t) : TRUE

Close(own, t) ==
    CHOOSE i \in ClosingIn(own, t, From(own, t)) :
        \A j \in ClosingIn(own, t, From(own, t)) : i <= j

\* SliceStatus, of a given log.
Verdict(own, t) ==
    IF ClosingIn(own, t, From(own, t)) = {} THEN "in_flight"
    ELSE IF own[Close(own, t)].type = "start" THEN "crashed"
    ELSE own[Close(own, t)].status

LEMMA VerdictIsSliceStatus ==
    ASSUME NEW t
    PROVE  /\ SliceStatus(t) = Verdict(log[sess[t]], t)
           /\ SliceStatus(t)' = Verdict(log'[sess'[t]], t)
<1>1. SliceStatus(t) = Verdict(log[sess[t]], t)
  BY DEF SliceStatus, Verdict, From, Close, StartIndexes, StartsIn, ClosingIn
<1>2. SliceStatus(t)' = Verdict(log'[sess'[t]], t)
  BY DEF SliceStatus, Verdict, From, Close, StartIndexes, StartsIn, ClosingIn
<1> QED
  BY <1>1, <1>2

LEMMA Smallest ==
    ASSUME NEW S, S \subseteq Nat, S # {}
    PROVE  \E i \in S : \A j \in S : i <= j
<1> DEFINE R == {ss \in Nat \X Nat : ss[1] < ss[2]}
<1>1. IsWellFoundedOn(R, Nat)
  BY NatLessThanWellFounded, Zenon DEF OpToRel
<1>2. PICK i \in S : \A j \in S : <<j, i>> \notin R
  <2> HIDE DEF R
  <2> QED
    BY <1>1, WFMin
<1>3. \A j \in S : <<j, i>> \in Nat \X Nat /\ (j < i => <<j, i>> \in R)
  OBVIOUS
<1>4. ASSUME NEW j \in S PROVE i <= j
  <2>1. ~(j < i)
    BY <1>2, <1>3
  <2>2. i \in Nat /\ j \in Nat
    OBVIOUS
  <2> HIDE DEF R
  <2> QED
    BY <2>1, <2>2
<1> QED
  BY <1>4

\* Once it is over, whatever is appended does not change it.
LEMMA VerdictFinal ==
    ASSUME NEW own \in Seq(Record), NEW longer, Extends(own, longer), NEW t,
           NEW from \in StartsIn(own, t),
           \A i \in StartsIn(longer, t) : i = from,
           Verdict(own, t) # "in_flight"
    PROVE  Verdict(longer, t) = Verdict(own, t)
<1> DEFINE closing == ClosingIn(own, t, from)
           more == ClosingIn(longer, t, from)
<1>0. /\ Len(own) \in Nat /\ Len(longer) \in Nat /\ Len(own) <= Len(longer)
      /\ from \in 1..Len(own)
  BY DEF Extends, StartsIn
<1>1. \A i \in 1..Len(own) : i \in 1..Len(longer) /\ longer[i] = own[i]
  BY <1>0 DEF Extends
<1>2. StartsIn(own, t) = {from} /\ StartsIn(longer, t) = {from}
  <2>1. StartsIn(own, t) \subseteq StartsIn(longer, t)
    BY <1>1 DEF StartsIn
  <2> QED
    BY <2>1
<1>3. From(own, t) = from /\ From(longer, t) = from
  BY <1>2 DEF From
<1>4. closing # {}
  BY <1>3 DEF Verdict
<1>5. closing \subseteq 1..Len(own) /\ closing \subseteq more
  BY <1>0, <1>1 DEF ClosingIn
<1>6. \A i \in more : i \in closing \/ i > Len(own)
  BY <1>0, <1>1 DEF ClosingIn
<1>7. more \subseteq Nat
  BY <1>0 DEF ClosingIn
<1> HIDE DEF closing, more
<1>8. PICK c \in closing : \A j \in closing : c <= j
  <2>1. closing \subseteq Nat
    BY <1>5, <1>7
  <2> QED
    BY <1>4, <2>1, Smallest
<1>9. c \in more /\ \A j \in more : c <= j
  <2>1. c \in 1..Len(own)
    BY <1>5, <1>8
  <2>2. ASSUME NEW j \in more PROVE c <= j
    <3>1. CASE j \in closing
      BY <1>8, <3>1
    <3>2. CASE j > Len(own)
      BY <1>0, <1>7, <2>1, <3>2
    <3> QED
      BY <1>6, <3>1, <3>2
  <2> QED
    BY <1>5, <1>8, <2>2
<1>10. Close(own, t) = c
  <2>1. \A i \in closing : (\A j \in closing : i <= j) => i = c
    BY <1>0, <1>5, <1>8
  <2> QED
    BY <1>3, <1>8, <2>1 DEF Close, closing
<1>11. Close(longer, t) = c
  <2>1. \A i \in more : (\A j \in more : i <= j) => i = c
    BY <1>7, <1>9
  <2> QED
    BY <1>3, <1>9, <2>1 DEF Close, more
<1>12. longer[c] = own[c]
  BY <1>1, <1>5, <1>8
<1>13. Verdict(own, t) = IF own[c].type = "start" THEN "crashed" ELSE own[c].status
  BY <1>3, <1>4, <1>10 DEF Verdict, closing
<1>14. Verdict(longer, t) =
           IF longer[c].type = "start" THEN "crashed" ELSE longer[c].status
  BY <1>3, <1>9, <1>11 DEF Verdict, more
<1> QED
  BY <1>12, <1>13, <1>14

\* Records are only ever appended.
LEMMA LogsGrow ==
    ASSUME TypeOK, RecordInv, [Next]_vars, NEW s \in Session
    PROVE  Extends(log[s], log'[s])
<1>0. log[s] \in Seq(Record) /\ Len(log[s]) \in Nat
  BY DEF TypeOK
<1>1. CASE log' = log
  BY <1>0, <1>1 DEF Extends
<1>2. ASSUME NEW u \in Session, NEW r \in Record,
             log' = [log EXCEPT ![u] = Append(@, r)]
      PROVE  Extends(log[s], log'[s])
  <2>1. CASE s # u
    BY <1>0, <1>2, <2>1, Appended DEF Extends
  <2>2. CASE s = u
    <3>1. log'[s] \in Seq(Record)
      BY <1>0, <1>2, <2>2 DEF TypeOK
    <3>2. Len(log'[s]) = Len(log[s]) + 1 /\ \A i \in 1..Len(log[s]) : log'[s][i] = log[s][i]
      BY <1>2, <2>2, Appended
    <3> QED
      BY <1>0, <3>1, <3>2 DEF Extends
  <2> QED
    BY <2>1, <2>2
<1>3. ASSUME NEW t \in Trigger, NEW status \in EndStatus, sess[t] # 0,
             EndTrigger(t, status)
      PROVE  Extends(log[s], log'[s])
  <2>1. EndOf(t, status) \in Record /\ sess[t] \in Session
    BY <1>3, NonzeroSession DEF EndOf, Record
  <2> QED
    BY <1>1, <1>2, <1>3, <2>1 DEF EndTrigger
<1>4. ASSUME NEW t \in Trigger, Attach(t) PROVE Extends(log[s], log'[s])
  <2>1. sess[t] \in Session /\ StartOf(t) \in Record
    BY <1>4, SessionType DEF Attach, HasSession, Working, StartOf, Record
  <2> QED
    BY <1>2, <1>4, <2>1 DEF Attach, StartTrigger
<1>5. ASSUME NEW t \in Trigger, EndPrior(t) PROVE Extends(log[s], log'[s])
  <2>1. ASSUME NEW p \in Trigger, IsPrior(sess[t], p), EndTrigger(p, "aborted")
        PROVE  Extends(log[s], log'[s])
    <3>1. sess[p] # 0
      BY <2>1 DEF IsPrior, InflightOf, RecordInv, PlaceInv, Placed, Open, TypeOK,
                  HasSession, Working
    <3> QED
      BY <1>3, <2>1, <3>1 DEF EndStatus
  <2> QED
    BY <1>1, <1>5, <2>1 DEF EndPrior, records
<1>6. ASSUME NEW t \in Trigger, NextEvent(t) \/ GraceOver(t)
      PROVE  Extends(log[s], log'[s])
  <2>1. sess[t] # 0
    BY <1>6, SessionType DEF NextEvent, GraceOver, HasSession, Working
  <2>2. ASSUME Finish(t) PROVE Extends(log[s], log'[s])
    BY <1>3, <2>1, <2>2 DEF Finish, EndStatus
  <2> QED
    BY <1>1, <1>6, <2>2 DEF NextEvent, GraceOver, records
<1>7. ASSUME NEW t \in Trigger, PromptFails(t) \/ EventNotWritten(t)
      PROVE  Extends(log[s], log'[s])
  <2>1. sess[t] # 0
    BY <1>7, SessionType DEF PromptFails, EventNotWritten, HasSession, Working
  <2> QED
    BY <1>3, <1>7, <2>1 DEF PromptFails, EventNotWritten, EndInError, EndStatus
<1>8. CASE Shutdown
  <2>1. PICK order \in [Session -> Orders] :
            log' = [u \in Session |-> log[u] \o Flushed(order[u])]
    BY <1>8 DEF Shutdown, Flushed
  <2>2. log'[s] = log[s] \o Flushed(order[s]) /\ Flushed(order[s]) \in Seq(Record)
    BY <2>1, FlushedIsRecords
  <2> DEFINE q == log[s]
             r == Flushed(order[s])
  <2>3. q \in Seq(Record) /\ r \in Seq(Record)
    BY <1>0, <2>2
  <2>4. Extends(q, q \o r)
    <3> HIDE DEF q, r
    <3>1. q \o r \in Seq(Record)
      BY <2>3
    <3>2. /\ Len(q) \in Nat /\ Len(r) \in Nat /\ Len(q \o r) = Len(q) + Len(r)
          /\ \A i \in 1..Len(q) : (q \o r)[i] = q[i]
      BY <2>3, Concatenated
    <3> QED
      BY <3>1, <3>2 DEF Extends
  <2> QED
    BY <2>2, <2>4
<1>9. ASSUME NEW t \in Trigger, Receive(t) \/ Serve(t)
      PROVE  Extends(log[s], log'[s])
  <2>1. CASE \/ Receive(t) \/ Resolve(t) \/ GetSession(t) \/ CreateSession(t)
             \/ BindSession(t) \/ CheckStatus(t) \/ AnswerBusy(t) \/ Prompt(t)
             \/ AbortSession(t) \/ AwaitSettled(t) \/ Settled(t) \/ SettleTimeout(t)
    BY <1>1, <2>1 DEF Receive, Resolve, GetSession, CreateSession, BindSession,
                      CheckStatus, AnswerBusy, Prompt, AbortSession, AwaitSettled,
                      Settled, SettleTimeout, records
  <2> QED
    BY <1>4, <1>5, <1>6, <1>9, <2>1 DEF Serve
<1>10. ASSUME NEW t \in Trigger, Fail(t) PROVE Extends(log[s], log'[s])
  <2>1. CASE \/ GetSessionFails(t) \/ CheckStatusFails(t) \/ AbortSessionFails(t)
             \/ AttachFails(t) \/ CallFails(t)
    BY <1>1, <2>1 DEF GetSessionFails, CheckStatusFails, AbortSessionFails,
                      AttachFails, CallFails, records
  <2> QED
    BY <1>7, <1>10, <2>1 DEF Fail
<1>11. CASE \/ \E u \in Session : OpencodeFinish(u) \/ OpencodeError(u)
            \/ Deliver \/ Drop \/ Exit \/ Crash \/ Restart \/ UNCHANGED vars
  BY <1>1, <1>11 DEF OpencodeFinish, OpencodeError, Deliver, Drop, Exit, Crash, Die,
                     Restart, vars, records
<1> QED
  BY <1>8, <1>9, <1>10, <1>11 DEF Next

\* A request that has a trigger keeps its session.
LEMMA SessionKept ==
    ASSUME TypeOK, RecordInv, [Next]_vars, NEW t \in Trigger, HasStart(t)
    PROVE  sess'[t] = sess[t]
<1>1. pc[t] # "locking" /\ pc[t] # "creating"
  BY DEF RecordInv, PlaceInv, Placed, Quiet, Working
<1>2. ASSUME NEW u \in Trigger, Receive(u) \/ Serve(u) PROVE sess'[t] = sess[t]
  <2>1. CASE Resolve(u) \/ CreateSession(u)
    BY <1>1, <2>1 DEF Resolve, CreateSession, TypeOK
  <2> QED
    BY <1>2, <2>1
       DEF Receive, Serve, GetSession, BindSession, CheckStatus, AnswerBusy, EndPrior,
           AbortSession, AwaitSettled, Settled, SettleTimeout, Attach, Prompt,
           NextEvent, GraceOver
<1>3. ASSUME NEW u \in Trigger, Fail(u) PROVE sess'[t] = sess[t]
  BY <1>3 DEF Fail, GetSessionFails, CheckStatusFails, AbortSessionFails, AttachFails,
              PromptFails, EventNotWritten, CallFails
<1>4. CASE \/ \E s \in Session : OpencodeFinish(s) \/ OpencodeError(s)
           \/ Deliver \/ Drop \/ Shutdown \/ Exit \/ Crash \/ Restart
           \/ UNCHANGED vars
  BY <1>4 DEF OpencodeFinish, OpencodeError, Deliver, Drop, Shutdown, Exit, Crash,
              Die, Restart, vars
<1> QED
  BY <1>2, <1>3, <1>4 DEF Next

VerdictsStay ==
    \A t \in Trigger :
        Started(t) /\ SliceStatus(t) # "in_flight"
            => SliceStatus(t)' = SliceStatus(t)

LEMMA VerdictsStayInStep ==
    ASSUME TypeOK, RecordInv, RecordInv', [Next]_vars
    PROVE  VerdictsStay
<1> SUFFICES ASSUME NEW t \in Trigger, Started(t), SliceStatus(t) # "in_flight"
             PROVE  SliceStatus(t)' = SliceStatus(t)
  BY DEF VerdictsStay
<1> DEFINE own == log[sess[t]]
           longer == log'[sess[t]]
<1>1. HasStart(t)
  BY StartedEnded DEF RecordInv
<1>2. sess'[t] = sess[t] /\ sess[t] \in Session
  BY <1>1, SessionKept, NonzeroSession DEF Started
<1>3. own \in Seq(Record)
  BY <1>2 DEF TypeOK
<1>4. Extends(own, longer)
  BY <1>2, LogsGrow
<1>5. PICK from \in StartsIn(own, t) : TRUE
  BY DEF Started, StartIndexes, StartsIn
<1>6. \A i \in StartsIn(longer, t) : i = from
  <2>1. from \in 1..Len(own) /\ own[from] = StartOf(t)
    BY <1>5 DEF StartsIn
  <2>2. from \in 1..Len(longer) /\ longer[from] = StartOf(t)
    BY <1>3, <1>4, <2>1 DEF Extends
  <2>3. \A i, j \in 1..Len(longer) :
            longer[i].trigger = longer[j].trigger /\ longer[i].type = longer[j].type
                => i = j
    BY <1>2 DEF RecordInv, LogInv
  <2> QED
    BY <2>2, <2>3 DEF StartsIn
<1>7. Verdict(own, t) # "in_flight"
  BY VerdictIsSliceStatus
<1>8. Verdict(longer, t) = Verdict(own, t)
  <2> HIDE DEF own, longer
  <2> QED
    BY <1>3, <1>4, <1>5, <1>6, <1>7, VerdictFinal
<1> QED
  BY <1>2, <1>8, VerdictIsSliceStatus

\* How the viewer shows a trigger that is over never changes.
THEOREM VerdictsAreFinal == Spec => SliceFinal
<1>1. TypeOK /\ RecordInv /\ (TypeOK /\ RecordInv)' /\ [Next]_vars => [VerdictsStay]_vars
  BY VerdictsStayInStep
<1>2. Spec => [][VerdictsStay]_vars
  BY <1>1, RecordsInvariant, PTL DEF Spec
<1> QED
  BY <1>2 DEF SliceFinal, VerdictsStay

=============================================================================
