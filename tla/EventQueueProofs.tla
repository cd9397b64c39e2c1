-------------------------- MODULE EventQueueProofs --------------------------
(***************************************************************************)
(* Theorems about the event queue, for every set of events, keys, anchors  *)
(* and file names and every value of the bounds.                           *)
(***************************************************************************)
EXTENDS EventQueue, TLAPS

\* What a deletion by name leaves has the type of the directory.
LEMMA WithoutType ==
    ASSUME TypeOK, NEW N
    PROVE  Without(N) \in [Name -> Event \cup {NoFile}]
BY DEF TypeOK, Without

\* Binding an unbound key keeps the alias state well typed.
LEMMA EnsureAnchorType ==
    ASSUME TypeOK, NEW k \in Key, EnsureAnchor(k)
    PROVE  /\ anchorOf' \in [Key -> Anchor \cup {NoAnchor}]
           /\ minted' \subseteq Anchor
           /\ moved' = moved
BY DEF TypeOK, EnsureAnchor, aliases

\* The acknowledgement counters stay natural numbers.
LEMMA AckedOnceType ==
    ASSUME TypeOK, NEW l
    PROVE  AckedOnce(l) \in [Event -> Nat]
BY DEF TypeOK, AckedOnce

\* Every state of the queue is well typed.
THEOREM TypeCorrect == Spec => []TypeOK
<1>1. Init => TypeOK
  BY QueueAssumption DEF Init, TypeOK
<1>2. TypeOK /\ [Next]_vars => TypeOK'
  <2> SUFFICES ASSUME TypeOK, [Next]_vars PROVE TypeOK'
    OBVIOUS
  <2>1. ASSUME NEW e \in Event, Enqueue(e) PROVE TypeOK'
    <3>1. KeyOf[e] \in Key /\ FileName[e] \in Name
      BY QueueAssumption
    <3>2. /\ anchorOf' \in [Key -> Anchor \cup {NoAnchor}]
          /\ minted' \subseteq Anchor
          /\ moved' = moved
      BY <2>1, <3>1, EnsureAnchorType DEF Enqueue
    <3>3. ripe' \subseteq Name
      BY <2>1, <3>1 DEF Enqueue, TypeOK
    <3> QED
      BY <2>1, <3>1, <3>2, <3>3 DEF Enqueue, TypeOK, memory
  <2>2. ASSUME NEW n \in Name, Ripen(n) PROVE TypeOK'
    BY <2>2 DEF Ripen, TypeOK, aliases, memory, history
  <2>3. ASSUME NEW k \in Key, NEW a \in Anchor, BindElsewhere(k, a) PROVE TypeOK'
    BY <2>3 DEF BindElsewhere, TypeOK, store, memory, history
  <2>4. ASSUME NEW k \in Key, NEW a \in Anchor, MoveAlias(k, a) PROVE TypeOK'
    BY <2>4 DEF MoveAlias, TypeOK, store, memory, history
  <2>5. ASSUME NEW bad \in SUBSET Name, ScanWith(bad), faults' \in Nat PROVE TypeOK'
    <3>1. files' \in [Name -> Event \cup {NoFile}]
      BY <2>5, WithoutType DEF ScanWith
    <3>2. inflight' \in [Lock -> SUBSET Event]
      BY <2>5 DEF ScanWith, TypeOK, Entries, OnDisk
    <3>3. ripe' \subseteq Name /\ dropped' \subseteq Event
      BY <2>5 DEF ScanWith, TypeOK, OnDisk
    <3> QED
      BY <2>5, <3>1, <3>2, <3>3 DEF ScanWith, TypeOK, aliases
  <2>6. CASE Scan
    BY <2>5, <2>6 DEF Scan, TypeOK
  <2>7. ASSUME NEW n \in Name, ScanUnreadable(n) PROVE TypeOK'
    BY <2>5, <2>7 DEF ScanUnreadable, TypeOK
  <2>8. ASSUME NEW l \in Lock, HandlerAck(l) PROVE TypeOK'
    <3>1. files' \in [Name -> Event \cup {NoFile}] /\ acked' \in [Event -> Nat]
      BY <2>8, WithoutType, AckedOnceType DEF HandlerAck
    <3> QED
      BY <2>8, <3>1 DEF HandlerAck, TypeOK, aliases
  <2>9. ASSUME NEW l \in Lock, HandlerReject(l) PROVE TypeOK'
    <3>1. files' \in [Name -> Event \cup {NoFile}]
      BY <2>9, WithoutType DEF HandlerReject
    <3> QED
      BY <2>9, <3>1 DEF HandlerReject, TypeOK, aliases, history, ContentsOf, OnDisk
  <2>10. ASSUME NEW l \in Lock, HandlerReturn(l) PROVE TypeOK'
    BY <2>10 DEF HandlerReturn, TypeOK, store, aliases, history
  <2>11. ASSUME NEW l \in Lock, HandlerThrow(l) PROVE TypeOK'
    <3>1. files' \in [Name -> Event \cup {NoFile}]
      BY <2>11, WithoutType DEF HandlerThrow
    <3> QED
      BY <2>11, <3>1 DEF HandlerThrow, TypeOK, aliases, ContentsOf, OnDisk
  <2>12. CASE Crash
    BY <2>12 DEF Crash, Restart, TypeOK, store, aliases
  <2>13. ASSUME NEW l \in Lock, NEW gone \in SUBSET Event, CrashInAck(l, gone)
         PROVE TypeOK'
    <3>1. files' \in [Name -> Event \cup {NoFile}] /\ acked' \in [Event -> Nat]
      BY <2>13, WithoutType, AckedOnceType DEF CrashInAck
    <3> QED
      BY <2>13, <3>1 DEF CrashInAck, Restart, TypeOK, aliases
  <2>14. ASSUME NEW l \in Lock, NEW gone \in SUBSET Event, CrashInReject(l, gone)
         PROVE TypeOK'
    <3>1. files' \in [Name -> Event \cup {NoFile}]
      BY <2>14, WithoutType DEF CrashInReject
    <3> QED
      BY <2>14, <3>1 DEF CrashInReject, Restart, TypeOK, aliases, ContentsOf, OnDisk
  <2>15. CASE UNCHANGED vars
    BY <2>15 DEF TypeOK, vars
  <2> QED
    BY <2>1, <2>2, <2>3, <2>4, <2>6, <2>7, <2>8, <2>9, <2>10, <2>11, <2>12,
       <2>13, <2>14, <2>15 DEF Next
<1> QED
  BY <1>1, <1>2, PTL DEF Spec

-----------------------------------------------------------------------------
(***************************************************************************)
(* One dispatch per conversation                                           *)
(***************************************************************************)

\* A key that locks by its anchor is bound, so its lock can change no more.
Stable(e) == KeyOf[e] \in Bindable => anchorOf[KeyOf[e]] # NoAnchor

\* e is where a batch under lock l may have it.
At(e, l) == KeyOf[e] \notin moved => LockOf(KeyOf[e]) = l

\* The strengthening that makes SerialPerConversation inductive: enqueue binds
\* a key before its file can be seen, so the lock under which a batch was
\* started is the lock its events resolve to until the handler is done, or
\* their key is moved.
SerialInv ==
    /\ \A e \in OnDisk : Stable(e)
    /\ \A l \in Lock : \A e \in inflight[l] : Stable(e) /\ At(e, l)

\* A step that keeps the aliases, adds no file, and only starts batches from
\* the directory or ends them keeps the strengthened invariant.
LEMMA SerialKept ==
    ASSUME TypeOK, SerialInv, UNCHANGED <<anchorOf, moved>>, OnDisk' \subseteq OnDisk,
           \A l \in Lock : \/ inflight'[l] \subseteq inflight[l]
                           \/ \E bad : inflight'[l] = Entries(l, bad)
    PROVE  SerialInv'
<1>1. \A e \in OnDisk' : Stable(e)'
  BY DEF SerialInv, Stable
<1>2. ASSUME NEW l \in Lock, NEW e \in inflight'[l]
      PROVE  Stable(e)' /\ At(e, l)'
  <2>1. CASE e \in inflight[l]
    BY <2>1 DEF SerialInv, Stable, At, LockOf
  <2>2. CASE \E bad : e \in Entries(l, bad)
    BY <2>2 DEF SerialInv, Stable, At, LockOf, Entries
  <2> QED
    BY <1>2, <2>1, <2>2
<1> QED
  BY <1>1, <1>2 DEF SerialInv

\* Deleting files by name takes events off the disk and puts none on it.
LEMMA WithoutShrinks ==
    ASSUME TypeOK, NEW N, files' = Without(N)
    PROVE  OnDisk' = {e \in OnDisk : FileName[e] \notin N}
BY QueueAssumption DEF TypeOK, OnDisk, Without

\* Writing e adds e to the events on disk, and may overwrite others.
LEMMA WriteAdds ==
    ASSUME TypeOK, NEW e \in Event, files' = [files EXCEPT ![FileName[e]] = e]
    PROVE  /\ OnDisk' \subseteq OnDisk \cup {e}
           /\ e \in OnDisk'
BY QueueAssumption DEF TypeOK, OnDisk

\* Binding a key that nothing on disk or in flight depends on, because those
\* are bound already, keeps the invariant.
LEMMA SerialBind ==
    ASSUME TypeOK, SerialInv, NEW k \in Key, NEW a \in Anchor,
           k \in Bindable, anchorOf[k] = NoAnchor,
           anchorOf' = [anchorOf EXCEPT ![k] = a],
           UNCHANGED <<inflight, moved>>
    PROVE  /\ \A e \in OnDisk : Stable(e)'
           /\ \A l \in Lock : \A e \in inflight'[l] : Stable(e)' /\ At(e, l)'
BY QueueAssumption DEF TypeOK, SerialInv, Stable, At, LockOf, OnDisk

\* Moving a bound key leaves it bound, and takes its events out of the account.
LEMMA SerialMove ==
    ASSUME TypeOK, SerialInv, NEW k \in Key, NEW a \in Anchor,
           anchorOf' = [anchorOf EXCEPT ![k] = a], moved' = moved \cup {k},
           UNCHANGED <<files, inflight>>
    PROVE  SerialInv'
<1>1. ASSUME NEW e \in Event, Stable(e) PROVE Stable(e)'
  <2>1. KeyOf[e] \in Key
    BY QueueAssumption
  <2> QED
    BY <1>1, <2>1, QueueAssumption DEF TypeOK, Stable
<1>2. ASSUME NEW e \in Event, NEW l, At(e, l) PROVE At(e, l)'
  <2>1. KeyOf[e] \in Key
    BY QueueAssumption
  <2> QED
    BY <1>2, <2>1 DEF TypeOK, At, LockOf
<1>3. OnDisk' = OnDisk /\ OnDisk \subseteq Event
  BY DEF OnDisk
<1>4. \A l \in Lock : inflight[l] \subseteq Event
  BY DEF TypeOK
<1> QED
  BY <1>1, <1>2, <1>3, <1>4 DEF SerialInv

\* Every step keeps the events of a batch under its lock, or moves their key.
LEMMA SerialInductive == Spec => []SerialInv
<1>1. Init => SerialInv
  BY QueueAssumption DEF Init, SerialInv, OnDisk
<1>2. TypeOK /\ SerialInv /\ [Next]_vars => SerialInv'
  <2> SUFFICES ASSUME TypeOK, SerialInv, [Next]_vars PROVE SerialInv'
    OBVIOUS
  <2>1. ASSUME NEW e \in Event, Enqueue(e) PROVE SerialInv'
    <3> DEFINE k == KeyOf[e]
    <3>0. k \in Key
      BY QueueAssumption
    <3>1. OnDisk' \subseteq OnDisk \cup {e}
      BY <2>1, WriteAdds DEF Enqueue
    <3>2. UNCHANGED <<inflight, moved>>
      BY <2>1 DEF Enqueue, EnsureAnchor, aliases, memory
    <3>3. CASE k \in Bindable /\ anchorOf[k] = NoAnchor
      <4>1. PICK a \in Anchor : anchorOf' = [anchorOf EXCEPT ![k] = a]
        BY <2>1, <3>3 DEF Enqueue, EnsureAnchor
      <4>2. /\ \A f \in OnDisk : Stable(f)'
            /\ \A l \in Lock : \A f \in inflight'[l] : Stable(f)' /\ At(f, l)'
        BY <3>0, <3>2, <3>3, <4>1, SerialBind
      <4>3. Stable(e)'
        BY <3>0, <4>1, QueueAssumption DEF Stable, TypeOK
      <4> QED
        BY <3>1, <4>2, <4>3 DEF SerialInv
    <3>4. CASE ~(k \in Bindable /\ anchorOf[k] = NoAnchor)
      <4>1. UNCHANGED anchorOf
        BY <2>1, <3>4 DEF Enqueue, EnsureAnchor, aliases
      <4>2. Stable(e)'
        BY <3>4, <4>1 DEF Stable
      <4> QED
        BY <3>1, <3>2, <4>1, <4>2 DEF SerialInv, Stable, At, LockOf
    <3> QED
      BY <3>3, <3>4
  <2>2. ASSUME NEW n \in Name, Ripen(n) PROVE SerialInv'
    BY <2>2 DEF Ripen, SerialInv, Stable, At, LockOf, OnDisk, aliases, memory
  <2>3. ASSUME NEW k \in Key, NEW a \in Anchor, BindElsewhere(k, a)
        PROVE SerialInv'
    <3>1. UNCHANGED <<inflight, files, moved>>
      BY <2>3 DEF BindElsewhere, store, memory
    <3> QED
      BY <2>3, <3>1, SerialBind DEF BindElsewhere, SerialInv, OnDisk
  <2>4. ASSUME NEW k \in Key, NEW a \in Anchor, MoveAlias(k, a)
        PROVE SerialInv'
    BY <2>4, SerialMove DEF MoveAlias, store, memory
  <2>5. ASSUME NEW bad, ScanWith(bad) PROVE SerialInv'
    <3>1. \A l \in Lock : inflight'[l] = inflight[l] \/ inflight'[l] = Entries(l, bad)
      BY <2>5 DEF ScanWith, TypeOK
    <3>2. OnDisk' \subseteq OnDisk /\ UNCHANGED <<anchorOf, moved>>
      BY <2>5, WithoutShrinks DEF ScanWith, aliases
    <3> QED
      BY <3>1, <3>2, SerialKept
  <2>6. CASE Scan
    BY <2>5, <2>6 DEF Scan
  <2>7. ASSUME NEW n \in Name, ScanUnreadable(n) PROVE SerialInv'
    BY <2>5, <2>7 DEF ScanUnreadable
  <2>8. ASSUME NEW l \in Lock, HandlerAck(l) \/ HandlerReject(l) PROVE SerialInv'
    <3>1. OnDisk' \subseteq OnDisk /\ UNCHANGED <<anchorOf, moved, inflight>>
      BY <2>8, WithoutShrinks DEF HandlerAck, HandlerReject, aliases
    <3> QED
      BY <3>1, SerialKept
  <2>9. ASSUME NEW l \in Lock, HandlerReturn(l) \/ HandlerThrow(l) PROVE SerialInv'
    <3>1. OnDisk' \subseteq OnDisk /\ UNCHANGED <<anchorOf, moved>>
      BY <2>9, WithoutShrinks DEF HandlerReturn, HandlerThrow, aliases, store, OnDisk
    <3>2. \A m \in Lock : inflight'[m] \subseteq inflight[m]
      BY <2>9 DEF HandlerReturn, HandlerThrow, TypeOK
    <3> QED
      BY <3>1, <3>2, SerialKept
  <2>10. ASSUME Restart, UNCHANGED <<anchorOf, moved>>, OnDisk' \subseteq OnDisk PROVE SerialInv'
    <3>1. \A m \in Lock : inflight'[m] \subseteq inflight[m]
      BY <2>10 DEF Restart
    <3> QED
      BY <2>10, <3>1, SerialKept
  <2>11. CASE Crash
    BY <2>10, <2>11 DEF Crash, store, aliases, OnDisk
  <2>12. ASSUME NEW l \in Lock, NEW gone \in SUBSET Event,
                CrashInAck(l, gone) \/ CrashInReject(l, gone)
         PROVE SerialInv'
    <3>1. Restart /\ UNCHANGED <<anchorOf, moved>> /\ OnDisk' \subseteq OnDisk
      BY <2>12, WithoutShrinks DEF CrashInAck, CrashInReject, aliases
    <3> QED
      BY <2>10, <3>1
  <2>13. CASE UNCHANGED vars
    BY <2>13 DEF SerialInv, Stable, At, LockOf, OnDisk, vars
  <2> QED
    BY <2>1, <2>2, <2>3, <2>4, <2>6, <2>7, <2>8, <2>9, <2>11, <2>12, <2>13 DEF Next
<1> QED
  BY <1>1, <1>2, TypeCorrect, PTL DEF Spec

\* No two batches in flight belong to one conversation, as far as its keys have
\* not been moved: the processing map (queue.ts:109) serialises the handler per
\* anchor although every scan computes the lock keys afresh (queue.ts:242), and
\* a key that is moved disturbs no other.
THEOREM SerialDispatch == Spec => []SerialPerConversation
<1>1. SerialInv => SerialPerConversation
  BY DEF SerialInv, At, SerialPerConversation, Unmoved
<1> QED
  BY <1>1, SerialInductive, PTL

-----------------------------------------------------------------------------
(***************************************************************************)
(* At most one ack per delivery and crash                                  *)
(***************************************************************************)

\* e may still be acked: its file is there for a scan to find, or a handler
\* that has not settled has it.
Owed(e) == e \in OnDisk \/ \E l \in Lock : e \in inflight[l] /\ ~settled[l]

\* The deliveries and crashes that no ack has used up yet cover what is owed.
AckInv ==
    \A e \in Unmoved :
        /\ acked[e] <= delivered[e] + crashes
        /\ Owed(e) => acked[e] + 1 <= delivered[e] + crashes

\* A step that acks nothing and makes nothing owed keeps the account.
LEMMA AckKept ==
    ASSUME TypeOK, AckInv, UNCHANGED acked, moved \subseteq moved',
           delivered' \in [Event -> Nat], crashes' \in Nat,
           \A e \in Event : delivered[e] <= delivered'[e],
           crashes <= crashes',
           \A e \in Event : Owed(e)' => Owed(e)
    PROVE  AckInv'
BY DEF TypeOK, AckInv, Unmoved

\* The ack of the batch under l uses one delivery of each of its events, and
\* leaves none of them owed: nobody else has them, since batches in flight
\* belong to different conversations.
LEMMA AckUses ==
    ASSUME TypeOK, SerialPerConversation, NEW l \in Lock, HandlerAck(l),
           NEW e \in Unmoved, Owed(e)'
    PROVE  e \notin inflight[l] /\ Owed(e)
<1>1. OnDisk' = {f \in OnDisk : FileName[f] \notin NamesOf(inflight[l])}
  BY WithoutShrinks DEF HandlerAck
<1>2. UNCHANGED inflight /\ settled' = [settled EXCEPT ![l] = TRUE]
  BY DEF HandlerAck
<1>3. CASE e \in OnDisk'
  BY <1>1, <1>3 DEF NamesOf, Owed
<1>4. ASSUME NEW m \in Lock, e \in inflight'[m], ~settled'[m]
      PROVE  e \notin inflight[l] /\ Owed(e)
  BY <1>2, <1>4 DEF TypeOK, SerialPerConversation, Unmoved, Owed
<1> QED
  BY <1>3, <1>4 DEF Owed

\* Acks are accounted for by deliveries and crashes.
LEMMA AckInductive == Spec => []AckInv
<1>1. Init => AckInv
  BY QueueAssumption DEF Init, AckInv, Unmoved, Owed, OnDisk
<1>2. TypeOK /\ SerialPerConversation /\ AckInv /\ [Next]_vars => AckInv'
  <2> SUFFICES ASSUME TypeOK, SerialPerConversation, AckInv, [Next]_vars
               PROVE  AckInv'
    OBVIOUS
  <2>1. ASSUME NEW e \in Event, Enqueue(e) PROVE AckInv'
    <3>1. OnDisk' \subseteq OnDisk \cup {e}
      BY <2>1, WriteAdds DEF Enqueue
    <3>2. \A f \in Event : f # e => (Owed(f)' => Owed(f))
      BY <2>1, <3>1 DEF Enqueue, Owed, memory
    <3>3. /\ UNCHANGED <<acked, crashes>>
          /\ UNCHANGED moved
          /\ delivered' = [delivered EXCEPT ![e] = @ + 1]
      BY <2>1 DEF Enqueue, EnsureAnchor, aliases
    <3> QED
      BY <3>2, <3>3 DEF AckInv, TypeOK, Unmoved
  <2>2. ASSUME NEW n \in Name, Ripen(n) PROVE AckInv'
    BY <2>2 DEF Ripen, AckInv, Unmoved, Owed, OnDisk, aliases, memory, history
  <2>3. ASSUME NEW k \in Key, NEW a \in Anchor,
               BindElsewhere(k, a) \/ MoveAlias(k, a)
        PROVE  AckInv'
    BY <2>3 DEF BindElsewhere, MoveAlias, AckInv, Unmoved, Owed, OnDisk, store, memory, history
  <2>4. ASSUME NEW bad, ScanWith(bad) PROVE AckInv'
    <3>1. OnDisk' \subseteq OnDisk
      BY <2>4, WithoutShrinks DEF ScanWith
    <3>2. ASSUME NEW e \in Event, Owed(e)' PROVE Owed(e)
      BY <2>4, <3>1, <3>2 DEF ScanWith, Owed, Entries, TypeOK
    <3> QED
      BY <2>4, <3>2, AckKept DEF ScanWith, TypeOK, aliases
  <2>5. CASE Scan
    BY <2>4, <2>5 DEF Scan
  <2>6. ASSUME NEW n \in Name, ScanUnreadable(n) PROVE AckInv'
    BY <2>4, <2>6 DEF ScanUnreadable
  <2>7. ASSUME NEW l \in Lock, HandlerAck(l) PROVE AckInv'
    <3>1. \A e \in inflight[l] : Owed(e)
      BY <2>7 DEF HandlerAck, Unsettled, Owed
    <3>2. \A e \in Unmoved : Owed(e)' => e \notin inflight[l] /\ Owed(e)
      BY <2>7, AckUses
    <3>3. acked' = AckedOnce(l) /\ UNCHANGED <<delivered, crashes, moved>>
      BY <2>7 DEF HandlerAck, aliases
    <3> QED
      BY <3>1, <3>2, <3>3 DEF AckInv, AckedOnce, TypeOK, Unmoved
  <2>8. ASSUME NEW l \in Lock, HandlerReject(l) PROVE AckInv'
    <3>1. OnDisk' \subseteq OnDisk
      BY <2>8, WithoutShrinks DEF HandlerReject
    <3>2. ASSUME NEW e \in Event, Owed(e)' PROVE Owed(e)
      BY <2>8, <3>1, <3>2 DEF HandlerReject, Owed, TypeOK
    <3> QED
      BY <2>8, <3>2, AckKept DEF HandlerReject, TypeOK, aliases, history
  <2>9. ASSUME NEW l \in Lock, HandlerReturn(l) \/ HandlerThrow(l) PROVE AckInv'
    <3>1. OnDisk' \subseteq OnDisk
      BY <2>9, WithoutShrinks DEF HandlerReturn, HandlerThrow, store, OnDisk
    <3>2. /\ inflight' = [inflight EXCEPT ![l] = {}]
          /\ settled' = [settled EXCEPT ![l] = FALSE]
          /\ UNCHANGED <<acked, delivered, crashes, moved>>
      BY <2>9 DEF HandlerReturn, HandlerThrow, aliases, history
    <3>3. \A e \in Event : Owed(e)' => Owed(e)
      BY <3>1, <3>2 DEF Owed, TypeOK
    <3> QED
      BY <3>2, <3>3, AckKept DEF TypeOK
  <2>10. CASE Crash
    <3>1. \A e \in Event : Owed(e)' => Owed(e)
      BY <2>10 DEF Crash, Restart, Owed, OnDisk, store
    <3> QED
      BY <2>10, <3>1, AckKept DEF Crash, Restart, TypeOK, aliases
  <2>11. ASSUME NEW l \in Lock, NEW gone \in SUBSET Event, CrashInAck(l, gone)
         PROVE  AckInv'
    <3>1. \A e \in inflight[l] : Owed(e)
      BY <2>11 DEF CrashInAck, Unsettled, Owed
    <3>2. \A e \in Event : Owed(e)' => Owed(e)
      BY <2>11, WithoutShrinks DEF CrashInAck, Restart, Owed
    <3>3. acked' = AckedOnce(l) /\ UNCHANGED <<delivered, moved>> /\ crashes' = crashes + 1
      BY <2>11 DEF CrashInAck, Restart, aliases
    <3> QED
      BY <3>1, <3>2, <3>3 DEF AckInv, AckedOnce, TypeOK, Unmoved
  <2>12. ASSUME NEW l \in Lock, NEW gone \in SUBSET Event, CrashInReject(l, gone)
         PROVE  AckInv'
    <3>1. \A e \in Event : Owed(e)' => Owed(e)
      BY <2>12, WithoutShrinks DEF CrashInReject, Restart, Owed
    <3> QED
      BY <2>12, <3>1, AckKept DEF CrashInReject, Restart, TypeOK, aliases
  <2>13. CASE UNCHANGED vars
    BY <2>13 DEF AckInv, Unmoved, Owed, OnDisk, vars
  <2> QED
    BY <2>1, <2>2, <2>3, <2>5, <2>6, <2>7, <2>8, <2>9, <2>10, <2>11, <2>12, <2>13
       DEF Next
<1> QED
  BY <1>1, <1>2, TypeCorrect, SerialDispatch, PTL DEF Spec

\* The runner sees an event, through an ack, at most once for each delivery by
\* its source and each crash of the gateway, unless its own key is moved.
THEOREM AcksAccountedFor == Spec => []AckedPerDelivery
<1>1. AckInv => AckedPerDelivery
  BY DEF AckInv, AckedPerDelivery
<1> QED
  BY <1>1, AckInductive, PTL

-----------------------------------------------------------------------------
(***************************************************************************)
(* The directory implements the at-least-once inbox                        *)
(***************************************************************************)

UniqueNames == \A e, f \in Event : FileName[e] = FileName[f] => e = f

\* What a handler has not settled is on disk, or was settled before: what the
\* refinement needs to know of the batches in flight.
HeldInv ==
    \A l \in Lock : \A e \in inflight[l] : ~settled[l] => e \in OnDisk \cup Outcomes

\* With one name per event, deleting the files of E removes just E.
LEMMA DeletesExactly ==
    ASSUME TypeOK, UniqueNames, NEW E \in SUBSET Event,
           files' = Without(NamesOf(E))
    PROVE  OnDisk' = OnDisk \ E
BY WithoutShrinks DEF UniqueNames, NamesOf, OnDisk

\* With one name per event, the files of E hold those of E that are on disk.
LEMMA ContentsExactly ==
    ASSUME UniqueNames, NEW E \in SUBSET Event
    PROVE  ContentsOf(E) = OnDisk \cap E
BY DEF UniqueNames, ContentsOf, NamesOf, OnDisk

\* With one name per event, a write replaces nothing but an older copy.
LEMMA WritesExactly ==
    ASSUME TypeOK, UniqueNames, NEW e \in Event,
           files' = [files EXCEPT ![FileName[e]] = e]
    PROVE  OnDisk' = OnDisk \cup {e}
BY QueueAssumption DEF TypeOK, UniqueNames, OnDisk

\* The counters of a batch that is acked become positive, the others stay.
LEMMA AckedOutcomes ==
    ASSUME TypeOK, NEW l \in Lock, acked' = AckedOnce(l),
           UNCHANGED <<deadLetter, dropped>>
    PROVE  Outcomes' = Outcomes \cup inflight[l]
<1>1. \A e \in Event : acked[e] \in Nat
  BY DEF TypeOK
<1>2. \A e \in Event : acked'[e] > 0 <=> acked[e] > 0 \/ e \in inflight[l]
  BY <1>1 DEF AckedOnce
<1>3. inflight[l] \subseteq Event
  BY DEF TypeOK
<1> QED
  BY <1>2, <1>3 DEF Outcomes

\* A step of the inbox that settles the events of S and removes those of gone.
LEMMA InboxSettle ==
    ASSUME NEW S, NEW gone, S \subseteq OnDisk, gone \subseteq S,
           Outcomes' = Outcomes \cup S, OnDisk' = OnDisk \ gone
    PROVE  [Inbox!Next]_(Inbox!vars)
<1>1. S \in SUBSET Event /\ gone \in SUBSET S
  BY DEF OnDisk
<1>2. Inbox!Settle(S, gone)
  BY DEF Inbox!Settle
<1> QED
  BY <1>1, <1>2 DEF Inbox!Next

\* Batches are started from the directory: a step that starts some, settles or
\* ends others and takes only what it accounts for off the disk keeps HeldInv.
LEMMA HeldKept ==
    ASSUME HeldInv, OnDisk \cup Outcomes \subseteq OnDisk' \cup Outcomes',
           \A l \in Lock : \/ inflight'[l] = {}
                           \/ settled'[l]
                           \/ inflight'[l] = inflight[l] /\ settled'[l] = settled[l]
                           \/ inflight'[l] \subseteq OnDisk
    PROVE  HeldInv'
BY DEF HeldInv

\* Each step of the queue maps to a step of the inbox or a stutter, and keeps
\* what the mapping needs.
LEMMA InboxStep ==
    ASSUME TypeOK, HeldInv, UniqueNames, [Next]_vars
    PROVE  HeldInv' /\ [Inbox!Next]_(Inbox!vars)
<1>1. ASSUME NEW e \in Event, Enqueue(e) PROVE HeldInv' /\ [Inbox!Next]_(Inbox!vars)
  <2>1. OnDisk' = OnDisk \cup {e} /\ UNCHANGED Outcomes
    BY <1>1, WritesExactly DEF Enqueue, Outcomes
  <2>2. UNCHANGED <<inflight, settled>>
    BY <1>1 DEF Enqueue, memory
  <2>3. Inbox!Accept(e)
    BY <2>1 DEF Inbox!Accept
  <2> QED
    BY <2>1, <2>2, <2>3, HeldKept DEF Inbox!Next
<1>2. ASSUME UNCHANGED <<OnDisk, Outcomes, inflight, settled>>
      PROVE  HeldInv' /\ [Inbox!Next]_(Inbox!vars)
  BY <1>2 DEF HeldInv, Inbox!vars
<1>3. ASSUME NEW n \in Name, Ripen(n) PROVE HeldInv' /\ [Inbox!Next]_(Inbox!vars)
  BY <1>2, <1>3 DEF Ripen, OnDisk, Outcomes, memory, history
<1>4. ASSUME NEW k \in Key, NEW a \in Anchor, BindElsewhere(k, a) \/ MoveAlias(k, a)
      PROVE  HeldInv' /\ [Inbox!Next]_(Inbox!vars)
  BY <1>2, <1>4 DEF BindElsewhere, MoveAlias, OnDisk, Outcomes, store, memory, history
<1>5. ASSUME NEW bad, ScanWith(bad) PROVE HeldInv' /\ [Inbox!Next]_(Inbox!vars)
  <2> DEFINE S == {e \in OnDisk : FileName[e] \in bad}
  <2>1. OnDisk' = OnDisk \ S
    BY <1>5, WithoutShrinks DEF ScanWith
  <2>2. Outcomes' = Outcomes \cup S
    BY <1>5 DEF ScanWith, Outcomes
  <2>3. /\ UNCHANGED settled
        /\ \A l \in Lock : inflight'[l] = inflight[l] \/ inflight'[l] \subseteq OnDisk
    BY <1>5 DEF ScanWith, Entries
  <2>4. HeldInv'
    BY <2>1, <2>2, <2>3, HeldKept
  <2> QED
    BY <2>1, <2>2, <2>4, InboxSettle
<1>6. CASE Scan
  BY <1>5, <1>6 DEF Scan
<1>7. ASSUME NEW n \in Name, ScanUnreadable(n)
      PROVE  HeldInv' /\ [Inbox!Next]_(Inbox!vars)
  BY <1>5, <1>7 DEF ScanUnreadable
<1>8. ASSUME NEW l \in Lock, HandlerAck(l) PROVE HeldInv' /\ [Inbox!Next]_(Inbox!vars)
  <2> DEFINE S == OnDisk \cap inflight[l]
  <2>0. inflight[l] \in SUBSET Event /\ inflight[l] \subseteq OnDisk \cup Outcomes
    BY <1>8 DEF TypeOK, HandlerAck, Unsettled, HeldInv
  <2>1. OnDisk' = OnDisk \ S
    BY <1>8, <2>0, DeletesExactly DEF HandlerAck
  <2>2. Outcomes' = Outcomes \cup S
    BY <1>8, <2>0, AckedOutcomes DEF HandlerAck
  <2>3. UNCHANGED inflight /\ settled' = [settled EXCEPT ![l] = TRUE]
    BY <1>8 DEF HandlerAck
  <2>4. HeldInv'
    BY <2>1, <2>2, <2>3, HeldKept DEF TypeOK
  <2> QED
    BY <2>1, <2>2, <2>4, InboxSettle
<1>9. ASSUME NEW l \in Lock, HandlerReject(l) PROVE HeldInv' /\ [Inbox!Next]_(Inbox!vars)
  <2> DEFINE S == OnDisk \cap inflight[l]
  <2>0. inflight[l] \in SUBSET Event
    BY DEF TypeOK
  <2>1. OnDisk' = OnDisk \ S
    BY <1>9, <2>0, DeletesExactly DEF HandlerReject
  <2>2. Outcomes' = Outcomes \cup S
    BY <1>9, <2>0, ContentsExactly DEF HandlerReject, Outcomes, history
  <2>3. UNCHANGED inflight /\ settled' = [settled EXCEPT ![l] = TRUE]
    BY <1>9 DEF HandlerReject
  <2>4. HeldInv'
    BY <2>1, <2>2, <2>3, HeldKept DEF TypeOK
  <2> QED
    BY <2>1, <2>2, <2>4, InboxSettle
<1>10. ASSUME NEW l \in Lock, HandlerReturn(l) PROVE HeldInv' /\ [Inbox!Next]_(Inbox!vars)
  <2>1. UNCHANGED <<OnDisk, Outcomes>>
    BY <1>10 DEF HandlerReturn, OnDisk, Outcomes, store, history
  <2>2. HeldInv'
    BY <1>10, <2>1, HeldKept DEF HandlerReturn, TypeOK
  <2> QED
    BY <2>1, <2>2 DEF Inbox!vars
<1>11. ASSUME NEW l \in Lock, HandlerThrow(l) PROVE HeldInv' /\ [Inbox!Next]_(Inbox!vars)
  <2> DEFINE S == OnDisk \cap inflight[l]
  <2>0. inflight[l] \in SUBSET Event
    BY DEF TypeOK
  <2>1. OnDisk' = OnDisk \ S
    BY <1>11, <2>0, DeletesExactly DEF HandlerThrow
  <2>2. Outcomes' = Outcomes \cup S
    BY <1>11, <2>0, ContentsExactly DEF HandlerThrow, Outcomes
  <2>3. HeldInv'
    BY <1>11, <2>1, <2>2, HeldKept DEF HandlerThrow, TypeOK
  <2> QED
    BY <2>1, <2>2, <2>3, InboxSettle
<1>12. ASSUME Restart PROVE \A l \in Lock : inflight'[l] = {}
  BY <1>12 DEF Restart
<1>13. CASE Crash
  <2>1. UNCHANGED <<OnDisk, Outcomes>>
    BY <1>13 DEF Crash, OnDisk, Outcomes, store
  <2> QED
    BY <1>12, <1>13, <2>1, HeldKept DEF Crash, Inbox!vars
<1>14. ASSUME NEW l \in Lock, NEW gone \in SUBSET Event, CrashInAck(l, gone)
       PROVE  HeldInv' /\ [Inbox!Next]_(Inbox!vars)
  <2> DEFINE S == OnDisk \cap inflight[l]
             left == OnDisk \cap gone
  <2>0. inflight[l] \in SUBSET Event /\ inflight[l] \subseteq OnDisk \cup Outcomes
    BY <1>14 DEF TypeOK, CrashInAck, Unsettled, HeldInv
  <2>1. OnDisk' = OnDisk \ left /\ gone \subseteq inflight[l]
    BY <1>14, DeletesExactly DEF CrashInAck
  <2>2. Outcomes' = Outcomes \cup S
    BY <1>14, <2>0, AckedOutcomes DEF CrashInAck
  <2>3. HeldInv'
    BY <1>12, <1>14, <2>1, <2>2, HeldKept DEF CrashInAck
  <2>4. S \subseteq OnDisk /\ left \subseteq S
    BY <2>1
  <2>5. [Inbox!Next]_(Inbox!vars)
    <3> HIDE DEF S, left
    <3> QED
      BY <2>1, <2>2, <2>4, InboxSettle
  <2> QED
    BY <2>3, <2>5
<1>15. ASSUME NEW l \in Lock, NEW gone \in SUBSET Event, CrashInReject(l, gone)
       PROVE  HeldInv' /\ [Inbox!Next]_(Inbox!vars)
  <2> DEFINE S == OnDisk \cap gone
  <2>1. OnDisk' = OnDisk \ S
    BY <1>15, DeletesExactly DEF CrashInReject
  <2>2. Outcomes' = Outcomes \cup S
    BY <1>15, ContentsExactly DEF CrashInReject, Outcomes
  <2>3. HeldInv'
    BY <1>12, <1>15, <2>1, <2>2, HeldKept DEF CrashInReject
  <2> QED
    BY <2>1, <2>2, <2>3, InboxSettle
<1>16. CASE UNCHANGED vars
  BY <1>2, <1>16 DEF OnDisk, Outcomes, vars
<1> QED
  BY <1>1, <1>3, <1>4, <1>6, <1>7, <1>8, <1>9, <1>10, <1>11, <1>13, <1>14,
     <1>15, <1>16 DEF Next

\* The queue directory implements the at-least-once inbox for every set of
\* events with one file name each, crashes and moved keys included.
THEOREM QueueImplementsInbox ==
    ASSUME UniqueNames
    PROVE  Spec => ImplementsInbox
<1>1. Init => HeldInv /\ Inbox!Init
  BY QueueAssumption DEF Init, HeldInv, Inbox!Init, OnDisk, Outcomes
<1>2. TypeOK /\ HeldInv /\ [Next]_vars => HeldInv' /\ [Inbox!Next]_(Inbox!vars)
  BY InboxStep
<1> QED
  BY <1>1, <1>2, TypeCorrect, PTL DEF Spec, ImplementsInbox, Inbox!Spec

\* A step of the inbox loses nothing.
LEMMA InboxKeeps ==
    ASSUME [Inbox!Next]_(Inbox!vars)
    PROVE  OnDisk \cup Outcomes \subseteq OnDisk' \cup Outcomes'
<1>1. ASSUME NEW S, NEW gone, Inbox!Settle(S, gone)
      PROVE  OnDisk \cup Outcomes \subseteq OnDisk' \cup Outcomes'
  BY <1>1 DEF Inbox!Settle
<1> QED
  BY <1>1 DEF Inbox!Next, Inbox!Accept, Inbox!vars

\* Only a write delivers an event, and the event written is then on disk.
LEMMA DeliveredOnDisk ==
    ASSUME TypeOK, [Next]_vars, NEW e \in Event, delivered'[e] # delivered[e]
    PROVE  e \in OnDisk'
<1>1. ASSUME NEW f \in Event, Enqueue(f) PROVE e \in OnDisk'
  BY <1>1, WriteAdds DEF Enqueue, TypeOK
<1> QED
  BY <1>1 DEF Next, Ripen, BindElsewhere, MoveAlias, Scan, ScanUnreadable, ScanWith,
     HandlerAck, HandlerReject, HandlerReturn, HandlerThrow, Crash, CrashInAck,
     CrashInReject, history, vars

\* No accepted event is lost, for every set of events with one file name each.
THEOREM NothingLost ==
    ASSUME UniqueNames
    PROVE  Spec => []NoSilentLoss
<1>1. Init => HeldInv /\ NoSilentLoss
  BY QueueAssumption DEF Init, HeldInv, NoSilentLoss
<1>2. TypeOK /\ HeldInv /\ NoSilentLoss /\ [Next]_vars => HeldInv' /\ NoSilentLoss'
  <2> SUFFICES ASSUME TypeOK, HeldInv, NoSilentLoss, [Next]_vars
               PROVE  HeldInv' /\ NoSilentLoss'
    OBVIOUS
  <2>1. HeldInv' /\ OnDisk \cup Outcomes \subseteq OnDisk' \cup Outcomes'
    BY InboxStep, InboxKeeps
  <2>2. \A e \in Event : delivered'[e] # delivered[e] => e \in OnDisk'
    BY DeliveredOnDisk
  <2> QED
    BY <2>1, <2>2 DEF NoSilentLoss
<1> QED
  BY <1>1, <1>2, TypeCorrect, PTL DEF Spec

=============================================================================
