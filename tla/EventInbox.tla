----------------------------- MODULE EventInbox -----------------------------
(***************************************************************************)
(* What the event queue promises its producers and its handler: an         *)
(* at-least-once inbox.  Once an event is accepted it stays pending until  *)
(* it is settled (acked, rejected, or given up on); it may be settled more *)
(* than once; it never just disappears, and nothing is settled that was    *)
(* not accepted.                                                           *)
(***************************************************************************)
CONSTANT Event

VARIABLES pending, settled

vars == <<pending, settled>>

Init ==
    /\ pending = {}
    /\ settled = {}

Accept(e) ==
    /\ pending' = pending \cup {e}
    /\ UNCHANGED settled

\* The events of S are settled, those of `gone` also leave the inbox: a crash
\* between the two makes them differ.
Settle(S, gone) ==
    /\ S \subseteq pending
    /\ gone \subseteq S
    /\ settled' = settled \cup S
    /\ pending' = pending \ gone

Next ==
    \/ \E e \in Event : Accept(e)
    \/ \E S \in SUBSET Event : \E gone \in SUBSET S : Settle(S, gone)

Spec == Init /\ [][Next]_vars

=============================================================================
