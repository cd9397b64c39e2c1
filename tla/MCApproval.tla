----------------------------- MODULE MCApproval -----------------------------
(***************************************************************************)
(* Approval for TLC.  TwoClicks: one person approves while another         *)
(* rejects; each button makes up to three requests.  TwoReviewers: two     *)
(* people approve, a third press rejects.                                  *)
(***************************************************************************)
EXTENDS Approval

Button(d, u, n) == [decision |-> d, reviewer |-> u, number |-> n]

TwoReviewers ==
    {Button("approved", "U1", 1), Button("approved", "U2", 1),
     Button("rejected", "U2", 1)}

TwoClicks ==
    {Button("approved", "U1", 1), Button("rejected", "U2", 1)}

=============================================================================
