-------------------------------- MODULE Rules --------------------------------
(***************************************************************************)
(* Chains of early returns.  A chain is a sequence of <<condition, answer>> *)
(* pairs; the answer is the one of the first condition that holds.          *)
(***************************************************************************)
EXTENDS Naturals, Sequences

FirstOf(chain) ==
    LET holds == {i \in DOMAIN chain : chain[i][1]}
    IN  chain[CHOOSE i \in holds : \A j \in holds : i <= j][2]

=============================================================================
