----------------------------- MODULE MCAliasLog -----------------------------
(***************************************************************************)
(* AliasLog for TLC: the gateway and the runner bind unbound keys, and the *)
(* runner and remote-cli bind what a session touches, bound or not.        *)
(***************************************************************************)
EXTENDS AliasLog, TLC

CONSTANTS gateway, runner, remoteCli, a1, a2, a3

Symmetry == Permutations(Anchor)

\* Bound: a crash or a stat or read that fails, not both.
OneMishap == crashes + faults <= 1

=============================================================================
