----------------------------- MODULE MCBrowser ------------------------------
(***************************************************************************)
(* Instances of Browser for TLC: browsers of one type that may replace and *)
(* unregister one another, channels small enough to overflow.              *)
(***************************************************************************)
EXTENDS Browser, TLC

CONSTANTS b1, b2, c1, c2

Symmetry == Permutations(Browser) \cup Permutations(Chan)

=============================================================================
