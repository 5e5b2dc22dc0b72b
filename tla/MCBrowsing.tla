----------------------------- MODULE MCBrowsing -----------------------------
(* Small instances of Browsing. *)
EXTENDS Browsing, TLC

CONSTANTS a, b, s1, s2

\* Tokens are random, and names are names: no action or property tells them apart.
Symmetric == Permutations(Sessions) \cup Permutations(Names)
=============================================================================
