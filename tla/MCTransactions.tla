--------------------------- MODULE MCTransactions ---------------------------
(* Small instances of Transactions. *)
EXTENDS Transactions

CONSTANTS a1, a2, g1, c1, c2, c3
=============================================================================
