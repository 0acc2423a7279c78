--------------------------- MODULE MCTransactions ---------------------------
(* Two transactions, one that nests, and a statement on its own. *)
EXTENDS Transactions

CONSTANTS t1, t2, t3, t4
=============================================================================
