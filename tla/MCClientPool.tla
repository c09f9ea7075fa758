---------------------------- MODULE MCClientPool ----------------------------
(* Small instances of ClientPool for TLC.                                  *)
EXTENDS ClientPool, TLC

CONSTANTS q1, q2, q3, x1, e1, c1, c2

\* No query is made inside a transaction block.
NoParent == [q \in Queries |-> Null]

\* Query q1 is made and awaited inside the block of transaction x1.
ParentX1 == [q \in Queries |-> IF q = q1 THEN x1 ELSE Null]

QuerySymmetry == Permutations(Queries)
=============================================================================
