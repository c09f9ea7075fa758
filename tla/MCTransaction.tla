--------------------------- MODULE MCTransaction ---------------------------
(* Small instances of Transaction for TLC.                                 *)
EXTENDS Transaction, TLC

\* A conflict is retried once more than a lost connection.
TwoAndThree == [e \in Retryable |-> IF e = "conn" THEN 2 ELSE 3]

TwoAttempts == [e \in Retryable |-> 2]
OneAttempt  == [e \in Retryable |-> 1]

CallSymmetry == Permutations(Calls)
=============================================================================
