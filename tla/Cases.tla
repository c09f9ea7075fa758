------------------------------- MODULE Cases -------------------------------
(* A state is one case: an input of one of the pure parts of the client.   *)

VARIABLE case   \* [of, input]

NoCase == [of |-> "none"]

Given(of, input) == case' = [of |-> of, input |-> input]
=============================================================================
