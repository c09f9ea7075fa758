-------------------------- MODULE MCMessageBuffer --------------------------
(* A small instance of MessageBuffer for TLC.                              *)
EXTENDS MessageBuffer, TLC

\* Rows of data, the second too long for a ring of five chunks of one byte, a
\* message whose fields are read one by one, an empty one, one more row.
FiveMessages == << [data |-> TRUE, size |-> 1], [data |-> TRUE, size |-> 7],
                   [data |-> FALSE, size |-> 2], [data |-> FALSE, size |-> 0],
                   [data |-> TRUE, size |-> 1] >>
=============================================================================
