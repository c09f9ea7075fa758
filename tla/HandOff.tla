------------------------------ MODULE HandOff ------------------------------
(***************************************************************************)
(* What the pool's queue promises: a stack of items and a line of          *)
(* consumers.  An item that is pushed goes to the consumer at the head of  *)
(* the line, or on the stack when nobody waits; a consumer takes the item  *)
(* on top of the stack, or goes to the end of the line.                    *)
(***************************************************************************)
EXTENDS Sequences, SequencesExt

CONSTANTS Items, Consumers, Null

VARIABLES
    stack,    \* items to be had, the last pushed at the end
    line,     \* consumers that wait, the first come at the head
    st,       \* each consumer: idle, waiting, served or failed
    hand,     \* the item each consumer was served, or Null
    outside   \* items that the program has and the queue has not

vars == <<stack, line, st, hand, outside>>

Init ==
    /\ stack = <<>>
    /\ line = <<>>
    /\ st = [c \in Consumers |-> "idle"]
    /\ hand = [c \in Consumers |-> Null]
    /\ outside = Items

Serve(c, i) ==
    /\ st' = [st EXCEPT ![c] = "served"]
    /\ hand' = [hand EXCEPT ![c] = i]

Push(i) ==
    /\ i \in outside
    /\ outside' = outside \ {i}
    /\ \/ /\ line # <<>>
          /\ Serve(Head(line), i)
          /\ line' = Tail(line)
          /\ UNCHANGED stack
       \/ /\ line = <<>>
          /\ stack' = Append(stack, i)
          /\ UNCHANGED <<line, st, hand>>

Get(c) ==
    /\ st[c] = "idle"
    /\ \/ /\ stack # <<>>
          /\ Serve(c, Last(stack))
          /\ stack' = Front(stack)
          /\ UNCHANGED line
       \/ /\ stack = <<>>
          /\ st' = [st EXCEPT ![c] = "waiting"]
          /\ line' = Append(line, c)
          /\ UNCHANGED <<stack, hand>>
    /\ UNCHANGED outside

CancelAllPending ==
    /\ line' = <<>>
    /\ st' = [c \in Consumers |->
                  IF st[c] = "waiting" THEN "failed" ELSE st[c]]
    /\ UNCHANGED <<stack, hand, outside>>

\* The consumer is done with what it was served.
Leave(c) ==
    /\ st[c] \in {"served", "failed"}
    /\ outside' = outside \cup ({hand[c]} \ {Null})
    /\ st' = [st EXCEPT ![c] = "idle"]
    /\ hand' = [hand EXCEPT ![c] = Null]
    /\ UNCHANGED <<stack, line>>

Next ==
    \/ \E i \in Items : Push(i)
    \/ \E c \in Consumers : Get(c) \/ Leave(c)
    \/ CancelAllPending

Spec == Init /\ [][Next]_vars
=============================================================================
