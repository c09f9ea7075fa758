---------------------------- MODULE MCLifoQueue ----------------------------
EXTENDS LifoQueue, TLC

\* Items, consumers and promises are interchangeable.
QueueSymmetry ==
    Permutations(Items) \cup Permutations(Consumers) \cup Permutations(Promises)
=============================================================================
