------------------------------- MODULE Ring -------------------------------
(***************************************************************************)
(* RingBuffer (src/primitives/ring.ts): a bounded queue in an array, one   *)
(* place of which is always free.                                          *)
(***************************************************************************)
EXTENDS Naturals, Sequences

CONSTANTS
    Capacity,   \* length of the array (BUFFER_RING_CAPACITY)
    Undefined   \* a place that holds nothing

ASSUME CapacityAssumption == Capacity \in Nat \ {0}

NewRing == [buffer |-> [i \in 0..(Capacity - 1) |-> Undefined],
            len |-> 0, reader |-> 0, writer |-> 0]

After(i) == (i + 1) % Capacity

\* Faulty variant: the place that is kept free is forgotten.
FullWithAll(ring) == ring.len = Capacity

Full(ring) == ring.len = Capacity - 1

\* enq() throws.
Rejects(ring) == ring.reader = After(ring.writer)

Enq(ring, data) ==
    [ring EXCEPT !.buffer[ring.writer] = data, !.writer = After(@), !.len = @ + 1]

\* deq() returns undefined.
Drained(ring) == ring.reader = ring.writer

\* The n-th element from the reader's end.
Nth(ring, n) == ring.buffer[(ring.reader + n - 1) % Capacity]

\* n calls of deq().
Deq(ring, n) ==
    [ring EXCEPT !.buffer = [i \in DOMAIN @ |->
                     IF \E k \in 0..(n - 1) : i = (ring.reader + k) % Capacity
                     THEN Undefined ELSE @[i]],
                 !.reader = (@ + n) % Capacity,
                 !.len = @ - n]
=============================================================================
