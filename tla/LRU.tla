-------------------------------- MODULE LRU --------------------------------
(***************************************************************************)
(* The cache of src/primitives/lru.ts: a map from keys to the nodes of a   *)
(* doubly linked list, the node used last on top.  A node is named by a    *)
(* number, 0 is null; numbers of nodes that were deleted are used again.   *)
(***************************************************************************)
EXTENDS Naturals, Sequences, FiniteSets

NewLRU(capacity) ==
    [capacity |-> capacity, map |-> [k \in {} |-> 0],
     node |-> [i \in {} |-> 0], head |-> 0, tail |-> 0, len |-> 0]

-----------------------------------------------------------------------------
(* The list.                                                               *)

\* Deque.push().
Push(c, key, value) ==
    LET id == CHOOSE i \in 1..(c.capacity + 1) : i \notin DOMAIN c.node
        new == [key |-> key, value |-> value, prev |-> 0, next |-> c.head]
    IN  [c EXCEPT
            !.node = [i \in DOMAIN c.node \cup {id} |->
                         IF i = id THEN new
                         ELSE IF i = c.head THEN [c.node[i] EXCEPT !.prev = id] ELSE c.node[i]],
            !.head = id, !.tail = IF c.head = 0 THEN id ELSE c.tail, !.len = c.len + 1]

\* Faulty variant: the node before keeps its link to the one moved.
LinkKept(c, id, i) == IF i = id THEN c.head ELSE c.node[i].next

\* The links to the next nodes once a node is on top.
LinkWithout(c, id, i) ==
    IF i = id THEN c.head
    ELSE IF i = c.node[id].prev THEN c.node[id].next ELSE c.node[i].next

\* The links to the previous nodes once a node is on top.
BackLinkWithout(c, id, i) ==
    IF i = id THEN 0
    ELSE IF i = c.node[id].next THEN c.node[id].prev
    ELSE IF i = c.head THEN id ELSE c.node[i].prev

\* Deque.moveToTop().
MoveToTop(c, id) ==
    IF c.node[id].prev = 0 THEN c
    ELSE [c EXCEPT
             !.node = [i \in DOMAIN c.node |->
                          [c.node[i] EXCEPT !.next = LinkWithout(c, id, i),
                                            !.prev = BackLinkWithout(c, id, i)]],
             !.head = id, !.tail = IF c.tail = id THEN c.node[id].prev ELSE c.tail]

\* Deque.deleteBottom() of a list that is not empty; its node is forgotten.
DeleteBottom(c) ==
    LET last == c.node[c.tail].prev
    IN  [c EXCEPT
            !.node = [i \in DOMAIN c.node \ {c.tail} |->
                         IF i = last THEN [c.node[i] EXCEPT !.next = 0] ELSE c.node[i]],
            !.head = IF c.tail = c.head THEN 0 ELSE c.head,
            !.tail = last, !.len = c.len - 1]

-----------------------------------------------------------------------------
(* The cache.                                                              *)

HasEntry(c, key) == key \in DOMAIN c.map

\* What get() returns of a key that is there, and the cache after it.
EntryOf(c, key) == c.node[c.map[key]].value

AfterGet(c, key) == IF HasEntry(c, key) THEN MoveToTop(c, c.map[key]) ELSE c

\* Faulty variant: the map keeps what the list has lost.
BoundedInList(c) ==
    IF c.len > c.capacity
    THEN DeleteBottom(c)
    ELSE c

\* The loop that removes what is beyond the capacity: one node was added.
Bounded(c) ==
    IF c.len > c.capacity
    THEN [DeleteBottom(c) EXCEPT
             !.map = [k \in DOMAIN c.map \ {c.node[c.tail].key} |-> c.map[k]]]
    ELSE c

\* The cache after set().
AfterSet(c, key, value) ==
    IF HasEntry(c, key)
    THEN MoveToTop([c EXCEPT !.node[c.map[key]].value = value], c.map[key])
    ELSE LET pushed == Push(c, key, value)
         IN  Bounded([pushed EXCEPT
                 !.map = [k \in DOMAIN c.map \cup {key} |->
                             IF k = key THEN pushed.head ELSE c.map[k]]])

\* entries(): the keys and the values from the head on.
Entries(c) ==
    LET from[n \in 0..(c.capacity + 1)] ==
            IF n = 0 THEN <<c.head, <<>> >>
            ELSE LET id == from[n - 1][1]
                     so == from[n - 1][2]
                 IN  IF id \notin DOMAIN c.node THEN <<0, so>>
                     ELSE <<c.node[id].next,
                            Append(so, [key |-> c.node[id].key, value |-> c.node[id].value])>>
    IN  from[c.capacity + 1][2]

\* The check of length(): the map and the list agree, both ways along the list.
InSync(c) ==
    /\ Cardinality(DOMAIN c.map) = c.len /\ c.len <= c.capacity
    /\ Len(Entries(c)) = c.len
    /\ \A n \in DOMAIN Entries(c) : HasEntry(c, Entries(c)[n].key)
    /\ \A i \in DOMAIN c.node :
           /\ IF c.node[i].prev = 0 THEN c.head = i ELSE c.node[c.node[i].prev].next = i
           /\ IF c.node[i].next = 0 THEN c.tail = i ELSE c.node[c.node[i].next].prev = i
=============================================================================
