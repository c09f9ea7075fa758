------------------------------ MODULE Recency ------------------------------
(***************************************************************************)
(* What a least-recently-used cache promises: the entries that were used   *)
(* last, the latest first, no more than its capacity.                      *)
(***************************************************************************)
EXTENDS Naturals, Sequences

CONSTANTS CacheSize, Keys, Values

VARIABLE entries

HasKey(key) == \E n \in DOMAIN entries : entries[n].key = key

\* All of them but the n-th.
Without(n) == SubSeq(entries, 1, n - 1) \o SubSeq(entries, n + 1, Len(entries))

Kept(s) == SubSeq(s, 1, IF Len(s) < CacheSize THEN Len(s) ELSE CacheSize)

\* An entry is read, and comes first.
GetEntry(key) ==
    \E n \in DOMAIN entries :
        entries[n].key = key /\ entries' = <<entries[n]>> \o Without(n)

\* An entry is written, and comes first; the last one may have to go.
SetEntry(key, value) ==
    LET e == [key |-> key, value |-> value]
    IN  \/ \E n \in DOMAIN entries :
               entries[n].key = key /\ entries' = <<e>> \o Without(n)
        \/ ~HasKey(key) /\ entries' = Kept(<<e>> \o entries)

\* A new cache.
Discard == entries' = <<>>

Init == entries = <<>>

Next ==
    \/ \E key \in Keys : GetEntry(key) \/ \E value \in Values : SetEntry(key, value)
    \/ Discard

Spec == Init /\ [][Next]_entries
=============================================================================
