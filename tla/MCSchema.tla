----------------------------- MODULE MCSchema -----------------------------
(* Bounded inputs for what is derived from a schema, and what is expected  *)
(* of it.                                                                  *)
EXTENDS Schema, FiniteSets

\* Casts without a cycle between four types, those of the mapped ones apart; a
\* fifth is anytype.
Types == 1..5
AnyType == 5
Forward == <<<<1, 2>>, <<1, 3>>, <<1, 4>>, <<2, 3>>, <<2, 4>>, <<3, 4>>>>
CastInputs == {[casts |-> SelectSeq(Forward, LAMBDA c : c \in chosen), mapped |-> m] :
                  chosen \in SUBSET ToSet(Forward), m \in {{}, {2}}}

\* The types of the positional parameters of overloads.
Signatures == <<<<5>>, <<4, 3>>, <<3>>, <<1>>, <<4>>, <<2>>, <<1, 4>>, <<1, 3>>, <<3, 3>>, <<4, 4>>, <<>>,
                <<1, 1>>, <<3, 4>>, <<5, 1>>, <<4, 1>>>>

\* The bases of three types, one of which may not be known.
BaseLists == {<<>>, <<1>>, <<2>>, <<3>>, <<4>>, <<1, 3>>, <<3, 2>>}
BasesInputs == [1..3 -> BaseLists]

-----------------------------------------------------------------------------
\* The reference: a chain of casts leads from a to b.
RECURSIVE Below(_, _, _)
Below(casts, a, b) == \E c \in casts : c[1] = a /\ (c[2] = b \/ Below(casts, c[2], b))

\* The map of the implicit casts is the closure of the direct ones, and the map
\* of what casts to a type its converse.
ClosureSound(in) ==
    LET direct == {c \in ToSet(in.casts) : {c[1], c[2]} \cap in.mapped = {}}
        to     == CastMap(Types, in.casts, in.mapped)
        from   == CastFromMap(Types, in.casts, in.mapped)
    IN  \A a, b \in Types : /\ Contains(to[a], b) <=> Below(direct, a, b)
                            /\ Contains(from[b], a) <=> Contains(to[a], b)

\* The scalar that two share is one both can be cast to, if there is any.
SharedSound(in) ==
    LET to == CastMap(Types, in.casts, in.mapped)
        up(t) == {t} \cup ToSet(to[t])
    IN  \A a, b \in Types :
           LET s == SharedScalar(to, a, b)
           IN  IF up(a) \cap up(b) = {} THEN s = NoType ELSE s \in up(a) \cap up(b)

\* Of two overloads that both take an argument the one for the type that can
\* be cast to the other's is tried first, at every position; anytype is last.
OrderSound(in) ==
    LET to   == CastMap(Types, in.casts, in.mapped)
        from == CastFromMap(Types, in.casts, in.mapped)
        takes(s, t) == \A i \in DOMAIN s : s[i] = t[i] \/ Contains(to[s[i]], t[i]) \/ t[i] = AnyType
    IN  /\ \A spec \in {Specificity(to, {t \in Types : from[t] = <<>>}, AnyType)} :
           \A order \in {SortOverloads(Signatures, spec)} :
               /\ ToSet(order) = DOMAIN Signatures
               /\ \A i, j \in DOMAIN order :
                     LET a == Signatures[order[i]] b == Signatures[order[j]]
                     IN  Len(a) = Len(b) /\ a # b /\ takes(a, b) => i < j
        /\ \A t \in Types : to[t] # <<>> => \E r \in RootTypes(to, from) : Contains(to[t], r)

\* Types are defined after their bases, or there is a cycle or an unknown base.
TopoSound(bases) ==
    LET above(n) == UNION {ToSet(bases[t]) : t \in n}
        cyclic  == \E t \in 1..3 : t \in above({t}) \/ t \in above(above({t}) \ {4})
                                   \/ t \in above(above(above({t}) \ {4}) \ {4})
        s       == TopoSort(<<1, 2, 3>>, bases)
    IN  IF cyclic \/ 4 \in above(1..3) THEN s.error
        ELSE /\ ~s.error /\ ToSet(s.sorted) = 1..3 /\ Len(s.sorted) = 3
             /\ \A i, j \in 1..3 : Contains(bases[s.sorted[i]], s.sorted[j]) => j < i
=============================================================================
