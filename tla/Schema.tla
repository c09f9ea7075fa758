------------------------------ MODULE Schema ------------------------------
(***************************************************************************)
(* What the generator derives from a reflected schema: the casts that can  *)
(* be reached (src/reflection/queries/getCasts.ts), the scalar type that   *)
(* two others share (generators/generateCastMaps.ts), how specific a type  *)
(* is and the order of overloads (util/functionUtils.ts), and the order in *)
(* which types are defined (queries/getTypes.ts).                          *)
(*                                                                         *)
(* A graph is a function from the types to the sequence of their targets.  *)
(***************************************************************************)
EXTENDS Integers, Sequences, SequencesExt

CONSTANT NoType   \* what has no type

\* A set keeps the order of insertion.
Insert(seq, x) == IF Contains(seq, x) THEN seq ELSE Append(seq, x)

RECURSIVE Reach(_, _, _), Visit(_, _, _)

\* The recursion of reachableFrom(): s is [seen, reachable].
Reach(adj, source, s) ==
    IF source \in s.seen THEN s
    ELSE FoldLeft(LAMBDA acc, t : Reach(adj, t, [acc EXCEPT !.reachable = Insert(@, t)]),
                  [s EXCEPT !.seen = @ \cup {source}], adj[source])

ReachableFrom(source, adj) == Reach(adj, source, [seen |-> {}, reachable |-> <<>>]).reachable

\* getCasts(): implicitCastMap and implicitCastFromMap of the casts <<source,
\* target>> that are implicit and not those of a type mapped to std::number.
Adjacent(types, casts, mapped) ==
    [t \in types |->
        LET from == SelectSeq(casts, LAMBDA c : c[1] = t /\ {c[1], c[2]} \cap mapped = {})
        IN  [i \in DOMAIN from |-> from[i][2]]]

CastMap(types, casts, mapped) ==
    [t \in types |-> ReachableFrom(t, Adjacent(types, casts, mapped))]

CastFromMap(types, casts, mapped) ==
    CastMap(types, [i \in DOMAIN casts |-> <<casts[i][2], casts[i][1]>>], mapped)

IsImplicitlyCastableTo(castable, from, to) == from \in DOMAIN castable /\ Contains(castable[from], to)

\* getSharedParentScalar() as it is generated.
SharedScalar(castable, a, b) ==
    LET common == SelectSeq(castable[a], LAMBDA t : Contains(castable[b], t))
    IN  IF a = b \/ Contains(castable[a], b) THEN b
        ELSE IF Contains(castable[b], a) THEN a
        ELSE IF common # <<>> THEN common[1] ELSE NoType

-----------------------------------------------------------------------------
(* Overloads.                                                              *)

\* The n-th typesToVisit of getTypesSpecificity().
ToVisit(castable, roots, n) ==
    LET visit[k \in 0..n] ==
            IF k = 0 THEN roots
            ELSE UNION {ToSet(castable[t]) : t \in visit[k - 1]}
    IN  visit[n]

\* Faulty variant: a type keeps the first level it was visited at.
FirstLevel(levels) == CHOOSE n \in levels : \A m \in levels : n <= m

\* A type gets the last level it is visited at.
Level(levels) == CHOOSE n \in levels : \A m \in levels : n >= m

\* getTypesSpecificity(), of casts that have no cycle: it never ends on others.
Specificity(castable, roots, infinite) ==
    [t \in DOMAIN castable |->
        IF t = infinite THEN 1000
        ELSE Level({n \in 0..Cardinality(DOMAIN castable) : t \in ToVisit(castable, roots, n)})]

\* The comparison of sortFuncopOverloads(): a and b are the types of the
\* positional parameters.
MoreSpecific(a, b, spec) ==
    \E i \in 1..(Len(a) + 1) :
        /\ \A j \in 1..(i - 1) : j \in DOMAIN b /\ spec[a[j]] = spec[b[j]]
        /\ \/ i > Len(a) /\ i \in DOMAIN b
           \/ i \in DOMAIN a /\ i \in DOMAIN b /\ spec[a[i]] < spec[b[i]]

\* sortFuncopOverloads() is stable: the result is the order of the indices.
SortOverloads(overloads, spec) ==
    LET before(i, j) == \/ MoreSpecific(overloads[i], overloads[j], spec)
                        \/ i < j /\ ~MoreSpecific(overloads[j], overloads[i], spec)
    IN  [k \in DOMAIN overloads |->
            CHOOSE i \in DOMAIN overloads : Cardinality({j \in DOMAIN overloads : before(j, i)}) = k - 1]

\* getImplicitCastableRootTypes().
RootTypes(castable, from) == {t \in DOMAIN castable : castable[t] = <<>> /\ from[t] # <<>>}

-----------------------------------------------------------------------------
(* topoSort().                                                             *)

\* visit(): s is [visiting, sorted, error].
Visit(bases, type, s) ==
    IF s.error THEN s
    ELSE IF type \in s.visiting THEN [s EXCEPT !.error = TRUE]
    ELSE IF Contains(s.sorted, type) THEN s
    ELSE LET after == FoldLeft(LAMBDA acc, b : Visit(bases, b, acc),
                               [s EXCEPT !.visiting = @ \cup {type}], bases[type])
         IN  [after EXCEPT !.visiting = @ \ {type},
                           !.sorted = IF after.error THEN @ ELSE Append(@, type)]

TopoSort(types, bases) ==
    IF \E t \in DOMAIN bases : \E i \in DOMAIN bases[t] : bases[t][i] \notin DOMAIN bases
    THEN [sorted |-> <<>>, error |-> TRUE]
    ELSE LET s == FoldLeft(LAMBDA acc, t : Visit(bases, t, acc),
                           [visiting |-> {}, sorted |-> <<>>, error |-> FALSE], types)
         IN  [sorted |-> s.sorted, error |-> s.error]
=============================================================================
