------------------------------ MODULE Lookups ------------------------------
(***************************************************************************)
(* Lookups of types in a codecs registry, one after the other, and what    *)
(* the registry promises: a lookup gives the codec that the server         *)
(* describes, whatever was built, cached and evicted before.               *)
(*                                                                         *)
(* TypeLists are the lists of descriptors that the server may send, each   *)
(* for the type of its last descriptor that is no annotation.              *)
(***************************************************************************)
EXTENDS Registry, Cases

CONSTANTS
    TypeLists,
    Customs,      \* sets of base scalars that may have a custom codec
    MaxLookups

Kinds == {"set", "shape", "base", "scalar", "tuple", "namedtuple", "array", "enum"}

-----------------------------------------------------------------------------
(* The reference: what a list describes, without a cache.                  *)

\* What is described after one more descriptor: the codecs, up to the first that
\* cannot be built.
Further(before, d, custom) ==
    IF ~before.ok \/ d.t \in Annotations THEN before
    ELSE IF Built(d, before.cl, custom) = NoCodec THEN [cl |-> before.cl, ok |-> FALSE]
    ELSE [cl |-> Append(before.cl, Built(d, before.cl, custom)), ok |-> TRUE]

\* By the first n descriptors.
Described(list, custom) ==
    LET upTo[n \in 0..Len(list)] ==
            IF n = 0 THEN [cl |-> <<>>, ok |-> TRUE]
            ELSE Further(upTo[n - 1], list[n], custom)
    IN  upTo

Whole(list, custom) == Described(list, custom)[Len(list)]

LastOf(seq) == seq[Len(seq)]

\* The n-th descriptor is the one of the list's own type.
IsLast(list, n) ==
    /\ list[n].t \notin Annotations
    /\ \A m \in DOMAIN list : m > n => list[m].t \in Annotations
TypeOf(list) == list[CHOOSE n \in DOMAIN list : IsLast(list, n)].tid

\* What the n-th descriptor describes after those before it.
CodecAt(list, n, custom) == Built(list[n], Described(list, custom)[n - 1].cl, custom)

\* It is reached, and it is of type tid.
Describes(list, n, tid, custom) ==
    /\ list[n].t \notin Annotations /\ list[n].tid = tid
    /\ Described(list, custom)[n - 1].ok

-----------------------------------------------------------------------------
(* What the server sends.                                                  *)

\* A list of descriptors, the annotations of a type after it.
IsList(list) ==
    /\ list \in Seq({list[n] : n \in DOMAIN list})
    /\ \A n \in DOMAIN list : list[n].t \in Kinds \cup Annotations
    /\ \E n \in DOMAIN list : IsLast(list, n)
    /\ \A n \in DOMAIN list : list[n].t \in Annotations =>
           \E m \in 1..(n - 1) : list[m].t \notin Annotations /\ list[m].tid = list[n].tid

\* The empty tuple has a type of its own, which needs no other.
EmptyTupleKnown(list, custom) ==
    /\ \A n \in DOMAIN list : list[n].t \notin Annotations =>
           (list[n].tid = EmptyTuple <=> list[n].t = "tuple" /\ list[n].at = <<>>)
    /\ TypeOf(list) = EmptyTuple => Whole(list, custom).ok

\* A type means the same wherever it is described, and whether it can be built is
\* a matter of the type.
OneMeaning(a, b, custom) ==
    \A n \in DOMAIN b :
        Describes(b, n, b[n].tid, custom) =>
            /\ \A m \in DOMAIN a : Describes(a, m, b[n].tid, custom) =>
                   CodecAt(a, m, custom) = CodecAt(b, n, custom)
            /\ b[n].tid = TypeOf(a) /\ CodecAt(b, n, custom) # NoCodec => Whole(a, custom).ok

\* The null type is not described.
NullUndescribed(list) == \A n \in DOMAIN list : list[n].t \in Annotations \/ list[n].tid # NullType

ASSUME TypesAssumption ==
    /\ NullType # EmptyTuple
    /\ \A i \in DOMAIN TypeLists : NullUndescribed(TypeLists[i])
    /\ TypeLists \in Seq({TypeLists[i] : i \in DOMAIN TypeLists})
    /\ \A i \in DOMAIN TypeLists : IsList(TypeLists[i])
    /\ \A custom \in Customs, i \in DOMAIN TypeLists : EmptyTupleKnown(TypeLists[i], custom)
    /\ \A custom \in Customs, i, j \in DOMAIN TypeLists :
           OneMeaning(TypeLists[i], TypeLists[j], custom)

-----------------------------------------------------------------------------
(* Lookups.                                                                *)

Opened(capacity, capacityBuilt, minor, custom) ==
    [registry |-> SetCustomCodecs(NewRegistry(capacity, capacityBuilt), custom), codec |-> NoCodec,
     error |-> FALSE, list |-> 0, minor |-> minor, custom |-> custom, lookups |-> 0]

LookedUp(s, i) ==
    LET found == Lookup(s.registry, TypeOf(TypeLists[i]), TypeLists[i], s.minor)
    IN  [s EXCEPT !.registry = found.registry, !.codec = found.codec, !.error = found.error,
                  !.list = i, !.lookups = @ + 1]

Open(capacity, capacityBuilt, minor, custom) ==
    case = NoCase /\ Given("registry", Opened(capacity, capacityBuilt, minor, custom))

\* A registry is used again after a lookup.
LookUp(i) ==
    /\ case.of = "registry" /\ case.input.lookups < MaxLookups
    /\ Given("registry", LookedUp(case.input, i))

\* The null type is looked up of which no descriptors are sent: list is 0.
NullLookedUp(s) ==
    LET found == Lookup(s.registry, NullType, <<>>, s.minor)
    IN  [s EXCEPT !.registry = found.registry, !.codec = found.codec, !.error = found.error,
                  !.list = 0, !.lookups = @ + 1]

LookUpNull ==
    /\ case.of = "registry" /\ case.input.lookups < MaxLookups
    /\ Given("registry", NullLookedUp(case.input))

-----------------------------------------------------------------------------
(* What is promised.                                                       *)

\* A list describes the type tid as codec.
Means(tid, codec, custom) ==
    \E i \in DOMAIN TypeLists : \E n \in DOMAIN TypeLists[i] :
        Describes(TypeLists[i], n, tid, custom) /\ codec = CodecAt(TypeLists[i], n, custom)

\* A cache holds codecs that are described, under their types, each once.
CacheSound(c, custom) ==
    /\ InSync(c)
    /\ \A i \in DOMAIN c.node :
           c.node[i].value.tid = c.node[i].key /\ Means(c.node[i].key, c.node[i].value, custom)

\* It fails only when there is no codec, or when an annotation comes after its type
\* was evicted; the null type has its codec without any descriptor.
LookupSound(s) ==
    LET list  == TypeLists[s.list]
        whole == Whole(list, s.custom)
    IN  /\ CacheSound(s.registry.codecs, s.custom)
        /\ CacheSound(s.registry.built, s.custom)
        /\ s.list # 0 /\ s.error =>
               \/ ~whole.ok
               \/ /\ s.registry.codecs.capacity < Len(list)
                  /\ \E n \in DOMAIN list : list[n].t \in Annotations
        /\ s.list = 0 /\ s.lookups > 0 => ~s.error /\ s.codec = NullCodec
        /\ s.list # 0 /\ ~s.error => whole.ok /\ s.codec = LastOf(whole.cl)

\* The registry gives the codec that the server describes, whatever it has built
\* and evicted before (codecs/registry.ts, primitives/lru.ts).
RegistrySound == case.of = "registry" => LookupSound(case.input)
=============================================================================
