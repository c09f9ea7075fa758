---------------------------- MODULE MCInference ----------------------------
(* Bounded inputs for the inference of cardinalities and types, and what   *)
(* is expected of calls and of types that are shared.                      *)
EXTENDS Inference, FiniteSets

\* How many elements, at most "two or more", a cardinality admits.
Counts(card) == {n \in 0..2 : Admits(card, n)}

Capped(n) == IF n > 2 THEN 2 ELSE n
Larger(m, n) == IF m > n THEN m ELSE n

-----------------------------------------------------------------------------
(* Calls.                                                                  *)

Scalar(name) == [kind |-> "scalar", name |-> name]
AnyType      == [kind |-> "anytype", name |-> "anytype"]
Param(mode, variadic) == [type |-> AnyType, mode |-> mode, variadic |-> variadic]
Modes == {"one", "optional", "setof"}

ParamLists ==
    LET once == {Param(m, FALSE) : m \in Modes}
        last == once \cup {Param("one", TRUE)}
    IN  {<<>>} \cup {<<p>> : p \in last} \cup {<<p, q>> : p \in once, q \in last}

Definitions ==
    {[name |-> "f", params |-> ps, named |-> named, returns |-> r[1], preserves |-> r[2]] :
        ps \in ParamLists, named \in {{}, {[name |-> "x", type |-> AnyType, mode |-> "optional"]}},
        r \in {<<"one", FALSE>>, <<"optional", FALSE>>, <<"optional", TRUE>>, <<"setof", FALSE>>}}
    \cup {[name |-> "if_else", params |-> <<Param("one", FALSE), Param("one", FALSE), Param("one", FALSE)>>,
           named |-> {}, returns |-> "one", preserves |-> FALSE],
          [name |-> "assert_exists", params |-> <<Param("setof", FALSE)>>,
           named |-> {}, returns |-> "setof", preserves |-> FALSE]}

Args == {[type |-> Scalar("int32"), card |-> c] : c \in Cardinalities}
ArgLists == {<<>>} \cup {<<a>> : a \in Args \cup {NoType}} \cup {<<a, b>> : a \in Args \cup {NoType}, b \in Args}
            \cup {<<a, b, c>> : a \in Args, b \in Args, c \in Args}
NamedLists == {NoType} \cup {<<[name |-> "x", type |-> Scalar("int32"), card |-> c]>> : c \in Cardinalities}

\* The parameter that takes the i-th argument.
ParamOf(def, i) == def.params[IF i > Len(def.params) THEN Len(def.params) ELSE i]

\* How many times a call is made for an argument of count n: an optional
\* parameter takes none at all for one, a set is one.
Times(mode, n) == CASE mode = "one" -> n [] mode = "optional" -> Larger(n, 1) [] mode = "setof" -> 1

\* The counts of the results of a call for the counts of its arguments.
ResultCounts(def, counts, named) ==
    LET times[i \in 0..Len(counts)] ==
            IF i = 0 THEN IF named = {} THEN 1 ELSE Larger(CHOOSE n \in named : TRUE, 1)
            ELSE Capped(times[i - 1] * (IF counts[i] = -1 THEN 1 ELSE Times(ParamOf(def, i).mode, counts[i])))
        empty == \E i \in DOMAIN counts : ParamOf(def, i).mode = "setof" /\ counts[i] = 0
        calls == times[Len(counts)]
    IN  IF def.name = "if_else"
        THEN IF counts[2] = 0 THEN {0}
             ELSE {Capped(n) : n \in {counts[1] * k + counts[3] * (counts[2] - k) : k \in 0..counts[2]}}
        ELSE IF def.name = "assert_exists" THEN {n \in {counts[1]} : n > 0}
        ELSE
        CASE def.returns = "one" -> {calls}
          [] def.returns = "optional" ->
                 IF ~def.preserves THEN 0..calls ELSE IF empty THEN {0} ELSE {calls}
          [] def.returns = "setof" -> 0..2

\* A call has a cardinality, and it admits every count of results, or the
\* arguments do not fit the parameters.
CallSound(def, args, named) ==
    LET last   == Len(def.params)
        varies == last > 0 /\ def.params[last].variadic
        countsOf(i) == IF args[i] = NoType THEN {-1} ELSE Counts(args[i].card)
        fits   == /\ Len(args) <= last \/ varies
                  /\ \A i \in 1..last : Argument(args, i) = NoType => def.params[i].mode = "optional"
                  /\ named # NoType => def.named # {}
    IN  \A card \in {TryOverload(def, args, named)} :
           IF ~fits THEN card = NoType
           ELSE /\ card \in Cardinalities
                /\ \A v \in {f \in [DOMAIN args -> -1..2] : \A i \in DOMAIN args : f[i] \in countsOf(i)},
                      n \in IF named = NoType THEN {{}} ELSE {{k} : k \in Counts(named[1].card)} :
                         ResultCounts(def, v, n) \subseteq Counts(card)

\* Overloads of a function, in the order they are generated.
Overloads ==
    LET wide  == <<<<"decimal">>, <<"number">>, <<"str">>, <<"bigint">>, <<"local_datetime">>, <<"number", "number">>,
                   <<"decimal", "decimal">>, <<"bigint", "decimal">>, <<"decimal", "bigint">>, <<"bigint", "bigint">>,
                   <<"local_datetime", "number">>, <<"local_date", "number">>, <<"str", "str">>>>
        direct == DOMAIN Castable
        roots == {t \in direct : \A u \in direct : ~Contains(Castable[u], t)}
        order == SortOverloads(wide, Specificity(Castable, roots, "anytype"))
    IN  [k \in DOMAIN order |->
            [name |-> "f", named |-> {}, returns |-> "one", preserves |-> FALSE,
             params |-> [i \in DOMAIN wide[order[k]] |->
                            [type |-> Scalar(wide[order[k]][i]), mode |-> "one", variadic |-> FALSE]]]]
ScalarArgs == {<<Scalar(a)>> : a \in DOMAIN Castable}
              \cup {<<Scalar(a), Scalar(b)>> : a \in DOMAIN Castable, b \in DOMAIN Castable}

\* The overload that a call takes fits its arguments, and no other one does
\* whose parameters could all be cast to those of it; there is none only when
\* none fits.
ResolutionSound(defs, types) ==
    LET args == [i \in DOMAIN types |-> [type |-> types[i], card |-> "One"]]
        fits(def) == /\ Len(def.params) = Len(args)
                     /\ \A i \in DOMAIN args : Matches(def.params[i].type, types[i])
        below(d, e) == d # e /\ \A i \in DOMAIN args : Matches(e.params[i].type, d.params[i].type)
    IN  \A r \in {ResolveOverload(defs, args, NoType)} :
           IF r = NoType THEN \A k \in DOMAIN defs : ~fits(defs[k])
           ELSE /\ fits(defs[r.def]) /\ r.card = "One"
                /\ \A k \in DOMAIN defs : fits(defs[k]) => ~below(defs[k], defs[r.def])

-----------------------------------------------------------------------------
(* Modifiers.                                                              *)

Filters == {NoFilter} \cup [eq : BOOLEAN, exclusive : BOOLEAN, of : {"Movie", "Person"}, card : Cardinalities]
Modifiers == [filter : Filters, limit : {"none", "zero", "some"}, offset : {"none", "zero", "some"}]

-----------------------------------------------------------------------------
(* Types.                                                                  *)

TupleType(items) == [kind |-> "tuple", names |-> [i \in DOMAIN items |-> i], items |-> items]
NamedType(names, items) == [kind |-> "namedtuple", names |-> names, items |-> items]
ArrayType(item) == [kind |-> "array", items |-> <<item>>]
Enum(name) == [kind |-> "enum", name |-> name]
Pointer(name, card) == [name |-> name, target |-> "str", card |-> card]
ObjectType(pointers) == [kind |-> "object", pointers |-> pointers]

Simple == {Scalar(n) : n \in DOMAIN Castable} \cup {Enum("E"), Enum("F")}
          \cup {ObjectType(p) : p \in SUBSET {Pointer("a", "One"), Pointer("b", "One")}}
SomeTypes ==
    Simple \cup {ArrayType(t) : t \in Simple} \cup {TupleType(<<t>>) : t \in Simple}
    \cup {TupleType(<<t, u>>) : t \in {Scalar(n) : n \in DOMAIN Castable}, u \in {Enum("E"), Scalar("bigint")}}
    \cup {NamedType(<<"x", "y">>, <<t, u>>) : t \in {Scalar(n) : n \in DOMAIN Castable}, u \in {Enum("E"), Scalar("bigint")}}
    \cup {NamedType(<<"x">>, <<t>>) : t \in Simple}

\* The types that a type is made of, itself among them.
Inside(t) == {t} \cup (IF t.kind \in {"array", "tuple", "namedtuple"} THEN {t.items[i] : i \in DOMAIN t.items} ELSE {})

\* Both types can be given for the one they share, and of the scalars there is
\* one when one can be given for the other.  A named tuple that has more names
\* than the one it is merged into is left out.  What has a scalar that stands
\* for another cannot be given for its own type, which no parameter has but
\* inside of an array or a tuple.
ParentSound(a, b) ==
    LET s == SharedParent(a, b)
    IN  ~(a.kind = "namedtuple" /\ b.kind = "namedtuple" /\ Len(a.items) < Len(b.items)) =>
            /\ s # NoType => Matches(s, a) /\ Matches(s, b)
            /\ (a.kind = "scalar" /\ b.kind = "scalar" /\ (Matches(a, b) \/ Matches(b, a))) => s # NoType
            /\ (SharedParent(b, a) = NoType) = (s = NoType) \/ a.kind = "namedtuple"
            /\ Matches(a, a) <=> \A t \in Inside(a) : t.kind # "scalar" \/ StandsFor(t) = t.name
=============================================================================
