----------------------------- MODULE Inference -----------------------------
(***************************************************************************)
(* Which overload of a function a call takes and how many elements it has  *)
(* (src/syntax/funcops.ts), and the type that the elements of a set share  *)
(* (src/syntax/set.ts).                                                    *)
(***************************************************************************)
EXTENDS Schema, Cardinality

CONSTANTS
    Castable,   \* the implicit casts of the schema: a CastMap
    CastTypes   \* __casttype__: of a scalar that stands for another, the other's name

-----------------------------------------------------------------------------
\* reduce() of a sequence that is not empty.
MultiplyVariadic(cards) == FoldLeft(Multiply, Head(cards), Tail(cards))

MergeVariadic(cards) == FoldLeft(Merge, Head(cards), Tail(cards))

-----------------------------------------------------------------------------
(* Types: [kind, name, items]; the items of an array are its element, those*)
(* of an object its pointers, of a namedtuple the names are in "names".    *)

RECURSIVE Matches(_, _), SharedParent(_, _)

\* What a scalar stands for: of the numbers of a fixed width and of a sequence
\* it is std::number.
StandsFor(t) == IF t.kind = "scalar" /\ t.name \in DOMAIN CastTypes THEN CastTypes[t.name] ELSE t.name

\* compareType(): an argument of type arg can be given for a parameter.
Matches(type, arg) ==
    CASE type.kind = "anytype" -> TRUE
      [] type.kind = "anyenum" -> arg.kind = "enum"
      [] type.kind \in {"scalar", "enum"} ->
             /\ arg.kind \in {"scalar", "enum"}
             /\ \/ StandsFor(arg) = type.name
                \/ IsImplicitlyCastableTo(Castable, StandsFor(arg), type.name)
      [] type.kind = "array" -> arg.kind = "array" /\ Matches(type.items[1], arg.items[1])
      [] type.kind = "object" ->
             arg.kind = "object" /\ \A p \in type.pointers : \A q \in arg.pointers :
                                        q.name = p.name => q = p
      [] type.kind \in {"tuple", "namedtuple"} ->
             /\ arg.kind \in {"tuple", "namedtuple"} /\ arg.names = type.names
             /\ \A i \in DOMAIN type.items : Matches(type.items[i], arg.items[i])
      [] OTHER -> FALSE

\* getSharedParent(): NoType when it throws.  Of two named tuples it compares
\* the keys of the objects that describe them, which are always the same.
SharedParent(a, b) ==
    LET parents(pairs) == [i \in DOMAIN pairs |-> SharedParent(pairs[i][1], pairs[i][2])]
        with(items) == IF \E i \in DOMAIN items : items[i] = NoType THEN NoType
                       ELSE [a EXCEPT !.items = items]
        named(t, n) == CHOOSE i \in DOMAIN t.names : t.names[i] = n
    IN  IF a.kind # b.kind THEN NoType
        ELSE
        CASE a.kind = "scalar" ->
                 LET name == SharedScalar(Castable, StandsFor(a), StandsFor(b))
                 IN  IF name = NoType THEN NoType ELSE [a EXCEPT !.name = name]
          [] a.kind = "enum" -> IF a.name = b.name THEN a ELSE NoType
          [] a.kind = "object" -> [a EXCEPT !.pointers = a.pointers \cap b.pointers]
          [] a.kind = "array" -> with(parents(<<<<a.items[1], b.items[1]>>>>))
          [] a.kind = "tuple" ->
                 IF Len(a.items) # Len(b.items) THEN NoType
                 ELSE with(parents([i \in DOMAIN a.items |-> <<a.items[i], b.items[i]>>]))
          [] a.kind = "namedtuple" ->
                 IF \E i \in DOMAIN a.names : \A j \in DOMAIN b.names : b.names[j] # a.names[i]
                 THEN NoType
                 ELSE with(parents([i \in DOMAIN a.items |->
                                       <<a.items[i], b.items[named(b, a.names[i])]>>]))

-----------------------------------------------------------------------------
(* Calls: the arguments are sets [type, card], or NoType for one that is   *)
(* explicitly undefined; a parameter is [type, mode, variadic], its mode   *)
(* one of "one", "optional" and "setof".                                   *)

Argument(args, i) == IF i \in DOMAIN args THEN args[i] ELSE NoType

\* What the positional arguments add: one that is not given adds nothing.
PositionalCards(def, args) ==
    [i \in DOMAIN def.params |->
        LET param == def.params[i]
            rest  == IF param.variadic /\ param.mode # "setof" THEN Len(args) ELSE i
        IN  IF Argument(args, i) = NoType THEN "One"
            ELSE ParamCardinality(param, MultiplyVariadic([j \in 1..(rest - i + 1) |-> args[i + j - 1].card]),
                                  def.preserves)]

ParamsNamed(def, name) == {p \in def.named : p.name = name}

NamedCards(def, named) ==
    IF named = NoType THEN <<>>
    ELSE [k \in DOMAIN named |->
             ParamCardinality(CHOOSE p \in ParamsNamed(def, named[k].name) : TRUE, named[k].card, def.preserves)]

CallCardinality(def, args, product) ==
    IF def.name = "if_else" THEN Multiply(Or(args[1].card, args[3].card), args[2].card)
    ELSE IF def.name = "assert_exists" THEN OverrideLowerBound(args[1].card, "One")
    ELSE
    CASE def.returns = "setof" -> "Many"
      [] def.returns = "optional" /\ ~def.preserves -> OverrideLowerBound(product, "Zero")
      [] OTHER -> product

\* _tryOverload(): the cardinality of the call, NoType when the overload does
\* not fit.  named is the sequence of named arguments, or NoType.
TryOverload(def, args, named) ==
    LET last    == Len(def.params)
        varies  == last > 0 /\ def.params[last].variadic
        fits(i) == IF Argument(args, i) = NoType THEN def.params[i].mode = "optional"
                   ELSE Matches(def.params[i].type, args[i].type)
    IN  CASE named # NoType /\ def.named = {} -> NoType
          [] named = NoType /\ \E p \in def.named : p.mode # "optional" -> NoType
          [] ~varies /\ Len(args) > last -> NoType
          [] named # NoType /\ \E k \in DOMAIN named :
                 ~\E p \in ParamsNamed(def, named[k].name) : Matches(p.type, named[k].type) -> NoType
          [] \E i \in 1..last : ~fits(i) -> NoType
          [] OTHER -> CallCardinality(def, args,
                          MultiplyVariadic(<<"One">> \o NamedCards(def, named) \o PositionalCards(def, args)))

\* $resolveOverload(): the first overload that fits.
ResolveOverload(defs, args, named) ==
    LET fitting == {i \in DOMAIN defs : TryOverload(defs[i], args, named) # NoType}
    IN  IF fitting = {} THEN NoType
        ELSE LET first == CHOOSE i \in fitting : \A j \in fitting : i <= j
             IN  [def |-> first, card |-> TryOverload(defs[first], args, named)]

=============================================================================
