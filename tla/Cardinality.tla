---------------------------- MODULE Cardinality ----------------------------
(***************************************************************************)
(* How the query builder infers how many elements an expression has        *)
(* (src/reflection/util/cardinalityUtil.ts, and the parameters and the     *)
(* modifiers of src/syntax/funcops.ts and select.ts).  The tables exist    *)
(* twice: as functions, whose result goes into the query, and as types,    *)
(* which the compiler shows to the user.                                   *)
(***************************************************************************)
EXTENDS Integers, Cases

CONSTANTS
    Amounts,   \* the numbers of elements that are told apart
    NoFilter

ASSUME AmountsAssumption == Amounts \subseteq Nat /\ {0, 1, 2} \subseteq Amounts

Cardinalities == {"Empty", "AtMostOne", "One", "Many", "AtLeastOne"}

-----------------------------------------------------------------------------
(* The functions.                                                          *)

Multiply(c1, c2) ==
    CASE c1 = "Empty" -> "Empty"
      [] c1 = "One" -> c2
      [] c1 = "AtMostOne" -> IF c2 = "AtLeastOne" THEN "Many"
                             ELSE IF c2 = "One" THEN "AtMostOne" ELSE c2
      [] c1 = "Many" -> IF c2 = "Empty" THEN "Empty" ELSE "Many"
      [] c1 = "AtLeastOne" -> IF c2 = "AtMostOne" THEN "Many"
                              ELSE IF c2 = "One" THEN "AtLeastOne" ELSE c2

Merge(a, b) ==
    IF a = "Empty" THEN b ELSE IF b = "Empty" THEN a
    ELSE IF "AtLeastOne" \in {a, b} \/ "One" \in {a, b} THEN "AtLeastOne" ELSE "Many"

Or(c1, c2) ==
    IF c1 = c2 \/ c1 = "Many" THEN c1
    ELSE
    CASE c1 = "AtLeastOne" -> IF c2 = "One" THEN "AtLeastOne" ELSE "Many"
      [] c1 = "AtMostOne" -> IF c2 \in {"Many", "AtLeastOne"} THEN "Many" ELSE c1
      [] c1 = "Empty" -> IF c2 \in {"AtMostOne", "One"} THEN "AtMostOne" ELSE "Many"
      [] c1 = "One" -> IF c2 = "Empty" THEN "AtMostOne" ELSE c2

OverrideLowerBound(card, bound) ==
    IF bound = "One" THEN IF card \in {"Many", "AtLeastOne"} THEN "AtLeastOne" ELSE "One"
    ELSE
    CASE card \in {"Many", "AtLeastOne"} -> "Many"
      [] card = "Empty" -> "Empty"
      [] OTHER -> "AtMostOne"

OverrideUpperBound(card, bound) ==
    LET least(one, none) == IF card \in {"One", "AtLeastOne"} THEN one ELSE none
    IN  IF bound = "One" THEN least("One", "AtMostOne") ELSE least("AtLeastOne", "Many")

-----------------------------------------------------------------------------
(* The same as conditional types.                                          *)

MultiplyType(c1, c2) ==
    CASE c1 = "Empty" -> "Empty"
      [] c1 = "One" -> c2
      [] c1 = "AtMostOne" /\ c2 = "One" -> "AtMostOne"
      [] c1 = "AtMostOne" /\ c2 = "AtLeastOne" -> "Many"
      [] c1 = "Many" /\ c2 # "Empty" -> "Many"
      [] c1 = "AtLeastOne" /\ c2 = "AtMostOne" -> "Many"
      [] c1 = "AtLeastOne" /\ c2 = "One" -> "AtLeastOne"
      [] OTHER -> c2

MergeType(a, b) ==
    IF a = "Empty" THEN b ELSE IF b = "Empty" THEN a
    ELSE IF {a, b} \cap {"AtLeastOne", "One"} # {} THEN "AtLeastOne" ELSE "Many"

OrType(c1, c2) ==
    IF c1 = c2 \/ c1 = "Many" THEN c1
    ELSE
    CASE c1 = "AtMostOne" -> IF c2 \in {"Many", "AtLeastOne"} THEN "Many" ELSE "AtMostOne"
      [] c1 = "AtLeastOne" -> IF c2 = "One" THEN "AtLeastOne" ELSE "Many"
      [] c1 = "Empty" -> IF c2 \in {"AtMostOne", "One"} THEN "AtMostOne" ELSE "Many"
      [] c1 = "One" -> IF c2 = "Empty" THEN "AtMostOne" ELSE c2

LowerBoundType(c, bound) ==
    IF bound = "One" THEN IF c \in {"Many", "AtLeastOne"} THEN "AtLeastOne" ELSE "One"
    ELSE
    CASE c \in {"Empty", "Many"} -> c
      [] c = "AtLeastOne" -> "Many"
      [] OTHER -> "AtMostOne"

UpperBoundType(c, bound) ==
    CASE bound = "One" /\ c \in {"Many", "Empty"} -> "AtMostOne"
      [] bound = "One" /\ c = "AtLeastOne" -> "One"
      [] bound = "Many" /\ c = "One" -> "AtLeastOne"
      [] bound = "Many" /\ c \in {"AtMostOne", "Empty"} -> "Many"
      [] OTHER -> c

\* The cardinalities that a pointer of cardinality c may be given.
Assignable(c) ==
    CASE c \in {"Empty", "One"} -> {c}
      [] c = "AtMostOne" -> {"One", "AtMostOne", "Empty"}
      [] c = "AtLeastOne" -> {"One", "AtLeastOne", "Many"}
      [] c = "Many" -> Cardinalities

-----------------------------------------------------------------------------
(* Parameters: [mode], one of "one", "optional" and "setof".               *)

\* Faulty variant: an optional parameter counts as any other.
RawCardinality(param, card, preserves) ==
    CASE param.mode = "setof" -> IF preserves THEN OverrideUpperBound(card, "One") ELSE "One"
      [] OTHER -> card

\* What a parameter adds to the cardinalities that are multiplied.
ParamCardinality(param, card, preserves) ==
    CASE param.mode = "setof" -> IF preserves THEN OverrideUpperBound(card, "One") ELSE "One"
      [] param.mode = "optional" -> OverrideLowerBound(card, "One")
      [] OTHER -> card

-----------------------------------------------------------------------------
(* Modifiers of select, update and delete: a filter is NoFilter or [eq,    *)
(* exclusive, of, card], an equality of a path that ends in an exclusive   *)
(* pointer of the type "of" with an expression of that cardinality; limit  *)
(* and offset are "none", "zero" (the number 0) or "some".                 *)

MatchCardinality(card, arg) ==
    CASE arg \in {"One", "AtMostOne"} -> "AtMostOne"
      [] arg = "Empty" -> "Empty"
      [] OTHER -> card

\* Faulty variant: any exclusive pointer will do.
AnyExclusive(card, base, filter) ==
    IF filter # NoFilter /\ filter.eq /\ filter.exclusive
    THEN MatchCardinality(card, filter.card) ELSE card

FilterCardinality(card, base, filter) ==
    IF filter # NoFilter /\ filter.eq /\ filter.exclusive /\ filter.of = base
    THEN MatchCardinality(card, filter.card) ELSE card

\* $handleModifiers(): the number 0 passes for a modifier that is not given.
Modified(card, base, mods) ==
    LET filtered == FilterCardinality(card, base, mods.filter)
        lowered(given, c) == IF given = "some" THEN OverrideLowerBound(c, "Zero") ELSE c
    IN  lowered(mods.limit, lowered(mods.offset, filtered))

\* ComputeSelectCardinality.
ModifiedType(card, base, mods) ==
    LET filtered == FilterCardinality(card, base, mods.filter)
    IN  IF mods.limit # "none" \/ mods.offset # "none"
        THEN LowerBoundType(filtered, "Zero") ELSE filtered
-----------------------------------------------------------------------------
(* What is promised: of the numbers of elements.                           *)

\* An expression of this cardinality may have n elements.
Admits(card, n) ==
    CASE card = "Empty" -> n = 0
      [] card = "One" -> n = 1
      [] card = "AtMostOne" -> n <= 1
      [] card = "AtLeastOne" -> n >= 1
      [] card = "Many" -> TRUE

Of(card) == {n \in Amounts : Admits(card, n)}

Narrower(c, d) == Of(c) \subseteq Of(d)

\* card admits the results and no narrower cardinality does.
Tight(card, results) ==
    /\ \A n \in results : Admits(card, n)
    /\ \A c \in Cardinalities : (\A n \in results : Admits(c, n)) => Narrower(card, c)

\* A product, a set of both, one or the other.
CombinedSound(a, b) ==
    /\ Tight(Multiply(a, b), {m * n : m \in Of(a), n \in Of(b)})
    /\ Tight(Merge(a, b), {m + n : m \in Of(a), n \in Of(b)})
    /\ Tight(Or(a, b), Of(a) \cup Of(b))

\* The bounds.  What is empty is at most one with an upper bound, which is wider.
BoundsSound(a) ==
    /\ Tight(OverrideLowerBound(a, "One"), {IF n = 0 THEN 1 ELSE n : n \in Of(a)})
    /\ Tight(OverrideLowerBound(a, "Zero"), UNION {0..n : n \in Of(a)})
    /\ \A n \in Of(a) : Admits(OverrideUpperBound(a, "One"), IF n > 1 THEN 1 ELSE n)
    /\ Tight(OverrideUpperBound(a, "Many"), {k \in Amounts : \E n \in Of(a) : n <= k})

\* The types are those of the functions.
TypesAgree(a, b) ==
    /\ Multiply(a, b) = MultiplyType(a, b) /\ Merge(a, b) = MergeType(a, b) /\ Or(a, b) = OrType(a, b)
    /\ \A bound \in {"One", "Zero"} : OverrideLowerBound(a, bound) = LowerBoundType(a, bound)
    /\ \A bound \in {"One", "Many"} : OverrideUpperBound(a, bound) = UpperBoundType(a, bound)

\* A pointer is given what it admits, but for one that must not be empty, whose
\* type lets any set pass.
AssignableSound(a, b) ==
    /\ a # "AtLeastOne" /\ b \in Assignable(a) => Narrower(b, a)
    /\ Narrower(b, a) => b \in Assignable(a)

\* How many calls are made for an argument of n elements: an optional parameter
\* takes none at all for one, a set is one argument, which may have to be there.
Calls(mode, n, preserves) ==
    CASE mode = "one" -> n
      [] mode = "optional" -> IF n = 0 THEN 1 ELSE n
      [] mode = "setof" -> IF preserves /\ n = 0 THEN 0 ELSE 1

ParametersSound(a) ==
    \A mode \in {"one", "optional", "setof"}, preserves \in BOOLEAN : \A n \in Of(a) :
        Admits(ParamCardinality([mode |-> mode], a, preserves), Calls(mode, n, preserves))

TablesSound(a, b) ==
    /\ CombinedSound(a, b) /\ BoundsSound(a)
    /\ TypesAgree(a, b) /\ AssignableSound(a, b) /\ ParametersSound(a)

\* A filter lets p of n objects pass: the equality of an exclusive pointer of
\* theirs with k values at most k of them.
Passes(filter, base, n, p) ==
    IF filter = NoFilter THEN p = n
    ELSE /\ p <= n
         /\ filter.eq /\ filter.exclusive /\ filter.of = base =>
                \E k \in Of(filter.card) : p <= k

\* The cardinality of a query with modifiers admits every number of results, as
\* it does for the compiler.  The objects that are filtered may be none at all,
\* and the path of the filter is one step from them.
ModifiersSound(card, base, mods) ==
    (mods.filter = NoFilter \/ Admits(card, 0)) =>
        /\ \A n \in Of(card), p, r \in Amounts :
              /\ Passes(mods.filter, base, n, p)
              /\ r <= p /\ (r = p \/ "some" \in {mods.limit, mods.offset})
              => Admits(Modified(card, base, mods), r)
        /\ Narrower(Modified(card, base, mods), ModifiedType(card, base, mods))

-----------------------------------------------------------------------------
\* No expression has more or fewer elements than its inferred cardinality, which
\* is as narrow as it can be, and the types say the same
\* (reflection/util/cardinalityUtil.ts, syntax/funcops.ts, select.ts).
InferenceSound ==
    /\ case.of = "tables" => TablesSound(case.input[1], case.input[2])
    /\ case.of = "modifiers" => ModifiersSound(case.input[1], case.input[2], case.input[3])
=============================================================================
