---------------------------- MODULE MCFunctions ----------------------------
(* The pure parts of the client, checked over bounded inputs: a state is   *)
(* one input, and an invariant says what is expected of the outcome; the   *)
(* codecs registry keeps its caches from one lookup to the next.           *)
EXTENDS Integers, Sequences, MCConfig, MCRegistry, MCDates, Cardinality

CONSTANTS NoBytes, Null, Base, SafeHi, BufferInc, Radix, Group, NumericNeg,
          NoType

Query  == INSTANCE MCQuery
Codecs == INSTANCE MCCodecs
Schema == INSTANCE MCSchema

\* Some of the implicit casts of the standard library, without those of the
\* scalars that stand for std::number.
FixedWidth == {"int32", "int64", "float64"}
Casts ==
    Schema!CastMap(FixedWidth \cup {"number", "bigint", "decimal", "str", "local_date", "local_datetime"},
                   <<<<"int32", "int64">>, <<"int64", "bigint">>, <<"int64", "float64">>,
                     <<"bigint", "decimal">>, <<"local_date", "local_datetime">>>>, FixedWidth)
Inference == INSTANCE MCInference WITH Castable <- Casts, CastTypes <- [t \in FixedWidth |-> "number"]

Init == case = NoCase

ADay      == \E d \in Days : Given("day", d)
ATime     == \E d \in Epochs, t \in Times : Given("time", [day |-> d, time |-> t])
ADuration == \E d \in Durations : Given("duration", d)
AText     == \E t \in Texts : Given("text", t)

Rendering == \E c \in Query!Queries : Query!Legal(c) /\ Given("query", Query!Expressions(c))

Integer ==
    \/ \E n \in Codecs!Integers16 : Given("integer", <<"int16", n>>)
    \/ \E n \in Codecs!Integers32 : Given("integer", <<"int32", n>>)
    \/ \E n \in Codecs!Safe64 : Given("integer", <<"int64", n>>)
    \/ \E n \in Codecs!Integers64 : Given("integer", <<"bigint64", n>>)
    \/ \E n \in Codecs!BigInts : Given("integer", <<"bigint", n>>)
Value     == \E v \in Codecs!Composed : Given("value", v)
Decimal   == \E t \in Codecs!Decimals : Given("decimal", t)
Arguments == \E a \in Codecs!ArgumentLists : Given("arguments", a)
Messages  == \E c \in Codecs!CallSequences : Given("messages", c)

Registry == \E size \in Sizes, minor \in {10, 11}, custom \in Customs :
               Open(size[1], size[2], minor, custom)

Parameters ==
    \/ \E own1, own2 \in Owns, source1 \in Sources, source2 \in EnvSources, linked, project \in BOOLEAN :
        Given("parameters", SourcesOf(own1, source1, own2, source2, linked, project))
    \/ \E s \in SecurityInputs : Given("parameters", SecurityOf(s))
Project == \E cwd \in 0..3, toml \in SUBSET (0..3), dev \in [0..3 -> 1..2] :
               Given("project", [cwd |-> cwd, toml |-> toml, dev |-> dev])

Closure == \E in \in Schema!CastInputs : Given("casts", in)
Bases   == \E b \in Schema!BasesInputs : Given("bases", b)

Tables    == \E a, b \in Cardinalities : Given("tables", <<a, b>>)
Call      == \E d \in Inference!Definitions, a \in Inference!ArgLists, n \in Inference!NamedLists :
                Given("call", <<d, a, n>>)
Resolution == \E defs \in {Inference!Overloads} : \E t \in Inference!ScalarArgs : Given("resolution", <<defs, t>>)
Modifiers == \E c \in Cardinalities, m \in Inference!Modifiers : Given("modifiers", <<c, "Movie", m>>)
Shared    == \E a, b \in Inference!SomeTypes : Given("shared", <<a, b>>)

Input ==
    /\ case = NoCase
    /\ \/ Registry \/ Parameters \/ Project \/ Closure \/ Bases \/ Rendering
       \/ Tables \/ Call \/ Resolution \/ Modifiers \/ Shared
       \/ Integer \/ Value \/ Decimal \/ Arguments \/ Messages
       \/ ADay \/ ATime \/ ADuration \/ AText

Next == Input \/ LookUpNull \/ \E i \in DOMAIN TypeLists : LookUp(i)

Spec == Init /\ [][Next]_case

-----------------------------------------------------------------------------
\* What goes into the buffers is what comes out: integers at the limits of their
\* widths, numerics, values of every codec, arguments, and messages
\* (primitives/buffer.ts, codecs/*.ts).  What a text says is the duration that is
\* read, but for a nanosecond that the doubles may lose (datatypes/datetime.ts).
RoundTrips ==
    /\ case.of = "integer" => Codecs!IntegerSound(case.input[1], case.input[2])
    /\ case.of = "value" => Codecs!ValueSound(case.input[1], case.input[2])
    /\ case.of = "decimal" => Codecs!DecimalSound(case.input)
    /\ case.of = "arguments" => Codecs!ArgumentsSound(case.input[1], case.input[2], case.input[3])
    /\ case.of = "messages" => Codecs!MessagesSound(case.input)
    /\ case.of = "text" => TextSound(case.input)
    /\ case.of = "duration" /\ OneSign(case.input) => TextSound(DurationText(case.input))

\* The casts, the overloads and the types that are generated from a schema are
\* in order, and a call takes the overload that fits, has as many elements as its
\* cardinality admits, and shares a type that takes both
\* (reflection/queries/getCasts.ts, getTypes.ts, util/functionUtils.ts,
\* syntax/funcops.ts, set.ts).
CallsResolved ==
    /\ case.of = "casts" => /\ Schema!ClosureSound(case.input) /\ Schema!SharedSound(case.input)
                            /\ Schema!OrderSound(case.input)
    /\ case.of = "bases" => Schema!TopoSound(case.input)
    /\ case.of = "resolution" => Inference!ResolutionSound(case.input[1], case.input[2])
    /\ case.of = "call" => Inference!CallSound(case.input[1], case.input[2], case.input[3])
    /\ case.of = "shared" => Inference!ParentSound(case.input[1], case.input[2])

\* In the text of a query every name is declared in a with block or by a query
\* around its use, where the walk has seen all the scopes of every expression
\* (syntax/toEdgeQL.ts).
QueryResolves ==
    case.of = "query" => \A q \in {case.input} : Query!Recorded(q) => Query!NamesResolve(q)

\* In the text of any query every name is declared around its use: an expression
\* that occurs more than once is extracted (docs/with.rst).
EveryNameResolves == case.of = "query" => Query!NamesResolve(case.input)
=============================================================================
