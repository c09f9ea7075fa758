----------------------------- MODULE MCCodecs -----------------------------
(* Bounded inputs for the codecs and the write buffers, and what is        *)
(* expected of them.                                                       *)
EXTENDS Codecs

ScalarOf(type) == [kind |-> "scalar", type |-> type]
ArrayOf(sub)   == [kind |-> "array", sub |-> sub, len |-> -1]
SetOf(sub)     == [kind |-> "set", sub |-> sub]
TupleOf(subs)  == [kind |-> "tuple", subs |-> subs]
NamedOf(subs, names) == [kind |-> "namedtuple", subs |-> subs, names |-> names]
ObjectOf(subs, names, cards) == [kind |-> "object", subs |-> subs, names |-> names, cards |-> cards]

\* Every small integer, and what is at the limits of the wide ones.
Integers16 == -8..7
Integers32 == {-128, -127, -65, -64, -17, -1, 0, 1, 15, 16, 63, 64, 127}
Safe64     == -(SafeHi * Half)..(SafeHi * Half - 1)
Integers64 == {-32768, -32767, -257, -256, -255, -1, 0, 1, 255, 256, 32767}
BigInts    == -600..600

Texts == {<<>>, <<1>>, <<0, 3>>}
UUIDs == {[i \in 1..32 |-> (i * k) % Root] : k \in 1..Root}

\* Values of one element, as <<codec, value>>.
Elemental ==
    {<<ScalarOf("str"), v>> : v \in Texts} \cup {<<ScalarOf("uuid"), v>> : v \in UUIDs}
    \cup {<<ScalarOf("bool"), TRUE>>, <<ScalarOf("json"), <<2>>>>, <<ScalarOf("bigint"), -9>>,
          <<ScalarOf("int64"), -3>>, <<ScalarOf("bytes"), <<>>>>}
    \cup {<<ArrayOf(ScalarOf("str")), v>> : v \in {<<>>, <<Null>>, <<<<>>, <<1>>>>}}

Composed ==
    Elemental
    \cup {<<SetOf(x[1]), v>> : x \in Elemental, v \in {<<>>}}
    \cup {<<SetOf(x[1]), <<x[2], x[2]>>>> : x \in Elemental}
    \cup {<<TupleOf(<<x[1], y[1]>>), <<x[2], y[2]>>>> : x, y \in Elemental}
    \cup {<<NamedOf(<<x[1], y[1]>>, <<"a", "b">>), [n \in {"a", "b"} |-> IF n = "a" THEN x[2] ELSE y[2]]>> :
             x, y \in Elemental}
    \cup {<<ObjectOf(<<x[1], SetOf(TupleOf(<<y[1]>>))>>, <<"a", "b">>, <<"AT_MOST_ONE", "MANY">>),
            [n \in {"a", "b"} |-> IF n = "a" THEN Null ELSE <<<<y[2]>>>>]>> : x, y \in Elemental}

DigitRuns(n) == UNION {[1..k -> 0..(Radix - 1)] : k \in 1..n}
Decimals == [neg : BOOLEAN, whole : DigitRuns(4), frac : {<<>>} \cup DigitRuns(4), exp : {0, Group}]

\* Arguments for two parameters: too few, and any of them null; the codecs of
\* the parameters, their cardinalities and the values.
ArgumentLists ==
    UNION {{<<<<x[1], y[1]>>, <<cx, cy>>, v>> :
               cx, cy \in {"ONE", "AT_MOST_ONE"},
               v \in {<<>>, <<x[2]>>, <<Null, Null>>, <<x[2], Null>>, <<Null, y[2]>>, <<x[2], y[2]>>}} :
           x, y \in {e \in Elemental : e[1] = ScalarOf("str") \/ e[1].kind = "array"}}

\* Calls on a message buffer: contents shorter and longer than what is allocated.
Calls ==
    {[op |-> "begin", mtype |-> 1], [op |-> "end"], [op |-> "whole", mtype |-> 2],
     [op |-> "write", bytes |-> <<3>>], [op |-> "write", bytes |-> [i \in 1..7 |-> i % Base]],
     [op |-> "headers", headers |-> <<>>], [op |-> "headers", headers |-> <<<<2, <<1, 2>>>>, <<5, <<>>>>>>]}
CallSequences == UNION {[1..n -> Calls] : n \in 0..4}

-----------------------------------------------------------------------------
\* An integer is read as it was written, by both readers of bigints.
IntegerSound(type, n) ==
    /\ ScalarValue(type, ScalarBytes(type, n)) = n
    /\ type = "bigint64" => ReadBigInt64Fallback(BigInt64(n)) = n

\* What the server sends of a value is decoded to it.
ValueSound(codec, value) == Decode(codec, ServerData(codec, value)) = value

\* The digits of a decimal text are those that come back: leading zeros of the
\* whole part apart, and the exponent applied.
Stripped(digits) ==
    IF \A i \in DOMAIN digits : digits[i] = 0 THEN <<>>
    ELSE SubSeq(digits, CHOOSE i \in DOMAIN digits : digits[i] # 0 /\ \A j \in 1..(i - 1) : digits[j] = 0,
                Len(digits))
DecimalSound(t) ==
    LET all == PadEnd(t.whole \o t.frac, Len(t.whole) + t.exp)
        back == DecodeDecimal(EncodeDecimal(t))
    IN  /\ back.neg = t.neg
        /\ Stripped(back.whole) = Stripped(SubSeq(all, 1, Len(t.whole) + t.exp))
        /\ back.frac = SubSeq(all, Len(t.whole) + t.exp + 1, Len(all))

\* Arguments are refused when their number is wrong or a required one is
\* missing; the server reads any others as they were given.
ArgumentsSound(subs, cards, values) ==
    LET c       == ObjectOf(subs, <<"a", "b">>, cards)
        missing == \E i \in 1..Len(values) : values[i] = Null /\ cards[i] = "ONE"
        sent    == EncodePositional(c, values)
        byName  == EncodeNamed(c, [n \in {c.names[i] : i \in DOMAIN values} |->
                                      values[CHOOSE i \in 1..2 : c.names[i] = n]])
    IN  IF Len(values) # 2 \/ missing THEN sent = NoBytes
        ELSE /\ sent = Framed(Left(sent, 4)) /\ byName = sent
             /\ Decode(TupleOf(subs), Left(sent, 4)) = values

\* The messages that a sequence of calls means: each its type, its length and
\* its content, or none when the calls are out of place.
HeaderBytes(headers) ==
    UInt(Len(headers), 2) \o Concat([i \in DOMAIN headers |-> UInt(headers[i][1], 2) \o Framed(headers[i][2])])
Framing(calls) ==
    LET state[n \in 0..Len(calls)] ==
            LET c == calls[n] s == state[n - 1]
            IN  IF n = 0 THEN [open |-> -1, body |-> <<>>, out |-> <<>>, bad |-> FALSE]
                ELSE IF s.bad \/ (c.op \in {"begin", "whole"}) # (s.open = -1) THEN [s EXCEPT !.bad = TRUE]
                ELSE CASE c.op = "begin"   -> [s EXCEPT !.open = c.mtype, !.body = <<>>]
                       [] c.op = "write"   -> [s EXCEPT !.body = @ \o c.bytes]
                       [] c.op = "headers" -> [s EXCEPT !.body = @ \o HeaderBytes(c.headers)]
                       [] c.op = "end"     -> [s EXCEPT !.open = -1,
                                                  !.out = @ \o <<s.open>> \o SInt(Len(s.body) + 4, 4) \o s.body]
                       [] c.op = "whole"   -> [s EXCEPT !.out = @ \o <<c.mtype>> \o SInt(4, 4)]
        last == state[Len(calls)]
    IN  IF last.bad \/ last.open # -1 THEN NoBytes ELSE last.out

MessagesSound(calls) == Written(calls) = Framing(calls)
=============================================================================
