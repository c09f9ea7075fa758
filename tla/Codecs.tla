------------------------------ MODULE Codecs ------------------------------
(***************************************************************************)
(* The codecs of src/codecs/*.ts: arguments encoded into bytes, results    *)
(* decoded from them.  A codec is a record [kind, ...]:                    *)
(*   [kind |-> "scalar", type], [kind |-> "array", sub, len],              *)
(*   [kind |-> "set", sub], [kind |-> "tuple", subs],                      *)
(*   [kind |-> "namedtuple", subs, names],                                 *)
(*   [kind |-> "object", subs, names, cards].                              *)
(* A result or arguments with names are a function from the names.  Null   *)
(* is null and undefined; NoBytes is what throws.                          *)
(*                                                                         *)
(* Numerics are groups of Group digits of a Radix, four decimal digits in  *)
(* the program.                                                            *)
(***************************************************************************)
EXTENDS Wire, FiniteSets

CONSTANTS Null, Radix, Group, NumericNeg

-----------------------------------------------------------------------------
(* Digits.                                                                 *)

NBASE == Radix^Group

\* The digits of a number that is not negative, as toString() gives them.
RECURSIVE DigitsOf(_)
DigitsOf(n) == IF n < Radix THEN <<n>> ELSE DigitsOf(n \div Radix) \o <<n % Radix>>

NumberOf(digits) ==
    LET upTo[n \in 0..Len(digits)] == IF n = 0 THEN 0 ELSE Radix * upTo[n - 1] + digits[n]
    IN  upTo[Len(digits)]

Zeros(n) == [i \in 1..(IF n > 0 THEN n ELSE 0) |-> 0]
PadStart(digits, len) == Zeros(len - Len(digits)) \o digits
PadEnd(digits, len) == digits \o Zeros(len - Len(digits))

CeilDiv(a, b) == -((-a) \div b)
UpToGroup(n) == CeilDiv(n, Group) * Group

RECURSIVE Concat(_)
Concat(seqs) == IF seqs = <<>> THEN <<>> ELSE Head(seqs) \o Concat(Tail(seqs))

\* The header of a numeric and its groups.
Numeric(ndigits, weight, neg, dscale, groups) ==
    UInt(ndigits, 2) \o SInt(weight, 2) \o UInt(IF neg THEN NumericNeg ELSE 0, 2) \o UInt(dscale, 2)
    \o Concat([i \in DOMAIN groups |-> UInt(groups[i], 2)])

\* BigIntCodec.encode().
EncodeBigInt(n) ==
    LET abs == IF n < 0 THEN -n ELSE n
        len == CHOOSE l \in 0..abs : NBASE^l > abs /\ \A k \in 0..(l - 1) : NBASE^k <= abs
    IN  IF n = 0 THEN Numeric(0, 0, FALSE, 0, <<>>)
        ELSE Numeric(len, len - 1, n < 0, 0, [i \in 1..len |-> (abs \div NBASE^(len - i)) % NBASE])

\* The fields of a numeric: the groups are read as they are needed.
Fields(b) ==
    [ndigits |-> ReadUInt(b, 2), weight |-> ReadInt(Left(b, 2), 2), sign |-> ReadUInt(Left(b, 4), 2),
     dscale |-> ReadUInt(Left(b, 6), 2),
     groups |-> [i \in 1..((Len(b) - 8) \div 2) |-> ReadUInt(Left(b, 8 + 2 * (i - 1)), 2)]]

\* decodeBigIntToString() and BigInt().
DecodeBigInt(b) ==
    LET f    == Fields(b)
        text == Concat([i \in 1..(f.weight + 1) |->
                    IF i > f.ndigits THEN Zeros(Group)
                    ELSE IF i = 1 THEN DigitsOf(f.groups[i]) ELSE PadStart(DigitsOf(f.groups[i]), Group)])
    IN  IF f.sign \notin {0, NumericNeg} \/ f.dscale # 0 THEN NoBytes
        ELSE IF f.ndigits = 0 THEN 0
        ELSE IF f.sign = 0 THEN NumberOf(text) ELSE -NumberOf(text)

\* DecimalStringCodec.encode() of the parts [neg, whole, frac, exp] of a text.
\* The groups are cut at the point of the text: the exponent moves the weight
\* by whole groups only.
EncodeDecimal(t) ==
    LET digits == PadStart(t.whole, UpToGroup(Len(t.whole))) \o PadEnd(t.frac, UpToGroup(Len(t.frac)))
        groups == [i \in 1..(Len(digits) \div Group) |->
                      NumberOf(SubSeq(digits, Group * (i - 1) + 1, Group * i))]
        dscale == Len(t.frac) - t.exp
    IN  Numeric(Len(groups), CeilDiv(Len(t.whole) + t.exp, Group) - 1, t.neg,
                IF dscale > 0 THEN dscale ELSE 0, groups)

\* Faulty variant: a group is written as toString() gives it.
UnpaddedGroup(group, first) == DigitsOf(group)

\* The digits of a group: only the first may lack leading zeros.
GroupDigits(group, first) == IF first THEN DigitsOf(group) ELSE PadStart(DigitsOf(group), Group)

\* decodeDecimalToString(): the groups before the point, then those after it,
\* cut to dscale digits.
DecodeDecimal(b) ==
    LET f      == Fields(b)
        at(d)  == IF d >= 0 /\ d < f.ndigits THEN f.groups[d + 1] ELSE 0
        whole  == IF f.weight < 0 THEN <<0>>
                  ELSE Concat([i \in 1..(f.weight + 1) |-> GroupDigits(at(i - 1), i = 1)])
        frac   == Concat([i \in 1..CeilDiv(f.dscale, Group) |->
                             GroupDigits(at(f.weight + i), FALSE)])
    IN  IF f.sign \notin {0, NumericNeg} THEN NoBytes
        ELSE [neg |-> f.sign # 0, whole |-> whole, frac |-> SubSeq(frac, 1, f.dscale), exp |-> 0]

-----------------------------------------------------------------------------
(* Scalars.  A text is the sequence of the bytes of its encoding; a UUID   *)
(* is a sequence of hexadecimal digits, of which a byte has two, and dashes.*)

Scalars == {"int16", "int32", "int64", "bigint64", "bool", "str", "bytes", "json", "uuid",
            "bigint", "decimal"}

Root == CHOOSE r \in 1..16 : r * r = Base
Dash == Root

EncodeUUID(text) ==
    LET clean == SelectSeq(text, LAMBDA h : h # Dash)
        hex   == IF Len(text) = 32 THEN text ELSE clean
    IN  IF Len(hex) # 32 \/ \E i \in DOMAIN hex : hex[i] = Dash THEN NoBytes
        ELSE [i \in 1..16 |-> Root * hex[2 * i - 1] + hex[2 * i]]

DecodeUUID(b) == [i \in 1..32 |-> IF i % 2 = 1 THEN b[(i + 1) \div 2] \div Root ELSE b[i \div 2] % Root]

ScalarBytes(type, v) ==
    CASE type = "int16"    -> SInt(v, 2)
      [] type = "int32"    -> SInt(v, 4)
      [] type = "int64"    -> Int64(v)
      [] type = "bigint64" -> BigInt64(v)
      [] type = "bool"     -> <<IF v THEN 1 ELSE 0>>
      [] type \in {"str", "bytes"} -> v
      [] type = "json"     -> <<1>> \o v
      [] type = "uuid"     -> EncodeUUID(v)
      [] type = "bigint"   -> EncodeBigInt(v)
      [] type = "decimal"  -> EncodeDecimal(v)

\* The decoders: an element that is not read to its end is refused by finish(),
\* so that of a fixed width has to be just that long.
ScalarValue(type, b) ==
    CASE type = "int16"    -> IF Len(b) # 2 THEN NoBytes ELSE ReadInt(b, 2)
      [] type = "int32"    -> IF Len(b) # 4 THEN NoBytes ELSE ReadInt(b, 4)
      [] type = "int64"    -> IF Len(b) # 8 THEN NoBytes ELSE ReadInt64(b)
      [] type = "bigint64" -> IF Len(b) # 8 THEN NoBytes ELSE ReadBigInt64(b)
      [] type = "bool"     -> IF Len(b) # 1 THEN NoBytes ELSE b[1] # 0
      [] type \in {"str", "bytes"} -> b
      [] type = "json"     -> IF b = <<>> \/ b[1] # 1 THEN NoBytes ELSE Tail(b)
      [] type = "uuid"     -> IF Len(b) # 16 THEN NoBytes ELSE DecodeUUID(b)
      [] type = "bigint"   -> IF Len(b) < 8 THEN NoBytes ELSE DecodeBigInt(b)
      [] type = "decimal"  -> IF Len(b) < 8 THEN NoBytes ELSE DecodeDecimal(b)

-----------------------------------------------------------------------------
(* Encoding of arguments.                                                  *)

NullElement == SInt(-1, 4)

\* An element with its length before it.
Framed(bytes) == IF bytes = NoBytes THEN NoBytes ELSE SInt(Len(bytes), 4) \o bytes

Joint(parts) == IF \E i \in DOMAIN parts : parts[i] = NoBytes THEN NoBytes ELSE Concat(parts)

\* ArrayCodec.encode(): of scalars only.
ArrayBytes(c, v) ==
    LET elements == Joint([i \in DOMAIN v |->
                        IF v[i] = Null THEN NullElement ELSE Framed(ScalarBytes(c.sub.type, v[i]))])
    IN  IF c.sub.kind # "scalar" \/ elements = NoBytes THEN NoBytes
        ELSE SInt(1, 4) \o SInt(0, 4) \o SInt(0, 4) \o SInt(Len(v), 4) \o SInt(1, 4) \o elements

\* encode() of the codecs: tuples, sets and objects are no arguments.
EncodeElement(c, v) ==
    CASE c.kind = "scalar" -> Framed(ScalarBytes(c.type, v))
      [] c.kind = "array"  -> Framed(ArrayBytes(c, v))
      [] OTHER             -> NoBytes

\* Faulty variant: the cardinality of an argument is not looked at.
NeverRequired(c, i) == FALSE

\* ONE and AT_LEAST_ONE; only the fields of objects have a cardinality.
Required(c, i) == c.kind = "object" /\ c.cards[i] \in {"ONE", "AT_LEAST_ONE"}

\* One argument: reserved bytes, then the value.
Argument(c, i, v) ==
    IF v # Null
    THEN LET e == EncodeElement(c.subs[i], v) IN IF e = NoBytes THEN NoBytes ELSE SInt(0, 4) \o e
    ELSE IF Required(c, i) THEN NoBytes ELSE SInt(0, 4) \o NullElement

Arguments(c, values) ==
    LET elements == Joint([i \in DOMAIN c.subs |-> Argument(c, i, values[i])])
    IN  IF elements = NoBytes THEN NoBytes
        ELSE Framed(SInt(Len(c.subs), 4) \o elements)

\* encodeArgs() of a tuple or object with positional arguments: a sequence.
EncodePositional(c, args) == IF Len(args) # Len(c.subs) THEN NoBytes ELSE Arguments(c, args)

\* encodeArgs() of one with names: only the number of the arguments is checked.
EncodeNamed(c, args) ==
    LET value(i) == IF c.names[i] \in DOMAIN args THEN args[c.names[i]] ELSE Null
    IN  IF Cardinality(DOMAIN args) > Len(c.subs) THEN NoBytes ELSE Arguments(c, [i \in DOMAIN c.subs |-> value(i)])

-----------------------------------------------------------------------------
(* Decoding of results.                                                    *)

RECURSIVE Decode(_, _)

\* What precedes the length of an element: its reserved bytes in a record; in a
\* set of arrays the size of the element, which is read and discarded, and the
\* head of a record of one element.
Preceding(of) == CASE of = "array" -> 0 [] of = "record" -> 4 [] of = "envelope" -> 12

\* The loop over the elements of b, each with its codec of subs; the values, or
\* NoBytes.
Elements(b, of, subs) ==
    LET n    == Len(subs)
        head == Preceding(of)
        next[i \in 0..n] ==
            IF i = 0 THEN [left |-> b, values |-> <<>>]
            ELSE IF next[i - 1] = NoBytes \/ Len(next[i - 1].left) < head + 4 THEN NoBytes
            ELSE LET len  == ReadInt(Left(next[i - 1].left, head), 4)
                     rest == Left(next[i - 1].left, head + 4)
                     v    == Decode(subs[i], SubSeq(rest, 1, len))
                 IN  IF of = "envelope" /\ (ReadUInt(Left(next[i - 1].left, 4), 4) # 1 \/ len = -1) THEN NoBytes
                     ELSE IF len = -1 THEN [left |-> rest, values |-> Append(next[i - 1].values, Null)]
                     ELSE IF len > Len(rest) THEN NoBytes
                     ELSE IF v = NoBytes THEN NoBytes
                     ELSE [left |-> Left(rest, len), values |-> Append(next[i - 1].values, v)]
    IN  IF next[n] = NoBytes \/ next[n].left # <<>> THEN NoBytes ELSE next[n].values

\* What the values of a tuple's or an object's codec are returned as.
Returned(c, values) ==
    IF c.kind = "tuple" THEN values
    ELSE [name \in {c.names[i] : i \in DOMAIN c.names} |->
             values[CHOOSE i \in DOMAIN c.names : c.names[i] = name]]

\* decode() of tuples, named tuples and objects.
DecodeFields(c, b) ==
    LET values == Elements(Left(b, 4), "record", c.subs)
    IN  IF Len(b) < 4 \/ ReadUInt(b, 4) # Len(c.subs) THEN NoBytes
        ELSE IF values = NoBytes THEN NoBytes ELSE Returned(c, values)

\* decode() of arrays, decodeSet() and decodeSetOfArrays(): no dimension is no
\* element.
DecodeArray(c, b) ==
    LET dims == ReadInt(b, 4)
        len  == ReadUInt(Left(b, 12), 4)
        of   == IF c.kind = "set" /\ c.sub.kind = "array" THEN "envelope" ELSE "array"
    IN  IF Len(b) < 12 THEN NoBytes
        ELSE IF dims = 0 THEN IF Len(b) = 12 THEN <<>> ELSE NoBytes
        ELSE IF dims # 1 \/ Len(b) < 20 THEN NoBytes
        ELSE IF c.kind = "array" /\ c.len # -1 /\ c.len # len THEN NoBytes
        ELSE Elements(Left(b, 20), of, [i \in 1..len |-> c.sub])

Decode(c, b) ==
    CASE c.kind = "scalar"   -> ScalarValue(c.type, b)
      [] c.kind \in {"array", "set"} -> DecodeArray(c, b)
      [] OTHER               -> DecodeFields(c, b)

-----------------------------------------------------------------------------
(* What the server sends of a value.                                       *)

RECURSIVE ServerData(_, _)
ServerData(c, v) ==
    LET element(sub, x) == IF x = Null THEN NullElement ELSE Framed(ServerData(sub, x))
        reserved(sub, x) == SInt(0, 4) \o element(sub, x)
        array(parts) == SInt(1, 4) \o SInt(0, 4) \o SInt(0, 4) \o SInt(Len(parts), 4) \o SInt(1, 4) \o Concat(parts)
    IN  CASE c.kind = "scalar" -> ScalarBytes(c.type, v)
          [] c.kind \in {"array", "set"} /\ v = <<>> -> SInt(0, 4) \o SInt(0, 4) \o SInt(0, 4)
          [] c.kind = "set" /\ c.sub.kind = "array" /\ v # <<>> ->
                 array([i \in DOMAIN v |-> Framed(SInt(1, 4) \o reserved(c.sub, v[i]))])
          [] (c.kind = "array" \/ (c.kind = "set" /\ c.sub.kind # "array")) /\ v # <<>> ->
                 array([i \in DOMAIN v |-> element(c.sub, v[i])])
          [] OTHER -> SInt(Len(c.subs), 4) \o
                      Concat([i \in DOMAIN c.subs |->
                                 reserved(c.subs[i], IF c.kind = "tuple" THEN v[i] ELSE v[c.names[i]])])
=============================================================================
