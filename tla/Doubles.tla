------------------------------ MODULE Doubles ------------------------------
(***************************************************************************)
(* The double-precision numbers that Duration.from() computes with: those  *)
(* of a decimal fraction, times 60 or 1000, and what % 1 and Math.floor()  *)
(* make of them (src/datatypes/datetime.ts).  A number is not negative,    *)
(* and is a record of its whole part and of the binary digits of the rest. *)
(***************************************************************************)
EXTENDS Integers

\* The digits that are kept after the point: 29 zeros at most before the first
\* one of a fraction of nine decimals, its 53 digits, and two that round it.
Width == 84
Positions == 1..Width

\* The significant digits of a double.
Significant == 53

Billion == 1000000000

Integral(n) == [whole |-> n, bits |-> [i \in Positions |-> 0]]
Zero == Integral(0)

\* Math.floor(v).
Floor(v) == v.whole

\* Faulty variant: the whole part stays.
Unreduced(v) == v

\* v % 1.
Fraction(v) == [whole |-> 0, bits |-> v.bits]

\* The digits that a number has before its point, or how many zeros follow it
\* (as a negative number), where v is not zero and below 2^30.
Exponent(v) ==
    IF v.whole > 0 THEN CHOOSE k \in 1..30 : 2^(k - 1) <= v.whole /\ v.whole < 2^k
    ELSE -(CHOOSE z \in 0..Width - 1 : v.bits[z + 1] = 1 /\ \A i \in 1..z : v.bits[i] = 0)

\* The nearest double; half way between two, the even one.  One that is rounded up
\* has one more in its last digit, which carries over the ones before it.
Round(v) ==
    LET last == Significant - Exponent(v)
        up   == /\ v.bits[last + 1] = 1
                /\ v.bits[last] = 1 \/ \E i \in last + 2..Width : v.bits[i] = 1
        flips(i) == up /\ \A j \in i + 1..last : v.bits[j] = 1
    IN  IF last >= Width THEN v
        ELSE [whole |-> IF flips(0) THEN v.whole + 1 ELSE v.whole,
              bits  |-> [i \in Positions |-> IF i > last THEN 0
                                             ELSE IF flips(i) THEN 1 - v.bits[i] ELSE v.bits[i]]]

\* Number("." + decimals), of n billionths.  The last digit stands for all that
\* are not kept.
Number(n) ==
    LET rest[i \in 0..Width] == IF i = 0 THEN n ELSE (2 * rest[i - 1]) % Billion
        digit(i) == IF i = Width /\ rest[i - 1] # 0 THEN 1 ELSE (2 * rest[i - 1]) \div Billion
    IN  IF n = 0 THEN Zero
        ELSE Round([whole |-> 0, bits |-> [i \in Positions |-> digit(i)]])

\* v * factor: what a digit makes carries to the one before it.
Product(v, factor) ==
    LET carry[i \in 1..Width + 1] ==
            IF i > Width THEN 0 ELSE (v.bits[i] * factor + carry[i + 1]) \div 2
    IN  IF v = Zero THEN Zero
        ELSE Round([whole |-> v.whole * factor + carry[1],
                    bits  |-> [i \in Positions |-> (v.bits[i] * factor + carry[i + 1]) % 2]])
=============================================================================
