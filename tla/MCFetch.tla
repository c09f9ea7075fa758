------------------------------ MODULE MCFetch ------------------------------
EXTENDS Fetch

CONSTANTS q, u, d, s, A, B, C

\* The migration changes the types of the queries: no codec can be built for
\* the new ones of u; d returns nothing before it, and afterwards its
\* arguments do not fit.
TypesBySchema ==
    [k \in {q, u, d, s} |-> [v \in 0..1 |-> IF v = 0 THEN A ELSE IF k = u THEN C ELSE B]]

OldD == {<<d, A>>}
NewD == {<<d, B>>}

FourModes ==
    {[http |-> p = 3, protocol |-> IF p = 3 THEN 2 ELSE p, sendsCaps |-> p # 1] : p \in 0..3}

TwoAttempts == [e \in Retryable |-> 2]
=============================================================================
