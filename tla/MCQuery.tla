------------------------------ MODULE MCQuery ------------------------------
(* A family of queries: an inner select, update, insert or for, in a       *)
(* select; three expressions x, y and z are used in both, y and z may use  *)
(* x and the variables in scope.  What is expected of their text.          *)
EXTENDS QueryBuilder

\* How often an expression is used in the outer and in the inner query.
Uses == {<<0, 0>>, <<2, 0>>, <<0, 2>>, <<1, 1>>}
Inner == {"select", "update", "insert", "for"}
Queries ==
    [kind : Inner, src : {"root", "link"}, x : {"lit", "s1", "s2"},
     y : {"lit", "x", "alias", "s1"}, z : {"lit", "xy", "s2", "select"},
     ux : Uses, uy : Uses, uz : Uses, with : {"none", "ix", "iy", "ox"}]

Times(n, e) == [i \in 1..n |-> e]

\* The expressions of a query: 1 a root, 2 the scope of the outer query, 3 a
\* property of it, 4 what the inner one is from, 5 its scope or variable, 6 a
\* property of that, 7 x, 8 y, 9 z, 10 the inner query, 11 it in a with block,
\* 12 the outer query, 13 it in a with block.
Expressions(c) ==
    LET from   == IF c.src = "link" THEN PathNode(2) ELSE Root
        start  == <<Root, [Root EXCEPT !.from = 1], PathLeaf(2), from,
                    IF c.kind = "for" THEN Node("forvar") ELSE [from EXCEPT !.from = 4],
                    IF c.kind = "for" THEN Op(<<5>>) ELSE PathLeaf(5)>>
        x      == Op(CASE c.x = "lit" -> <<>> [] c.x = "s1" -> <<3>> [] c.x = "s2" -> <<6>>)
        y      == CASE c.y = "lit" -> Op(<<>>) [] c.y = "x" -> Op(<<7>>) [] c.y = "s1" -> Op(<<3>>)
                    [] c.y = "alias" -> Alias(start \o <<x>>, 7)
        z      == CASE c.z = "lit" -> Op(<<>>) [] c.z = "xy" -> Op(<<7, 8>>) [] c.z = "s2" -> Op(<<6>>)
                    [] c.z = "select" -> [Node("select") EXCEPT !.expr = 7, !.args = <<7>>]
        shared == start \o <<x, y, z>>
        args(i) == Times(c.ux[i], 7) \o Times(c.uy[i], 8) \o Times(c.uz[i], 9)
        inner  == CASE c.kind = "select" -> Select(shared, 4, 5, args(2))
                    [] c.kind = "update" -> Update(shared, 4, 5, args(2))
                    [] c.kind = "insert" -> Insert(1, args(2))
                    [] c.kind = "for"    -> For(shared \o <<Op(args(2))>>, 4, 5, 10)
        q11    == shared \o (IF c.kind = "for" THEN <<Op(args(2)), inner>> ELSE <<Op(<<>>), inner>>)
        wrapped == c.with \in {"ix", "iy"}
        q12    == q11 \o (IF wrapped THEN <<With(q11, <<IF c.with = "ix" THEN 7 ELSE 8>>, 11)>> ELSE <<Op(<<>>)>>)
        q13    == q12 \o <<Select(q12, 1, 2, <<IF wrapped THEN 12 ELSE 11>> \o args(1))>>
    IN  q13 \o (IF c.with = "ox" THEN <<With(q13, <<7>>, 13)>> ELSE <<>>)

\* Whether an expression uses the inner query's variable.
OfInner(c, v) ==
    LET x == c.x = "s2"
        y == c.y \in {"x", "alias"} /\ x
    IN  CASE v = "x" -> x
          [] v = "y" -> y
          [] v = "z" -> c.z = "s2" \/ (c.z \in {"xy", "select"} /\ x) \/ (c.z = "xy" /\ y)

\* The variable of a query is used in that query only, and an expression that
\* is given to a with block in that block only.
Legal(c) ==
    /\ OfInner(c, "x") => c.ux[1] = 0 /\ c.with # "ox"
    /\ OfInner(c, "y") => c.uy[1] = 0
    /\ OfInner(c, "z") => c.uz[1] = 0
    /\ c.kind = "insert" => c.src = "root" /\ c.x # "s2" /\ c.z # "s2"
    /\ c.kind = "for" => c.src = "root"
    /\ c.with = "ix" => /\ c.ux[1] = 0
                        /\ c.y \in {"x", "alias"} => c.uy[1] = 0
                        /\ c.z \in {"xy", "select"} => c.uz[1] = 0
    /\ c.with = "iy" => c.uy[1] = 0 /\ (c.z = "xy" => c.uz[1] = 0)

-----------------------------------------------------------------------------
\* All the scopes that an expression is used in, however often it is met.
RECURSIVE Met(_, _, _)
Met(q, e, scope) ==
    {<<e, scope>>}
    \cup (IF Unwalked(q, e) THEN {} ELSE UNION {Met(q, c.e, c.scope) : c \in ToSet(Walked(q, e, scope))})
    \cup (IF q[e].k = "with" THEN UNION {Met(q, r, q[e].expr) : r \in ToSet(q[e].refs)} ELSE {})

\* The walk has recorded all of them: it does not look below an expression that
\* it has seen.  No alias is used twice.
Recorded(q) ==
    LET e == Len(q) w == Walk(q, e, 0, NothingSeen(q))
    IN  /\ \A p \in Met(q, e, 0) : Contains(w.parents[p[1]], p[2])
        /\ \A a \in DOMAIN q : q[a].k = "alias" => w.count[a] <= 1

\* Every name in the text of a query is declared around it, or the query is
\* refused.
NamesResolve(q) == LET t == ToEdgeQL(q, Len(q)) IN t.error \/ Resolves(t.tree, {})
=============================================================================
