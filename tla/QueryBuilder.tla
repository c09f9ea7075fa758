--------------------------- MODULE QueryBuilder ---------------------------
(***************************************************************************)
(* The functions that make the expressions of QueryText: paths             *)
(* (src/syntax/path.ts), e.select(), e.update(), e.insert(), e.for(),      *)
(* e.with(), e.alias(), e.detached().  Each appends a node to a query.     *)
(***************************************************************************)
EXTENDS QueryText

\* e.Type, the set of all objects of a type.
Root == [Node("path") EXCEPT !.obj = TRUE]

\* PathNode() and PathLeaf(): a link or a property of p.
PathNode(p) == [Node("path") EXCEPT !.expr = p, !.obj = TRUE]
PathLeaf(p) == [Node("path") EXCEPT !.expr = p]

\* $getScopedExpr(): a copy of what the closure of a select ranges over.
ScopedExpr(q, e) == [q[e] EXCEPT !.from = e]

\* select() with a closure that returns args, and without one.
Select(q, e, scope, args) ==
    [Node("select") EXCEPT !.expr = e, !.scope = scope, !.args = args, !.obj = q[e].obj]

Update(q, e, scope, args) ==
    [Node("update") EXCEPT !.expr = e, !.scope = scope, !.args = args, !.obj = TRUE]

Insert(e, args) == [Node("insert") EXCEPT !.expr = e, !.args = args, !.obj = TRUE]

For(q, set, var, e) ==
    [Node("for") EXCEPT !.args = <<set>>, !.var = var, !.expr = e, !.obj = q[e].obj]

With(q, refs, e) == [Node("with") EXCEPT !.refs = refs, !.expr = e, !.obj = q[e].obj]

Alias(q, e)    == [Node("alias") EXCEPT !.expr = e, !.obj = q[e].obj]
Detached(q, e) == [Node("detached") EXCEPT !.expr = e, !.obj = q[e].obj]

\* A function, an operator, a tuple or a literal.
Op(args) == [Node("op") EXCEPT !.args = args]
=============================================================================
