----------------------------- MODULE QueryText -----------------------------
(***************************************************************************)
(* How an expression of the query builder becomes EdgeQL                   *)
(* (src/syntax/toEdgeQL.ts).  Expressions are objects that refer to each   *)
(* other: a query is a sequence q of nodes, and an expression its index;   *)
(* 0 is null.  What is used more than once, aliased or listed by e.with()  *)
(* is extracted into a WITH block, and so is what a select or an update    *)
(* ranges over: their scope.                                               *)
(*                                                                         *)
(* A node is [k, args, expr, scope, from, var, refs, obj]: its kind; what  *)
(* it is made of, in the order in which it is walked; the expression it is *)
(* about; its scope; the expression that it is a scope of; the variable of *)
(* a FOR; the refs of e.with(), or the parameters of e.params(); whether   *)
(* its elements are objects.  The text is a tree that keeps the names:     *)
(* [with, parts, under, var] with what a block declares, or [use, of], a   *)
(* name and what it is meant to be the name of.                            *)
(***************************************************************************)
EXTENDS Integers, Sequences, SequencesExt

Scoping == {"select", "update"}
Opening == {"select", "update", "insert", "for"}   \* a scope of their own
Paths   == {"path", "is"}

Node(k) == [k |-> k, args |-> <<>>, expr |-> 0, scope |-> 0, from |-> 0, var |-> 0,
            refs |-> <<>>, obj |-> FALSE]

-----------------------------------------------------------------------------
(* walkExprTree(): w is [order, count, parents, children, bound, aliases,  *)
(* root, error], what it has seen.                                         *)

NothingSeen(q) ==
    LET each(v) == [e \in DOMAIN q |-> v]
    IN  [order |-> <<>>, count |-> each(0), parents |-> each(<<>>), children |-> each(<<>>),
         bound |-> each(0), aliases |-> each(<<>>), root |-> 0, error |-> FALSE]

\* A path of a scope is walked no further.
Unwalked(q, e) == q[e].k = "path" /\ q[e].expr # 0 /\ q[q[e].expr].from # 0

\* What is walked from e, and in which scope.
Walked(q, e, scope) ==
    LET inner == IF q[e].k \in Opening THEN e
                 ELSE IF q[e].k = "conflict" THEN q[e].expr ELSE scope
        about == IF q[e].k = "conflict" THEN scope ELSE inner
    IN  [i \in DOMAIN q[e].args |-> [e |-> q[e].args[i], scope |-> inner]]
        \o IF q[e].expr = 0 THEN <<>> ELSE <<[e |-> q[e].expr, scope |-> about]>>

Added(seq, x) == IF Contains(seq, x) THEN seq ELSE Append(seq, x)

RECURSIVE Walk(_, _, _, _)

Walk(q, e, scope, w) ==
    LET rooted  == IF w.root = 0 THEN [w EXCEPT !.root = scope] ELSE w
        met     == [rooted EXCEPT !.count[e] = @ + 1, !.parents[e] = Added(@, scope)]
        first   == [met EXCEPT !.order = Append(@, e)]
        child(acc, c) ==
            LET after == Walk(q, c.e, c.scope, acc)
            IN  [after EXCEPT !.children[e] = Append(@, c.e) \o after.children[c.e]]
        deep    == IF Unwalked(q, e) THEN [first EXCEPT !.children[e] = <<q[e].expr>>]
                   ELSE FoldLeft(child, first, Walked(q, e, scope))
        ref(acc, r) ==
            LET after == Walk(q, r, q[e].expr, acc)
            IN  [after EXCEPT !.error = @ \/ after.bound[r] # 0, !.bound[r] = q[e].expr]
    IN  IF Contains(w.order, e) THEN met
        ELSE
        CASE q[e].k = "alias"  -> [deep EXCEPT !.aliases[q[e].expr] = Append(@, e)]
          [] q[e].k = "with"   -> FoldLeft(ref, deep, q[e].refs)
          [] q[e].k = "params" /\ scope # 0 -> [first EXCEPT !.error = TRUE]
          [] OTHER -> deep

-----------------------------------------------------------------------------
(* The extraction loop of $toEdgeQL(): x is [todo, vars, blocks, error];   *)
(* a variable is [e, name, scope, scoped].                                 *)

VarsOf(x) == {x.vars[i].e : i \in DOMAIN x.vars}
VarOf(x, e) == x.vars[CHOOSE i \in DOMAIN x.vars : x.vars[i].e = e]

Inside(w, scope) == {scope} \cup ToSet(w.children[scope])

\* The block of an expression that e.with() does not list: the first of its
\* scopes that contains the others, else the root.
BlockOf(w, x, parents) ==
    LET resolved == [i \in DOMAIN parents |->
                        IF parents[i] \in VarsOf(x) THEN VarOf(x, parents[i]).scope ELSE parents[i]]
        tops     == {i \in DOMAIN resolved : ToSet(resolved) \subseteq Inside(w, resolved[i])}
    IN  IF tops = {} THEN w.root ELSE resolved[CHOOSE i \in tops : \A j \in tops : i <= j]

\* A variable that was extracted before is given a new name.
WithVar(x, e, var) ==
    IF e \notin VarsOf(x) THEN [x EXCEPT !.vars = Append(@, var)]
    ELSE [x EXCEPT !.vars = [i \in DOMAIN @ |-> IF @[i].e = e THEN var ELSE @[i]]]

\* Adds e and its aliases to a block, but for those bound to another one.
Extracted(w, x, e, block) ==
    LET add(acc, v) ==
            IF w.bound[v] \notin {0, w.bound[e]} THEN acc
            ELSE WithVar([acc EXCEPT !.blocks[block] = Added(@, v)], v,
                         [e |-> v, name |-> <<<<"with", Len(acc.vars)>>>>,
                          scope |-> block, scoped |-> 0])
    IN  FoldLeft(add, x, <<e>> \o w.aliases[e])

\* The scope of e becomes a variable, rendered as what it is a scope of.
WithScope(q, x, e) ==
    IF q[e].k \notin Scoping \/ q[e].scope = 0 \/ q[e].scope \in VarsOf(x) THEN x
    ELSE [x EXCEPT !.vars = Append(@, [e |-> q[e].scope, name |-> <<<<"scope", Len(x.vars)>>>>,
                                       scope |-> e, scoped |-> IF q[e].obj THEN q[e].expr ELSE 0])]

RECURSIVE Extract(_, _, _)

Extract(q, w, x) ==
    IF x.todo = <<>> \/ x.error THEN x
    ELSE LET e       == Head(x.todo)
             next    == [x EXCEPT !.todo = Tail(@)]
             scoped  == WithScope(q, next, e)
             parents == SelectSeq(w.parents[e], LAMBDA p : p # 0)
             waits   == w.bound[e] = 0 /\ \E i \in DOMAIN parents : Contains(next.todo, parents[i])
             block   == IF w.bound[e] # 0 THEN w.bound[e] ELSE BlockOf(w, scoped, parents)
             used    == ToSet(w.parents[e]) \cup UNION {ToSet(w.parents[a]) : a \in ToSet(w.aliases[e])}
         IN  IF \/ e \in VarsOf(x)
                \/ w.bound[e] = 0 /\ q[e].k \in Paths
                \/ q[e].k \in {"forvar", "param"} THEN Extract(q, w, next)
             ELSE IF w.count[e] <= 1 /\ w.bound[e] = 0 /\ w.aliases[e] = <<>> THEN Extract(q, w, scoped)
             ELSE IF waits THEN Extract(q, w, [scoped EXCEPT !.todo = Append(@, e)])
             ELSE IF block = 0 \/ ~(used \subseteq Inside(w, block)) THEN [scoped EXCEPT !.error = TRUE]
             ELSE Extract(q, w, Extracted(w, scoped, e, block))

-----------------------------------------------------------------------------
(* renderEdgeQL(): r is [tree, names, fors, error]; names are the current  *)
(* names of the variables, which the rendering of a block may change, fors *)
(* the names of the FOR variables so far, ctx is [this, under]: the        *)
(* variable that is being declared and the expressions named _.            *)

Use(name, e) == [use |-> name, of |-> e]
Text(with, parts, under, var) == [with |-> with, parts |-> parts, under |-> under, var |-> var]
NoVar  == Use(<<>>, 0)
NoText == Text(<<>>, <<>>, 0, NoVar)

\* props are the variables that have become properties of the one declared.
Declare(name, e, tree, props) == [name |-> name, of |-> e, tree |-> tree, props |-> props]

\* topoSortWithVars(): variables come after those they refer to.
RECURSIVE Place(_, _, _, _)
Place(w, vars, v, sorted) ==
    IF Contains(sorted, v) THEN sorted
    ELSE Append(FoldLeft(LAMBDA acc, c : IF Contains(vars, c) THEN Place(w, vars, c, acc) ELSE acc,
                         sorted, w.children[v]), v)

\* Faulty variant: variables are declared in the order they were found in.
Unsorted(w, vars) == vars

Sorted(w, vars) == FoldLeft(LAMBDA acc, v : Place(w, vars, v, acc), <<>>, vars)

Suffixed(name, suffix) == <<Append(name[1], suffix)>>

Named(r, v, name) == [r EXCEPT !.names[v] = name]

AddTree(done, r) == [trees |-> Append(done.trees, r.tree), r |-> r]
AddVar(done, v, r) == [decls |-> Append(done.decls, Declare(r.names[v], v, r.tree, <<>>)), r |-> r]

RECURSIVE Render(_, _, _, _, _, _)

\* Renders a sequence after what is done: [trees, r].
RenderAll(q, w, x, es, ctx, done) ==
    FoldLeft(LAMBDA acc, e : AddTree(acc, Render(q, w, x, e, ctx, acc.r)), done, es)

\* renderWithBlockExpr() of variables, after what is done: [decls, r].
RenderVars(q, w, x, vs, ctx, done) ==
    LET body(v) == IF VarOf(x, v).scoped # 0 THEN VarOf(x, v).scoped ELSE v
    IN  FoldLeft(LAMBDA acc, v : AddVar(acc, v, Render(q, w, x, body(v), [ctx EXCEPT !.this = v], acc.r)),
                 done, vs)

\* The variable of the scope of e, or 0.
ScopeOf(q, x, e) ==
    IF q[e].k \in Scoping /\ q[e].scope \in VarsOf(x) THEN q[e].scope ELSE 0

\* The FOR that computes the variables that refer to a scope, which become
\* properties of it: they are renamed after it.
ComputedScope(scope, name, inner, target, loop) ==
    LET row    == Use(Suffixed(name, "inner"), scope)
        props  == [i \in DOMAIN inner |-> Use(loop.r.names[inner[i]], inner[i])]
        union  == Text(loop.decls, <<row>> \o props, 0, NoVar)
        for    == Text(<<>>, <<Use(Suffixed(name, "expr"), scope), union>>, 0, row)
        rename(r, v) == [r EXCEPT !.names[v] = name \o @]
    IN  [decls |-> target.decls \o <<Declare(name, scope, for, props)>>,
         r |-> FoldLeft(rename, Named(loop.r, scope, name), inner)]

\* The scope of a block, after its other variables.
RenderScope(q, w, x, scope, name, inner, ctx, outer) ==
    LET as(done, suffix) == [done EXCEPT !.r = Named(@, scope, Suffixed(name, suffix))]
        computed(target) ==
            ComputedScope(scope, name, inner, target,
                          RenderVars(q, w, x, inner, ctx, [as(target, "inner") EXCEPT !.decls = <<>>]))
    IN  IF inner = <<>> THEN RenderVars(q, w, x, <<scope>>, ctx, outer)
        ELSE computed(RenderVars(q, w, x, <<scope>>, ctx, as(outer, "expr")))

\* The WITH block of e: [decls, r].
WithBlock(q, w, x, e, ctx, r) ==
    LET scope == ScopeOf(q, x, e)
        of(v) == scope # 0 /\ Contains(w.children[v], scope)
        vars  == Sorted(w, x.blocks[e])
        outer == RenderVars(q, w, x, SelectSeq(vars, LAMBDA v : ~of(v)), ctx, [decls |-> <<>>, r |-> r])
    IN  IF scope = 0 THEN outer
        ELSE RenderScope(q, w, x, scope, r.names[scope], SelectSeq(vars, of), ctx, outer)

\* The parts of e in the order in which they are rendered.
Parts(q, e) ==
    CASE q[e].k = "select" -> <<IF q[e].obj /\ q[e].scope # 0 THEN q[e].scope ELSE q[e].expr>> \o q[e].args
      [] q[e].k = "update" -> <<q[e].scope>> \o q[e].args
      [] q[e].k = "insert" -> q[e].args
      [] q[e].k = "for"    -> q[e].args \o <<q[e].expr>>
      [] OTHER             -> q[e].args \o IF q[e].expr = 0 THEN <<>> ELSE <<q[e].expr>>

First(s)  == IF s = <<>> THEN <<>> ELSE <<Head(s)>>
Others(s) == IF s = <<>> THEN <<>> ELSE Tail(s)

\* Whether e is rendered as a name.
HasName(x, ctx, e) == e \in VarsOf(x) \cup ctx.under

\* What a select ranges over is _ in its modifiers when they cannot name it.
UnderOf(q, x, e, ctx) ==
    IF q[e].k = "select" /\ ~q[e].obj /\ q[e].args # <<>> /\ ~HasName(x, ctx, q[e].expr)
    THEN q[e].expr ELSE 0

\* e after its block.
RenderBody(q, w, x, e, ctx, under, block) ==
    LET var    == <<<<"for", Cardinality(DOMAIN block.r.fors)>>>>
        opened == IF q[e].k # "for" THEN block.r
                  ELSE [block.r EXCEPT !.fors = (q[e].var :> var) @@ @]
        head   == RenderAll(q, w, x, First(Parts(q, e)), ctx, [trees |-> <<>>, r |-> opened])
        all    == RenderAll(q, w, x, Others(Parts(q, e)),
                            [ctx EXCEPT !.under = @ \cup ({under} \ {0})], head)
        params == [i \in DOMAIN q[e].refs |->
                      Declare(<<<<"param", q[e].refs[i]>>>>, q[e].refs[i], NoText, <<>>)]
    IN  [all.r EXCEPT !.tree =
            Text(IF q[e].k = "params" THEN params ELSE block.decls, all.trees, under,
                 IF q[e].k = "for" THEN Use(var, q[e].var) ELSE NoVar)]

Render(q, w, x, e, ctx, r) ==
    LET name(v) == [r EXCEPT !.tree = Use(IF v \in ctx.under THEN <<<<"_">>>> ELSE r.names[v], v)]
        refused == [r EXCEPT !.error = TRUE]
        of      == q[e].expr
    IN  IF HasName(x, ctx, e) /\ ctx.this # e THEN name(e)
        ELSE
        CASE q[e].k = "alias" -> IF HasName(x, ctx, of) THEN name(of) ELSE refused
          [] q[e].k = "param" -> [r EXCEPT !.tree = Use(<<<<"param", e>>>>, e)]
          [] q[e].k = "forvar" -> IF e \notin DOMAIN r.fors THEN refused
                                  ELSE [r EXCEPT !.tree = Use(r.fors[e], e)]
          [] q[e].k = "detached" -> Render(q, w, x, of, [ctx EXCEPT !.this = of], r)
          [] q[e].k = "with" -> Render(q, w, x, of, ctx, r)
          [] OTHER -> RenderBody(q, w, x, e, ctx, UnderOf(q, x, e, ctx), WithBlock(q, w, x, e, ctx, r))

\* $toEdgeQL(): [tree, error].
ToEdgeQL(q, e) ==
    LET w == Walk(q, e, 0, NothingSeen(q))
        x == Extract(q, w, [todo |-> w.order, vars |-> <<>>, blocks |-> [b \in DOMAIN q |-> <<>>],
                            error |-> FALSE])
        r == Render(q, w, x, e, [this |-> 0, under |-> {}],
                    [tree |-> NoText, fors |-> <<>>, error |-> FALSE,
                     names |-> [v \in DOMAIN q |-> IF v \in VarsOf(x) THEN VarOf(x, v).name ELSE <<>>]])
    IN  IF w.error \/ x.error THEN [tree |-> NoText, error |-> TRUE]
        ELSE [tree |-> r.tree, error |-> r.error]
-----------------------------------------------------------------------------
(* What EdgeQL makes of the text: env are the pairs <<name, expression>> in *)
(* scope.                                                                  *)

RECURSIVE Resolves(_, _)

Shadow(env, new) == {p \in env : \A n \in new : n[1] # p[1]} \cup new

Resolves(tree, env) ==
    LET new(d)    == {<<d.name, d.of>>} \cup {<<d.name \o d.props[i].use, d.props[i].of>> : i \in DOMAIN d.props}
        declared[i \in 0..Len(tree.with)] ==
            IF i = 0 THEN env ELSE Shadow(declared[i - 1], new(tree.with[i]))
        all       == declared[Len(tree.with)]
        bound     == {<<tree.var.use, tree.var.of>>} \cup {<<<<<<"_">>>>, tree.under>>}
        later     == Shadow(all, {b \in bound : b[2] # 0})
    IN  IF "use" \in DOMAIN tree THEN <<tree.use, tree.of>> \in env
        ELSE /\ \A i \in DOMAIN tree.with :
                    /\ Len(tree.with[i].name) = 1
                    /\ \A j \in 1..(i - 1) : tree.with[j].name # tree.with[i].name
                    /\ Resolves(tree.with[i].tree, declared[i - 1])
             /\ \A i \in DOMAIN tree.parts :
                    Resolves(tree.parts[i], IF i = 1 THEN all ELSE later)
=============================================================================
