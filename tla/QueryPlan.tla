----------------------------- MODULE QueryPlan ------------------------------
(***************************************************************************)
(* The planner: from a query (sql/query.rs, QuerySpec) to a tree of plan   *)
(* nodes (sql/plan.rs), with the access paths, the join order and the      *)
(* predicate placement of sql/optimizer.rs.                                *)
(*                                                                         *)
(* What the optimizer decides from statistics is an estimate that may be   *)
(* out of date, so the model takes every outcome: `hints` says whether the *)
(* tables are analysed, whether an index looks selective and which one,    *)
(* and in which order relations are joined.                                *)
(*                                                                         *)
(* FROM is <<"table", name, alias>>, <<"join", type, left, right, on,      *)
(* using, natural>>, <<"derived", query, alias>> or <<"dual">>.  Optional  *)
(* parts are sequences of length 0 or 1.                                   *)
(***************************************************************************)
EXTENDS SqlValues

CONSTANTS
  ColumnNames(_),   \* columns of a base table, in order
  Indexed,          \* <<table, column>> pairs with a B-tree
  hints             \* [stats, index, order, mem, fits, readonly]: choices of the planner and the runner

(* Statistics exist for the tables, and they make an index look selective. *)
Analysed == hints.stats
EstimateFavoursIndex == hints.index # "none"

Error == [node |-> "error", out |-> <<>>]
IsError(p) == p.node = "error"
OrError(ok, p) == IF ok THEN p ELSE Error

Requalified(schema, q) == MapSeq(schema, LAMBDA c : <<q, c[2]>>)
ScanOf(f) ==
  [node |-> "scan", table |-> f[2], q |-> f[3],
   out |-> MapSeq(ColumnNames(f[2]), LAMBDA n : <<f[3], n>>)]
FilterOf(p, pred) == [node |-> "filter", input |-> p, pred |-> pred, out |-> p.out]

(* and_all: the last conjunct is the innermost right operand. *)
RECURSIVE AndAll(_)
AndAll(preds) ==
  IF preds = <<>> THEN <<>>
  ELSE IF Len(preds) = 1 THEN preds
  ELSE <<And(Head(preds), AndAll(Tail(preds))[1])>>
WrapFilter(p, preds) == IF preds = <<>> THEN p ELSE FilterOf(p, AndAll(preds)[1])
-----------------------------------------------------------------------------
(* Joins. *)
HasBtree(table, col) == <<table, col>> \in Indexed

ColumnSide(e, left, right) ==
  LET inLeft == ResolveColumn(left, Attr(e)) # 0
      inRight == ResolveColumn(right, Attr(e)) # 0
  IN CASE inLeft /\ ~inRight -> "left" [] inRight /\ ~inLeft -> "right" [] OTHER -> "none"

(* The equalities between the two sides become keys <<left, right>>, the   *)
(* other conjuncts the residual.                                           *)
KeyOf(c, left, right) ==
  IF ~IsEqui(c) THEN <<>>
  ELSE LET a == Kids(c)[1] b == Kids(c)[2]
           sides == <<ColumnSide(a, left, right), ColumnSide(b, left, right)>>
       IN CASE sides = <<"left", "right">> -> <<a, b>>
            [] sides = <<"right", "left">> -> <<b, a>>
            [] OTHER -> <<>>
SplitJoinCondition(on, left, right) ==
  LET isKey(c) == KeyOf(c, left, right) # <<>>
      keys == SelectSeq(Conjuncts(on), isKey)
      rest == SelectSeq(Conjuncts(on), LAMBDA c : ~isKey(c))
  IN [left |-> MapSeq(keys, LAMBDA c : KeyOf(c, left, right)[1]),
      right |-> MapSeq(keys, LAMBDA c : KeyOf(c, left, right)[2]),
      residual |-> AndAll(rest)]

JoinNode(kind, l, r, type, ks, residual) ==
  [node |-> kind, left |-> l, right |-> r, type |-> type, lkeys |-> ks.left, rkeys |-> ks.right,
   residual |-> residual, out |-> l.out \o r.out]
NoKeys == [left |-> <<>>, right |-> <<>>]

(* A single key on an indexed base table probes the index; a FULL OUTER    *)
(* join needs the merge join; everything else with a key is hashed.        *)
PlanJoin(l, r, type, on) ==
  IF on = <<>> THEN JoinNode("loop", l, r, type, NoKeys, <<>>)
  ELSE LET ks == SplitJoinCondition(on[1], l.out, r.out) IN
       CASE ks.left = <<>> -> JoinNode("loop", l, r, type, NoKeys, on)
         [] /\ Len(ks.left) = 1 /\ type \in {"inner", "left"} /\ r.node = "scan"
            /\ HasBtree(r.table, Attr(ks.right[1])[2]) ->
              JoinNode("inlj", l, r, type, ks, ks.residual)
         [] type = "full" -> JoinNode("merge", l, r, type, ks, ks.residual)
         [] OTHER -> JoinNode("hash", l, r, type, ks, ks.residual)

ColumnOf(c) == Column(c[1], c[2])
Names(schema) == {schema[i][2] : i \in DOMAIN schema}

(* USING and NATURAL: an equality per shared column, then a projection     *)
(* that keeps one copy of it: the left one, the right one of a RIGHT join, *)
(* whichever is not NULL of a FULL OUTER join.                             *)
SharedItem(i, col, nleft, out, type) ==
  LET fromLeft == i <= nleft
      other == CHOOSE c \in {out[j] : j \in (nleft + 1)..Len(out)} : c[2] = col[2]
  IN CASE type = "full" /\ fromLeft -> <<<<col, Coalesce(<<ColumnOf(col), ColumnOf(other)>>)>>>>
       [] type \notin {"full", "right"} /\ fromLeft -> <<<<col, ColumnOf(col)>>>>
       [] type = "right" /\ ~fromLeft -> <<<<col, ColumnOf(col)>>>>
       [] OTHER -> <<>>
PlanUsingJoin(l, r, type, using) ==
  LET found(schema, n) == ResolveColumn(schema, <<"", n>>)
      eqs == MapSeq(using, LAMBDA n : Cmp("=", ColumnOf(l.out[found(l.out, n)]), ColumnOf(r.out[found(r.out, n)])))
      join == PlanJoin(l, r, type, AndAll(eqs))
      item(i) == IF join.out[i][2] \in ToSet(using)
                 THEN SharedItem(i, join.out[i], Len(l.out), join.out, type)
                 ELSE <<<<join.out[i], ColumnOf(join.out[i])>>>>
      items == FlattenSeq([i \in DOMAIN join.out |-> item(i)])
  IN OrError(\A n \in ToSet(using) : found(l.out, n) # 0 /\ found(r.out, n) # 0,
             [node |-> "project", input |-> join, items |-> MapSeq(items, LAMBDA it : it[2]),
              out |-> MapSeq(items, LAMBDA it : it[1])])
-----------------------------------------------------------------------------
(* The optimizer. *)
(* The tables and ON conjuncts of a tree of inner joins; <<>> if it is not *)
(* one.                                                                    *)
RECURSIVE FlattenInner(_)
FlattenInner(f) ==
  CASE f[1] = "table" -> <<[tables |-> <<f>>, on |-> <<>>]>>
    [] f[1] = "join" ->
         LET l == FlattenInner(f[3]) r == FlattenInner(f[4]) IN
         IF f[2] \notin {"inner", "cross"} \/ f[6] # <<>> \/ f[7] \/ l = <<>> \/ r = <<>> THEN <<>>
         ELSE <<[tables |-> l[1].tables \o r[1].tables,
                 on |-> (IF f[5] = <<>> THEN <<>> ELSE Conjuncts(f[5][1])) \o l[1].on \o r[1].on]>>
    [] OTHER -> <<>>

RelationsOf(e, outs) ==
  {i \in DOMAIN outs : \E c \in ColumnsOf(e) : ResolveColumn(outs[i], c) # 0}
RelOf(e, outs) ==
  FirstTrue(outs, LAMBDA out : ResolveColumn(out, Attr(e)) # 0)
(* An equality between columns of two relations. *)
IsEdge(e, outs) ==
  IsEqui(e) /\ LET a == RelOf(Kids(e)[1], outs) b == RelOf(Kids(e)[2], outs) IN a # 0 /\ b # 0 /\ a # b

FlipOp(op) ==
  CASE op = "<" -> ">" [] op = "<=" -> ">=" [] op = ">" -> "<" [] op = ">=" -> "<=" [] OTHER -> op
(* A comparison of a column with a constant: <<column, op, value>>. *)
SimplePredicate(e) ==
  IF Tag(e) # "cmp" THEN <<>>
  ELSE LET a == Kids(e)[1] b == Kids(e)[2] IN
       CASE Tag(a) = "col" /\ Tag(b) = "lit" -> <<Attr(a)[2], Attr(e), Attr(b)>>
         [] Tag(a) = "lit" /\ Tag(b) = "col" -> <<Attr(b)[2], FlipOp(Attr(e)), Attr(a)>>
         [] OTHER -> <<>>

(* The predicates an index could serve; the estimate picks one or none.    *)
Indexable(table, p) ==
  LET s == SimplePredicate(p) IN s # <<>> /\ s[2] # "<>" /\ HasBtree(table, s[1])
AfterBest(preds, best) == SubSeq(preds, best + 1, Len(preds))
Remaining(preds, best) == RemoveAt(preds, best)
BuildAccess(f, preds) ==
  LET scan == ScanOf(f)
      usable == {i \in DOMAIN preds : Indexable(f[2], preds[i])}
      best == IF hints.index = "first" THEN CHOOSE i \in usable : \A j \in usable : i <= j
                                       ELSE CHOOSE i \in usable : \A j \in usable : i >= j
      s == SimplePredicate(preds[best])
  IN IF usable = {} \/ ~EstimateFavoursIndex THEN WrapFilter(scan, preds)
     ELSE WrapFilter([node |-> "index", table |-> f[2], q |-> f[3], col |-> s[1], op |-> s[2],
                      value |-> s[3], out |-> scan.out, only |-> Names(scan.out) = {s[1]}],
                     Remaining(preds, best))

(* A left-deep tree in the given order; each relation is joined on the     *)
(* edges to the relations before it.                                       *)
EdgeKeys(e, r, built, outs) ==
  LET a == RelOf(Kids(e)[1], outs) b == RelOf(Kids(e)[2], outs) IN
  CASE a = r /\ b \in built -> <<Kids(e)[2], Kids(e)[1]>>
    [] b = r /\ a \in built -> <<Kids(e)[1], Kids(e)[2]>>
    [] OTHER -> <<>>
RECURSIVE BuildJoinTree(_, _, _, _)
BuildJoinTree(order, access, edges, outs) ==
  LET r == Last(order) IN
  IF Len(order) = 1 THEN access[r]
  ELSE LET before == Front(order)
           left == BuildJoinTree(before, access, edges, outs)
           ks(e) == EdgeKeys(e, r, ToSet(before), outs)
           keys == SelectSeq(edges, LAMBDA e : ks(e) # <<>>)
       IN JoinNode(IF keys = <<>> THEN "loop" ELSE "hash", left, access[r], "inner",
                   [left |-> MapSeq(keys, LAMBDA e : ks(e)[1]), right |-> MapSeq(keys, LAMBDA e : ks(e)[2])],
                   <<>>)

(* join_order picks by estimated cost among all orders. *)
JoinOrder(n) == IF Len(hints.order) = n THEN hints.order ELSE [i \in 1..n |-> i]

RECURSIVE FilterAll(_, _)
FilterAll(p, preds) == IF preds = <<>> THEN p ELSE FilterAll(FilterOf(p, Head(preds)), Tail(preds))

CostBased(flat, where) ==
  LET tables == flat.tables
      outs == MapSeq(tables, LAMBDA f : ScanOf(f).out)
      conjs == flat.on \o (IF where = <<>> THEN <<>> ELSE Conjuncts(where[1]))
      isSingle(e) == Cardinality(RelationsOf(e, outs)) = 1
      isEdge(e) == ~isSingle(e) /\ IsEdge(e, outs)
      access == [i \in DOMAIN tables |->
                   BuildAccess(tables[i], SelectSeq(conjs, LAMBDA e : RelationsOf(e, outs) = {i}))]
      tree == BuildJoinTree(JoinOrder(Len(tables)), access, SelectSeq(conjs, isEdge), outs)
  IN FilterAll(tree, SelectSeq(conjs, LAMBDA e : ~isSingle(e) /\ ~isEdge(e)))

(* The rule-based path: a conjunct whose columns all carry one qualifier   *)
(* is moved to that relation's scan, below the joins.                      *)
RECURSIVE Qualifiers(_)
Qualifiers(e) ==
  CASE Tag(e) = "col" -> {Attr(e)[1]}
    [] Tag(e) \in SubTags \cup {"agg"} -> {"", "__subquery__"}
    [] Tag(e) = "window" -> {"", "__window__"}
    [] OTHER -> UNION {Qualifiers(Kids(e)[i]) : i \in DOMAIN Kids(e)}
SingleQualifier(e) == LET qs == Qualifiers(e) \ {""} IN IF Cardinality(qs) = 1 THEN qs ELSE {}

(* <<the plan with what it could take, the conjuncts left over>> *)
RECURSIVE PushDown(_, _)
PushDown(p, conjs) ==
  CASE p.node \in {"scan", "index"} ->
         <<WrapFilter(p, SelectSeq(conjs, LAMBDA c : SingleQualifier(c) = {p.q})),
           SelectSeq(conjs, LAMBDA c : SingleQualifier(c) # {p.q})>>
    [] p.node \in {"hash", "loop"} ->
         LET l == PushDown(p.left, conjs) r == PushDown(p.right, l[2]) IN
         <<[p EXCEPT !.left = l[1], !.right = r[1]], r[2]>>
    [] p.node = "inlj" -> LET l == PushDown(p.left, conjs) IN <<[p EXCEPT !.left = l[1]], l[2]>>
    [] p.node = "filter" -> LET i == PushDown(p.input, conjs) IN <<[p EXCEPT !.input = i[1]], i[2]>>
    [] OTHER -> <<p, conjs>>
-----------------------------------------------------------------------------
(* Aggregation.  The output columns are g1.. for the grouping expressions  *)
(* and a1.. for the distinct aggregate calls.                              *)
RECURSIVE AggsIn(_)
AggsIn(e) ==
  CASE Tag(e) = "agg" -> <<e>>
    [] Tag(e) = "window" -> <<>>
    [] OTHER -> FlattenSeq(MapSeq(Kids(e), AggsIn))
CollectAggs(exprs) ==
  FoldLeft(LAMBDA acc, a : IF Contains(acc, a) THEN acc ELSE Append(acc, a), <<>>,
           FlattenSeq(MapSeq(exprs, AggsIn)))

GroupName(i) == "g" \o ToString(i)
AggName(i) == "a" \o ToString(i)
Ungrouped == <<"error", 0, <<>>>>

(* An expression over the aggregate's output; a column outside a grouping  *)
(* expression or an aggregate is an error.                                 *)
RECURSIVE RewriteOverAgg(_, _, _)
RewriteOverAgg(e, groups, aggs) ==
  CASE Contains(groups, e) -> Column("", GroupName(FirstTrue(groups, LAMBDA g : g = e)))
    [] Tag(e) = "agg" -> Column("", AggName(FirstTrue(aggs, LAMBDA a : a = e)))
    [] Tag(e) = "col" -> Ungrouped
    [] Tag(e) \in SubTags \cup {"window"} -> e
    [] OTHER -> WithKids(e, MapSeq(Kids(e), LAMBDA k : RewriteOverAgg(k, groups, aggs)))

ItemExprs(spec) ==
  MapSeq(SelectSeq(spec.proj, LAMBDA it : it[1] = "expr"), LAMBDA it : it[2])
AggsOf(spec) ==
  CollectAggs(ItemExprs(spec) \o spec.having \o MapSeq(spec.order, LAMBDA k : k[1]))
HasAggregation(spec) ==
  \/ spec.group # <<>>
  \/ \E e \in ToSet(ItemExprs(spec)) \cup ToSet(spec.having) : HasAggregate(e)
PlanAggregate(input, spec) ==
  [node |-> "agg", input |-> input, groups |-> spec.group, aggs |-> AggsOf(spec),
   out |-> [i \in DOMAIN spec.group |-> <<"", GroupName(i)>>]
             \o [i \in DOMAIN AggsOf(spec) |-> <<"", AggName(i)>>]]

(* Select lists: items <<expression, output name>>. *)
DefaultName(e) == IF Tag(e) = "col" THEN Attr(e)[2] ELSE "?column?"
NameOf(it) == IF it[3] # "" THEN it[3] ELSE DefaultName(it[2])
ResolveProjectionAgg(spec) ==
  MapSeq(spec.proj, LAMBDA it :
    IF it[1] # "expr" THEN <<Ungrouped, "">>
    ELSE <<RewriteOverAgg(it[2], spec.group, AggsOf(spec)), NameOf(it)>>)
ResolveProjection(proj, schema) ==
  LET item(c) == <<ColumnOf(c), c[2]>>
      items(it) ==
        CASE it[1] = "star" -> MapSeq(schema, item)
          [] it[1] = "qstar" ->
               LET mine == SelectSeq(schema, LAMBDA c : c[1] = it[2]) IN
               IF mine = <<>> THEN <<<<Ungrouped, "">>>> ELSE MapSeq(mine, item)
          [] OTHER -> <<<<it[2], NameOf(it)>>>>
  IN FlattenSeq(MapSeq(proj, items))
-----------------------------------------------------------------------------
(* ORDER BY: an output column by name or position; when a key is only a    *)
(* column of FROM, the sort moves below the projection.  Keys are          *)
(* <<column index, ascending>>, 0 for an error.                            *)
NamePosition(schema, name) == FirstTrue(schema, LAMBDA c : c[2] = name)
PositionOf(e, size) == IF Attr(e)[2] \in 1..size THEN Attr(e)[2] ELSE 0
ResolveOrderBy(order, out) ==
  LET column(e) ==
        CASE Tag(e) = "lit" /\ Attr(e)[1] = "int" -> PositionOf(e, Len(out))
          [] Tag(e) = "col" -> NamePosition(out, Attr(e)[2])
          [] OTHER -> 0
  IN MapSeq(order, LAMBDA k : <<column(k[1]), k[2]>>)

NeedsPreProjSort(e, out, schema) ==
  Tag(e) = "col" /\ NamePosition(out, Attr(e)[2]) = 0 /\ NamePosition(schema, Attr(e)[2]) # 0
ResolveOrderByPreProj(order, schema, out) ==
  LET byPosition(i) ==
        IF i = 0 THEN 0
        ELSE LET p == NamePosition(schema, out[i][2]) IN IF p = 0 THEN i ELSE p
      column(e) ==
        CASE Tag(e) = "lit" /\ Attr(e)[1] = "int" -> byPosition(PositionOf(e, Len(out)))
          [] Tag(e) = "col" ->
               FirstTrue(schema, LAMBDA c : c[2] = Attr(e)[2] /\ Attr(e)[1] \in {"", c[1]})
          [] OTHER -> 0
  IN MapSeq(order, LAMBDA k : <<column(k[1]), k[2]>>)

SortOf(p, keys) ==
  OrError(\A i \in DOMAIN keys : keys[i][1] # 0,
          [node |-> "sort", input |-> p, keys |-> keys, out |-> p.out])
ProjectOf(p, items, out) ==
  [node |-> "project", input |-> p, items |-> MapSeq(items, LAMBDA it : it[1]), out |-> out]
DistinctOf(p) == [node |-> "distinct", input |-> p, out |-> p.out]
LimitOf(p, spec) ==
  IF spec.limit = <<>> /\ spec.offset = 0 THEN p
  ELSE [node |-> "limit", input |-> p, limit |-> spec.limit, offset |-> spec.offset, out |-> p.out]
-----------------------------------------------------------------------------
(* The whole query; `ctes` maps the names of WITH to their columns. *)
RECURSIVE PlanFrom(_, _)
RECURSIVE PlanQuery(_, _)
PlanFrom(f, ctes) ==
  CASE f[1] = "dual" -> [node |-> "dual", out |-> <<>>]
    [] f[1] = "table" /\ f[2] \in DOMAIN ctes ->
         [node |-> "cte", name |-> f[2], out |-> Requalified(ctes[f[2]], f[3])]
    [] f[1] = "table" /\ f[2] \notin DOMAIN ctes -> ScanOf(f)
    [] f[1] = "derived" ->
         LET inner == PlanQuery(f[2], ctes) IN
         OrError(~IsError(inner),
                 [node |-> "derived", input |-> inner, out |-> Requalified(inner.out, f[3])])
    [] f[1] = "join" ->
         LET l == PlanFrom(f[3], ctes)
             r == PlanFrom(f[4], ctes)
             shared == SelectSeq(MapSeq(l.out, LAMBDA c : c[2]), LAMBDA n : n \in Names(r.out))
             using == IF f[7] THEN shared ELSE f[6]
         IN CASE IsError(l) \/ IsError(r) -> Error
              [] using # <<>> -> PlanUsingJoin(l, r, f[2], using)
              [] OTHER -> PlanJoin(l, r, f[2], IF f[7] THEN <<>> ELSE f[5])

(* Cost-based when FROM is inner joins of analysed base tables. *)
PlanAccess(from, where, ctes) ==
  LET flat == FlattenInner(from)
      costed == flat # <<>> /\ Analysed /\ \A f \in ToSet(flat[1].tables) : f[2] \notin DOMAIN ctes
  IN IF costed THEN CostBased(flat[1], where)
     ELSE LET node == PlanFrom(from, ctes)
              pushed == PushDown(node, IF where = <<>> THEN <<>> ELSE Conjuncts(where[1]))
          IN IF IsError(node) THEN Error ELSE WrapFilter(pushed[1], pushed[2])

PlanQuery(spec, ctes) ==
  LET base == PlanAccess(spec.from, spec.where, ctes)
      hasAgg == HasAggregation(spec)
      grouped == PlanAggregate(base, spec)
      having == MapSeq(spec.having, LAMBDA h : RewriteOverAgg(h, spec.group, AggsOf(spec)))
      node == IF hasAgg THEN WrapFilter(grouped, having) ELSE base
      items == IF hasAgg THEN ResolveProjectionAgg(spec) ELSE ResolveProjection(spec.proj, node.out)
      out == MapSeq(items, LAMBDA it : <<"", it[2]>>)
      valid == \A i \in DOMAIN items : items[i][1] # Ungrouped /\ ValidExpr(items[i][1], node.out)
      early == /\ ~hasAgg /\ ~spec.distinct
               /\ \E k \in ToSet(spec.order) : NeedsPreProjSort(k[1], out, node.out)
      sorted == SortOf(node, ResolveOrderByPreProj(spec.order, node.out, out))
      projected == ProjectOf(node, items, out)
      distinct == IF spec.distinct THEN DistinctOf(projected) ELSE projected
      final == IF spec.order = <<>> THEN distinct ELSE SortOf(distinct, ResolveOrderBy(spec.order, out))
  IN CASE IsError(base) \/ ~valid -> Error
       [] early -> OrError(~IsError(sorted), LimitOf(ProjectOf(sorted, items, out), spec))
       [] OTHER -> OrError(~IsError(final), LimitOf(final, spec))
=============================================================================
