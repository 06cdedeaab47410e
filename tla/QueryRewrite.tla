---------------------------- MODULE QueryRewrite ----------------------------
(***************************************************************************)
(* What happens to a logical plan before it runs: bind parameters, the row *)
(* policies of its tables, and the columns it is checked to be allowed to  *)
(* read (sql/query.rs).                                                    *)
(***************************************************************************)
EXTENDS SqlFrontEnd

CONSTANT session  \* [policy, params]: the policy of each table (0 or 1 expression) and the values of $1, $2, ...

RECURSIVE BindExpr(_)
RECURSIVE BindSpec(_)
RECURSIVE BindFrom(_)
BindExpr(e) ==
  CASE Tag(e) = "lit" -> IF Attr(e)[1] = "param" THEN Literal(session.params[Attr(e)[2]]) ELSE e
    [] Tag(e) \in SubTags -> <<Tag(e), <<Attr(e)[1], BindSpec(Subquery(e))>>, MapSeq(Kids(e), BindExpr)>>
    [] OTHER -> WithKids(e, MapSeq(Kids(e), BindExpr))
BindFrom(f) ==
  CASE f[1] = "join" -> <<"join", f[2], BindFrom(f[3]), BindFrom(f[4]), MapSeq(f[5], BindExpr), f[6], f[7]>>
    [] f[1] = "derived" -> <<"derived", BindSpec(f[2]), f[3]>>
    [] OTHER -> f
BindItem(it) == IF it[1] = "expr" THEN <<"expr", BindExpr(it[2]), it[3]>> ELSE it
(* ORDER BY is not bound. *)
BindSpec(spec) ==
  [spec EXCEPT !.with = MapSeq(@, LAMBDA w : <<w[1], BindSpec(w[2])>>), !.from = BindFrom(@),
               !.where = MapSeq(@, BindExpr), !.group = MapSeq(@, BindExpr),
               !.having = MapSeq(@, BindExpr), !.proj = MapSeq(@, BindItem)]
-----------------------------------------------------------------------------
(* Row policies.  A policy's columns are qualified with the alias of the   *)
(* table reference; arithmetic has no counterpart and becomes TRUE.        *)
RECURSIVE QualifyPolicy(_, _)
QualifyPolicy(e, q) ==
  CASE Tag(e) = "col" -> Column(q, Attr(e)[2])
    [] Tag(e) = "arith" -> Literal(BoolLit(TRUE))
    [] OTHER -> WithKids(e, MapSeq(Kids(e), LAMBDA k : QualifyPolicy(k, q)))
RECURSIVE TablePolicies(_)
TablePolicies(f) ==
  CASE f[1] = "table" /\ f[2] \in DOMAIN session.policy ->
         MapSeq(session.policy[f[2]], LAMBDA p : QualifyPolicy(p, f[3]))
    [] f[1] = "join" -> TablePolicies(f[3]) \o TablePolicies(f[4])
    [] OTHER -> <<>>
AndWith(where, p) == IF where = <<>> THEN <<p>> ELSE <<And(where[1], p)>>

(* Derived tables and the subqueries of WHERE, of the select list and of   *)
(* HAVING get the policies of their own tables; the bodies of WITH do not. *)
RECURSIVE ApplyRls(_)
RECURSIVE RlsIntoExpr(_)
RlsIntoExpr(e) ==
  CASE Tag(e) \in SubTags -> <<Tag(e), <<Attr(e)[1], ApplyRls(Subquery(e))>>, MapSeq(Kids(e), RlsIntoExpr)>>
    [] Tag(e) = "window" -> e
    [] OTHER -> WithKids(e, MapSeq(Kids(e), RlsIntoExpr))
RlsIntoItem(it) == IF it[1] = "expr" THEN <<"expr", RlsIntoExpr(it[2]), it[3]>> ELSE it
RECURSIVE RlsIntoDerived(_)
RlsIntoDerived(f) ==
  CASE f[1] = "derived" -> <<"derived", ApplyRls(f[2]), f[3]>>
    [] f[1] = "join" -> <<"join", f[2], RlsIntoDerived(f[3]), RlsIntoDerived(f[4]), f[5], f[6], f[7]>>
    [] OTHER -> f
ApplyRls(spec) ==
  [spec EXCEPT !.where = MapSeq(FoldLeft(AndWith, @, TablePolicies(spec.from)), RlsIntoExpr),
               !.from = RlsIntoDerived(@), !.proj = MapSeq(@, RlsIntoItem),
               !.having = MapSeq(@, RlsIntoExpr)]

(* The whole plan; the table path's plans carry their table's policy as    *)
(* one more conjunct.                                                      *)
RECURSIVE BindPlan(_)
BindPlan(plan) ==
  CASE plan.kind = "query" -> [plan EXCEPT !.spec = BindSpec(@)]
    [] plan.kind = "setop" -> [plan EXCEPT !.left = BindPlan(@), !.right = BindPlan(@)]
    [] plan.kind \in {"select", "delete"} -> [plan EXCEPT !.pred = MapSeq(@, BindExpr)]
    [] plan.kind = "update" ->
         [plan EXCEPT !.pred = MapSeq(@, BindExpr), !.set = MapSeq(@, LAMBDA a : <<a[1], BindExpr(a[2])>>)]
    [] OTHER -> plan
PolicyOf(table) == IF table \in DOMAIN session.policy THEN session.policy[table] ELSE <<>>
AndPolicy(pred, table) == FoldLeft(AndWith, pred, PolicyOf(table))
RECURSIVE RlsPlan(_)
RlsPlan(plan) ==
  CASE plan.kind = "query" -> [plan EXCEPT !.spec = ApplyRls(@)]
    [] plan.kind = "setop" -> [plan EXCEPT !.left = RlsPlan(@), !.right = RlsPlan(@)]
    [] plan.kind \in {"select", "delete", "update"} -> [plan EXCEPT !.pred = AndPolicy(@, plan.table)]
    [] OTHER -> plan
-----------------------------------------------------------------------------
(* The columns a query reads, as <<table, column>>.  A scope has `quals`,  *)
(* the table behind each alias ("" for a name of WITH or a derived table), *)
(* and `cands`, the base tables of this and the enclosing queries.         *)
AllColumns(t) == {<<t, n>> : n \in ToSet(ColumnNames(t))}
RECURSIVE FromScope(_, _)
FromScope(f, names) ==
  CASE f[1] = "table" -> IF f[2] \in names THEN [quals |-> f[3] :> "", tables |-> {}]
                         ELSE [quals |-> f[3] :> f[2], tables |-> {f[2]}]
    [] f[1] = "derived" -> [quals |-> f[3] :> "", tables |-> {}]
    [] f[1] = "join" -> LET l == FromScope(f[3], names) r == FromScope(f[4], names) IN
                        [quals |-> r.quals @@ l.quals, tables |-> l.tables \cup r.tables]
    [] OTHER -> [quals |-> <<>>, tables |-> {}]

(* A column whose owner is not certain is charged to every candidate. *)
CertainOwner(q, scope) ==
  IF q \in DOMAIN scope.quals THEN {scope.quals[q]} \ {""}
  ELSE IF Cardinality(scope.cands) = 1 THEN scope.cands ELSE {}
Owners(q, scope) ==
  IF q \in DOMAIN scope.quals THEN {scope.quals[q]} \ {""} ELSE scope.cands
AttributeColumn(col, scope) == {<<t, col[2]>> : t \in Owners(col[1], scope)}

RECURSIVE CollectExpr(_, _)
RECURSIVE CollectScoped(_, _)
RECURSIVE CollectFrom(_, _)
CollectExprs(es, scope) == UNION {CollectExpr(e, scope) : e \in ToSet(es)}
CollectExpr(e, scope) ==
  (CASE Tag(e) = "col" -> AttributeColumn(Attr(e), scope)
     [] Tag(e) \in SubTags -> CollectScoped(Subquery(e), scope)
     [] OTHER -> {})
    \cup CollectExprs(Kids(e), scope)
CollectFrom(f, scope) ==
  CASE f[1] = "join" -> CollectFrom(f[3], scope) \cup CollectFrom(f[4], scope) \cup CollectExprs(f[5], scope)
    [] f[1] = "derived" -> CollectScoped(f[2], scope)
    [] OTHER -> {}
CollectScoped(spec, parent) ==
  LET own == FromScope(spec.from, {w[1] : w \in ToSet(spec.with)})
      scope == [quals |-> own.quals @@ parent.quals, cands |-> parent.cands \cup own.tables]
      ofItem(it) ==
        CASE it[1] = "star" -> UNION {AllColumns(t) : t \in own.tables}
          [] it[1] = "qstar" -> UNION {AllColumns(t) : t \in Owners(it[2], scope)}
          [] OTHER -> CollectExpr(it[2], scope)
  IN UNION {CollectScoped(w[2], scope) : w \in ToSet(spec.with)}
       \cup CollectFrom(spec.from, scope)
       \cup UNION {ofItem(it) : it \in ToSet(spec.proj)}
       \cup CollectExprs(spec.where \o spec.group \o spec.having \o MapSeq(spec.order, LAMBDA k : k[1]), scope)
ColumnReads(spec) == CollectScoped(spec, [quals |-> <<>>, cands |-> {}])
=============================================================================
