---------------------------- MODULE SqlFrontEnd -----------------------------
(***************************************************************************)
(* From a parsed statement to a logical plan (sql/parser.rs).              *)
(*                                                                         *)
(* A statement is <<"select", s>>, <<"setop", op, all, left, right,        *)
(* tailed>> (tailed: ORDER BY, LIMIT or WITH on the whole), <<"delete",    *)
(* table, where, returning>> or <<"update", table, assignments, where,     *)
(* returning>>.  A select has the fields of a query (QueryPlan) except     *)
(* FROM, whose items are <<factor, joins>>: a factor is <<"table", name,   *)
(* alias>> or <<"derived", s, alias>>, a join <<type, factor, constraint>>.*)
(* Parsed expressions have the shape of SqlValues' with the tags of the    *)
(* grammar: paren, neg, isnotnull, bin (operator), func (<<name, distinct, *)
(* window>>) and param (number).                                           *)
(***************************************************************************)
EXTENDS QueryExec

CmpOps == {"=", "<>", "<", ">", "<=", ">="}
AggNames == {"count", "sum", "avg", "min", "max"}
Param(n) == <<"param", n>>

RECURSIVE ConvertQExpr(_)
RECURSIVE BuildQuerySpec(_)
ConvertArgs(e) == MapSeq(Kids(e), ConvertQExpr)

ConvertQBinaryOp(e) ==
  CASE Attr(e) = "AND" -> <<"and", 0, ConvertArgs(e)>>
    [] Attr(e) = "OR" -> <<"or", 0, ConvertArgs(e)>>
    [] Attr(e) \in CmpOps -> <<"cmp", Attr(e), ConvertArgs(e)>>
    [] OTHER -> <<"arith", Attr(e), ConvertArgs(e)>>

(* A window is <<number of arguments, of partition keys, directions,       *)
(* offset>>.  COUNT over a window drops its argument.                      *)
ConvertWindow(e) ==
  LET name == Attr(e)[1]
      w == Attr(e)[3]
      nargs == IF name = "count" THEN 0 ELSE w[1]
  IN <<"window", <<name, w[4], nargs, w[2], w[3]>>,
       SubSeq(ConvertArgs(e), w[1] - nargs + 1, Len(Kids(e)))>>
ConvertAggregate(e) == <<"agg", <<Attr(e)[1], Attr(e)[2]>>, ConvertArgs(e)>>

(* A minus before a number is part of it; before anything else it is       *)
(* subtracted from 0.                                                      *)
Negated(l) == IF l[1] = "int" THEN IntLit(-l[2]) ELSE FloatLit(-l[2][1], l[2][2])
ConvertMinus(e) ==
  LET k == Kids(e)[1] IN
  IF Tag(k) = "lit" THEN Literal(Negated(Attr(k)))
  ELSE <<"arith", "-", <<Literal(IntLit(0)), ConvertQExpr(k)>>>>

ConvertQExpr(e) ==
  CASE Tag(e) = "param" -> Literal(Param(Attr(e)))
    [] Tag(e) = "paren" -> ConvertQExpr(Kids(e)[1])
    [] Tag(e) = "neg" -> ConvertMinus(e)
    [] Tag(e) = "isnotnull" -> <<"isnull", TRUE, ConvertArgs(e)>>
    [] Tag(e) = "isnull" -> <<"isnull", FALSE, ConvertArgs(e)>>
    [] Tag(e) = "bin" -> ConvertQBinaryOp(e)
    [] Tag(e) = "func" ->
         CASE Attr(e)[1] \in {"match", "coalesce", "nullif"} -> <<Attr(e)[1], 0, ConvertArgs(e)>>
           [] Attr(e)[3] # <<>> -> ConvertWindow(e)
           [] OTHER -> ConvertAggregate(e)
    [] Tag(e) \in SubTags -> <<Tag(e), <<Attr(e)[1], BuildQuerySpec(Subquery(e))>>, ConvertArgs(e)>>
    [] OTHER -> WithKids(e, ConvertArgs(e))

(* FROM: the joins of an item nest to the left; several items are crossed. *)
FromFactor(f) == IF f[1] = "derived" THEN <<"derived", BuildQuerySpec(f[2]), f[3]>> ELSE f
ConvertJoin(left, j) ==
  <<"join", j[1], left, FromFactor(j[2]),
    IF j[3][1] = "on" THEN <<ConvertQExpr(j[3][2])>> ELSE <<>>,
    IF j[3][1] = "using" THEN j[3][2] ELSE <<>>,
    j[3][1] = "natural">>
ConvertTableWithJoins(item) == FoldLeft(ConvertJoin, FromFactor(item[1]), item[2])
ConvertFrom(items) ==
  IF items = <<>> THEN <<"dual">>
  ELSE FoldLeft(LAMBDA node, item :
                  <<"join", "cross", node, ConvertTableWithJoins(item), <<>>, <<>>, FALSE>>,
                ConvertTableWithJoins(items[1]), Tail(items))

ConvertItem(it) == IF it[1] = "expr" THEN <<"expr", ConvertQExpr(it[2]), it[3]>> ELSE it
ConvertOrderBy(order) == MapSeq(order, LAMBDA k : <<ConvertQExpr(k[1]), k[2]>>)
BuildQuerySpec(s) ==
  [with |-> MapSeq(s.with, LAMBDA w : <<w[1], BuildQuerySpec(w[2])>>),
   from |-> ConvertFrom(s.items),
   where |-> MapSeq(s.where, ConvertQExpr),
   proj |-> MapSeq(s.proj, ConvertItem),
   group |-> MapSeq(s.group, ConvertQExpr),
   having |-> MapSeq(s.having, ConvertQExpr),
   distinct |-> s.distinct, order |-> ConvertOrderBy(s.order), limit |-> s.limit, offset |-> s.offset]
-----------------------------------------------------------------------------
(* What decides between the table path and the query path.  The walks do   *)
(* not look below functions, CASE, LIKE or IN lists.                       *)
WalkTags == {"bin", "not", "neg", "paren", "isnull", "isnotnull"}
RECURSIVE ExprHasSubquery(_)
ExprHasSubquery(e) ==
  \/ Tag(e) \in SubTags \cup {"inlist"}
  \/ Tag(e) \in WalkTags /\ \E k \in ToSet(Kids(e)) : ExprHasSubquery(k)
RECURSIVE ExprHasCase(_)
ExprHasCase(e) ==
  \/ Tag(e) \in {"case", "cast"}
  \/ Tag(e) = "func" /\ (Attr(e)[3] # <<>> \/ Attr(e)[1] \in {"coalesce", "nullif"})
  \/ Tag(e) \in WalkTags /\ \E k \in ToSet(Kids(e)) : ExprHasCase(k)
RECURSIVE ExprHasAggregate(_)
ExprHasAggregate(e) ==
  \/ Tag(e) = "func" /\ Attr(e)[1] \in AggNames
  \/ Tag(e) \in WalkTags \cup {"case"} /\ \E k \in ToSet(Kids(e)) : ExprHasAggregate(k)

NeedsQuery(s) ==
  LET items == ToSet(ItemExprs(s)) filters == ToSet(s.where) IN
  \/ Len(s.items) # 1 \/ s.items[1][2] # <<>> \/ s.items[1][1][1] = "derived"
  \/ s.group # <<>> \/ s.having # <<>> \/ s.distinct \/ s.order # <<>>
  \/ s.limit # <<>> \/ s.offset # 0 \/ s.with # <<>>
  \/ \E e \in items : ExprHasAggregate(e)
  \/ \E e \in items \cup filters : ExprHasSubquery(e) \/ ExprHasCase(e)

(* The table path's expressions: columns lose their qualifier; OR, NOT and *)
(* a minus sign are refused.                                               *)
Refused == <<"refused", 0, <<>>>>
RECURSIVE ConvertExpr(_)
ConvertBinaryOp(e) ==
  IF Attr(e) = "OR" THEN Refused ELSE WithKids(ConvertQBinaryOp(e), MapSeq(Kids(e), ConvertExpr))
ConvertExpr(e) ==
  CASE Tag(e) = "col" -> Column("", Attr(e)[2])
    [] Tag(e) = "param" -> Literal(Param(Attr(e)))
    [] Tag(e) = "paren" -> ConvertExpr(Kids(e)[1])
    [] Tag(e) = "bin" -> ConvertBinaryOp(e)
    [] Tag(e) = "isnotnull" -> <<"isnull", TRUE, MapSeq(Kids(e), ConvertExpr)>>
    [] Tag(e) = "isnull" -> <<"isnull", FALSE, MapSeq(Kids(e), ConvertExpr)>>
    [] Tag(e) = "func" /\ Attr(e)[1] = "match" -> <<"match", 0, MapSeq(Kids(e), ConvertExpr)>>
    [] Tag(e) \in {"lit", "like"} -> WithKids(e, MapSeq(Kids(e), ConvertExpr))
    [] OTHER -> Refused
RECURSIVE IsRefused(_)
IsRefused(e) == e = Refused \/ \E k \in ToSet(Kids(e)) : IsRefused(k)

(* The columns of the select list; none stands for all of them. *)
ConvertProjection(proj) ==
  IF \E it \in ToSet(proj) : it[1] = "star" THEN <<>> ELSE MapSeq(proj, LAMBDA it : Attr(it[2])[2])
PlainColumns(proj) == \A it \in ToSet(proj) : it[1] = "star" \/ (it[1] = "expr" /\ Tag(it[2]) = "col" /\ it[3] = "")

PlanError == [kind |-> "error"]
ConvertSelect(s) ==
  LET pred == MapSeq(s.where, ConvertExpr) IN
  CASE NeedsQuery(s) -> [kind |-> "query", spec |-> BuildQuerySpec(s)]
    [] ~NeedsQuery(s) /\ PlainColumns(s.proj) /\ ~\E p \in ToSet(pred) : IsRefused(p) ->
         [kind |-> "select", table |-> s.items[1][1][2], projection |-> ConvertProjection(s.proj), pred |-> pred]
    [] OTHER -> PlanError
ConvertReturning(r) == MapSeq(r, ConvertProjection)
ConvertDelete(st) ==
  [kind |-> "delete", table |-> st[2], pred |-> MapSeq(st[3], ConvertExpr), returning |-> ConvertReturning(st[4])]
ConvertUpdate(st) ==
  [kind |-> "update", table |-> st[2], set |-> MapSeq(st[3], LAMBDA a : <<a[1], ConvertExpr(a[2])>>),
   pred |-> MapSeq(st[4], ConvertExpr), returning |-> ConvertReturning(st[5])]

RECURSIVE SetExprToPlan(_)
SetExprToPlan(st) ==
  IF st[1] = "select" THEN ConvertSelect(st[2])
  ELSE LET l == SetExprToPlan(st[4]) r == SetExprToPlan(st[5]) IN
       IF st[6] \/ PlanError \in {l, r} THEN PlanError
       ELSE [kind |-> "setop", op |-> st[2], all |-> st[3], left |-> l, right |-> r]
Convert(st) ==
  CASE st[1] = "delete" -> ConvertDelete(st)
    [] st[1] = "update" -> ConvertUpdate(st)
    [] OTHER -> SetExprToPlan(st)
=============================================================================
