--------------------------- MODULE QueryReference ---------------------------
(***************************************************************************)
(* What a query means, independent of plans: the definition the planner    *)
(* and the executor are checked against.  FROM is a set of row             *)
(* combinations, subqueries see the rows of the enclosing queries, logic   *)
(* has three values, and a LIMIT may cut a group of equal sort keys        *)
(* anywhere.                                                               *)
(***************************************************************************)
EXTENDS QueryRewrite

(* A scope is a sequence of frames [schema, row, rows], the innermost      *)
(* first; `rows` are the rows an aggregate or a window function ranges     *)
(* over.                                                                   *)
Frame(schema, row, rows) == [schema |-> schema, row |-> row, rows |-> rows]
Lookup(scope, col) ==
  LET at == FirstTrue(scope, LAMBDA f : ResolveColumn(f.schema, col) # 0)
  IN scope[at].row[ResolveColumn(scope[at].schema, col)]

Unknown(a, b) == IsNullLit(a) \/ IsNullLit(b)
False3(l) == l = BoolLit(FALSE)
RefLogic(e, vals) ==
  CASE Tag(e) = "cmp" -> IF Unknown(vals[1], vals[2]) THEN Null ELSE BoolLit(ApplyCmp(Attr(e), Ordering(vals[1], vals[2])))
    [] Tag(e) = "and" ->
         CASE \E i \in 1..2 : False3(vals[i]) -> BoolLit(FALSE)
           [] \A i \in 1..2 : AsBool(vals[i]) -> BoolLit(TRUE)
           [] OTHER -> Null
    [] Tag(e) = "or" ->
         CASE \E i \in 1..2 : AsBool(vals[i]) -> BoolLit(TRUE)
           [] \A i \in 1..2 : False3(vals[i]) -> BoolLit(FALSE)
           [] OTHER -> Null
    [] Tag(e) = "not" -> IF IsNullLit(vals[1]) THEN Null ELSE BoolLit(False3(vals[1]))
    [] OTHER -> EvalNode(e, vals)

Count(s, r) == Cardinality({i \in DOMAIN s : s[i] = r})
RefTotal(vals) == FoldLeft(LAMBDA n, v : n + v[2], 0, vals)
RefAggregate(func, vals) ==
  CASE func = "count" -> IntLit(Len(vals))
    [] func # "count" /\ vals = <<>> -> Null
    [] func = "sum" -> IntLit(RefTotal(vals))
    [] func = "avg" -> FloatLit(RefTotal(vals), Len(vals))
    [] func = "min" -> CHOOSE v \in ToSet(vals) : \A w \in ToSet(vals) : Ordering(v, w) <= 0
    [] func = "max" -> CHOOSE v \in ToSet(vals) : \A w \in ToSet(vals) : Ordering(v, w) >= 0

RECURSIVE RefEval(_, _, _)
RECURSIVE RefRows(_, _, _)
RefSub(e, scope, ctes) == MapSeq(RefRows(Subquery(e), scope, ctes).rows, LAMBDA r : r.out[1])
WithRow(scope, row) == [scope EXCEPT ![1].row = row]

RefWindow(e, scope, ctes) ==
  LET at(x, row) == RefEval(x, WithRow(scope, row), ctes)
      keys(ks, row) == MapSeq(ks, LAMBDA k : at(k, row))
      here == scope[1].row
      mine == SelectSeq(scope[1].rows, LAMBDA r : keys(WindowPartition(e), r) = keys(WindowPartition(e), here))
      order(row) == keys(WindowOrder(e), row)
      before(a, b) ==
        \E i \in DOMAIN Attr(e)[5] :
          /\ \A j \in 1..(i - 1) : order(a)[j] = order(b)[j]
          /\ LET d == Ordering(order(a)[i], order(b)[i]) IN IF Attr(e)[5][i] THEN d < 0 ELSE d > 0
      earlier(row) == {i \in DOMAIN mine : before(mine[i], row)}
      pos == Cardinality(earlier(here)) + 1
      other(n) == {i \in DOMAIN mine : Cardinality(earlier(mine[i])) + 1 = n}
      shifted(n) == IF other(n) = {} THEN Null ELSE at(WindowArgs(e)[1], mine[CHOOSE i \in other(n) : TRUE])
      vals == SelectSeq(MapSeq(mine, LAMBDA r : IF WindowArgs(e) = <<>> THEN IntLit(0) ELSE at(WindowArgs(e)[1], r)),
                        LAMBDA v : ~IsNullLit(v))
  IN CASE Attr(e)[1] \in {"rank", "row_number"} -> IntLit(pos)
       [] Attr(e)[1] = "dense_rank" -> IntLit(1 + Cardinality({order(mine[i]) : i \in earlier(here)}))
       [] Attr(e)[1] = "lag" -> shifted(pos - Attr(e)[2])
       [] Attr(e)[1] = "lead" -> shifted(pos + Attr(e)[2])
       [] OTHER -> RefAggregate(Attr(e)[1], vals)

RefEval(e, scope, ctes) ==
  LET kid(i) == RefEval(Kids(e)[i], scope, ctes) IN
  CASE Tag(e) = "col" -> Lookup(scope, Attr(e))
    [] Tag(e) = "lit" -> IF Attr(e)[1] = "param" THEN session.params[Attr(e)[2]] ELSE Attr(e)
    [] Tag(e) = "exists" -> BoolLit((RefSub(e, scope, ctes) # <<>>) # Attr(e)[1])
    [] Tag(e) = "scalar" -> LET s == RefSub(e, scope, ctes) IN IF s = <<>> THEN Null ELSE s[1]
    [] Tag(e) = "insub" ->
         LET s == RefSub(e, scope, ctes) n == kid(1) IN
         CASE s = <<>> -> BoolLit(Attr(e)[1])
           [] s # <<>> /\ IsNullLit(n) -> Null
           [] s # <<>> /\ ~IsNullLit(n) /\ Contains(s, n) -> BoolLit(~Attr(e)[1])
           [] OTHER -> IF Contains(s, Null) THEN Null ELSE BoolLit(Attr(e)[1])
    [] Tag(e) = "agg" ->
         IF Kids(e) = <<>> THEN IntLit(Len(scope[1].rows))
         ELSE LET vals == SelectSeq(MapSeq(scope[1].rows, LAMBDA r : RefEval(Kids(e)[1], WithRow(scope, r), ctes)),
                                    LAMBDA v : ~IsNullLit(v))
              IN RefAggregate(Attr(e)[1], IF Attr(e)[2] THEN SetToSeq(ToSet(vals)) ELSE vals)
    [] Tag(e) = "window" -> RefWindow(e, scope, ctes)
    [] OTHER -> RefLogic(e, [i \in DOMAIN Kids(e) |-> kid(i)])
RefTrue(e, scope, ctes) == AsBool(RefEval(e, scope, ctes))

(* FROM: [schema, rows]. *)
RefPairs(l, r, Ok(_, _)) ==
  FlattenSeq(MapSeq(l.rows, LAMBDA a : MapSeq(SelectSeq(r.rows, LAMBDA b : Ok(a, b)), LAMBDA b : a \o b)))
RefOuter(l, r, type, Ok(_, _)) ==
  LET loneL == SelectSeq(l.rows, LAMBDA a : ~\E i \in DOMAIN r.rows : Ok(a, r.rows[i]))
      loneR == SelectSeq(r.rows, LAMBDA b : ~\E i \in DOMAIN l.rows : Ok(l.rows[i], b))
  IN (IF type \in {"left", "full"} THEN MapSeq(loneL, LAMBDA a : a \o Nulls(Len(r.schema))) ELSE <<>>)
       \o (IF type \in {"right", "full"} THEN MapSeq(loneR, LAMBDA b : Nulls(Len(l.schema)) \o b) ELSE <<>>)
RECURSIVE RefFrom(_, _, _)
RefFrom(f, outer, ctes) ==
  CASE f[1] = "dual" -> [schema |-> <<>>, rows |-> <<<<>>>>]
    [] f[1] = "table" ->
         IF f[2] \in DOMAIN ctes THEN [schema |-> Requalified(ctes[f[2]].schema, f[3]), rows |-> ctes[f[2]].rows]
         ELSE [schema |-> MapSeq(ColumnNames(f[2]), LAMBDA n : <<f[3], n>>), rows |-> db[f[2]]]
    [] f[1] = "derived" ->
         LET q == RefRows(f[2], <<>>, ctes) IN
         [schema |-> Requalified(q.schema, f[3]), rows |-> MapSeq(q.rows, LAMBDA r : r.out)]
    [] f[1] = "join" ->
         LET l == RefFrom(f[3], outer, ctes)
             r == RefFrom(f[4], outer, ctes)
             schema == l.schema \o r.schema
             shared == IF f[7] THEN Names(l.schema) \cap Names(r.schema) ELSE ToSet(f[6])
             at(s, n) == ResolveColumn(s, <<"", n>>)
             ok(a, b) ==
               /\ \A n \in shared : Compare("=", a[at(l.schema, n)], b[at(r.schema, n)])
               /\ f[5] # <<>> => RefTrue(f[5][1], <<Frame(schema, a \o b, <<>>)>> \o outer, ctes)
             rows == RefPairs(l, r, ok) \o RefOuter(l, r, f[2], ok)
             keep == SelectSeq([i \in DOMAIN schema |-> i], LAMBDA i :
                       i <= Len(l.schema) \/ schema[i][2] \notin shared)
             value(row, i) ==
               IF schema[i][2] \notin shared \/ ~IsNullLit(row[i]) THEN row[i]
               ELSE row[Len(l.schema) + at(r.schema, schema[i][2])]
         IN [schema |-> MapSeq(keep, LAMBDA i : schema[i]),
             rows |-> MapSeq(rows, LAMBDA row : MapSeq(keep, LAMBDA i : value(row, i)))]

(* A query without its LIMIT: rows [keys, out], keys the values of ORDER   *)
(* BY.                                                                     *)
RefRows(spec, outer, enclosing) ==
  LET ctes == FoldLeft(LAMBDA c, w :
                LET q == RefRows(w[2], <<>>, c)
                IN (w[1] :> [schema |-> q.schema, rows |-> MapSeq(q.rows, LAMBDA r : r.out)]) @@ c,
                enclosing, spec.with)
      src == RefFrom(spec.from, outer, ctes)
      scope(row, rows) == <<Frame(src.schema, row, rows)>> \o outer
      kept == SelectSeq(src.rows, LAMBDA r : spec.where = <<>> \/ RefTrue(spec.where[1], scope(r, <<>>), ctes))
      grouped == HasAggregation(spec)
      keyOf(r) == MapSeq(spec.group, LAMBDA g : RefEval(g, scope(r, <<>>), ctes))
      groupKeys == SetToSeq({keyOf(kept[i]) : i \in DOMAIN kept})
      members(k) == SelectSeq(kept, LAMBDA r : keyOf(r) = k)
      whole == IF kept = <<>> THEN scope(Nulls(Len(src.schema)), <<>>) ELSE scope(kept[1], kept)
      scopes == CASE grouped /\ spec.group = <<>> -> <<whole>>
                  [] grouped /\ spec.group # <<>> -> MapSeq(groupKeys, LAMBDA k : scope(members(k)[1], members(k)))
                  [] OTHER -> MapSeq(kept, LAMBDA r : scope(r, kept))
      having == SelectSeq(scopes, LAMBDA s : spec.having = <<>> \/ RefTrue(spec.having[1], s, ctes))
      items == ResolveProjection(spec.proj, src.schema)
      outNames == MapSeq(items, LAMBDA it : <<"", it[2]>>)
      outOf(s) == MapSeq(items, LAMBDA it : RefEval(it[1], s, ctes))
      keyVal(k, s, out) ==
        CASE Tag(k) = "lit" -> out[Attr(k)[2]]
          [] Tag(k) = "col" /\ NamePosition(outNames, Attr(k)[2]) # 0 -> out[NamePosition(outNames, Attr(k)[2])]
          [] OTHER -> RefEval(k, s, ctes)
      row(s) == LET out == outOf(s) IN [out |-> out, keys |-> MapSeq(spec.order, LAMBDA k : keyVal(k[1], s, out))]
      rows == MapSeq(having, row)
      schema == outNames
  IN [schema |-> schema, rows |-> IF spec.distinct THEN SetToSeq(ToSet(rows)) ELSE rows]

(* Whether `rows` is an answer to the query: position by position, the     *)
(* rows of each group of equal sort keys come from that group.             *)
SortsBefore(a, b, order) ==
  CmpRows(a.keys, b.keys, [i \in DOMAIN order |-> <<i, order[i][2]>>]) < 0
Answers(rows, spec, full) ==
  LET n == Len(full)
      last == IF spec.limit # <<>> /\ spec.offset + spec.limit[1] < n THEN spec.offset + spec.limit[1] ELSE n
      below(i) == Cardinality({j \in 1..n : SortsBefore(full[j], full[i], spec.order)})
      peers(i) == SelectSeq(full, LAMBDA r : ~SortsBefore(r, full[i], spec.order) /\ ~SortsBefore(full[i], r, spec.order))
      slots(i) == {p \in (spec.offset + 1)..last : p \in (below(i) + 1)..(below(i) + Len(peers(i)))}
      part(i) == SelectSeq([p \in DOMAIN rows |-> <<p + spec.offset, rows[p]>>], LAMBDA x : x[1] \in slots(i))
  IN /\ Len(rows) = IF last < spec.offset THEN 0 ELSE last - spec.offset
     /\ \A i \in 1..n : \A x \in ToSet(part(i)) :
          Count(MapSeq(part(i), LAMBDA y : y[2]), x[2]) <= Count(MapSeq(peers(i), LAMBDA r : r.out), x[2])
Conforms(rows, spec) == Answers(rows, spec, RefRows(spec, <<>>, NoCtes).rows)
=============================================================================
