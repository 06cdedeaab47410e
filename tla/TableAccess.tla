---------------------------- MODULE TableAccess -----------------------------
(***************************************************************************)
(* SELECT, UPDATE and DELETE on one table (sql/executor.rs): through a     *)
(* B-tree, through a full-text index, or by a scan.  The rows are those    *)
(* the snapshot sees (Mvcc) and the trees hold an entry for each of them   *)
(* (BTree).                                                                *)
(***************************************************************************)
EXTENDS QueryRewrite

CONSTANT FullText  \* <<table, column>> pairs with a full-text index

Schema(table) == MapSeq(ColumnNames(table), LAMBDA n : <<"", n>>)
At(table, col) == ResolveColumn(Schema(table), <<"", col>>)

(* predicate_matches: MATCH on its own is true, its rows come from the     *)
(* index.                                                                  *)
RECURSIVE EvalExpr(_, _, _)
EvalExpr(e, table, row) ==
  CASE Tag(e) = "col" -> row[At(table, Attr(e)[2])]
    [] Tag(e) = "lit" -> Attr(e)
    [] Tag(e) = "match" -> BoolLit(TRUE)
    [] OTHER -> EvalNode(e, MapSeq(Kids(e), LAMBDA k : EvalExpr(k, table, row)))
PredicateMatches(pred, table, row) == pred = <<>> \/ AsBool(EvalExpr(pred[1], table, row))

OutputColumns(table, projection) == IF projection = <<>> THEN ColumnNames(table) ELSE projection
ProjectRow(table, projection, row) ==
  MapSeq(OutputColumns(table, projection), LAMBDA n : row[At(table, n)])
(* project_row_drain moves the values out of the row: a column named twice *)
(* is NULL the second time.                                                *)
ProjectRowDrain(table, projection, row) ==
  LET cols == OutputColumns(table, projection) IN
  [i \in DOMAIN cols |-> IF \E j \in 1..(i - 1) : cols[j] = cols[i] THEN Null ELSE row[At(table, cols[i])]]

ScanTable(table, pred) == SelectSeq(db[table], LAMBDA r : PredicateMatches(pred, table, r))
-----------------------------------------------------------------------------
(* The conjunct a B-tree serves.  Any comparison of an indexed column with *)
(* a literal is found, <> too; of two, the one that looks more selective.  *)
RECURSIVE IndexablePreds(_, _)
IndexablePreds(e, table) ==
  IF Tag(e) = "and" THEN IndexablePreds(Kids(e)[1], table) \o IndexablePreds(Kids(e)[2], table)
  ELSE LET s == SimplePredicate(e) IN IF s # <<>> /\ HasBtree(table, s[1]) THEN <<s>> ELSE <<>>
FindBest(pred, table) ==
  LET hits == IF pred = <<>> THEN <<>> ELSE IndexablePreds(pred[1], table) IN
  IF hits = <<>> THEN <<>> ELSE IF Analysed /\ hints.index = "last" THEN <<Last(hits)>> ELSE <<hits[1]>>
(* An equality always looks selective; anything else needs statistics. *)
LooksSelective(hit) == hit[2] = "=" \/ (Analysed /\ EstimateFavoursIndex)
UseIndex(pred, table) == LET h == FindBest(pred, table) IN h # <<>> /\ LooksSelective(h[1])

(* A tree's answer, absent (<<>>) for <>. *)
TreeSearch(table, hit) ==
  IF hit[2] = "<>" THEN <<>>
  ELSE <<SelectSeq(db[table], LAMBDA r : Compare(hit[2], r[At(table, hit[1])], hit[3]))>>

(* The keys of the tree answer the query when it only asks for the indexed *)
(* column; the rest of the predicate is not looked at then.                *)
IndexOnly(projection, hit) == projection # <<>> /\ \A n \in ToSet(projection) : n = hit[1]
IndexOnlyRows(table, hit) ==
  IF hit[2] = "<>" THEN <<>> ELSE MapSeq(TreeSearch(table, hit)[1], LAMBDA r : <<r[At(table, hit[1])]>>)
Refiltered(table, projection, pred, rows) ==
  MapSeq(SelectSeq(rows, LAMBDA r : PredicateMatches(pred, table, r)),
         LAMBDA r : ProjectRowDrain(table, projection, r))
(* <<rows>>, or <<>> when the index cannot serve the query. *)
TrySelectBtree(table, projection, pred, hit) ==
  CASE ~Orderable(hit[3]) -> <<>>
    [] Orderable(hit[3]) /\ IndexOnly(projection, hit) -> <<IndexOnlyRows(table, hit)>>
    [] OTHER -> MapSeq(TreeSearch(table, hit), LAMBDA rows : Refiltered(table, projection, pred, rows))

(* MATCH: the rows on every word's posting list, then the whole predicate. *)
RECURSIVE FindMatch(_)
FindMatch(e) ==
  CASE Tag(e) = "match" -> <<e>>
    [] Tag(e) = "and" -> LET l == FindMatch(Kids(e)[1]) IN IF l # <<>> THEN l ELSE FindMatch(Kids(e)[2])
    [] OTHER -> <<>>
Postings(table, col, word) == {i \in DOMAIN db[table] : LET v == db[table][i][At(table, col)] IN v[1] = "text" /\ Contains(v[2], word)}
ExecSelectMatch(table, projection, pred, match) ==
  LET col == Attr(Kids(match)[1])[2]
      words == ToSet(Attr(Kids(match)[2])[2])
      hit(i) == \A w \in words : i \in Postings(table, col, w)
      rows == SelectSeq([i \in DOMAIN db[table] |-> <<i, db[table][i]>>], LAMBDA x : hit(x[1]))
  IN IF words = {} \/ <<table, col>> \notin FullText THEN <<>>
     ELSE MapSeq(SelectSeq(rows, LAMBDA x : PredicateMatches(pred, table, x[2])),
                 LAMBDA x : ProjectRow(table, projection, x[2]))

ExecSelectReadonly(plan) ==
  MapSeq(ScanTable(plan.table, plan.pred), LAMBDA r : ProjectRow(plan.table, plan.projection, r))
ExecSelect(plan) ==
  LET match == IF plan.pred = <<>> THEN <<>> ELSE FindMatch(plan.pred[1])
      viaIndex == IF UseIndex(plan.pred, plan.table)
                  THEN TrySelectBtree(plan.table, plan.projection, plan.pred, FindBest(plan.pred, plan.table)[1])
                  ELSE <<>>
  IN CASE match # <<>> -> ExecSelectMatch(plan.table, plan.projection, plan.pred, match[1])
       [] match = <<>> /\ viaIndex # <<>> -> viaIndex[1]
       [] OTHER -> MapSeq(ScanTable(plan.table, plan.pred),
                          LAMBDA r : ProjectRowDrain(plan.table, plan.projection, r))

(* A plain SELECT of a read-only caller runs on its own snapshot without   *)
(* the executor.                                                           *)
IsConcurrentRead(plan) == plan.kind = "select" /\ (plan.pred = <<>> \/ FindMatch(plan.pred[1]) = <<>>)
-----------------------------------------------------------------------------
(* The rows UPDATE and DELETE work on.  A DELETE without RETURNING (nor  *)
(* triggers, events or referencing tables) deletes nothing when the tree   *)
(* has no answer.                                                          *)
IndexMatchingRows(table, pred, hit) ==
  IF ~Orderable(hit[3]) THEN <<>>
  ELSE MapSeq(TreeSearch(table, hit), LAMBDA rows : SelectSeq(rows, LAMBDA r : PredicateMatches(pred, table, r)))
MatchingRows(table, pred) ==
  LET found == IF UseIndex(pred, table) THEN IndexMatchingRows(table, pred, FindBest(pred, table)[1]) ELSE <<>>
  IN IF found # <<>> THEN found[1] ELSE ScanTable(table, pred)
DeleteRows(plan) ==
  LET hit == FindBest(plan.pred, plan.table)[1]
      found == TreeSearch(plan.table, hit)
  IN CASE plan.returning # <<>> -> MatchingRows(plan.table, plan.pred)
       [] plan.returning = <<>> /\ (~UseIndex(plan.pred, plan.table) \/ ~Orderable(hit[3])) ->
            ScanTable(plan.table, plan.pred)
       [] OTHER -> IF found = <<>> THEN <<>>
                   ELSE SelectSeq(found[1], LAMBDA r : PredicateMatches(plan.pred, plan.table, r))

(* Assignments read the old row. *)
UpdatedRow(plan, row) ==
  FoldLeft(LAMBDA new, a : [new EXCEPT ![At(plan.table, a[1])] = EvalExpr(a[2], plan.table, row)], row, plan.set)

(* The rows of the table afterwards. *)
ExecDelete(plan) == RemoveEach(db[plan.table], DeleteRows(plan))
ExecUpdate(plan) ==
  LET old == MatchingRows(plan.table, plan.pred)
  IN RemoveEach(db[plan.table], old) \o MapSeq(old, LAMBDA r : UpdatedRow(plan, r))
-----------------------------------------------------------------------------
(* Any plan: the columns it reads, and its rows. *)
ExprColumns(table, es) == {<<table, c[2]>> : c \in UNION {ColumnsOf(e) : e \in ToSet(es)}}
Projected(table, projection) == {<<table, n>> : n \in ToSet(OutputColumns(table, projection))}
RECURSIVE PlanReads(_)
PlanReads(p) ==
  CASE p.kind = "query" -> ColumnReads(p.spec)
    [] p.kind = "setop" -> PlanReads(p.left) \cup PlanReads(p.right)
    [] p.kind = "select" -> ExprColumns(p.table, p.pred) \cup Projected(p.table, p.projection)
    [] p.kind = "delete" -> ExprColumns(p.table, p.pred)
    [] p.kind = "update" -> ExprColumns(p.table, p.pred \o MapSeq(p.set, LAMBDA a : a[2]))

RECURSIVE ExecPlan(_)
ExecPlan(p) ==
  CASE p.kind = "query" -> RunQuery(p.spec, NoCtes).rows
    [] p.kind = "select" -> IF hints.readonly /\ IsConcurrentRead(p) THEN ExecSelectReadonly(p) ELSE ExecSelect(p)
    [] p.kind = "setop" -> SetOpRows(p.op, p.all, ExecPlan(p.left), ExecPlan(p.right))
    [] p.kind = "delete" -> ExecDelete(p)
    [] p.kind = "update" -> ExecUpdate(p)
=============================================================================
