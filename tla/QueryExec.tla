----------------------------- MODULE QueryExec ------------------------------
(***************************************************************************)
(* The executor of plans (sql/query_exec.rs): scans, joins (sql/join.rs),  *)
(* aggregation (sql/aggregate.rs), sorting (sql/sort.rs), window functions *)
(* and subqueries.                                                         *)
(*                                                                         *)
(* `db` holds the rows of each table that the statement's snapshot sees,   *)
(* in heap order.  A plan node runs to the sequence of its rows; its `out` *)
(* is their schema.  `env` maps the names of WITH to what was materialised *)
(* for them.  The cache of subquery results is left out: it is keyed by    *)
(* the bound subquery, which determines its rows within one statement.     *)
(***************************************************************************)
EXTENDS QueryPlan, TLC

CONSTANT db

Nulls(n) == [i \in 1..n |-> Null]
StableSort(s, Lt(_, _)) ==
  LET p == SortSeq([i \in 1..Len(s) |-> i],
                   LAMBDA i, j : Lt(s[i], s[j]) \/ (~Lt(s[j], s[i]) /\ i < j))
  IN [i \in 1..Len(s) |-> s[p[i]]]
Dedup(rows) ==
  FoldLeft(LAMBDA acc, row : IF Contains(acc, EncodeRow(row)) THEN acc ELSE Append(acc, row), <<>>, rows)
-----------------------------------------------------------------------------
(* Expressions without subqueries.  Every operand is evaluated: the code   *)
(* stops early, which shows only where an operand fails.                   *)
EvalCase(e, vals) ==
  LET first == IF Attr(e)[1] THEN 1 ELSE 0
      branches == [i \in 1..((Len(vals) - first) \div 2) |-> <<vals[first + 2 * i - 1], vals[first + 2 * i]>>]
      hit == FirstTrue(branches, LAMBDA b : IF Attr(e)[1] THEN Compare("=", vals[1], b[1]) ELSE AsBool(b[1]))
  IN CASE hit # 0 -> branches[hit][2] [] hit = 0 /\ Attr(e)[2] -> Last(vals) [] OTHER -> Null

EvalNode(e, vals) ==
  CASE Tag(e) = "cmp" -> BoolLit(Compare(Attr(e), vals[1], vals[2]))
    [] Tag(e) = "and" -> BoolLit(AsBool(vals[1]) /\ AsBool(vals[2]))
    [] Tag(e) = "or" -> BoolLit(AsBool(vals[1]) \/ AsBool(vals[2]))
    [] Tag(e) = "not" -> BoolLit(~AsBool(vals[1]))
    [] Tag(e) = "isnull" -> BoolLit(IsNullLit(vals[1]) # Attr(e))
    [] Tag(e) = "inlist" ->
         IF IsNullLit(vals[1]) THEN Null
         ELSE BoolLit((\E i \in 2..Len(vals) : Compare("=", vals[1], vals[i])) # Attr(e))
    [] Tag(e) = "like" ->
         IF IsNullLit(vals[1]) \/ IsNullLit(vals[2]) THEN Null
         ELSE BoolLit(LikeMatch(vals[1][2], vals[2][2]) # Attr(e))
    [] Tag(e) = "match" ->
         IF IsNullLit(vals[1]) \/ IsNullLit(vals[2]) THEN Null
         ELSE BoolLit(MatchWords(vals[1][2], vals[2][2]))
    [] Tag(e) = "arith" -> EvalArith(Attr(e), vals[1], vals[2])
    [] Tag(e) = "case" -> EvalCase(e, vals)
    [] Tag(e) = "coalesce" ->
         LET i == FirstTrue(vals, LAMBDA v : ~IsNullLit(v)) IN IF i = 0 THEN Null ELSE vals[i]
    [] Tag(e) = "nullif" -> IF Compare("=", vals[1], vals[2]) THEN Null ELSE vals[1]
    [] Tag(e) = "cast" -> EvalCast(vals[1], Attr(e))

RECURSIVE EvalQExpr(_, _, _)
EvalQExpr(e, schema, row) ==
  CASE Tag(e) = "col" -> row[ResolveColumn(schema, Attr(e))]
    [] Tag(e) = "lit" -> Attr(e)
    [] OTHER -> EvalNode(e, MapSeq(Kids(e), LAMBDA k : EvalQExpr(k, schema, row)))
EvalPredicate(e, schema, row) == AsBool(EvalQExpr(e, schema, row))
-----------------------------------------------------------------------------
(* Scans. *)
ScanRows(table) == db[table]

(* The index finds the rows of the range in key order; for a value with no *)
(* place in it (NULL) the code reads the whole table instead.              *)
Orderable(l) == ~IsNullLit(l)
IndexScan(p) ==
  LET at == ResolveColumn(p.out, <<p.q, p.col>>)
      found == StableSort(SelectSeq(db[p.table], LAMBDA r : Compare(p.op, r[at], p.value)),
                          LAMBDA a, b : Compare("<", a[at], b[at]))
  IN IF ~Orderable(p.value) THEN ScanRows(p.table)
     ELSE IF p.only THEN MapSeq(found, LAMBDA r : <<r[at]>>)
     ELSE found
-----------------------------------------------------------------------------
(* Joins. *)
KeyValues(keys, schema, row) == MapSeq(keys, LAMBDA k : EvalQExpr(k, schema, row))
ResidualOk(residual, schema, row) == residual = <<>> \/ EvalPredicate(residual[1], schema, row)

(* One probe row against the rows of its bucket, unmatched if none passes. *)
Combine(probeFirst, prow, brow) == IF probeFirst THEN prow \o brow ELSE brow \o prow
Probe(prow, bucket, probeFirst, residual, schema, unmatched, width) ==
  LET hits == SelectSeq(MapSeq(bucket, LAMBDA b : Combine(probeFirst, prow, b)),
                        LAMBDA row : ResidualOk(residual, schema, row))
  IN IF hits = <<>> /\ unmatched THEN <<Combine(probeFirst, prow, Nulls(width))>> ELSE hits
Bucket(rows, keys, schema, key) ==
  IF key = <<>> THEN <<>>
  ELSE SelectSeq(rows, LAMBDA b : JoinKeyBytes(KeyValues(keys, schema, b)) = key)

(* Beyond the memory budget both sides are split by a hash of the key; a   *)
(* probe row without a key meets no partition.  The result is the probe    *)
(* rows in the order they are emitted, each with its bucket.               *)
Partitions == 4
HashBytes(key) == IF key[1][1] = "int" THEN key[1][2] % Partitions ELSE 0
GraceHashJoin(build, bkeys, bschema, probe, pkeys, pschema) ==
  LET keyless == SelectSeq(probe, LAMBDA r : JoinKeyBytes(KeyValues(pkeys, pschema, r)) = <<>>)
      part(rows, keys, schema, p) ==
        SelectSeq(rows, LAMBDA r : LET k == JoinKeyBytes(KeyValues(keys, schema, r)) IN
                                   k # <<>> /\ HashBytes(k[1]) = p)
      joined(p) ==
        LET b == part(build, bkeys, bschema, p) IN
        MapSeq(part(probe, pkeys, pschema, p), LAMBDA r :
          <<r, Bucket(b, bkeys, bschema, JoinKeyBytes(KeyValues(pkeys, pschema, r)))>>)
  IN MapSeq(keyless, LAMBDA r : <<r, <<>>>>)
       \o FlattenSeq([p \in 1..Partitions |-> joined(p - 1)])

(* The right side is hashed, except for a RIGHT join.  When the first key  *)
(* of an inner join is an integer, only integer keys are looked up.        *)
HashJoin(p, lrows, rrows) ==
  LET right == p.type # "right"
      build == IF right THEN rrows ELSE lrows
      probe == IF right THEN lrows ELSE rrows
      bkeys == IF right THEN p.rkeys ELSE p.lkeys
      pkeys == IF right THEN p.lkeys ELSE p.rkeys
      bschema == IF right THEN p.right.out ELSE p.left.out
      pschema == IF right THEN p.left.out ELSE p.right.out
      unmatched == p.type \in {"left", "right"}
      emit(pr, bucket) == Probe(pr, bucket, right, p.residual, p.out, unmatched, Len(bschema))
      bkey(row) == KeyValues(bkeys, bschema, row)
      pkey(row) == KeyValues(pkeys, pschema, row)
      fast == /\ ~unmatched /\ Len(bkeys) = 1 /\ Len(pkeys) = 1 /\ build # <<>>
              /\ bkey(build[1])[1][1] = "int"
      fastBucket(pr) ==
        IF pkey(pr)[1][1] # "int" THEN <<>>
        ELSE SelectSeq(build, LAMBDA b : bkey(b)[1] = pkey(pr)[1])
  IN CASE Len(build) > hints.mem ->
            FlattenSeq(MapSeq(GraceHashJoin(build, bkeys, bschema, probe, pkeys, pschema),
                              LAMBDA rb : emit(rb[1], rb[2])))
       [] fast -> FlattenSeq(MapSeq(probe, LAMBDA pr : emit(pr, fastBucket(pr))))
       [] OTHER -> FlattenSeq(MapSeq(probe, LAMBDA pr :
                     emit(pr, Bucket(build, bkeys, bschema, JoinKeyBytes(pkey(pr))))))

(* Rows with NULL in the key are dropped, the others sorted by key and     *)
(* merged run by run.                                                      *)
KeyOrd(a, b) ==
  LET differ == {j \in DOMAIN a : LiteralOrd(a[j], b[j]) # 0}
  IN IF differ = {} THEN 0
     ELSE LET j == CHOOSE j \in differ : \A k \in differ : j <= k IN LiteralOrd(a[j], b[j])
Keyed(rows, keys, schema) ==
  LET pairs == MapSeq(rows, LAMBDA r : <<KeyValues(keys, schema, r), r>>)
      kept == SelectSeq(pairs, LAMBDA x : JoinKeyBytes(x[1]) # <<>>)
  IN StableSort(kept, LAMBDA x, y : KeyOrd(x[1], y[1]) < 0)
RunLength(s) == Cardinality({i \in DOMAIN s : \A j \in 1..i : KeyOrd(s[1][1], s[j][1]) = 0})
RECURSIVE MergeFrom(_, _, _)
MergeFrom(p, ls, rs) ==
  LET keepLeft == p.type \in {"left", "full"}
      keepRight == p.type \in {"right", "full"}
      loneLeft(x) == IF keepLeft THEN <<x[2] \o Nulls(Len(p.right.out))>> ELSE <<>>
      loneRight(y) == IF keepRight THEN <<Nulls(Len(p.left.out)) \o y[2]>> ELSE <<>>
  IN IF ls = <<>> \/ rs = <<>>
     THEN FlattenSeq(MapSeq(ls, loneLeft)) \o FlattenSeq(MapSeq(rs, loneRight))
     ELSE LET o == KeyOrd(ls[1][1], rs[1][1])
              n == RunLength(ls)
              m == RunLength(rs)
              pass(x, y) == ResidualOk(p.residual, p.out, x[2] \o y[2])
              pairs(x) == MapSeq(SelectSeq(SubSeq(rs, 1, m), LAMBDA y : pass(x, y)), LAMBDA y : x[2] \o y[2])
              fromLeft(x) == IF pairs(x) = <<>> THEN loneLeft(x) ELSE pairs(x)
              fromRight(y) == IF \E i \in 1..n : pass(ls[i], y) THEN <<>> ELSE loneRight(y)
          IN CASE o < 0 -> loneLeft(ls[1]) \o MergeFrom(p, Tail(ls), rs)
               [] o > 0 -> loneRight(rs[1]) \o MergeFrom(p, ls, Tail(rs))
               [] OTHER -> FlattenSeq(MapSeq(SubSeq(ls, 1, n), fromLeft))
                             \o FlattenSeq(MapSeq(SubSeq(rs, 1, m), fromRight))
                             \o MergeFrom(p, SubSeq(ls, n + 1, Len(ls)), SubSeq(rs, m + 1, Len(rs)))
MergeJoin(p, lrows, rrows) ==
  MergeFrom(p, Keyed(lrows, p.lkeys, p.left.out), Keyed(rrows, p.rkeys, p.right.out))

NestedLoopJoin(p, lrows, rrows) ==
  LET ok(l, r) == ResidualOk(p.residual, p.out, l \o r)
      hits(l) == MapSeq(SelectSeq(rrows, LAMBDA r : ok(l, r)), LAMBDA r : l \o r)
      fromLeft(l) ==
        IF hits(l) = <<>> /\ p.type \in {"left", "full"} THEN <<l \o Nulls(Len(p.right.out))>> ELSE hits(l)
      lone == SelectSeq(rrows, LAMBDA r : ~\E i \in DOMAIN lrows : ok(lrows[i], r))
  IN FlattenSeq(MapSeq(lrows, fromLeft))
       \o (IF p.type \in {"right", "full"} THEN MapSeq(lone, LAMBDA r : Nulls(Len(p.left.out)) \o r) ELSE <<>>)

(* The inner table is hashed when it fits the budget; otherwise each outer *)
(* row probes the index, which compares values and not their encoding.     *)
IndexNestedLoopJoin(p, lrows) ==
  LET inner == db[p.right.table]
      at == ResolveColumn(p.right.out, Attr(p.rkeys[1]))
      key(l) == EvalQExpr(p.lkeys[1], p.left.out, l)
      hashed(l) == SelectSeq(inner, LAMBDA r : ~IsNullLit(key(l)) /\ EncodeRow(<<r[at]>>) = EncodeRow(<<key(l)>>))
      probed(l) == SelectSeq(inner, LAMBDA r : Compare("=", r[at], key(l)))
  IN FlattenSeq(MapSeq(lrows, LAMBDA l :
       Probe(l, IF hints.fits THEN hashed(l) ELSE probed(l), TRUE,
             p.residual, p.out, p.type = "left", Len(p.right.out))))
-----------------------------------------------------------------------------
(* Aggregation: an aggregate is <<"agg", <<function, distinct>>, argument>>. *)
Extreme(vals, sign) ==
  IF vals = <<>> THEN Null
  ELSE FoldLeft(LAMBDA cur, v : IF LiteralOrd(v, cur) * sign > 0 THEN v ELSE cur, vals[1], vals)
Accumulate(call, vals) ==
  LET present == SelectSeq(vals, LAMBDA v : ~IsNullLit(v))
      taken == IF Attr(call)[2] THEN Dedup(present) ELSE present
      sum == FoldLeft(LAMBDA s, v : EvalArith("+", s, v), IntLit(0), taken)
  IN CASE Attr(call)[1] = "count" -> IntLit(IF Kids(call) = <<>> THEN Len(vals) ELSE Len(taken))
       [] Attr(call)[1] = "sum" -> IF taken = <<>> THEN Null ELSE sum
       [] Attr(call)[1] = "avg" ->
            IF taken = <<>> THEN Null ELSE LET f == Fraction(sum) IN FloatLit(f[1], f[2] * Len(taken))
       [] Attr(call)[1] = "min" -> Extreme(taken, -1)
       [] Attr(call)[1] = "max" -> Extreme(taken, 1)
Aggregate(p, rows) ==
  LET schema == p.input.out
      keyOf(row) == KeyValues(p.groups, schema, row)
      keys == Dedup(MapSeq(rows, keyOf))
      arg(call, row) == IF Kids(call) = <<>> THEN Null ELSE EvalQExpr(Kids(call)[1], schema, row)
      finish(mine) == MapSeq(p.aggs, LAMBDA call : Accumulate(call, MapSeq(mine, LAMBDA r : arg(call, r))))
  IN IF rows = <<>> /\ p.groups = <<>> THEN <<finish(<<>>)>>
     ELSE MapSeq(keys, LAMBDA k : k \o finish(SelectSeq(rows, LAMBDA r : keyOf(r) = k)))

(* COUNT star over a scan reads the table's row counter, taken to be exact *)
(* here; over a filtered scan it counts while scanning.                    *)
OnlyCounts(p) == \A i \in DOMAIN p.aggs : Attr(p.aggs[i]) = <<"count", FALSE>> /\ Kids(p.aggs[i]) = <<>>
CountsScan(p) == p.groups = <<>> /\ p.aggs # <<>> /\ OnlyCounts(p) /\ p.input.node = "scan"
CountsFilter(p) ==
  /\ p.groups = <<>> /\ p.aggs # <<>> /\ OnlyCounts(p)
  /\ p.input.node = "filter" /\ p.input.input.node = "scan" /\ ~HasSubquery(p.input.pred)
CountAll(p, n) == <<[i \in DOMAIN p.aggs |-> IntLit(n)]>>
CountMatching(f) ==
  Len(SelectSeq(db[f.input.table], LAMBDA r : EvalPredicate(f.pred, f.input.out, r)))

(* GROUP BY of some columns of a scanned table with counts only decodes    *)
(* just those columns.                                                     *)
CountsGroups(p) ==
  /\ p.groups # <<>> /\ OnlyCounts(p) /\ p.input.node = "scan"
  /\ \A i \in DOMAIN p.groups : Tag(p.groups[i]) = "col" /\ Attr(p.groups[i])[2] \in Names(p.input.out)
  /\ Cardinality(ToSet(p.groups)) < Len(p.input.out)
GroupCount(p) ==
  LET at == MapSeq(Dedup(p.groups), LAMBDA g : FirstTrue(p.input.out, LAMBDA c : c[2] = Attr(g)[2]))
      keyOf(row) == MapSeq(at, LAMBDA i : row[i])
      rows == db[p.input.table]
  IN MapSeq(Dedup(MapSeq(rows, keyOf)), LAMBDA k :
       k \o CountAll(p, Len(SelectSeq(rows, LAMBDA r : keyOf(r) = k)))[1])
-----------------------------------------------------------------------------
(* Sorting: NULL is the smallest value; beyond the memory budget sorted    *)
(* runs are merged.                                                        *)
CmpRows(a, b, keys) ==
  LET ord(k) ==
        LET x == a[k[1]] y == b[k[1]]
            base == CASE IsNullLit(x) /\ IsNullLit(y) -> 0 [] IsNullLit(x) -> -1 [] IsNullLit(y) -> 1
                      [] OTHER -> LiteralOrd(x, y)
        IN IF k[2] THEN base ELSE -base
      i == FirstTrue(keys, LAMBDA k : ord(k) # 0)
  IN IF i = 0 THEN 0 ELSE ord(keys[i])
RECURSIVE MergeRuns(_, _)
MergeRuns(runs, keys) ==
  LET open == {i \in DOMAIN runs : runs[i] # <<>>}
      least == CHOOSE i \in open : \A j \in open :
                 LET o == CmpRows(runs[i][1], runs[j][1], keys) IN o < 0 \/ (o = 0 /\ i <= j)
  IN IF open = {} THEN <<>>
     ELSE <<runs[least][1]>> \o MergeRuns([runs EXCEPT ![least] = Tail(@)], keys)
SortRows(rows, keys) ==
  LET sort(s) == StableSort(s, LAMBDA a, b : CmpRows(a, b, keys) < 0)
      n == (Len(rows) + hints.mem - 1) \div hints.mem
      chunk(i) == SubSeq(rows, (i - 1) * hints.mem + 1, IF i * hints.mem < Len(rows) THEN i * hints.mem ELSE Len(rows))
  IN IF Len(rows) <= hints.mem THEN sort(rows)
     ELSE MergeRuns([i \in 1..n |-> sort(chunk(i))], keys)
LimitRows(rows, limit, offset) ==
  SubSeq(rows, offset + 1, IF limit # <<>> /\ offset + limit[1] < Len(rows) THEN offset + limit[1] ELSE Len(rows))
-----------------------------------------------------------------------------
(* Window functions: rows are grouped by the partition keys, each group is *)
(* ordered, and every row gets the function's value over its group.        *)
PartitionRows(rows, schema, parts) ==
  LET keyOf(i) == KeyValues(parts, schema, rows[i])
      all == [i \in 1..Len(rows) |-> i]
  IN MapSeq(Dedup(MapSeq(all, keyOf)), LAMBDA k : SelectSeq(all, LAMBDA i : keyOf(i) = k))
OrderKeysEqual(a, b, schema, order) ==
  \A i \in DOMAIN order : Compare("=", EvalQExpr(order[i], schema, a), EvalQExpr(order[i], schema, b))
SortPartition(group, rows, schema, order, dirs) ==
  LET before(i, j) ==
        LET x == KeyValues(order, schema, rows[i])
            y == KeyValues(order, schema, rows[j])
            d == FirstTrue([n \in DOMAIN order |-> n], LAMBDA n : Compare("<", x[n], y[n]) \/ Compare(">", x[n], y[n]))
        IN d # 0 /\ Compare(IF dirs[d] THEN "<" ELSE ">", x[d], y[d])
  IN StableSort(group, before)

WindowAgg(func, vals, size) ==
  IF func = "count" THEN IntLit(size) ELSE Accumulate(<<"agg", <<func, FALSE>>, <<0>>>>, vals)
WindowValue(e, group, pos, schema) ==
  LET func == Attr(e)[1]
      arg(i) == EvalQExpr(WindowArgs(e)[1], schema, group[i])
      same(i, j) == OrderKeysEqual(group[i], group[j], schema, WindowOrder(e))
      first == CHOOSE i \in 1..pos : /\ \A j \in i..pos : same(j, pos)
                                     /\ i > 1 => ~same(i - 1, pos)
  IN CASE func = "row_number" -> IntLit(pos)
       [] func = "rank" -> IntLit(first)
       [] func = "dense_rank" -> IntLit(1 + Cardinality({i \in 2..pos : ~same(i - 1, i)}))
       [] func = "lag" -> IF Attr(e)[2] >= pos THEN Null ELSE arg(pos - Attr(e)[2])
       [] func = "lead" -> IF pos + Attr(e)[2] > Len(group) THEN Null ELSE arg(pos + Attr(e)[2])
       [] OTHER -> WindowAgg(func, [i \in DOMAIN group |-> IF WindowArgs(e) = <<>> THEN Null ELSE arg(i)], Len(group))
(* The value of window expression e for every row. *)
WindowColumn(e, rows, schema) ==
  LET groups == MapSeq(PartitionRows(rows, schema, WindowPartition(e)), LAMBDA g :
                  SortPartition(g, rows, schema, WindowOrder(e), Attr(e)[5]))
      place(i) == CHOOSE gp \in {<<g, p>> : g \in DOMAIN groups, p \in 1..Len(rows)} :
                    gp[2] <= Len(groups[gp[1]]) /\ groups[gp[1]][gp[2]] = i
  IN [i \in 1..Len(rows) |->
        WindowValue(e, MapSeq(groups[place(i)[1]], LAMBDA j : rows[j]), place(i)[2], schema)]
-----------------------------------------------------------------------------
(* Set operations compare encoded rows. *)
RemoveEach(rows, gone) == FoldLeft(LAMBDA acc, r : RemoveFirst(acc, r), rows, gone)
SetOpRows(op, all, left, right) ==
  CASE op = "union" -> IF all THEN left \o right ELSE Dedup(left \o right)
    [] op = "intersect" ->
         IF all THEN RemoveEach(left, RemoveEach(left, right))
         ELSE Dedup(SelectSeq(left, LAMBDA r : Contains(right, r)))
    [] op = "except" ->
         IF all THEN RemoveEach(left, right) ELSE Dedup(SelectSeq(left, LAMBDA r : ~Contains(right, r)))
-----------------------------------------------------------------------------
(* A subquery runs once per outer row: its references to the outer row     *)
(* become literals first.                                                  *)
RECURSIVE SubstituteCorrelated(_, _, _, _)
SubstituteCorrelated(e, inner, outer, row) ==
  IF Tag(e) = "col"
  THEN LET at == ResolveColumn(outer, Attr(e)) IN
       IF ResolveColumn(inner, Attr(e)) = 0 /\ at # 0 THEN Literal(row[at]) ELSE e
  ELSE WithKids(e, MapSeq(Kids(e), LAMBDA k : SubstituteCorrelated(k, inner, outer, row)))
RECURSIVE BindCorrelatedFrom(_, _, _, _)
BindCorrelatedFrom(f, inner, outer, row) ==
  IF f[1] # "join" THEN f
  ELSE LET side(s) == BindCorrelatedFrom(s, inner, outer, row) IN
       <<"join", f[2], side(f[3]), side(f[4]),
         MapSeq(f[5], LAMBDA on : SubstituteCorrelated(on, inner, outer, row)), f[6], f[7]>>
BindCorrelated(spec, inner, outer, row) ==
  LET subst(e) == SubstituteCorrelated(e, inner, outer, row) IN
  [spec EXCEPT !.where = MapSeq(@, subst), !.having = MapSeq(@, subst), !.group = MapSeq(@, subst),
               !.proj = MapSeq(@, LAMBDA it : IF it[1] = "expr" THEN <<"expr", subst(it[2]), it[3]>> ELSE it),
               !.from = BindCorrelatedFrom(@, inner, outer, row)]

SchemasOf(env) == [n \in DOMAIN env |-> env[n].schema]

RECURSIVE Run(_, _)
RECURSIVE RunQuery(_, _)
RECURSIVE Eval(_, _, _, _)
RunSubquery(spec, schema, row, env) ==
  RunQuery(BindCorrelated(spec, PlanFrom(spec.from, SchemasOf(env)).out, schema, row), env)

(* What the pure evaluator handles is handed to it with all its operands:  *)
(* a subquery below one of those is an error of the program.               *)
PureTags == {"col", "lit", "isnull", "arith"}
Eval(e, schema, row, env) ==
  LET sub == RunSubquery(Subquery(e), schema, row, env)
      firsts == MapSeq(sub.rows, LAMBDA r : r[1])
      needle == Eval(Kids(e)[1], schema, row, env)
  IN CASE Tag(e) \in PureTags -> EvalQExpr(e, schema, row)
       [] Tag(e) = "exists" -> BoolLit((sub.rows # <<>>) # Attr(e)[1])
       [] Tag(e) = "scalar" -> IF sub.rows = <<>> THEN Null ELSE firsts[1]
       [] Tag(e) = "insub" ->
            CASE IsNullLit(needle) -> Null
              [] ~IsNullLit(needle) /\ \E i \in DOMAIN firsts : Compare("=", needle, firsts[i]) -> BoolLit(~Attr(e)[1])
              [] OTHER -> IF Contains(firsts, Null) THEN Null ELSE BoolLit(Attr(e)[1])
       [] OTHER -> EvalNode(e, MapSeq(Kids(e), LAMBDA k : Eval(k, schema, row, env)))

ProjectRows(p, rows, env) ==
  LET columns == [i \in DOMAIN p.items |->
                    IF IsWindow(p.items[i]) THEN WindowColumn(p.items[i], rows, p.input.out)
                    ELSE MapSeq(rows, LAMBDA r : Eval(p.items[i], p.input.out, r, env))]
  IN [n \in DOMAIN rows |-> [i \in DOMAIN p.items |-> columns[i][n]]]

(* The rows of a plan node. *)
Run(p, env) ==
  CASE p.node = "scan" -> ScanRows(p.table)
    [] p.node = "index" -> IndexScan(p)
    [] p.node = "cte" -> env[p.name].rows
    [] p.node = "dual" -> <<<<>>>>
    [] p.node = "derived" -> Run(p.input, env)
    [] p.node = "filter" ->
         SelectSeq(Run(p.input, env), LAMBDA r : AsBool(Eval(p.pred, p.out, r, env)))
    [] p.node = "project" -> ProjectRows(p, Run(p.input, env), env)
    [] p.node = "loop" -> NestedLoopJoin(p, Run(p.left, env), Run(p.right, env))
    [] p.node = "hash" -> HashJoin(p, Run(p.left, env), Run(p.right, env))
    [] p.node = "merge" -> MergeJoin(p, Run(p.left, env), Run(p.right, env))
    [] p.node = "inlj" -> IndexNestedLoopJoin(p, Run(p.left, env))
    [] p.node = "agg" ->
         CASE CountsScan(p) -> CountAll(p, Len(db[p.input.table]))
           [] ~CountsScan(p) /\ CountsFilter(p) -> CountAll(p, CountMatching(p.input))
           [] CountsGroups(p) -> GroupCount(p)
           [] OTHER -> Aggregate(p, Run(p.input, env))
    [] p.node = "distinct" -> Dedup(Run(p.input, env))
    [] p.node = "sort" -> SortRows(Run(p.input, env), p.keys)
    [] p.node = "limit" -> LimitRows(Run(p.input, env), p.limit, p.offset)

(* WITH is materialised in order, each body seeing the ones before it. *)
RECURSIVE MaterializeCtes(_, _)
MaterializeCtes(with, env) ==
  IF with = <<>> THEN env
  ELSE LET name == with[1][1]
           plan == PlanQuery(with[1][2], SchemasOf(env))
           batch == [schema |-> plan.out, rows |-> Run(plan, env)]
       IN MaterializeCtes(Tail(with), (name :> batch) @@ env)
RunQuery(spec, env) ==
  LET inner == MaterializeCtes(spec.with, env)
      plan == PlanQuery(spec, SchemasOf(inner))
  IN [schema |-> plan.out, rows |-> IF IsError(plan) THEN <<>> ELSE Run(plan, inner)]
NoCtes == [n \in {} |-> [schema |-> <<>>, rows |-> <<>>]]
=============================================================================
