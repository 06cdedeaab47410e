---------------------------- MODULE QueryMeaning ----------------------------
(***************************************************************************)
(* What a statement means over the rows its policies leave visible, and    *)
(* which columns that depends on (QueryReference does the same for one     *)
(* query over given rows).                                                 *)
(***************************************************************************)
EXTENDS TableAccess

CONSTANT Tables  \* names of the base tables

(* The rows the policies leave, and the same with every column that is not *)
(* among the declared reads overwritten.                                   *)
VisibleDb ==
  [t \in Tables |-> SelectSeq(db[t], LAMBDA r : PredicateMatches(PolicyOf(t), t, r))]
ScrambledDb(reads) ==
  [t \in Tables |->
     MapSeq(VisibleDb[t], LAMBDA r :
       [i \in DOMAIN r |-> IF <<t, ColumnNames(t)[i]>> \in reads THEN r[i] ELSE IntLit(9)])]
Visible == INSTANCE QueryReference WITH db <- VisibleDb
Scrambled(reads) == INSTANCE QueryReference WITH db <- ScrambledDb(reads)

SpecOf(st) == BuildQuerySpec(st[2])
SameBag(a, b) == Len(a) = Len(b) /\ \A x \in ToSet(a) : Visible!Count(a, x) = Visible!Count(b, x)
RECURSIVE SetOpMeaning(_)
Outs(s) == MapSeq(s.rows, LAMBDA r : r.out)
SetOpMeaning(st) ==
  IF st[1] = "select" THEN Outs(Visible!RefRows(SpecOf(st), <<>>, NoCtes))
  ELSE LET l == SetOpMeaning(st[4])
           r == SetOpMeaning(st[5])
           times(x) ==
             LET a == Visible!Count(l, x)
                 b == Visible!Count(r, x)
                 once(n) == IF st[3] \/ n = 0 THEN n ELSE 1
             IN CASE st[2] = "union" -> once(a + b)
                  [] st[2] = "intersect" -> once(IF a < b THEN a ELSE b)
                  [] st[2] = "except" ->
                       IF st[3] THEN (IF a > b THEN a - b ELSE 0) ELSE once(IF b = 0 THEN a ELSE 0)
       IN FlattenSeq(MapSeq(SetToSeq(ToSet(l) \cup ToSet(r)), LAMBDA x : [i \in 1..times(x) |-> x]))

(* The WHERE of an UPDATE or DELETE holds of a visible row. *)
Touched(where, table, row) ==
  /\ PredicateMatches(PolicyOf(table), table, row)
  /\ where = <<>> \/ AsBool(Visible!RefEval(ConvertQExpr(where[1]), <<Visible!Frame(Schema(table), row, <<>>)>>, NoCtes))
Assigned(st, row) ==
  [i \in DOMAIN row |->
     LET a == FirstTrue(st[3], LAMBDA x : x[1] = ColumnNames(st[2])[i]) IN
     IF a = 0 THEN row[i]
     ELSE Visible!RefEval(ConvertQExpr(st[3][a][2]), <<Visible!Frame(Schema(st[2]), row, <<>>)>>, NoCtes)]
Meaning(st) ==
  CASE st[1] = "delete" -> SelectSeq(db[st[2]], LAMBDA r : ~Touched(st[3], st[2], r))
    [] st[1] = "update" ->
         MapSeq(db[st[2]], LAMBDA r : IF Touched(st[4], st[2], r) THEN Assigned(st, r) ELSE r)
    [] OTHER -> SetOpMeaning(st)

(* The rows are an answer to the statement, in the order ORDER BY asks for *)
(* (of a table after an UPDATE or DELETE: its rows).                       *)
IsAnswer(rows, st) ==
  IF st[1] = "select" THEN Visible!Conforms(rows, SpecOf(st)) ELSE SameBag(rows, Meaning(st))

(* No column outside `reads` has an influence on the statement.            *)
DependsOnlyOn(st, reads) ==
  st[1] = "select" =>
    Visible!RefRows(SpecOf(st), <<>>, NoCtes) = Scrambled(reads)!RefRows(SpecOf(st), <<>>, NoCtes)
=============================================================================
