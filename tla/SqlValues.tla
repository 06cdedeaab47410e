----------------------------- MODULE SqlValues ------------------------------
(***************************************************************************)
(* Values and expressions of the SQL layer: literals, their comparison and *)
(* arithmetic (sql/executor.rs), and the expression tree of a query        *)
(* (sql/query.rs, QExpr).                                                  *)
(*                                                                         *)
(* A literal is <<type, value>>.  Types other than the five below differ   *)
(* from them only in how they are written and compared.  A float is a      *)
(* fraction.  An expression is <<tag, attribute, operands>>; the operands  *)
(* of every kind of node are one sequence, so that one operator walks all  *)
(* of them.  Expressions whose evaluation is an error are not used.        *)
(***************************************************************************)
EXTENDS Integers, Sequences, FiniteSets, SequencesExt

Null == <<"null", 0>>
IntLit(n) == <<"int", n>>
BoolLit(b) == <<"bool", b>>
TextLit(s) == <<"text", s>>             \* a sequence of letters 1, 2, ...; each is also a word
FloatLit(n, d) == <<"float", <<n, d>>>> \* n / d

IsNullLit(l) == l[1] = "null"

(* The sign of a comparison: texts letter by letter, integers and floats   *)
(* as numbers.                                                             *)
Fraction(l) == IF l[1] = "float" THEN l[2] ELSE <<l[2], 1>>
TextOrdering(a, b) ==
  LET differ == {i \in DOMAIN a \cap DOMAIN b : a[i] # b[i]} IN
  IF differ = {} THEN Len(a) - Len(b)
  ELSE LET i == CHOOSE i \in differ : \A j \in differ : i <= j IN a[i] - b[i]
Ordering(l, r) ==
  CASE l[1] = "bool" -> IF l[2] = r[2] THEN 0 ELSE 1
    [] l[1] = "text" -> TextOrdering(l[2], r[2])
    [] OTHER -> LET a == Fraction(l) b == Fraction(r) IN a[1] * b[2] - b[1] * a[2]
ApplyCmp(op, sign) ==
  CASE op = "=" -> sign = 0 [] op = "<>" -> sign # 0 [] op = "<" -> sign < 0
    [] op = ">" -> sign > 0 [] op = "<=" -> sign <= 0 [] op = ">=" -> sign >= 0

(* A comparison with NULL is false: the logic has two values. *)
NullsEqual(op, l, r) == (IsNullLit(l) /\ IsNullLit(r)) \/ ApplyCmp(op, Ordering(l, r))
Compare(op, l, r) == ~IsNullLit(l) /\ ~IsNullLit(r) /\ ApplyCmp(op, Ordering(l, r))
AsBool(l) == l[1] = "bool" /\ l[2]

(* The order of two values that are not NULL: negative, zero or positive. *)
LiteralOrd(l, r) == IF Compare("=", l, r) THEN 0 ELSE IF Compare("<", l, r) THEN -1 ELSE 1

(* encode_row tags every value with its type: equal bytes are equal values *)
(* of one type, and NULL equals NULL.                                      *)
EncodeRow(row) == row
JoinKeyBytes(key) == IF \E i \in DOMAIN key : IsNullLit(key[i]) THEN <<>> ELSE <<EncodeRow(key)>>

(* Integers stay integers (and divide without a remainder); anything else  *)
(* is computed in floating point.                                          *)
EvalArith(op, l, r) ==
  LET a == Fraction(l) b == Fraction(r)
      num == CASE op = "+" -> a[1] * b[2] + b[1] * a[2]
               [] op = "-" -> a[1] * b[2] - b[1] * a[2]
               [] op = "*" -> a[1] * b[1]
               [] op = "/" -> a[1] * b[2]
      den == IF op = "/" THEN a[2] * b[1] ELSE a[2] * b[2]
  IN IF l[1] = "int" /\ r[1] = "int" THEN IntLit(num \div den) ELSE FloatLit(num, den)

(* LIKE: 0 stands for %, -1 for _.  MATCH: every word of the query occurs. *)
RECURSIVE LikeMatch(_, _)
LikeMatch(text, pattern) ==
  IF pattern = <<>> THEN text = <<>>
  ELSE LET p == Head(pattern) IN
       IF p = 0 THEN LikeMatch(text, Tail(pattern)) \/ (text # <<>> /\ LikeMatch(Tail(text), pattern))
       ELSE text # <<>> /\ p \in {-1, Head(text)} /\ LikeMatch(Tail(text), Tail(pattern))
MatchWords(text, query) == query # <<>> /\ ToSet(query) \subseteq ToSet(text)

EvalCast(l, to) ==
  CASE IsNullLit(l) -> Null
    [] to = "int" /\ l[1] = "bool" -> IntLit(IF l[2] THEN 1 ELSE 0)
    [] to = "int" /\ l[1] = "float" -> IntLit(l[2][1] \div l[2][2])
    [] to = "bool" /\ l[1] = "int" -> BoolLit(l[2] # 0)
    [] to = "float" -> <<"float", Fraction(l)>>
    [] OTHER -> l
-----------------------------------------------------------------------------
(* Expressions. *)
Tag(e) == e[1]
Attr(e) == e[2]
Kids(e) == e[3]
Column(q, n) == <<"col", <<q, n>>, <<>>>>
Literal(l) == <<"lit", l, <<>>>>
Cmp(op, a, b) == <<"cmp", op, <<a, b>>>>
And(a, b) == <<"and", 0, <<a, b>>>>
Coalesce(args) == <<"coalesce", 0, args>>

(* Nodes that hold a query: EXISTS, IN (query) and a scalar subquery; the  *)
(* attribute is <<negated, query>>.                                        *)
SubTags == {"exists", "insub", "scalar"}
Subquery(e) == Attr(e)[2]

(* A window function: <<function, offset, arguments, partition keys,       *)
(* directions of the order keys>>, over its operands in that order.        *)
WindowArgs(e) == SubSeq(Kids(e), 1, Attr(e)[3])
WindowPartition(e) == SubSeq(Kids(e), Attr(e)[3] + 1, Attr(e)[3] + Attr(e)[4])
WindowOrder(e) == SubSeq(Kids(e), Attr(e)[3] + Attr(e)[4] + 1, Len(Kids(e)))

MapSeq(s, Op(_)) == [i \in DOMAIN s |-> Op(s[i])]
WithKids(e, kids) == <<Tag(e), Attr(e), kids>>

RECURSIVE HasAggregate(_)
HasAggregate(e) ==
  \/ Tag(e) = "agg"
  \/ Tag(e) # "window" /\ \E i \in DOMAIN Kids(e) : HasAggregate(Kids(e)[i])

RECURSIVE HasSubquery(_)
HasSubquery(e) ==
  \/ Tag(e) \in SubTags
  \/ Tag(e) # "window" /\ \E i \in DOMAIN Kids(e) : HasSubquery(Kids(e)[i])

IsWindow(e) == Tag(e) = "window"

RECURSIVE Conjuncts(_)
Conjuncts(e) ==
  IF Tag(e) = "and" THEN Conjuncts(Kids(e)[1]) \o Conjuncts(Kids(e)[2]) ELSE <<e>>

(* An equality of two columns. *)
IsEqui(e) == Tag(e) = "cmp" /\ Attr(e) = "=" /\ \A i \in 1..2 : Tag(Kids(e)[i]) = "col"
-----------------------------------------------------------------------------
(* A schema is a sequence of <<qualifier, name>>; 0 is a reference that is *)
(* unknown or ambiguous, and "" matches every qualifier.                   *)
ResolveColumn(schema, col) ==
  LET hits == {i \in DOMAIN schema : schema[i][2] = col[2] /\ col[1] \in {"", schema[i][1]}}
  IN IF Cardinality(hits) = 1 THEN CHOOSE i \in hits : TRUE ELSE 0

(* collect_columns does not look into a subquery or at its needle. *)
RECURSIVE ColumnsOf(_)
ColumnsOf(e) ==
  CASE Tag(e) = "col" -> {Attr(e)}
    [] Tag(e) \in SubTags -> {}
    [] OTHER -> UNION {ColumnsOf(Kids(e)[i]) : i \in DOMAIN Kids(e)}

(* validate_expr: the columns resolve and no aggregate is left; a subquery *)
(* is validated when it is planned.                                        *)
RECURSIVE ValidExpr(_, _)
ValidExpr(e, schema) ==
  /\ Tag(e) = "col" => ResolveColumn(schema, Attr(e)) # 0
  /\ Tag(e) # "agg"
  /\ \A i \in DOMAIN Kids(e) : ValidExpr(Kids(e)[i], schema)

(* The branches of a CASE: pairs <<condition, result>>. *)
CaseBranches(e) ==
  LET first == IF Attr(e)[1] THEN 1 ELSE 0 IN
  [i \in 1..((Len(Kids(e)) - first) \div 2) |-> <<Kids(e)[first + 2 * i - 1], Kids(e)[first + 2 * i]>>]
CaseElse(e) == IF Attr(e)[2] THEN <<Last(Kids(e))>> ELSE <<>>

FirstTrue(s, P(_)) ==
  LET hits == {i \in DOMAIN s : P(s[i])} IN
  IF hits = {} THEN 0 ELSE CHOOSE i \in hits : \A j \in hits : i <= j
=============================================================================
