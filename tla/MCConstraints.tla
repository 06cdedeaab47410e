---------------------------- MODULE MCConstraints ----------------------------
(* Constraints on small instances: what up to three transactions run. *)
EXTENDS Constraints

P(k)        == [tab |-> "P", key |-> k, ref |-> 0]
C(k, f)     == [tab |-> "C", key |-> k, ref |-> f]

InsP(k)     == [NoStmt EXCEPT !.op = "insert", !.key = k]
InsC(k, f)  == [NoStmt EXCEPT !.op = "insert", !.tab = "C", !.key = k, !.ref = f]
UpsP(k)     == [NoStmt EXCEPT !.op = "upsert", !.key = k]
UpsC(k, f)  == [NoStmt EXCEPT !.op = "upsert", !.tab = "C", !.key = k, !.ref = f]
DelP(k)     == [NoStmt EXCEPT !.op = "delete", !.key = k]
DelC(k)     == [NoStmt EXCEPT !.op = "delete", !.tab = "C", !.key = k]
KeyP(k, n)  == [NoStmt EXCEPT !.op = "rekey", !.key = k, !.new = n]
KeyC(k, n)  == [NoStmt EXCEPT !.op = "rekey", !.tab = "C", !.key = k, !.new = n]
RefC(k, f)  == [NoStmt EXCEPT !.op = "reref", !.tab = "C", !.key = k, !.ref = f]
Touch(t, k) == [NoStmt EXCEPT !.op = "touch", !.tab = t, !.key = k]
Read(k)     == [NoStmt EXCEPT !.op = "read", !.key = k]

Load(old, iso, stmts) == [old |-> old, iso |-> [x \in Xids |-> iso], stmts |-> stmts]

RC  == "ReadCommitted"
Ser == "Serializable"

\* A report that reads two rows, beside one who reads the first and changes the
\* second and one who changes the first.
Report == {Load(<<P(1), P(2)>>, Ser,
                <<<<Read(1), Touch("P", 2)>>, <<Touch("P", 1)>>, <<Read(1), Read(2)>>>>)}

\* Inserters of one key; parent's deletion or renaming against the child's
\* insertion or new reference; keys taken crosswise; a key's removal and return;
\* write skew of two and three transactions; the report.
SafeLoads ==
  {Load(<<>>, RC, <<<<InsP(1), InsP(2)>>, <<InsP(2), InsP(1)>>, <<UpsP(1)>>>>),
   Load(<<P(1)>>, RC, <<<<InsC(1, 1)>>, <<DelP(1), InsP(1)>>, <<InsC(2, 1), DelC(1)>>>>),
   Load(<<P(1), C(1, 1)>>, RC, <<<<DelC(1), DelP(1)>>, <<InsC(2, 1)>>, <<UpsC(1, 1), Touch("C", 2)>>>>),
   Load(<<P(1)>>, RC, <<<<KeyP(1, 1)>>, <<InsP(1), KeyP(1, 2)>>, <<KeyP(1, 1)>>>>),
   Load(<<P(1), P(2), C(1, 1)>>, RC, <<<<RefC(1, 2)>>, <<KeyP(2, 3)>>, <<DelP(1)>>>>),
   Load(<<P(1), P(2), C(1, 1)>>, RC, <<<<RefC(1, 2), DelP(1)>>, <<KeyP(2, 4), InsP(2)>>, <<InsP(4)>>>>),
   Load(<<P(1), P(2)>>, Ser, <<<<Read(1), Touch("P", 2)>>, <<Read(2), Touch("P", 1)>>, <<>>>>),
   Load(<<P(1), P(2), P(3)>>, Ser,
        <<<<Read(1), Touch("P", 2)>>, <<Read(2), Touch("P", 3)>>, <<Read(3), DelP(1)>>>>)} \cup Report

\* A key is committed after the snapshot; an update that is not HOT repoints the
\* index; a row with a HOT chain keeps its key.
LateKey    == {Load(<<>>, "RepeatableRead", <<<<InsP(1)>>, <<InsP(1)>>, <<>>>>)}
LateParent == {Load(<<P(1)>>, "RepeatableRead", <<<<InsC(1, 1)>>, <<DelP(1)>>, <<>>>>)}
Repointed  == {Load(<<P(1)>>, RC, <<<<Touch("P", 1)>>, <<InsP(1)>>, <<>>>>)}
SameKey    == {Load(<<P(1), C(1, 1)>>, RC, <<<<UpsC(1, 1)>>, <<KeyC(1, 1)>>, <<>>>>)}
==============================================================================
