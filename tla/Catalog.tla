------------------------------- MODULE Catalog -------------------------------
(***************************************************************************)
(* The catalog (catalog.rs) and the DDL statements of the executor.        *)
(*                                                                         *)
(* A catalog value holds the tables (live columns, indexed columns, the    *)
(* SERIAL counter, the heap the table points at), the named types and the  *)
(* triggers.  A DDL statement is a sequence of catalog EDITS, each of      *)
(* which changes the in-memory catalog and writes a whole new copy of it   *)
(* to a fresh page chain (Catalog::persist); a statement may stop half way *)
(* through its edits.  An edit that its catalog refuses yields the same    *)
(* catalog with ok = FALSE.                                                *)
(***************************************************************************)
EXTENDS Naturals, FiniteSets, Sequences, SequencesExt, TLC

CONSTANT Functions        \* registered stored functions

(* Catalog::new: what an empty database starts with.                       *)
EmptyCatalog ==
  [ok |-> TRUE, tables |-> << >>, types |-> {}, triggers |-> << >>]

Refused(cat) == [cat EXCEPT !.ok = FALSE]

HasTable(cat, e) == e.t \in DOMAIN cat.tables

(* The columns of table e.t whose name may still be resolved.              *)
LiveCols(cat, e) == cat.tables[e.t].cols

SetTable(cat, e, def) ==
  [cat EXCEPT !.tables = [t \in {e.t} \cup DOMAIN @ |->
                            IF t = e.t THEN def ELSE @[t]]]

Without(f, k) == [x \in DOMAIN f \ {k} |-> f[x]]

(***************************************************************************)
(* One operator per catalog method.                                        *)
(***************************************************************************)
(* create_table: a table is born with a fresh space map, named here after  *)
(* the statement that made it.                                             *)
CreateTable(cat, e) ==
  IF HasTable(cat, e) THEN Refused(cat)
  ELSE SetTable(cat, e, [cols |-> e.cols, flagged |-> {}, rooted |-> {},
                         unique |-> {}, include |-> {}, type |-> e.type,
                         serial |-> 1, heap |-> e.tag, stats |-> FALSE,
                         events |-> FALSE])

SetColumnUniqueIndexRoot(cat, e) ==
  IF HasTable(cat, e) /\ e.c \in LiveCols(cat, e)
    THEN [cat EXCEPT !.tables[e.t].unique = @ \cup {e.c}] ELSE Refused(cat)

(* set_column_index: only the flag; the tree does not exist yet.           *)
SetColumnIndex(cat, e) ==
  IF HasTable(cat, e) /\ e.c \in LiveCols(cat, e)
    THEN [cat EXCEPT !.tables[e.t].flagged = @ \cup {e.c}] ELSE Refused(cat)

SetColumnIndexRoot(cat, e) ==
  IF HasTable(cat, e) /\ e.c \in LiveCols(cat, e)
    THEN [cat EXCEPT !.tables[e.t].rooted = @ \cup {e.c}] ELSE Refused(cat)

(* The INCLUDE columns are looked at only after the tree is in place.      *)
SetColumnIncludeCols(cat, e) ==
  IF HasTable(cat, e) /\ e.inc \subseteq LiveCols(cat, e)
    THEN [cat EXCEPT !.tables[e.t].include = e.inc] ELSE Refused(cat)

AddColumn(cat, e) ==
  IF ~HasTable(cat, e) \/ e.c \in LiveCols(cat, e) THEN Refused(cat)
  ELSE [cat EXCEPT !.tables[e.t].cols = @ \cup {e.c}]

(* drop_column: a tombstone, which takes the index flag and the column's   *)
(* constraints with it; the last column stays.                             *)
DropColumn(cat, e) ==
  IF \/ ~HasTable(cat, e)
     \/ e.c \notin LiveCols(cat, e)
     \/ Cardinality(LiveCols(cat, e)) <= 1
    THEN Refused(cat)
    ELSE [cat EXCEPT !.tables[e.t].cols = @ \ {e.c},
                     !.tables[e.t].flagged = @ \ {e.c}]

(* drop_table takes its statistics and its triggers along.                 *)
DropTable(cat, e) ==
  IF ~HasTable(cat, e) THEN Refused(cat)
  ELSE [cat EXCEPT !.tables = Without(@, e.t),
                   !.triggers = [g \in {h \in DOMAIN @ : @[h] # e.t} |-> @[g]]]

(* truncate: the rows go by pointing the table at a new, empty heap.       *)
Truncate(cat, e) ==
  IF ~HasTable(cat, e) THEN Refused(cat)
  ELSE [cat EXCEPT !.tables[e.t].heap = e.tag, !.tables[e.t].stats = FALSE]

SetTableStats(cat, e) ==
  IF ~HasTable(cat, e) THEN Refused(cat)
  ELSE [cat EXCEPT !.tables[e.t].stats = TRUE]

(* alloc_serial: every identity value is persisted before it is used.      *)
AllocSerial(cat, e) ==
  IF ~HasTable(cat, e) THEN Refused(cat)
  ELSE [cat EXCEPT !.tables[e.t].serial = @ + 1]

SetEventsEnabled(cat, e) ==
  IF ~HasTable(cat, e) THEN Refused(cat)
  ELSE [cat EXCEPT !.tables[e.t].events = TRUE]

CreateNamedType(cat, e) ==
  IF e.type \in cat.types THEN Refused(cat)
  ELSE [cat EXCEPT !.types = @ \cup {e.type}]

(* drop_named_type: refused while a column of some table has the type.     *)
DropNamedType(cat, e) ==
  IF \/ e.type \notin cat.types
     \/ \E t \in DOMAIN cat.tables : cat.tables[t].type = e.type
    THEN Refused(cat)
    ELSE [cat EXCEPT !.types = @ \ {e.type}]

CreateTrigger(cat, e) ==
  IF ~HasTable(cat, e) \/ e.g \in DOMAIN cat.triggers THEN Refused(cat)
  ELSE [cat EXCEPT !.triggers = [g \in {e.g} \cup DOMAIN @ |->
                                   IF g = e.g THEN e.t ELSE @[g]]]

DropTrigger(cat, e) ==
  IF e.g \in DOMAIN cat.triggers /\ cat.triggers[e.g] = e.t
    THEN [cat EXCEPT !.triggers = Without(@, e.g)] ELSE Refused(cat)

(* What one edit makes of a catalog.                                       *)
Edited(cat, e) ==
  CASE e.do = "create_table"    -> CreateTable(cat, e)
    [] e.do = "unique_root"     -> SetColumnUniqueIndexRoot(cat, e)
    [] e.do = "index"           -> SetColumnIndex(cat, e)
    [] e.do = "index_root"      -> SetColumnIndexRoot(cat, e)
    [] e.do = "include"         -> SetColumnIncludeCols(cat, e)
    [] e.do = "add_column"      -> AddColumn(cat, e)
    [] e.do = "drop_column"     -> DropColumn(cat, e)
    [] e.do = "drop_table"      -> DropTable(cat, e)
    [] e.do = "truncate"        -> Truncate(cat, e)
    [] e.do = "stats"           -> SetTableStats(cat, e)
    [] e.do = "serial"          -> AllocSerial(cat, e)
    [] e.do = "events"          -> SetEventsEnabled(cat, e)
    [] e.do = "create_type"     -> CreateNamedType(cat, e)
    [] e.do = "drop_type"       -> DropNamedType(cat, e)
    [] e.do = "create_trigger"  -> CreateTrigger(cat, e)
    [] e.do = "drop_trigger"    -> DropTrigger(cat, e)

(***************************************************************************)
(* One operator per DDL statement of the executor: the edits it makes, in  *)
(* order, and whether it first needs the transaction's snapshot.           *)
(***************************************************************************)
(* exec_create_table: the table first, then one persisted root for every   *)
(* indexable PRIMARY KEY or UNIQUE column.                                 *)
ExecCreateTable(p) ==
  <<[do |-> "create_table", t |-> p.t, cols |-> p.cols, type |-> p.type,
     tag |-> p.tag]>>
  \o SetToSeq({[do |-> "unique_root", t |-> p.t, c |-> c] : c \in p.keys})

(* exec_create_index: flag, build, root, and only then the INCLUDE list.   *)
ExecCreateIndex(p) ==
  <<[do |-> "index", t |-> p.t, c |-> p.c],
    [do |-> "index_root", t |-> p.t, c |-> p.c]>>
  \o IF p.inc = {} THEN << >>
     ELSE <<[do |-> "include", t |-> p.t, c |-> p.c, inc |-> p.inc]>>

ExecAlterAddColumn(p)  == <<[do |-> "add_column", t |-> p.t, c |-> p.c]>>
ExecAlterDropColumn(p) == <<[do |-> "drop_column", t |-> p.t, c |-> p.c]>>
ExecDropTable(p)       == <<[do |-> "drop_table", t |-> p.t]>>
ExecTruncate(p)        == <<[do |-> "truncate", t |-> p.t, tag |-> p.tag]>>
ExecAnalyze(p)         == <<[do |-> "stats", t |-> p.t]>>
ExecCreateNamedType(p) == <<[do |-> "create_type", type |-> p.type]>>
ExecDropNamedType(p)   == <<[do |-> "drop_type", type |-> p.type]>>
ExecCreateTrigger(p)   == <<[do |-> "create_trigger", g |-> p.g, t |-> p.t]>>
ExecDropTrigger(p)     == <<[do |-> "drop_trigger", g |-> p.g, t |-> p.t]>>
FillSerials(p)         == <<[do |-> "serial", t |-> p.t]>>
EnableEvents(p)        == <<[do |-> "events", t |-> p.t]>>

Edits(p) ==
  CASE p.op = "create_table"   -> ExecCreateTable(p)
    [] p.op = "create_index"   -> ExecCreateIndex(p)
    [] p.op = "add_column"     -> ExecAlterAddColumn(p)
    [] p.op = "drop_column"    -> ExecAlterDropColumn(p)
    [] p.op = "drop_table"     -> ExecDropTable(p)
    [] p.op = "truncate"       -> ExecTruncate(p)
    [] p.op = "analyze"        -> ExecAnalyze(p)
    [] p.op = "create_type"    -> ExecCreateNamedType(p)
    [] p.op = "drop_type"      -> ExecDropNamedType(p)
    [] p.op = "create_trigger" -> ExecCreateTrigger(p)
    [] p.op = "drop_trigger"   -> ExecDropTrigger(p)
    [] p.op = "insert_serial"  -> FillSerials(p)
    [] p.op = "enable_events"  -> EnableEvents(p)

(* The names a statement resolves before its first edit: the named type of *)
(* a column, and the function of a trigger.                                *)
Resolves(cat, p) ==
  /\ p.op \in {"create_table"} => p.type = "none" \/ p.type \in cat.types
  /\ p.op = "create_trigger" => HasTable(cat, p) /\ p.f \in Functions

(* Statements that read the table first, under the transaction's snapshot. *)
TakesSnapshot(p) == p.op \in {"truncate", "analyze", "create_index", "insert_serial"}

(* ensure_session_sql_allowed: the statements a session refuses up front.  *)
SessionRefuses(p) ==
  p.op \in {"create_table", "create_index", "add_column", "drop_column",
            "drop_table", "truncate", "analyze"}

(* IF EXISTS: a missing object is success without an edit, any other       *)
(* refusal stays an error.                                                 *)
IfExists(cat, p) ==
  \/ p.op = "drop_table" /\ p.ifExists /\ ~HasTable(cat, p)
  \/ /\ p.op = "drop_column" /\ p.ifExists /\ HasTable(cat, p)
     /\ p.c \notin LiveCols(cat, p) /\ Cardinality(LiveCols(cat, p)) > 1
  \/ p.op = "drop_type" /\ p.ifExists /\ p.type \notin cat.types
  \/ /\ p.op = "drop_trigger" /\ p.ifExists
     /\ ~(p.g \in DOMAIN cat.triggers /\ cat.triggers[p.g] = p.t)

(* Replaying changes on a catalog, in the order in which they took effect. *)
Replay(base, changes) ==
  FoldLeft(LAMBDA cat, e : LET new == Edited(cat, e) IN
                             IF new.ok THEN new ELSE cat,
           base, changes)
=============================================================================
