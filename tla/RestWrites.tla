----------------------------- MODULE RestWrites ------------------------------
(***************************************************************************)
(* The writing half of the resource API (server/rest_resource.rs): how a   *)
(* POST, PATCH or DELETE on a collection becomes SQL statements.  A write  *)
(* is a record                                                             *)
(*   verb     "post", "patch" or "delete"                                  *)
(*   known    the live columns of the table, {} when there is no table     *)
(*   rows     post: the column set of each row of the body                 *)
(*   resolve  post: "none", "ignore" or "merge" duplicates                 *)
(*   target   post: the on_conflict columns named (none or one)            *)
(*   body     patch: the columns assigned                                  *)
(*   filters  patch, delete: [col, op, values] of each filter              *)
(*   does     what the statement for a filter value does in the engine     *)
(* and its translation the sequence of statements, empty when the request  *)
(* is turned down before a transaction begins.                             *)
(***************************************************************************)
EXTENDS Naturals, FiniteSets, Sequences

FilterOps ==
  {"eq", "neq", "gt", "gte", "lt", "lte", "like", "ilike", "in", "is"}

(* parse_op and parse_in: an operator of the list, and no empty in-list.   *)
ParseOp(f) == f.op \in FilterOps /\ (f.op = "in" => f.values # << >>)

(* validate_column: a column of the table that has not been dropped.       *)
ValidateColumn(w, c) == c \in w.known

ParseFilters(w) ==
  \A i \in DOMAIN w.filters :
    ValidateColumn(w, w.filters[i].col) /\ ParseOp(w.filters[i])

(* extract_single_in: the in-lists of a request; more than one is refused. *)
ExtractSingleIn(w) == SelectSeq(w.filters, LAMBDA f : f.op = "in")

(* build_insert: every row has exactly the columns of the first.           *)
BuildInsert(w) ==
  /\ w.rows # << >> /\ w.rows[1] # {}
  /\ \A c \in w.rows[1] : ValidateColumn(w, c)
  /\ \A i \in DOMAIN w.rows : w.rows[i] = w.rows[1]

(* append_on_conflict: merging needs a target and a column besides it.     *)
AppendOnConflict(w) ==
  /\ w.resolve \in {"ignore", "merge"} => \A c \in w.target : ValidateColumn(w, c)
  /\ w.resolve = "merge" => w.target # {} /\ w.rows[1] \ w.target # {}

(* build_assignments.                                                      *)
BuildAssignments(w) == w.body # {} /\ \A c \in w.body : ValidateColumn(w, c)

(* One statement, or one per value of the in-list.                         *)
PerValue(w) ==
  LET ins == ExtractSingleIn(w) IN
  IF ins = << >> THEN <<[op |-> w.does["all"]]>>
  ELSE [i \in DOMAIN ins[1].values |-> [op |-> w.does[ins[1].values[i]]]]

PostCollection(w) ==
  IF BuildInsert(w) /\ AppendOnConflict(w) THEN <<[op |-> w.does["all"]]>> ELSE << >>

PatchCollection(w) ==
  IF ParseFilters(w) /\ Len(ExtractSingleIn(w)) <= 1 /\ BuildAssignments(w)
    THEN PerValue(w) ELSE << >>

DeleteCollection(w) ==
  IF ParseFilters(w) /\ Len(ExtractSingleIn(w)) <= 1 THEN PerValue(w) ELSE << >>

RestStatements(w) ==
  CASE w.known = {}        -> << >>      \* lookup_table: no such table
    [] w.verb = "post"     -> PostCollection(w)
    [] w.verb = "patch"    -> PatchCollection(w)
    [] w.verb = "delete"   -> DeleteCollection(w)
=============================================================================
