------------------------------- MODULE Query --------------------------------
(***************************************************************************)
(* A statement from its text to its result: parsed to a plan, its column   *)
(* reads checked, its parameters bound, its tables' row policies added,    *)
(* then executed (lib.rs, execute_sql_as_principal and below).  The result *)
(* is compared with what the statement means (QueryMeaning).               *)
(*                                                                         *)
(* The modules of the engine are functions of the rows the snapshot sees,  *)
(* the planner's choices and the session; a behaviour starts by choosing   *)
(* these and the statement.  The executor and the meaning are parameters   *)
(* here, with their values below (RunPlan, Answers, Depends), so that the  *)
(* stages can be read, and counted by TLC, without what is inside them.    *)
(***************************************************************************)
EXTENDS Sequences

CONSTANTS
  ColumnNames(_), Indexed, FullText,  \* the schema (QueryPlan, TableAccess)
  Tables,               \* names of the base tables
  Inputs,               \* what is executed: records of stmt, db, hints and session
  Executed(_, _),       \* RunPlan
  Correct(_, _, _),     \* Answers
  Sufficient(_, _, _)    \* Depends

VARIABLES
  stmt,    \* the statement
  input,   \* the rows of the tables, the planner's choices and the session
  stage,   \* the next step on it
  plan,    \* its logical plan
  reads,   \* the columns it was checked for
  result   \* the rows it returned (of a table after an UPDATE or DELETE)

queryVars == <<stmt, input, stage, plan, reads, result>>

Engine(i) == INSTANCE TableAccess WITH db <- i.db, hints <- i.hints, session <- i.session
Reference(i) == INSTANCE QueryMeaning WITH db <- i.db, hints <- i.hints, session <- i.session

RunPlan(p, i) == LET rows == Engine(i)!ExecPlan(p) IN rows
Answers(rows, st, i) == LET yes == Reference(i)!IsAnswer(rows, st) IN yes
Depends(st, cols, i) == LET yes == Reference(i)!DependsOnlyOn(st, cols) IN yes

QueryInit ==
  /\ \E i \in Inputs : stmt = i.stmt /\ input = i
  /\ stage = "parse" /\ plan = Engine(input)!PlanError /\ reads = {} /\ result = <<>>

Parse ==
  /\ stage = "parse"
  /\ plan' = Engine(input)!Convert(stmt)
  /\ stage' = IF plan'.kind = "error" THEN "failed" ELSE "check"
  /\ UNCHANGED <<stmt, input, reads, result>>

CheckReads ==
  /\ stage = "check"
  /\ reads' = Engine(input)!PlanReads(plan)
  /\ stage' = "bind"
  /\ UNCHANGED <<stmt, input, plan, result>>

BindParams ==
  /\ stage = "bind"
  /\ plan' = Engine(input)!BindPlan(plan)
  /\ stage' = "policy"
  /\ UNCHANGED <<stmt, input, reads, result>>

ApplyPolicies ==
  /\ stage = "policy"
  /\ plan' = Engine(input)!RlsPlan(plan)
  /\ stage' = "run"
  /\ UNCHANGED <<stmt, input, reads, result>>

Execute ==
  /\ stage = "run"
  /\ result' = Executed(plan, input)
  /\ stage' = "done"
  /\ UNCHANGED <<stmt, input, plan, reads>>

QueryNext ==
  Parse \/ CheckReads \/ BindParams \/ ApplyPolicies \/ Execute
QuerySpec == QueryInit /\ [][QueryNext]_queryVars
-----------------------------------------------------------------------------
(* Whatever path a statement takes (table path or query path, index or     *)
(* scan, any join order and method, in memory or spilled), its result is   *)
(* the statement's meaning over the rows its policies leave visible, up to *)
(* the order ORDER BY leaves open (sql/plan.rs, sql/optimizer.rs,          *)
(* sql/query_exec.rs, sql/executor.rs exec_select).                        *)
QueryExact == stage = "done" => Correct(result, stmt, input)

(* The columns a SELECT was checked for (collect_query_column_reads,       *)
(* check_column_privileges) are all it can depend on: changing every other *)
(* column of every table does not change its meaning.  (UPDATE and DELETE  *)
(* rewrite whole rows, and are not asked.)                                 *)
ReadsDeclared == stage = "done" => Sufficient(stmt, reads, input)
=============================================================================
