------------------------------- MODULE Server --------------------------------
(***************************************************************************)
(* The HTTP server in front of the engine: transaction sessions and their  *)
(* idle reaper (txn_session.rs, server/mod.rs), the request handlers       *)
(* (handlers.rs), the bridge to the blocking engine (engine_handle.rs) and *)
(* the SQL entry points of the engine with the request-scoped rollback of  *)
(* DDL (lib.rs, catalog.rs).                                               *)
(*                                                                         *)
(* A handler is an async function: between two engine calls it holds only  *)
(* its local state, and it may be DROPPED at any await, by the request     *)
(* timeout of the router or by a client that hangs up.  The engine call    *)
(* itself runs on a blocking thread and finishes whether or not somebody   *)
(* still waits for it.  So a request is two processes: the handler (req)   *)
(* and the engine call it waits for (job).                                 *)
(***************************************************************************)
EXTENDS Catalog, RestWrites

CONSTANTS
  Reqs,        \* requests
  Users,       \* principals
  NoOne,       \* "no request", "no user"
  Reaper,      \* the idle reaper, as the holder of a session
  CronJobs,    \* registered cron jobs
  MaxXid,      \* transactions that may be begun
  Workloads    \* what the requests of one behaviour may ask for, and whether
               \* handlers are dropped (drops), the log may fail (faults) and
               \* commits may checkpoint (auto); no DDL where it may fail

ASSUME ServerAssumption ==
  /\ MaxXid \in Nat
  /\ NoOne \notin Reqs \cup Users
  /\ Reaper \notin Reqs \cup {NoOne}
(* Only SQL, row and COMMIT/ROLLBACK requests name a session; a cron run is *)
(* of a registered job, and "get" is the raw read of one row.              *)
ASSUME WorkloadsAssumption ==
  \A l \in Workloads : \A r \in Reqs : \A in \in l.inputs[r] :
    /\ DOMAIN in = {"kind", "user", "target", "script", "ser", "stop"}
    /\ in.kind \in {"begin", "rest", "cron", "admin", "batch", "rpc"} => in.target = 0
    /\ in.kind = "cron" => in.user \in CronJobs
    /\ in.kind = "get" => in.script[1].op = "get"
(* A request that carries statements carries a non-empty sequence of them,  *)
(* a write on a collection is turned down or becomes one (RestWrites), and  *)
(* SQL text holds no call below SQL.                                        *)
ASSUME ScriptsAssumption ==
  \A l \in Workloads : \A r \in Reqs : \A in \in l.inputs[r] :
    LET stmts == IF in.kind = "rest" THEN RestStatements(in.script[1]) ELSE in.script IN
    /\ in.kind \in {"sql", "rows", "rpc", "cron", "batch", "rest"} =>
         \/ in.kind = "rest" /\ stmts = << >>
         \/ Len(stmts) \in Nat \ {0} /\ DOMAIN stmts = 1..Len(stmts)
    /\ in.kind \in {"sql", "cron"} =>
         \A i \in DOMAIN stmts : stmts[i].op \notin {"row", "get"}

VARIABLES
  load,      \* the workload of this behaviour
  txn,       \* engine: xid -> [st, writes, ser]
  sess,      \* registry: xid -> principal, or NoOne when not registered
  busy,      \* registry: xid -> holder of the session's mutex
  idle,      \* sessions whose idle deadline has passed
  reaping,   \* sessions the reaper has claimed and not yet aborted
  req,       \* handlers
  job,       \* engine calls
  mem,       \* the in-memory catalog
  chain,     \* the catalog copies written so far, oldest first
  root,      \* control file: which copy a restart loads
  catLock,   \* writer of the catalog lock, or NoOne
  edits,     \* history: <<request, edit>> in the order they became durable
  undone,    \* history: requests whose edits the engine has taken back
  cut,       \* history: transactions one of whose requests was dropped
  cron,      \* cron job -> [running, last]: its guard and its last status
  crashes,   \* restarts left
  poisoned,  \* the log has failed to reach the disk, until the restart
  stuck      \* history: transactions whose rollback failed

catVars == <<mem, chain, root, catLock, edits, undone>>
sessVars == <<sess, busy, idle, reaping>>
logVars == <<poisoned, stuck>>
vars == <<load, logVars, txn, sessVars, req, job, catVars, cut, cron, crashes>>

Xids == 1..MaxXid
NoJob == [op |-> "none"]
Waiting == {"begin", "exec", "commit", "abort", "reabort", "edit"}

Init ==
  /\ load \in Workloads
  /\ txn = [x \in Xids |-> [st |-> "free", writes |-> {}, ser |-> FALSE]]
  /\ sess = [x \in Xids |-> NoOne]
  /\ busy = [x \in Xids |-> NoOne]
  /\ idle = {}
  /\ reaping = {}
  /\ req = [r \in Reqs |-> [pc |-> "new", in |-> NoJob, x |-> 0, i |-> 1,
                            slots |-> << >>, reply |-> "none"]]
  /\ job = [r \in Reqs |-> NoJob]
  /\ mem = load.schema
  /\ chain = <<load.schema>>
  /\ root = 1
  /\ catLock = NoOne
  /\ edits = << >>
  /\ undone = {}
  /\ cut = {}
  /\ cron = [j \in CronJobs |-> [running |-> FALSE, last |-> "none"]]
  /\ crashes = load.crashes
  /\ poisoned = FALSE
  /\ stuck = {}

(***************************************************************************)
(* Engine calls.  on_engine moves the call to a blocking thread: Call      *)
(* starts it, Return leaves its outcome for the handler, if there still is *)
(* one.                                                                    *)
(***************************************************************************)
Call(r, op, x, plans) ==
  [job EXCEPT ![r] = [op |-> op, x |-> x, plans |-> plans, k |-> 1,
                      st |-> "start", saved |-> 0, left |-> << >>,
                      out |-> "none"]]

Return(r, out) ==
  [job EXCEPT ![r] = IF req[r].pc = "gone" THEN NoJob
                     ELSE [@ EXCEPT !.out = out]]

Running(r, op) == job[r].op = op /\ job[r].out = "none"
Returned(r, pc) == req[r].pc = pc /\ job[r].op # "none" /\ job[r].out # "none"

(* Engine::begin_with_isolation: the xid is used up even when the log does *)
(* not take the record.                                                    *)
EngineBegin(r) ==
  /\ Running(r, "begin")
  /\ \E x \in Xids :
       /\ txn[x].st = "free" /\ \A y \in 1..(x - 1) : txn[y].st # "free"
       /\ \/ /\ txn' = [txn EXCEPT ![x] = [st |-> "open", writes |-> {},
                                           ser |-> req[r].in.ser]]
             /\ job' = [Return(r, "ok") EXCEPT ![r] =
                          IF @.op = "none" THEN @ ELSE [@ EXCEPT !.x = x]]
             /\ cut' = IF req[r].pc = "gone" THEN cut \cup {x} ELSE cut
          \/ /\ load.faults
             /\ txn' = [txn EXCEPT ![x].st = "aborted"]
             /\ job' = Return(r, "err")
             /\ UNCHANGED cut
  /\ UNCHANGED <<load, logVars, sessVars, req, catVars, cron, crashes>>

(* TransactionManager::abort: the undo records are applied and the abort   *)
(* logged before the transaction leaves the active set.                    *)
Rollback(x) ==
  /\ txn[x].st = "open"
  /\ txn' = [txn EXCEPT ![x].st = "aborted"]
  /\ UNCHANGED logVars

(* It fails on a transaction that is no longer active, or at the log, and  *)
(* then leaves it active.                                                  *)
RollbackFails(x) ==
  \/ /\ txn[x].st # "open"
     /\ UNCHANGED <<txn, logVars>>
  \/ /\ txn[x].st = "open" /\ load.faults
     /\ stuck' = stuck \cup {x}
     /\ UNCHANGED <<txn, poisoned>>

(* Engine::commit up to the durable commit record.  A serializable         *)
(* transaction may be refused, and is then rolled back before the error is *)
(* returned; one that wrote leaves the active set before its record is in  *)
(* the log and on disk, and if that fails only a restart can tell (doubt). *)
EngineCommit(r) ==
  /\ Running(r, "commit") /\ job[r].st = "start"
  /\ LET x == job[r].x
         open == txn[x].st = "open"
     IN \/ /\ ~open \/ txn[x].ser
           /\ Rollback(x) \/ RollbackFails(x)
           /\ job' = Return(r, "err")
        \/ /\ open /\ (txn[x].writes = {} \/ ~poisoned)
           /\ txn' = [txn EXCEPT ![x].st = "committed"]
           /\ job' = IF load.auto THEN [job EXCEPT ![r].st = "checkpoint"]
                                  ELSE Return(r, "ok")
           /\ UNCHANGED logVars
        \/ /\ open /\ txn[x].writes # {} /\ load.faults
           /\ txn' = [txn EXCEPT ![x].st = "doubt"]
           /\ job' = Return(r, "late")
           /\ poisoned' \in {poisoned, TRUE}
           /\ UNCHANGED stuck
  /\ UNCHANGED <<load, sessVars, req, catVars, cut, cron, crashes>>

Written == UNION {txn[x].writes : x \in Xids}

(* maybe_auto_checkpoint, at the end of a commit that is durable: not due, *)
(* or somebody is active; else the log is synced and the frontier for the  *)
(* pages remembered.  Its error is the commit's answer.                    *)
AutoCheckpoint(r) ==
  /\ Running(r, "commit") /\ job[r].st = "checkpoint"
  /\ LET quiescent == \A x \in Xids : txn[x].st # "open" IN
       \/ /\ job' = Return(r, "ok")
          /\ UNCHANGED poisoned
       \/ /\ quiescent /\ ~poisoned
          /\ job' = [job EXCEPT ![r].st = "flush", ![r].saved = Written]
          /\ UNCHANGED poisoned
       \/ /\ quiescent /\ load.faults
          /\ job' = Return(r, "late")
          /\ poisoned' \in {poisoned, TRUE}
  /\ UNCHANGED <<load, txn, sessVars, req, catVars, stuck, cut, cron, crashes>>

(* checkpoint::run after the sync: a page another request has changed in   *)
(* the meantime is ahead of the frontier, and flush_all refuses it (D5).   *)
CheckpointFlush(r) ==
  /\ Running(r, "commit") /\ job[r].st = "flush"
  /\ \/ job' = Return(r, "ok")
     \/ /\ Written # job[r].saved \/ load.faults
        /\ job' = Return(r, "late")
  /\ UNCHANGED <<load, logVars, txn, sessVars, req, catVars, cut, cron, crashes>>

(* Engine::abort.                                                          *)
EngineAbort(r) ==
  /\ Running(r, "abort")
  /\ \/ Rollback(job[r].x) /\ job' = Return(r, "ok")
     \/ RollbackFails(job[r].x) /\ job' = Return(r, "err")
  /\ UNCHANGED <<load, sessVars, req, catVars, cut, cron, crashes>>

(***************************************************************************)
(* Executing SQL: execute_sql_inner and its variants.  The catalog root is *)
(* remembered, the statements run one after another, and the first one     *)
(* that fails puts the remembered root back.                               *)
(***************************************************************************)
Plan(r) == job[r].plans[job[r].k]
Token(r, how) == <<r, req[r].i + job[r].k - 1, how>>

Raw == {"row", "get"}                 \* calls below SQL
Dml == {"write", "fail", "read"}

SaveCatalogRoot(r) ==
  /\ Running(r, "exec") /\ job[r].st = "start" /\ Plan(r).op \notin Raw
  /\ job' = [job EXCEPT ![r].saved = root, ![r].st = "plan"]
  /\ UNCHANGED <<load, logVars, txn, sessVars, req, catVars, cut, cron, crashes>>

(* The rest of the request after a statement that succeeded.               *)
NextPlan(r) ==
  IF job[r].k = Len(job[r].plans) THEN Return(r, "ok")
  ELSE [job EXCEPT ![r].k = @ + 1, ![r].st = "plan", ![r].left = << >>]

(* The rest of the request after one that failed: the catalog operations  *)
(* that are not SQL have nothing to put back.                              *)
Fail(r) ==
  IF job[r].op = "edit" THEN Return(r, "err")
  ELSE [job EXCEPT ![r].st = "restore", ![r].left = << >>]

(* A statement on rows, under the shared catalog lock.  One that fails may *)
(* already have changed rows; one on a transaction that has ended fails    *)
(* when it asks for its snapshot.                                          *)
ExecDml(r) ==
  /\ Running(r, "exec") /\ job[r].st = "plan"
  /\ Plan(r).op \in Dml
  /\ catLock = NoOne
  /\ LET x == job[r].x IN
       \/ /\ txn[x].st = "open" /\ Plan(r).op = "write"
          /\ txn' = [txn EXCEPT ![x].writes = @ \cup {Token(r, "full")}]
          /\ job' = NextPlan(r)
       \/ /\ txn[x].st = "open"
          /\ Plan(r).op = "fail" \/ (Plan(r).op = "write" /\ load.faults)
          /\ txn' = [txn EXCEPT ![x].writes = @ \cup {Token(r, "part")}]
          /\ job' = Fail(r)
       \/ /\ txn[x].st = "open" /\ Plan(r).op = "read"
          /\ \E out \in {NextPlan(r), Fail(r)} : job' = out
          /\ UNCHANGED txn
       \/ /\ txn[x].st # "open"
          /\ job' = Fail(r)
          /\ UNCHANGED txn
  /\ UNCHANGED <<load, logVars, sessVars, req, catVars, cut, cron, crashes>>

(* Engine::get / insert / update / delete on raw rows: a write changes the *)
(* heap first and asks for the transaction afterwards.                     *)
EngineRow(r) ==
  /\ Running(r, "exec") /\ Plan(r).op \in Raw
  /\ LET x == job[r].x
         open == txn[x].st = "open"
         wrote == [txn EXCEPT ![x].writes = @ \cup {Token(r, "full")}]
     IN \/ /\ Plan(r).op = "row"
           /\ txn' = wrote
           /\ job' = Return(r, IF open THEN "ok" ELSE "err")
        \/ /\ Plan(r).op = "get" /\ open
           /\ job' = Return(r, "ok")
           /\ UNCHANGED txn
        \/ /\ job' = Return(r, "err")
           /\ UNCHANGED txn
  /\ UNCHANGED <<load, logVars, sessVars, req, catVars, cut, cron, crashes>>

(* A catalog statement takes the catalog lock exclusively; Persist makes   *)
(* one edit in memory and writes the new catalog to a chain of its own.    *)
Persist(r, e) ==
  /\ mem' = Edited(mem, e)
  /\ chain' = Append(chain, Edited(mem, e))

ExecCatalog(r) ==
  /\ \/ Running(r, "exec") /\ job[r].st = "plan"
     \/ Running(r, "edit") /\ job[r].st = "start"
  /\ Plan(r).op \notin Dml \cup Raw
  /\ catLock = NoOne
  /\ LET p == Plan(r)
         todo == Edits(p)
         open == TakesSnapshot(p) => txn[job[r].x].st = "open"
     IN \/ /\ open /\ Resolves(mem, p) /\ Edited(mem, todo[1]).ok
           /\ Persist(r, todo[1])
           /\ catLock' = r
           /\ job' = [job EXCEPT ![r].st = "flip", ![r].left = todo]
        \/ /\ ~(open /\ Resolves(mem, p) /\ Edited(mem, todo[1]).ok)
           /\ job' = IF IfExists(mem, p) THEN NextPlan(r) ELSE Fail(r)
           /\ UNCHANGED <<mem, chain, catLock>>
  /\ UNCHANGED <<load, logVars, txn, sessVars, req, root, edits, undone, cut, cron, crashes>>

(* The end of persist: the control file is pointed at the new chain, whose *)
(* log records are durable by then.  Further edits of the statement follow *)
(* under the same lock; a refused one fails the statement.                 *)
FlipRoot(r) ==
  /\ Running(r, "exec") \/ Running(r, "edit")
  /\ job[r].st = "flip"
  /\ LET rest == Tail(job[r].left) IN
       /\ root' = Len(chain)
       /\ edits' = Append(edits, <<r, Head(job[r].left)>>)
       /\ \/ /\ rest # << >> /\ Edited(mem, rest[1]).ok
             /\ Persist(r, rest[1])
             /\ job' = [job EXCEPT ![r].left = rest]
             /\ UNCHANGED <<catLock, txn>>
          \/ /\ rest # << >> /\ ~Edited(mem, rest[1]).ok
             /\ job' = Fail(r)
             /\ catLock' = NoOne
             /\ UNCHANGED <<mem, chain, txn>>
          \/ /\ rest = << >>
             /\ job' = NextPlan(r)
             /\ catLock' = NoOne
             /\ txn' = IF Plan(r).op = "insert_serial"
                         THEN [txn EXCEPT ![job[r].x].writes = @ \cup {Token(r, "full")}]
                         ELSE txn
             /\ UNCHANGED <<mem, chain>>
  /\ UNCHANGED <<load, logVars, sessVars, req, undone, cut, cron, crashes>>

(* Mutant: a failed request leaves the catalog as its statements made it.  *)
KeepCatalogRoot(r) ==
  /\ Running(r, "exec") /\ job[r].st = "restore"
  /\ job' = Return(r, "err")
  /\ UNCHANGED <<load, logVars, txn, sessVars, req, catVars, cut, cron, crashes>>

(* restore_catalog_root, first half: under the control lock the saved root *)
(* is put back and the catalog it names is loaded.                         *)
RestoreCatalogRoot(r) ==
  /\ Running(r, "exec") /\ job[r].st = "restore"
  /\ IF root = job[r].saved
       THEN /\ job' = Return(r, "err")
            /\ UNCHANGED <<root, undone>>
       ELSE /\ root' = job[r].saved
            /\ undone' = undone \cup {r}
            /\ job' = [job EXCEPT ![r].st = "swap"]
  /\ UNCHANGED <<load, logVars, txn, sessVars, req, mem, chain, catLock, edits, cut, cron, crashes>>

(* Second half: the loaded catalog becomes the one in memory.              *)
SwapCatalog(r) ==
  /\ Running(r, "exec") /\ job[r].st = "swap"
  /\ catLock = NoOne
  /\ mem' = chain[job[r].saved]
  /\ job' = Return(r, "err")
  /\ UNCHANGED <<load, logVars, txn, sessVars, req, chain, root, catLock, edits, undone, cut, cron, crashes>>

EngineStep(r) ==
  \/ EngineBegin(r) \/ EngineCommit(r) \/ EngineAbort(r)
  \/ AutoCheckpoint(r) \/ CheckpointFlush(r)
  \/ SaveCatalogRoot(r) \/ ExecDml(r) \/ EngineRow(r)
  \/ ExecCatalog(r) \/ FlipRoot(r) \/ RestoreCatalogRoot(r) \/ SwapCatalog(r)

(***************************************************************************)
(* Handlers.                                                               *)
(***************************************************************************)
Reply(r, what) == [req EXCEPT ![r].pc = "done", ![r].reply = what]
Goto(r, pc) == [req EXCEPT ![r].pc = pc]
Idle(r) == [job EXCEPT ![r] = NoJob]

(* Mutant: a session may be checked out while another request holds it.    *)
CanShare(x, u) == x \in Xids /\ sess[x] # NoOne /\ sess[x] = u

(* TxnSessions::checkout: registered, owned by the caller, and not in use. *)
CanCheckout(x, u) == x \in Xids /\ sess[x] # NoOne /\ sess[x] = u /\ busy[x] = NoOne

(* Dropping a SessionGuard: the idle clock restarts, the mutex is free.    *)
DropGuard(x) ==
  /\ busy' = [busy EXCEPT ![x] = NoOne]
  /\ idle' = idle \ {x}

InSession(r) == req[r].in.target # 0

(* A request arrives; what it may ask for is the workload's.               *)
Arrives(r, in) ==
  /\ req[r].pc = "new"
  /\ in \in load.inputs[r]
  /\ in.target # 0 => in.target \in Xids /\ txn[in.target].st # "free"

(* One plain request: the input is remembered, the first engine call made. *)
Accept(r, in, pc) ==
  req' = [req EXCEPT ![r].in = in, ![r].pc = pc, ![r].x = in.target]

Reject(r, in) ==
  req' = [req EXCEPT ![r].in = in, ![r].pc = "done", ![r].reply = "err"]

(* post_txn_begin.                                                         *)
PostTxnBegin(r) ==
  \E in \in load.inputs[r] :
    /\ Arrives(r, in) /\ in.kind = "begin"
    /\ Accept(r, in, "begin")
    /\ job' = Call(r, "begin", 0, << >>)
    /\ UNCHANGED <<load, logVars, txn, sessVars, catVars, cut, cron, crashes>>

(* post_txn_commit and post_txn_rollback.                                  *)
PostTxnEnd(r) ==
  \E in \in load.inputs[r] :
    /\ Arrives(r, in) /\ in.kind \in {"commit", "rollback"}
    /\ \/ /\ CanCheckout(in.target, in.user)
          /\ busy' = [busy EXCEPT ![in.target] = r]
          /\ LET op == IF in.kind = "commit" THEN "commit" ELSE "abort" IN
               /\ Accept(r, in, op)
               /\ job' = Call(r, op, in.target, << >>)
       \/ /\ ~CanCheckout(in.target, in.user)
          /\ Reject(r, in)
          /\ UNCHANGED <<busy, job>>
    /\ UNCHANGED <<load, logVars, txn, sess, idle, reaping, catVars, cut, cron, crashes>>

(* The plans one engine call runs: the whole text of an SQL request, one   *)
(* statement at a time for the others.                                     *)
PlansOf(in, i) == IF in.kind \in {"sql", "cron"} THEN in.script ELSE <<in.script[i]>>

Denied(in) == \E i \in DOMAIN in.script : in.script[i].op = "denied"

(* post_sql, begin_scoped and get_row with an X-Txn-Id: the checks before  *)
(* the first statement leave the session as it was.                        *)
SessionStatement(r) ==
  \E in \in load.inputs[r] :
    /\ Arrives(r, in) /\ in.target # 0 /\ in.kind \in {"sql", "rows", "get"}
    /\ \/ /\ CanCheckout(in.target, in.user)
          /\ \A i \in DOMAIN in.script :
               ~SessionRefuses(in.script[i]) /\ in.script[i].op # "denied"
          /\ busy' = [busy EXCEPT ![in.target] = r]
          /\ Accept(r, in, "exec")
          /\ job' = Call(r, "exec", in.target, PlansOf(in, 1))
          /\ UNCHANGED idle
       \/ /\ CanCheckout(in.target, in.user)
          /\ \E i \in DOMAIN in.script :
               SessionRefuses(in.script[i]) \/ in.script[i].op = "denied"
          /\ Reject(r, in)
          /\ DropGuard(in.target)
          /\ UNCHANGED job
       \/ /\ ~CanCheckout(in.target, in.user)
          /\ Reject(r, in)
          /\ UNCHANGED <<busy, idle, job>>
    /\ UNCHANGED <<load, logVars, txn, sess, reaping, catVars, cut, cron, crashes>>

(* post_sql, the one-shot row and edge handlers and rpc_call: privileges   *)
(* are checked before the transaction begins (an RPC checks them inside).  *)
OneShot(r) ==
  \E in \in load.inputs[r] :
    /\ Arrives(r, in) /\ in.target = 0 /\ in.kind \in {"sql", "rows", "rpc"}
    /\ \/ /\ in.kind # "rpc" => ~Denied(in)
          /\ Accept(r, in, "begin")
          /\ job' = Call(r, "begin", 0, << >>)
       \/ /\ in.kind # "rpc" /\ Denied(in)
          /\ Reject(r, in)
          /\ UNCHANGED job
    /\ UNCHANGED <<load, logVars, txn, sessVars, catVars, cut, cron, crashes>>

(* post_collection, patch_collection and delete_collection: the statements *)
(* of one write are authorized first and run in one transaction.           *)
RestWrite(r) ==
  \E in \in load.inputs[r] :
    /\ Arrives(r, in) /\ in.kind = "rest"
    /\ LET stmts == RestStatements(in.script[1])
           sql == [in EXCEPT !.script = stmts]
       IN \/ /\ stmts # << >> /\ ~Denied(sql)
             /\ Accept(r, sql, "begin")
             /\ job' = Call(r, "begin", 0, << >>)
          \/ /\ stmts = << >> \/ Denied(sql)
             /\ Reject(r, sql)
             /\ UNCHANGED job
    /\ UNCHANGED <<load, logVars, txn, sessVars, catVars, cut, cron, crashes>>

(* try_start: no run of the job is in flight.                              *)
TryStart(j) == ~cron[j].running

(* run_due: a job (the input's user) whose minute has come is started unless a  *)
(* run of it is still in flight; the run is a task of its own, under no    *)
(* request timeout.                                                        *)
CronDue(r) ==
  \E in \in load.inputs[r] :
    /\ Arrives(r, in) /\ in.kind = "cron"
    /\ \/ /\ TryStart(in.user)
          /\ cron' = [cron EXCEPT ![in.user].running = TRUE]
          /\ Accept(r, in, "begin")
          /\ job' = Call(r, "begin", 0, << >>)
       \/ /\ ~TryStart(in.user)
          /\ req' = [req EXCEPT ![r].in = in, ![r].pc = "done", ![r].reply = "skipped"]
          /\ UNCHANGED <<cron, job>>
    /\ UNCHANGED <<load, logVars, txn, sessVars, catVars, cut, crashes>>

(* run_one: the outcome of the run is recorded and the guard released.     *)
CronFinish(r, out) ==
  cron' = IF req[r].in.kind = "cron"
            THEN [cron EXCEPT ![req[r].in.user] = [running |-> FALSE, last |-> out]]
            ELSE cron

(* post_enable_events, delete_table_events and post_index: one catalog     *)
(* edit outside any transaction.                                           *)
AdminEdit(r) ==
  \E in \in load.inputs[r] :
    /\ Arrives(r, in) /\ in.kind = "admin"
    /\ Accept(r, in, "edit")
    /\ job' = Call(r, "edit", 0, in.script)
    /\ UNCHANGED <<load, logVars, txn, sessVars, catVars, cut, cron, crashes>>

AfterEdit(r) ==
  /\ Returned(r, "edit")
  /\ req' = Reply(r, job[r].out)
  /\ job' = Idle(r)
  /\ UNCHANGED <<load, logVars, txn, sessVars, catVars, cut, cron, crashes>>

(* post_batch_sql: every statement is a one-shot of its own.               *)
PostBatchSql(r) ==
  \E in \in load.inputs[r] :
    /\ Arrives(r, in) /\ in.kind = "batch"
    /\ Accept(r, in, "slot")
    /\ UNCHANGED <<load, logVars, txn, sessVars, job, catVars, cut, cron, crashes>>

(* The slots of a batch after slot i ended with res: on, or, once stopped, *)
(* every later slot is skipped.                                            *)
SlotDone(r, res) ==
  LET n == Len(req[r].in.script)
      stop == res # "ok" /\ req[r].in.stop
      rest == IF stop THEN [j \in 1..(n - req[r].i) |-> "skipped"] ELSE << >>
      slots == req[r].slots \o <<res>> \o rest
  IN [req EXCEPT ![r].slots = slots,
                 ![r].x = 0,
                 ![r].i = Len(slots) + 1,
                 ![r].pc = IF Len(slots) = n THEN "done" ELSE "slot",
                 ![r].reply = IF Len(slots) = n THEN "ok" ELSE "none"]

(* One statement of a batch: text that does not parse ends the whole batch *)
(* with an error, and so does a transaction that does not begin.           *)
BatchSlot(r) ==
  /\ req[r].pc = "slot"
  /\ LET p == req[r].in.script[req[r].i] IN
       \/ /\ p.op = "malformed"
          /\ req' = Reply(r, "err")
          /\ UNCHANGED job
       \/ /\ p.op = "denied"
          /\ req' = SlotDone(r, "err")
          /\ UNCHANGED job
       \/ /\ p.op = "read"
          /\ \E res \in {"ok", "err"} : req' = SlotDone(r, res)
          /\ UNCHANGED job
       \/ /\ p.op \notin {"malformed", "denied", "read"}
          /\ req' = Goto(r, "begin")
          /\ job' = Call(r, "begin", 0, << >>)
  /\ UNCHANGED <<load, logVars, txn, sessVars, catVars, cut, cron, crashes>>

(* The transaction is there: a session is registered, a one-shot runs its  *)
(* first statement.  Or it is not, and the request is over.                *)
AfterBegin(r) ==
  /\ Returned(r, "begin")
  /\ LET x == job[r].x
         in == req[r].in
         denied == \/ in.kind = "rpc" /\ in.script[1].op = "denied"
                   \/ in.kind = "cron" /\ Denied(in)
         ok == job[r].out = "ok"
     IN \/ /\ ok /\ in.kind = "begin"
           /\ sess' = [sess EXCEPT ![x] = in.user]
           /\ req' = [Reply(r, "ok") EXCEPT ![r].x = x]
           /\ job' = Idle(r)
           /\ UNCHANGED cron
        \/ /\ ok /\ in.kind # "begin" /\ ~denied
           /\ req' = [Goto(r, "exec") EXCEPT ![r].x = x]
           /\ job' = Call(r, "exec", x, PlansOf(in, req[r].i))
           /\ UNCHANGED <<sess, cron>>
        \/ /\ ok /\ denied
           /\ req' = [Goto(r, "abort") EXCEPT ![r].x = x]
           /\ job' = Call(r, "abort", x, << >>)
           /\ UNCHANGED <<sess, cron>>
        \/ /\ ~ok
           /\ req' = Reply(r, "err")
           /\ job' = Idle(r)
           /\ CronFinish(r, "err")
           /\ UNCHANGED sess
  /\ UNCHANGED <<load, logVars, txn, busy, idle, reaping, catVars, cut, crashes>>

More(r) == req[r].in.kind \in {"rows", "rpc", "rest"} /\ req[r].i < Len(req[r].in.script)

(* Mutant: a failed statement of a session leaves the session open.        *)
AbortsOneShots(r) == ~InSession(r)

(* A failed statement ends its transaction; a failed raw read of a session *)
(* does not.                                                               *)
AbortsOnError(r) == req[r].in.kind # "get"

(* After a statement: the next one of a multi-call handler, or the end of  *)
(* the request: finish, finish_scoped, and the tail of post_sql.           *)
AfterExec(r) ==
  /\ Returned(r, "exec")
  /\ LET x == req[r].x
         in == req[r].in
         ok == job[r].out = "ok"
         next == in.script[req[r].i + 1]
     IN \/ /\ ok /\ More(r) /\ next.op # "denied"
           /\ req' = [req EXCEPT ![r].i = @ + 1]
           /\ job' = Call(r, "exec", x, <<next>>)
           /\ UNCHANGED <<busy, idle>>
        \/ /\ \/ ~ok /\ AbortsOnError(r)
              \/ ok /\ More(r) /\ next.op = "denied"
           /\ req' = Goto(r, "abort")
           /\ job' = Call(r, "abort", x, << >>)
           /\ UNCHANGED <<busy, idle>>
        \/ /\ ok /\ ~More(r) /\ ~InSession(r)
           /\ req' = Goto(r, "commit")
           /\ job' = Call(r, "commit", x, << >>)
           /\ UNCHANGED <<busy, idle>>
        \/ /\ InSession(r) /\ (IF ok THEN ~More(r) ELSE ~AbortsOnError(r))
           /\ req' = Reply(r, job[r].out)
           /\ job' = Idle(r)
           /\ DropGuard(x)
  /\ UNCHANGED <<load, logVars, txn, sess, reaping, catVars, cut, cron, crashes>>

(* The session is over: out of the registry, guard dropped.                *)
EndSession(x) ==
  /\ sess' = [sess EXCEPT ![x] = NoOne]
  /\ DropGuard(x)

(* Mutant: the outcome of the commit is not looked at.                     *)
AnswersOk(r) == "ok"

(* finish: a one-shot request is answered with what its commit returned.   *)
FinishReply(r) == job[r].out

(* After commit: finish answers as the engine did; post_txn_commit aborts  *)
(* once more on an error and ends the session either way.                  *)
AfterCommit(r) ==
  /\ Returned(r, "commit")
  /\ \/ /\ InSession(r) /\ job[r].out = "ok"
        /\ req' = Reply(r, "ok")
        /\ job' = Idle(r)
        /\ EndSession(req[r].x)
     \/ /\ InSession(r) /\ job[r].out # "ok"
        /\ req' = [Goto(r, "reabort") EXCEPT ![r].reply = job[r].out]
        /\ job' = Call(r, "abort", req[r].x, << >>)
        /\ UNCHANGED <<sess, busy, idle>>
     \/ /\ ~InSession(r)
        /\ req' = IF req[r].in.kind = "batch" THEN SlotDone(r, FinishReply(r))
                                              ELSE Reply(r, FinishReply(r))
        /\ job' = Idle(r)
        /\ UNCHANGED <<sess, busy, idle>>
  /\ CronFinish(r, job[r].out)
  /\ UNCHANGED <<load, logVars, txn, reaping, catVars, cut, crashes>>

(* After abort: the failed statement's error, the rollback's result, or    *)
(* the error of the commit before it.                                      *)
AfterAbort(r) ==
  /\ Returned(r, "abort") \/ Returned(r, "reabort")
  /\ req' = IF req[r].in.kind = "batch" THEN SlotDone(r, "err")
            ELSE IF req[r].in.kind = "rollback" THEN Reply(r, job[r].out)
            ELSE IF req[r].pc = "reabort" THEN Reply(r, req[r].reply)
            ELSE Reply(r, "err")
  /\ job' = Idle(r)
  /\ IF InSession(r) THEN EndSession(req[r].x) ELSE UNCHANGED <<sess, busy, idle>>
  /\ CronFinish(r, "err")
  /\ UNCHANGED <<load, logVars, txn, reaping, catVars, cut, crashes>>

(* The request timeout or a lost client drops the handler at an await; the *)
(* engine call goes on.                                                    *)
DropRequest(r) ==
  /\ load.drops
  /\ req[r].pc \in Waiting /\ req[r].in.kind # "cron"
  /\ req' = Goto(r, "gone")
  /\ job' = IF job[r].out = "none" THEN job ELSE Idle(r)
  /\ cut' = IF job[r].x = 0 THEN cut ELSE cut \cup {job[r].x}
  /\ IF InSession(r) THEN DropGuard(req[r].x) ELSE UNCHANGED <<busy, idle>>
  /\ UNCHANGED <<load, logVars, txn, sess, reaping, catVars, cron, crashes>>

HandlerStep(r) ==
  \/ BatchSlot(r) \/ AfterBegin(r) \/ AfterExec(r)
  \/ AfterCommit(r) \/ AfterAbort(r) \/ AfterEdit(r)

Arrive(r) ==
  \/ PostTxnBegin(r) \/ PostTxnEnd(r) \/ SessionStatement(r)
  \/ OneShot(r) \/ RestWrite(r) \/ CronDue(r) \/ AdminEdit(r) \/ PostBatchSql(r)

(***************************************************************************)
(* The idle reaper, the clock, and a restart of the process.               *)
(***************************************************************************)
(* Time passes: a session has not been used for the idle timeout.          *)
Expire(x) ==
  /\ sess[x] # NoOne /\ x \notin idle
  /\ idle' = idle \cup {x}
  /\ UNCHANGED <<load, logVars, txn, sess, busy, reaping, req, job, catVars, cut, cron, crashes>>

(* claim_expired: out of the registry, with the mutex held, in one step.   *)
ClaimExpired ==
  LET claimed == {x \in idle : sess[x] # NoOne /\ busy[x] = NoOne} IN
  /\ reaping = {} /\ claimed # {}
  /\ sess' = [x \in Xids |-> IF x \in claimed THEN NoOne ELSE sess[x]]
  /\ busy' = [x \in Xids |-> IF x \in claimed THEN Reaper ELSE busy[x]]
  /\ reaping' = claimed
  /\ UNCHANGED <<load, logVars, txn, idle, req, job, catVars, cut, cron, crashes>>

(* Mutant: the claimed session is forgotten, its transaction left open.    *)
ReaperForgets(x) ==
  /\ x \in reaping
  /\ reaping' = reaping \ {x}
  /\ busy' = [busy EXCEPT ![x] = NoOne]
  /\ UNCHANGED <<load, logVars, txn, sess, idle, req, job, catVars, cut, cron, crashes>>

(* The reaper aborts what it claimed, one session after another; one that  *)
(* cannot be aborted is logged and left.                                   *)
ReaperAbort(x) ==
  /\ x \in reaping
  /\ Rollback(x) \/ RollbackFails(x)
  /\ reaping' = reaping \ {x}
  /\ busy' = [busy EXCEPT ![x] = NoOne]
  /\ UNCHANGED <<load, sess, idle, req, job, catVars, cut, cron, crashes>>

(* The process dies and restarts: sessions and requests are gone, recovery *)
(* rolls back what had not committed, a commit in doubt is decided by what *)
(* the log holds, the catalog is read from the root.                       *)
Restart ==
  /\ crashes > 0 /\ crashes' = crashes - 1
  /\ \E kept \in SUBSET {x \in Xids : txn[x].st = "doubt"} :
       txn' = [x \in Xids |->
                 IF x \in kept THEN [txn[x] EXCEPT !.st = "committed"]
                 ELSE IF txn[x].st \in {"open", "doubt"} THEN [txn[x] EXCEPT !.st = "aborted"]
                 ELSE txn[x]]
  /\ sess' = [x \in Xids |-> NoOne]
  /\ busy' = [x \in Xids |-> NoOne]
  /\ idle' = {} /\ reaping' = {}
  /\ req' = [r \in Reqs |-> IF req[r].pc \in {"new", "done"} THEN req[r]
                            ELSE [req[r] EXCEPT !.pc = "gone"]]
  /\ job' = [r \in Reqs |-> NoJob]
  /\ mem' = chain[root]
  /\ catLock' = NoOne
  /\ cron' = [j \in CronJobs |-> [running |-> FALSE, last |-> "none"]]
  /\ poisoned' = FALSE
  /\ UNCHANGED <<load, chain, root, edits, undone, cut, stuck>>

(* Nothing left to do: every request answered or lost, no session open.    *)
Quiet ==
  /\ \A r \in Reqs : job[r] = NoJob /\ req[r].pc \in {"new", "done", "gone"}
  /\ \A x \in Xids : sess[x] = NoOne
  /\ UNCHANGED vars

Next ==
  \/ \E r \in Reqs : Arrive(r) \/ HandlerStep(r) \/ EngineStep(r) \/ DropRequest(r)
  \/ \E x \in Xids : Expire(x) \/ ReaperAbort(x)
  \/ ClaimExpired
  \/ Restart
  \/ Quiet

(* Engine calls and polled handlers make progress, the clock runs and the  *)
(* reaper ticks; nobody owes the server a request.                         *)
Fairness ==
  /\ \A r \in Reqs : WF_vars(HandlerStep(r)) /\ WF_vars(EngineStep(r))
  /\ \A x \in Xids : WF_vars(Expire(x)) /\ WF_vars(ReaperAbort(x))
  /\ WF_vars(ClaimExpired)

Spec == Init /\ [][Next]_vars /\ Fairness

(***************************************************************************)
(* Properties.                                                             *)
(***************************************************************************)
(* A statement of a request took effect for good.                          *)
Durable(r, i) ==
  \E x \in Xids : txn[x].st = "committed" /\ <<r, i, "full">> \in txn[x].writes

Writes(r) ==
  {i \in DOMAIN req[r].in.script :
     req[r].in.script[i].op \in {"write", "row", "insert_serial"}}

Done(r, kinds) == req[r].pc = "done" /\ req[r].in.kind \in kinds

(* What the server answers is true.  A one-shot request answered with      *)
(* success is committed as a whole, one answered with an error from before *)
(* its commit left nothing, and one answered with an error of a commit     *)
(* under way ("late") left all or nothing; a batch slot says ok only when  *)
(* its own transaction committed and is refused or skipped only when it    *)
(* did not, whatever the other slots did; and a statement acknowledged     *)
(* inside a session is durable once the commit of that session is          *)
(* acknowledged, and gone once its rollback is.  (finish, finish_scoped,   *)
(* post_batch_sql, rpc_call, post_txn_commit, post_txn_rollback.)          *)
RepliesTrue ==
  \A r \in Reqs :
    /\ Done(r, {"sql", "rows", "rpc", "rest", "cron"}) /\ req[r].in.target = 0 =>
         IF req[r].reply = "late"
           THEN \A i, j \in Writes(r) : Durable(r, i) <=> Durable(r, j)
           ELSE \A i \in Writes(r) : Durable(r, i) <=> req[r].reply = "ok"
    /\ Done(r, {"batch"}) /\ req[r].reply = "ok" =>
         \A i \in Writes(r) :
           req[r].slots[i] # "late" => (Durable(r, i) <=> req[r].slots[i] = "ok")
    /\ Done(r, {"commit", "rollback"}) /\ req[r].reply = "ok" =>
         \A q \in Reqs :
           /\ Done(q, {"sql", "rows"}) /\ req[q].reply = "ok"
           /\ req[q].in.target = req[r].in.target
           => \A i \in Writes(q) :
                Durable(q, i) <=> req[r].in.kind = "commit"

(* The commit of a session is answered with an error only "on a fully      *)
(* cleaned-up transaction": what it wrote is gone (post_txn_commit).       *)
CommitErrorsRollBack ==
  \A r \in Reqs : Done(r, {"commit"}) /\ req[r].reply = "late" =>
    txn[req[r].x].st = "aborted" \/ txn[req[r].x].writes = {}

(* A batch that did something says what: "the response is always 200 OK;   *)
(* per-statement failures are reported inside the payload"                 *)
(* (post_batch_sql).                                                       *)
BatchReportsSlots ==
  \A r \in Reqs :
    Done(r, {"batch"}) /\ (\E i \in Writes(r) : Durable(r, i)) => req[r].reply = "ok"

(* A failed statement may leave partial effects in its transaction; no     *)
(* such transaction is ever committed, by its client, by another request,  *)
(* by a later statement's success or after a rollback that failed, unless  *)
(* one of its requests was dropped half way.  (finish_scoped and post_sql  *)
(* abort and destroy.)                                                     *)
NoPartialCommit ==
  \A x \in Xids \ cut :
    txn[x].st \in {"committed", "doubt"} => \A w \in txn[x].writes : w[3] = "full"

(* In-session serialization: no two engine calls work on one transaction   *)
(* at the same time, the reaper's abort included, unless a request of that *)
(* transaction was dropped while its call was running.                     *)
CallsSerialized ==
  \A x \in Xids \ cut :
    LET using == {r \in Reqs : job[r].op \in {"exec", "commit", "abort"}
                               /\ job[r].out = "none" /\ job[r].x = x}
    IN Cardinality(using) <= 1 /\ (x \in reaping => using = {})

(* Two runs of one cron job never overlap, whatever the ticks, and the     *)
(* status shown for a job is the outcome of a run that ended that way.     *)
RunsDontOverlap ==
  \A j \in CronJobs :
    LET runs == {r \in Reqs : req[r].pc \notin {"new", "gone"}
                              /\ req[r].in.kind = "cron" /\ req[r].in.user = j}
        live == {r \in runs : req[r].pc # "done"}
    IN /\ Cardinality(live) <= 1
       /\ cron[j].running <=> live # {}
       /\ cron[j].last # "none" => \E r \in runs \ live : req[r].reply = cron[j].last

(* What may be in use by one actor only is never in use by two: the        *)
(* transaction of a session (TxnSessions::checkout, claim_expired) and a   *)
(* cron job (CronState::try_start, run_one).                               *)
OneAtATime == CallsSerialized /\ RunsDontOverlap

(* When no catalog change is under way, the catalog in memory is the one a *)
(* restart would load, and both are what the requests that were not taken  *)
(* back made of it: an acknowledged DDL change stays, a failed request     *)
(* leaves the schema untouched, and a crash keeps every persisted edit.    *)
(* (Catalog::persist, restore_catalog_root.)                               *)
SchemaExact ==
  (\A r \in Reqs : job[r].op \in {"exec", "edit"} =>
                     /\ job[r].out = "none" => job[r].st \notin {"flip", "swap"}
                     /\ job[r].op = "exec" => job[r].out # "err")
  => LET failed == undone \cup {r \in Reqs : Done(r, {"sql", "cron"})
                                                    /\ req[r].reply = "err"}
         kept == SelectSeq(edits, LAMBDA e : e[1] \notin failed)
     IN /\ mem = chain[root]
        /\ mem = Replay(load.schema, [i \in DOMAIN kept |-> kept[i][2]])

(* Every transaction the server begins comes to an end: the client ends    *)
(* it, its request does, or the reaper finds the session idle.  Only a     *)
(* request dropped half way or a rollback that fails can leave one behind. *)
(* And no cron job stays marked as running, which would keep it from ever  *)
(* running again.                                                          *)
TransactionsEnd ==
  /\ \A x \in Xids : txn[x].st = "open" ~> (txn[x].st # "open" \/ x \in cut \cup stuck)
  /\ \A j \in CronJobs : cron[j].running ~> ~cron[j].running
=============================================================================
