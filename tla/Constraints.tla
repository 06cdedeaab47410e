----------------------------- MODULE Constraints -----------------------------
(***************************************************************************)
(* How SQL statements keep unique keys, foreign keys and serializability:  *)
(* exec_insert, exec_update, exec_delete and the ON CONFLICT path of       *)
(* src/sql/executor.rs with the serializable bookkeeping of src/txn.rs.    *)
(*                                                                         *)
(* Table "P" has a primary key; table "C" has one too, and a column that   *)
(* references P.  A statement takes the locks of the keys it is about to   *)
(* use, then its snapshot, checks under that snapshot, writes the heap and *)
(* then the unique index; other transactions run between these steps.      *)
(* Row versions and what a snapshot sees are those of Mvcc, key locks      *)
(* those of LockManager, both reduced to what is needed here.              *)
(***************************************************************************)
EXTENDS Integers, Sequences, FiniteSets, FiniteSetsExt, SequencesExt

CONSTANTS Xids,      \* the transactions
          MaxRows,   \* bound: row versions
          Loads      \* workloads: what the tables hold, what each transaction runs, its isolation

VARIABLES
  load,    \* the workload
  rows,    \* row versions; a version's position is its row id
  index,   \* entries <<table, key, row id>> of the unique indexes
  locks,   \* lock -> the transaction that holds it
  tx,      \* the transactions
  ser      \* committed_ser: reads and writes of committed serializable transactions

vars == <<load, rows, index, locks, tx, ser>>

NoRow == 0
Setup == 0   \* the transaction that filled the tables

\* hot is the next version of a HOT chain; a dead version's slot is gone.
Row(tab, key, ref, x) == [tab |-> tab, key |-> key, ref |-> ref, xmin |-> x, xmax |-> 0, hot |-> NoRow, dead |-> FALSE]

\* What a statement carries: its table, the key it is about, what it assigns.
NoStmt == [op |-> "none", tab |-> "P", key |-> 0, ref |-> 0, new |-> 0]

\* snap: the transactions the snapshot takes for committed; want: locks still to
\* take; undo: how to take the writes back, newest first; failed: the last
\* statement's error.  reads, writes, in, out: SsiState.  History: prior, who had
\* committed when the transaction asked to; missed, who was leaving the active set
\* while it noted a read or a write.
NewTx(x) == [st |-> "new", pc |-> "idle", todo |-> load.stmts[x], stmt |-> NoStmt, snap |-> {}, rid |-> NoRow,
             want |-> <<>>, undo |-> <<>>, made |-> NoRow, failed |-> "no",
             reads |-> {}, writes |-> {}, in |-> FALSE, out |-> FALSE, prior |-> {}, missed |-> {}]

Init == /\ load \in Loads
        /\ rows = [i \in DOMAIN load.old |-> Row(load.old[i].tab, load.old[i].key, load.old[i].ref, Setup)]
        /\ index = {<<load.old[i].tab, load.old[i].key, i>> : i \in DOMAIN load.old}
        /\ locks = <<>>
        /\ tx = [x \in Xids |-> NewTx(x)]
        /\ ser = <<>>
----------------------------------------------------------------------------
(* Snapshots and visibility *)

Active         == {x \in Xids : tx[x].st = "run"}
Finished       == {Setup} \cup {x \in Xids : tx[x].st \in {"forgot", "done", "aborted"}}
Serializable(x) == load.iso[x] = "Serializable"

Visible(r, snap, x) ==
  /\ ~rows[r].dead
  /\ rows[r].xmin \in snap \cup {x}
  /\ rows[r].xmax = 0 \/ rows[r].xmax \notin snap \cup {x}

\* get_visible: along the HOT chain to the first version the snapshot sees.
RECURSIVE GetVisible(_, _, _)
GetVisible(r, snap, x) ==
  IF r = NoRow \/ rows[r].dead THEN NoRow
  ELSE IF Visible(r, snap, x) THEN r ELSE GetVisible(rows[r].hot, snap, x)

HeapScan(tab, snap, x) == {r \in DOMAIN rows : rows[r].tab = tab /\ Visible(r, snap, x)}

\* snapshot_for_statement: READ COMMITTED takes a new one each time.
StatementSnapshot(x) == IF load.iso[x] = "ReadCommitted" THEN Finished ELSE tx[x].snap

Begin(x) ==
  /\ tx[x].st = "new"
  /\ tx' = [tx EXCEPT ![x].st = "run", ![x].snap = Finished]
  /\ UNCHANGED <<load, rows, index, locks, ser>>
----------------------------------------------------------------------------
(* The start of a statement: its target row, and the locks it needs *)

\* Mutant: the child takes no lock on the key it refers to.
NoFkLocks(s, old) ==
  IF s.op \in {"insert", "upsert"} THEN <<<<"unique", s.tab, s.key>>>>
  ELSE IF s.op = "rekey" THEN <<<<"unique", s.tab, s.new>>>> ELSE <<>>

\* Mutant: no lock on the unique key.
NoUniqueLocks(s, old) ==
  IF s.op = "insert" /\ s.tab = "C" THEN <<<<"fk", s.ref>>>>
  ELSE IF s.op = "rekey" /\ s.tab = "P" THEN <<<<"fk", old.key>>>>
  ELSE IF s.op = "reref" THEN <<<<"fk", s.ref>>>>
  ELSE IF s.op = "delete" /\ s.tab = "P" THEN <<<<"fk", old.key>>>> ELSE <<>>

\* unique_key_record_id and fk_key_record_id in the order they are acquired.
\* An update locks a unique key only if it assigns it, and as a parent only if
\* it assigns the referenced column; a delete locks the parent's key; an upsert
\* locks its own key for the probe.
KeyLocks(s, old) ==
  LET unique(k) == <<<<"unique", s.tab, k>>>>
      fk(k)     == <<<<"fk", k>>>>
  IN CASE s.op = "insert" -> unique(s.key) \o (IF s.tab = "C" THEN fk(s.ref) ELSE <<>>)
       [] s.op = "upsert" -> unique(s.key)
       [] s.op = "rekey"  -> unique(s.new) \o (IF s.tab = "P" THEN fk(old.key) ELSE <<>>)
       [] s.op = "reref"  -> fk(s.ref)
       [] s.op = "delete" -> IF s.tab = "P" THEN fk(old.key) ELSE <<>>
       [] OTHER           -> <<>>

\* Those who have left the active set and not yet joined the committed ones.
Leaving == {x \in Xids : tx[x].pc = "publish"}

\* ssi_note_reads: whoever wrote the row, and is or was concurrent, comes after us.
NoteRead(t, x, r) ==
  LET writers == {y \in Active \ {x} : Serializable(y) /\ r \in t[y].writes}
      late    == \E y \in DOMAIN ser : r \in ser[y].writes
  IN IF ~Serializable(x) THEN t
     ELSE [y \in Xids |-> IF y = x THEN [t[x] EXCEPT !.reads = @ \cup {r}, !.out = @ \/ writers # {} \/ late,
                                                       !.missed = @ \cup Leaving]
                          ELSE IF y \in writers THEN [t[y] EXCEPT !.in = TRUE] ELSE t[y]]

Fetched(x) == [tx EXCEPT ![x].todo = Tail(@), ![x].stmt = Head(tx[x].todo), ![x].failed = "no",
                         ![x].snap = StatementSnapshot(x), ![x].pc = "lock", ![x].rid = NoRow]

Idle(x)    == tx[x].st = "run" /\ tx[x].pc = "idle" /\ tx[x].todo # <<>>
Inserts(s) == s.op \in {"insert", "upsert"}

StartInsert(x) ==
  LET s == Head(tx[x].todo) IN
  /\ Idle(x) /\ Inserts(s)
  /\ tx' = [Fetched(x) EXCEPT ![x].want = KeyLocks(s, NoRow)]
  /\ UNCHANGED <<load, rows, index, locks, ser>>

\* Updates, deletes and reads find their row with a snapshot of their own
\* (matching_rows) and note it as read.  No match: nothing to do.
StartMatch(x) ==
  LET s    == Head(tx[x].todo)
      hits == {r \in HeapScan(s.tab, StatementSnapshot(x), x) : rows[r].key = s.key}
      done == [Fetched(x) EXCEPT ![x].pc = "idle"]
  IN
  /\ Idle(x) /\ ~Inserts(s)
  /\ \/ hits = {} /\ tx' = done
     \/ \E r \in hits : tx' = NoteRead(IF s.op = "read" THEN done
                                       ELSE [Fetched(x) EXCEPT ![x].rid = r, ![x].want = KeyLocks(s, rows[r])], x, r)
  /\ UNCHANGED <<load, rows, index, locks, ser>>
----------------------------------------------------------------------------
(* Key locks: acquire_blocking *)

Holder(l) == IF l \in DOMAIN locks THEN locks[l] ELSE 0

\* The transactions that hold up x, directly or not, while x would wait for l.
RECURSIVE BlockedBy(_, _, _)
BlockedBy(l, x, seen) ==
  LET h == Holder(l) IN
  IF h \in seen \cup {0} THEN seen
  ELSE IF tx[h].pc = "wait" THEN BlockedBy(Head(tx[h].want), x, seen \cup {h}) ELSE seen \cup {h}

Acquire(x) ==
  LET l == Head(tx[x].want) IN
  /\ tx[x].pc \in {"lock", "wait"} /\ tx[x].want # <<>> /\ Holder(l) \in {0, x}
  /\ locks' = [k \in DOMAIN locks \cup {l} |-> IF k = l THEN x ELSE locks[k]]
  /\ tx' = [tx EXCEPT ![x].want = Tail(@), ![x].pc = "lock"]
  /\ UNCHANGED <<load, rows, index, ser>>

\* A request that would close a cycle fails, any other one waits.
Wait(x) ==
  LET l == Head(tx[x].want) IN
  /\ tx[x].pc = "lock" /\ tx[x].want # <<>> /\ Holder(l) \notin {0, x}
  /\ tx' = [tx EXCEPT ![x] = IF x \in BlockedBy(l, x, {}) THEN [@ EXCEPT !.pc = "abort", !.failed = "deadlock"]
                             ELSE [@ EXCEPT !.pc = "wait"]]
  /\ UNCHANGED <<load, rows, index, locks, ser>>

Locked(x) == tx[x].pc = "lock" /\ tx[x].want = <<>>

\* Mutant: the snapshot of the row search serves for the checks, too.
OldSnapshot(x) ==
  /\ Locked(x)
  /\ tx' = [tx EXCEPT ![x].pc = "check"]
  /\ UNCHANGED <<load, rows, index, locks, ser>>

\* With all locks held, the snapshot for the checks.
TakeSnapshot(x) ==
  /\ Locked(x)
  /\ tx' = [tx EXCEPT ![x].pc = "check", ![x].snap = StatementSnapshot(x)]
  /\ UNCHANGED <<load, rows, index, locks, ser>>
----------------------------------------------------------------------------
(* The checks *)

\* Rows the unique index gives for a key.
Candidates(tab, key) == {e[3] : e \in {f \in index : f[1] = tab /\ f[2] = key}}

\* enforce_unique leaves out the version being replaced, by its row id.
UniqueConflict(x, tab, key) ==
  \E r \in Candidates(tab, key) : r # tx[x].rid /\ GetVisible(r, tx[x].snap, x) # NoRow

\* check_fk_parent_exists and check_restrict_child.
ParentExists(x, key) == \E r \in Candidates("P", key) : GetVisible(r, tx[x].snap, x) # NoRow
HasChild(x, key)     == \E r \in HeapScan("C", tx[x].snap, x) : rows[r].ref = key

CheckError(x) ==
  LET s == tx[x].stmt
      inserts == s.op = "insert"
  IN IF (inserts /\ UniqueConflict(x, s.tab, s.key)) \/ (s.op = "rekey" /\ UniqueConflict(x, s.tab, s.new))
     THEN "unique"
     ELSE IF (inserts /\ s.tab = "C" /\ ~ParentExists(x, s.ref)) \/ (s.op = "reref" /\ ~ParentExists(x, s.ref))
     THEN "foreign key"
     ELSE IF s.op \in {"rekey", "delete"} /\ s.tab = "P" /\ HasChild(x, rows[tx[x].rid].key)
     THEN "foreign key" ELSE "no"

\* ON CONFLICT: probe_conflict_target finds the row, and DO UPDATE turns the
\* statement into an update of it that leaves the key alone; or it finds none and
\* a plain insert follows, with locks and a snapshot of its own.
Probe(x) ==
  LET s == tx[x].stmt
      found == {GetVisible(r, tx[x].snap, x) : r \in Candidates(s.tab, s.key)} \ {NoRow}
  IN
  /\ tx[x].pc = "check" /\ s.op = "upsert"
  /\ \/ \E r \in found : tx' = [tx EXCEPT ![x].pc = "write", ![x].rid = r, ![x].stmt.op = "touch"]
     \/ found = {} /\ tx' = [tx EXCEPT ![x].pc = "lock", ![x].stmt.op = "insert",
                                        ![x].want = KeyLocks([s EXCEPT !.op = "insert"], NoRow)]
  /\ UNCHANGED <<load, rows, index, locks, ser>>

Check(x) ==
  LET e == CheckError(x) IN
  /\ tx[x].pc = "check" /\ tx[x].stmt.op # "upsert"
  /\ tx' = [tx EXCEPT ![x].failed = e, ![x].pc = IF e = "no" THEN "write" ELSE "abort"]
  /\ UNCHANGED <<load, rows, index, locks, ser>>
----------------------------------------------------------------------------
(* The writes *)

\* ssi_note_write: whoever read the row, and is or was concurrent, comes before us.
NoteWrite(t, x, r) ==
  LET readers == {y \in Active \ {x} : Serializable(y) /\ r \in t[y].reads}
      late    == \E y \in DOMAIN ser : r \in ser[y].reads
  IN IF ~Serializable(x) THEN t
     ELSE [y \in Xids |-> IF y = x THEN [t[x] EXCEPT !.writes = @ \cup {r}, !.in = @ \/ readers # {} \/ late,
                                                       !.missed = @ \cup Leaving]
                          ELSE IF y \in readers THEN [t[y] EXCEPT !.out = TRUE] ELSE t[y]]

InsertHeap(x) ==
  LET s == tx[x].stmt IN
  /\ tx[x].pc = "write" /\ Inserts(s) /\ Len(rows) < MaxRows
  /\ rows' = Append(rows, Row(s.tab, s.key, s.ref, x))
  /\ tx' = [tx EXCEPT ![x].pc = "index", ![x].made = Len(rows) + 1,
                      ![x].undo = <<<<"insert", Len(rows) + 1>>>> \o @]
  /\ UNCHANGED <<load, index, locks, ser>>

\* Heap::update, try_hot_insert and delete_many: the row must be unstamped (its
\* row lock is then free), else the statement fails.
Stamped(x) == [rows EXCEPT ![tx[x].rid].xmax = x]

Conflict(x) ==
  LET old == rows[tx[x].rid] IN
  /\ tx[x].pc = "write" /\ ~Inserts(tx[x].stmt) /\ (old.xmax # 0 \/ old.dead)
  /\ tx' = [tx EXCEPT ![x].pc = "abort", ![x].failed = "conflict"]
  /\ UNCHANGED <<load, rows, index, locks, ser>>

\* compute_update_gates: an update of P, which has a child table, is never HOT;
\* one of C is when it assigns neither the key nor the reference.
HotEligible(s) == s.tab = "C" /\ s.op = "touch"

\* A HOT update links the versions and leaves the index alone.
UpdateHeap(x) ==
  LET s   == tx[x].stmt
      hot == HotEligible(s)
      r   == tx[x].rid
      n   == Len(rows) + 1
      new == Row(s.tab, IF s.op = "rekey" THEN s.new ELSE rows[r].key, IF s.op = "reref" THEN s.ref ELSE rows[r].ref, x)
  IN
  /\ tx[x].pc = "write" /\ ~Inserts(s) /\ s.op # "delete" /\ rows[r].xmax = 0 /\ ~rows[r].dead /\ Len(rows) < MaxRows
  /\ rows' = Append([Stamped(x) EXCEPT ![r].hot = IF hot THEN n ELSE NoRow], new)
  /\ tx' = NoteWrite([tx EXCEPT ![x].pc   = IF hot THEN "idle" ELSE "index", ![x].made = n,
                                ![x].undo = <<<<"insert", n>>, <<"stamp", r>>>> \o @], x, r)
  /\ UNCHANGED <<load, index, locks, ser>>

DeleteHeap(x) ==
  LET r == tx[x].rid IN
  /\ tx[x].pc = "write" /\ tx[x].stmt.op = "delete" /\ rows[r].xmax = 0 /\ ~rows[r].dead
  /\ rows' = Stamped(x)
  /\ tx' = NoteWrite([tx EXCEPT ![x].pc = "idle", ![x].undo = <<<<"stamp", r>>>> \o @], x, r)
  /\ UNCHANGED <<load, index, locks, ser>>

\* apply_durable_index_writes.
InsertIndex(x) ==
  LET n == tx[x].made IN
  /\ tx[x].pc = "index" /\ tx[x].stmt.op = "insert"
  /\ index' = index \cup {<<tx[x].stmt.tab, rows[n].key, n>>}
  /\ tx' = [tx EXCEPT ![x].pc = "idle"]
  /\ UNCHANGED <<load, rows, locks, ser>>

\* For an update, the entry of an unchanged key is pointed at the new version
\* (patch_many), a changed key gets a new entry.
UpdateIndex(x) ==
  LET n   == tx[x].made
      old == <<tx[x].stmt.tab, rows[n].key, tx[x].rid>>
      new == <<tx[x].stmt.tab, rows[n].key, n>>
      patch == rows[n].key = rows[tx[x].rid].key
  IN
  /\ tx[x].pc = "index" /\ tx[x].stmt.op # "insert"
  /\ index' = (IF patch THEN index \ {old} ELSE index) \cup {new}
  /\ tx' = [tx EXCEPT ![x].pc = "idle",
                      ![x].undo = IF patch THEN <<<<"patch", old, new>>>> \o @ ELSE @]
  /\ UNCHANGED <<load, rows, locks, ser>>
----------------------------------------------------------------------------
(* The end *)

\* Mutant: the pivot test is forgotten.
NotPivot(x) == FALSE

IsPivot(x) == tx[x].in /\ tx[x].out

\* TransactionManager::commit: the pivot test, leaving the active set and
\* joining the committed ones are three critical sections.
CommitStart(x) ==
  /\ tx[x].st = "run" /\ tx[x].pc = "idle" /\ tx[x].todo = <<>>
  /\ tx' = [tx EXCEPT ![x] = IF IsPivot(x) THEN [@ EXCEPT !.pc = "abort", !.failed = "pivot"]
                                           ELSE [@ EXCEPT !.pc = "forget", !.prior = Finished]]
  /\ UNCHANGED <<load, rows, index, locks, ser>>

Forget(x) ==
  /\ tx[x].pc = "forget"
  /\ tx' = [tx EXCEPT ![x].st = "forgot", ![x].pc = "publish"]
  /\ UNCHANGED <<load, rows, index, locks, ser>>

\* Mutant: key locks outlive the transaction.
KeepLocks(x) == locks

Released(x) == [l \in {k \in DOMAIN locks : locks[k] # x} |-> locks[l]]

Publish(x) ==
  LET mine == IF Serializable(x) THEN [y \in DOMAIN ser \cup {x} |-> IF y = x THEN tx[x] ELSE ser[y]] ELSE ser IN
  /\ tx[x].pc = "publish"
  /\ ser' = IF \E y \in Active : Serializable(y) THEN mine ELSE <<>>
  /\ locks' = Released(x)
  /\ tx' = [tx EXCEPT ![x].st = "done", ![x].pc = "idle"]
  /\ UNCHANGED <<load, rows, index>>

\* Abort: the undo records newest first, then the end of the transaction.
Abort(x) ==
  /\ tx[x].st = "run" /\ tx[x].pc = "abort"
  /\ rows' = [r \in DOMAIN rows |->
                IF \E u \in ToSet(tx[x].undo) : u = <<"insert", r>> THEN [rows[r] EXCEPT !.dead = TRUE]
                ELSE IF \E u \in ToSet(tx[x].undo) : u = <<"stamp", r>> THEN [rows[r] EXCEPT !.xmax = 0, !.hot = NoRow]
                ELSE rows[r]]
  /\ index' = (index \ {u[3] : u \in {v \in ToSet(tx[x].undo) : v[1] = "patch"}})
                \cup {u[2] : u \in {v \in ToSet(tx[x].undo) : v[1] = "patch"}}
  /\ locks' = Released(x)
  /\ tx' = [tx EXCEPT ![x].st = "aborted", ![x].pc = "idle", ![x].todo = <<>>, ![x].want = <<>>]
  /\ UNCHANGED <<load, ser>>
----------------------------------------------------------------------------
Statement(x) == \/ StartInsert(x) \/ StartMatch(x) \/ Acquire(x) \/ Wait(x) \/ TakeSnapshot(x)
                \/ Probe(x) \/ Check(x) \/ InsertHeap(x) \/ Conflict(x)
                \/ UpdateHeap(x) \/ DeleteHeap(x) \/ InsertIndex(x) \/ UpdateIndex(x)
Finish(x)    == CommitStart(x) \/ Forget(x) \/ Publish(x) \/ Abort(x)
Step(x)      == Begin(x) \/ Statement(x) \/ Finish(x)
Next         == \E x \in Xids : Step(x)

\* Every session keeps running.
Spec == Init /\ [][Next]_vars /\ \A x \in Xids : WF_vars(Step(x))
----------------------------------------------------------------------------
(* Properties *)

Live == HeapScan("P", Finished, Setup) \cup HeapScan("C", Finished, Setup)

\* What has been committed never holds two rows of a table with one key,
\* although the check and the write are separate steps under a snapshot and
\* only the key's lock keeps two inserters apart (try_insert_one_row).
UniqueKeys == \A r, q \in Live : rows[r].tab = rows[q].tab /\ rows[r].key = rows[q].key => r = q

\* A statement is refused for a duplicate only if a row other than the one it
\* replaces has the key: "it must not count as a conflict with the new version
\* that has the same key value" (enforce_unique).
NoFalseDuplicate ==
  \A x \in Xids : tx[x].failed = "unique" /\ tx[x].st = "run" =>
    LET s == tx[x].stmt IN
    \E r \in HeapScan(s.tab, tx[x].snap, x) :
      r # tx[x].rid /\ rows[r].key = IF s.op = "rekey" THEN s.new ELSE s.key

\* Uniqueness is enforced, and enforced against real duplicates only.
UniqueExact == UniqueKeys /\ NoFalseDuplicate

\* What has been committed never holds a child without its parent, although
\* child and parent check each other's table without locking its rows
\* (enforce_fk_rows_exist against enforce_fk_restrict).
NoOrphans ==
  \A r \in Live : rows[r].tab = "C" => \E q \in Live : rows[q].tab = "P" /\ rows[q].key = rows[r].ref

Committed == {x \in Xids : Serializable(x) /\ tx[x].st \in {"forgot", "done"}}

\* U replaced or deleted what T read.
ReadBy(t, u) == \E r \in tx[t].reads : rows[r].xmax = u

\* A serializable transaction does not commit between two that committed before
\* it, ran beside it, and read or replaced what it replaced or read: T read what
\* V replaced and replaced what U read (U and V may be one, which is write skew).
\* Only who left the active set while T noted a read or a write can escape it.
\* (ssi_note_reads, ssi_note_write, committed_ser and the test at commit.)
PivotsRefused ==
  \A t \in Committed :
    LET beside == (Committed \cap tx[t].prior) \ (tx[t].snap \cup tx[t].missed)
    IN ~\E u, v \in beside : ReadBy(u, t) /\ ReadBy(t, v)

\* T comes before U: U replaced or deleted what T read, or T wrote what U read
\* or replaced.
Before(t, u) ==
  \/ ReadBy(t, u)
  \/ \E r \in tx[u].reads \cup tx[u].writes : rows[r].xmin = t

\* The committed serializable transactions can be put in an order, at least if
\* nobody noted a read or a write while another left the active set: the test at
\* commit is to refuse whoever "would seal a non-serializable schedule".
Serialization ==
  (\A t \in Committed : tx[t].missed = {}) =>
    \E pos \in [Committed -> 1 .. Cardinality(Committed)] :
      /\ \A t, u \in Committed : t # u => pos[t] # pos[u]
      /\ \A t, u \in Committed : t # u /\ Before(t, u) => pos[t] < pos[u]

\* Every transaction ends: waiting for keys cannot go round in a circle.
AllEnd == <>(\A x \in Xids : tx[x].st \in {"done", "aborted"})
=============================================================================
