------------------------------- MODULE Mvcc -------------------------------
(***************************************************************************)
(* Multi-version concurrency control: the transaction manager of           *)
(* src/txn.rs, the visibility rules of src/mvcc.rs, the tuple versions and *)
(* write paths of src/heap.rs as src/sql/executor.rs drives them, row      *)
(* locks, the physical undo of an abort, concurrent readers and vacuum.    *)
(*                                                                         *)
(* A version is a slot of the heap.  Its contents are the logical row and  *)
(* the xid that wrote it.  One action is one critical section: of the      *)
(* transaction manager's mutex, or of one page latch.  Every slot is taken *)
(* to be on a page of its own, so each group of a batch is one row.        *)
(*                                                                         *)
(* Row locks are LockManager's exclusive locks under WaitPolicy::NoWait;   *)
(* the lock and the check under the latch that follows it are one step. A  *)
(* mutation that fails aborts its transaction (server/handlers.rs,         *)
(* finish_scoped).  I/O errors are left out.                               *)
(***************************************************************************)
EXTENDS Integers, Sequences, FiniteSets, SequencesExt

CONSTANTS Rows,        \* logical rows
          MaxXid,      \* bound: xids issued
          MaxSlot,     \* bound: slots of the heap
          MaxUndo,     \* bound: a transaction with so many undo steps starts no statement
          Loads        \* the workloads, one of which runs: see `load`

Isolations == {"ReadCommitted", "RepeatableRead"}
Paths == {"insert", "update", "hot", "hotXpage", "delete", "deleteMany", "updateMany"}

ASSUME RowAssumption   == Rows # {} /\ IsFiniteSet(Rows)
ASSUME BoundAssumption == {MaxXid, MaxSlot, MaxUndo} \subseteq Nat \ {0}
ASSUME LoadAssumption  ==
  \A l \in Loads : /\ l.old \subseteq Rows /\ Cardinality(l.old) <= MaxSlot
                   /\ l.xids \in 1 .. MaxXid /\ l.batch \in Nat \ {0}
                   /\ l.isolations \subseteq Isolations /\ l.paths \subseteq Paths
                   /\ l.vacuums \in {"never", "quiet", "always"}
                   /\ l.reader \in BOOLEAN

Xids  == 1 .. MaxXid
Slots == 1 .. MaxSlot
NoXid == 0                       \* INVALID_XID

VARIABLES
  load,      \* what the clients do, fixed from the start: the rows `old` that
             \* exist, committed by xid 1; the number of `xids`; the isolation
             \* levels and write paths in use; the rows a `batch` statement may
             \* match at most; whether a `reader` reads; and when
             \* a vacuum pass may start: "never", "quiet" (no transaction is
             \* open; one may begin while it runs) or "always"
  nextXid,   \* TxnInner.next_xid
  state,     \* per xid: "unborn", "active", "aborting", "committed", "aborted";
             \* TxnInner.active holds the active and the aborting ones
  iso,       \* Transaction.isolation
  snap,      \* Transaction.snapshot
  undo,      \* Transaction.undo_log: steps [kill, revive], undone from the end;
             \* each is the slots it handles under one latch
  op,        \* the statement a transaction is executing
  ver,       \* the tuple header in each slot
  lock,      \* the holder of each slot's row lock, or NoXid
  reader,    \* the snapshot of a registered ReadHandle, or NoReader
  vacuum,    \* the running vacuum pass
  seen,      \* history: the committed rows when the snapshot was taken
  intent     \* history: each transaction's finished writes, row by row

txnVars == <<nextXid, state, iso, snap>>
histVars == <<seen, intent>>
vars == <<load, txnVars, undo, op, ver, lock, reader, vacuum, histVars>>

\* A statement: its path and stage, the targets left to do in this stage, all
\* its targets, and the new versions inserted so far.
Idle == [path |-> "idle", stage |-> "none", todo |-> <<>>, old |-> <<>>,
         new |-> <<>>]

Free == [row |-> CHOOSE r \in Rows : TRUE, xmin |-> NoXid, xmax |-> NoXid,
         hint |-> FALSE, slot |-> "unused"]

NoSnap   == [xmin |-> 0, xmax |-> 0, active |-> {}]
NoWrites == [r \in Rows |-> "keep"]
NoRows   == [r \in Rows |-> {}]
NoReader == [snap |-> NoSnap, self |-> NoXid, seen |-> NoRows]
NoVacuum == [pc |-> "idle", horizon |-> 0, cand |-> {}]

----------------------------------------------------------------------------
(* mvcc.rs *)

\* Snapshot::is_committed_at_snapshot
IsCommittedAt(s, xid) ==
  /\ xid # NoXid /\ xid < s.xmax
  /\ xid < s.xmin \/ xid \notin s.active

\* heap.rs is_visible_hinted, which is mvcc.rs is_visible when no hint is set.
IsVisible(v, s, self) ==
  /\ v.slot = "live"
  /\ v.hint \/ v.xmin = self \/ IsCommittedAt(s, v.xmin)
  /\ v.xmax = NoXid \/ ~(v.xmax = self \/ IsCommittedAt(s, v.xmax))

\* Mutant: any stamped version may go.
ReclaimStamped(v, horizon) == v.xmax # NoXid

IsReclaimable(v, horizon) == v.xmax # NoXid /\ v.xmax < horizon

\* The slots, and the writers, of row r that a snapshot sees.
VisibleSlots(r, s, self) ==
  {i \in Slots : ver[i].row = r /\ IsVisible(ver[i], s, self)}

View(s, self) == [r \in Rows |-> {ver[i].xmin : i \in VisibleSlots(r, s, self)}]

----------------------------------------------------------------------------
(* txn.rs, TxnInner *)

Active == {x \in Xids : state[x] \in {"active", "aborting"}}

Least(S, default) == IF S = {} THEN default
                     ELSE CHOOSE m \in S : \A n \in S : m <= n

ComputeSnapshot(next) ==
  [xmin |-> Least(Active, next), xmax |-> next, active |-> Active]

\* Mutant: readers do not register.
WritersHorizon == Least({snap[x].xmin : x \in Active}, nextXid)

VacuumHorizon ==
  Least({snap[x].xmin : x \in Active} \cup
        (IF reader = NoReader THEN {} ELSE {reader.snap.xmin}), nextXid)

\* What a reader that starts now sees.
Committed == View(ComputeSnapshot(nextXid), nextXid)

----------------------------------------------------------------------------

TypeOK ==
  /\ nextXid \in 1 .. MaxXid + 1
  /\ state \in [Xids -> {"unborn", "active", "aborting", "committed", "aborted"}]
  /\ \A x \in Xids : state[x] = "unborn" <=> x >= nextXid
  /\ iso \in [Xids -> {"ReadCommitted", "RepeatableRead"}]
  /\ \A x \in Xids : snap[x].xmin \in 0 .. MaxXid + 1 /\ snap[x].active \subseteq Xids
  /\ undo \in [Xids -> Seq([kill : SUBSET Slots, revive : SUBSET Slots])]
  /\ \A x \in Xids : op[x] # Idle => state[x] = "active"
  /\ ver \in [Slots -> [row : Rows, xmin : Xids \cup {NoXid},
                        xmax : Xids \cup {NoXid}, hint : BOOLEAN,
                        slot : {"live", "dead", "unused"}]]
  /\ lock \in [Slots -> Xids \cup {NoXid}]
  /\ intent \in [Xids -> [Rows -> {"keep", "put", "delete"}]]

Init ==
  /\ load \in Loads
  /\ nextXid = 2
  /\ state = [x \in Xids |-> IF x = 1 THEN "committed" ELSE "unborn"]
  /\ iso = [x \in Xids |-> "ReadCommitted"]
  /\ snap = [x \in Xids |-> NoSnap]
  /\ undo = [x \in Xids |-> <<>>]
  /\ op = [x \in Xids |-> Idle]
  /\ LET old == SetToSeq(load.old) IN
     ver = [i \in Slots |->
              IF i > Len(old) THEN Free
              ELSE [row |-> old[i], xmin |-> 1, xmax |-> NoXid, hint |-> FALSE,
                    slot |-> "live"]]
  /\ lock = [i \in Slots |-> NoXid]
  /\ reader = NoReader
  /\ vacuum = NoVacuum
  /\ seen = [x \in Xids |-> NoRows]
  /\ intent = [x \in Xids |-> NoWrites]

----------------------------------------------------------------------------
(* Transactions *)

\* begin: the snapshot is computed after next_xid is raised and before the
\* transaction enters `active`.
Begin(x, i) ==
  /\ x = nextXid /\ x <= load.xids
  /\ nextXid' = nextXid + 1
  /\ state' = [state EXCEPT ![x] = "active"]
  /\ iso' = [iso EXCEPT ![x] = i]
  /\ snap' = [snap EXCEPT ![x] = ComputeSnapshot(nextXid + 1)]
  /\ seen' = [seen EXCEPT ![x] = Committed]
  /\ UNCHANGED <<undo, op, ver, lock, reader, vacuum, intent>>

\* The targets a statement may pick under snapshot s: visible slots, in page
\* order; one for the row-at-a-time paths, up to load.batch for the batches.
Targets(x, s, path) ==
  IF path = "insert" THEN {{}} ELSE
  {ts \in SUBSET UNION {VisibleSlots(r, s, x) : r \in Rows} :
     /\ ts # {}
     /\ Cardinality(ts) <= IF path \in {"deleteMany", "updateMany"}
                             THEN load.batch ELSE 1}

PageOrder(ts) ==
  CHOOSE s \in [1 .. Cardinality(ts) -> ts] :
    \A a, b \in DOMAIN s : a < b => s[a] < s[b]

FirstStage(path) ==
  CASE path = "insert"                        -> "insert"
    [] path \in {"deleteMany", "updateMany"}  -> "stamp"
    [] OTHER                                  -> "lock"

\* A DML statement: snapshot_for_statement, then the scan for its target rows.
Statement(x, path) ==
  LET fresh == iso[x] = "ReadCommitted"
      s     == IF fresh THEN ComputeSnapshot(nextXid) ELSE snap[x]
  IN
  /\ state[x] = "active" /\ op[x] = Idle
  /\ Len(undo[x]) < MaxUndo
  /\ snap' = [snap EXCEPT ![x] = s]
  /\ seen' = IF fresh THEN [seen EXCEPT ![x] = Committed] ELSE seen
  /\ \E ts \in Targets(x, s, path) :
       LET slots == PageOrder(ts) IN
       op' = [op EXCEPT ![x] = [path |-> path, stage |-> FirstStage(path),
                                todo |-> slots, old |-> slots, new |-> <<>>]]
  /\ UNCHANGED <<nextXid, state, iso, undo, ver, lock, reader, vacuum, intent>>

Stamped(vs, i, x) == [vs EXCEPT ![i].xmax = x]

NewVersion(vs, n, r, x) ==
  [vs EXCEPT ![n] = [row |-> r, xmin |-> x, xmax |-> NoXid, hint |-> FALSE,
                     slot |-> "live"]]

\* The first slot with room; with none, the insert waits: the bound on slots.
FreeSlots == LET free == {i \in Slots : ver[i].slot = "unused"}
             IN IF free = {} THEN {} ELSE {Least(free, NoXid)}

At(x, paths, stage) == op[x].path \in paths /\ op[x].stage = stage

GoTo(x, stage, todo, new) ==
  op' = [op EXCEPT ![x].stage = stage, ![x].todo = todo, ![x].new = new]

\* The statement is done: its undo steps are recorded.
Finish(x, steps, rows, write) ==
  /\ undo' = [undo EXCEPT ![x] = @ \o steps]
  /\ op' = [op EXCEPT ![x] = Idle]
  /\ intent' = [intent EXCEPT ![x] =
                  [r \in Rows |-> IF r \in rows THEN write ELSE @[r]]]

RowsOf(slots) == {ver[slots[k]].row : k \in DOMAIN slots}

KillStep(i)   == [kill |-> {i}, revive |-> {}]
ReviveStep(i) == [kill |-> {}, revive |-> {i}]

\* The transaction stops and its rollback begins.
StartAbort(x) ==
  /\ state' = [state EXCEPT ![x] = "aborting"]
  /\ op' = [op EXCEPT ![x] = Idle]
  /\ intent' = [intent EXCEPT ![x] = NoWrites]
  /\ seen' = [seen EXCEPT ![x] = NoRows]
  /\ UNCHANGED <<nextXid, iso, snap, undo, ver, lock, reader, vacuum>>

\* What a write path checks under the latch before it stamps slot i: the slot
\* still resolves, and nobody has stamped it.
Unstamped(i) == ver[i].slot = "live" /\ ver[i].xmax = NoXid

\* The check fails: WriteConflict, or TupleDeleted.  What the statement has
\* already changed stays as it is, and the server aborts the transaction.
Conflict(x) ==
  /\ op[x].stage \in {"stamp", "check"}
  /\ op[x].todo # <<>>
  /\ ~Unstamped(Head(op[x].todo))
  /\ StartAbort(x)

----------------------------------------------------------------------------
(* heap.rs: the write paths *)

InsertRow(x) ==
  /\ At(x, {"insert"}, "insert")
  /\ \E r \in Rows, n \in FreeSlots :
       /\ \A i \in Slots : ver[i].slot = "live" => ver[i].row # r
       /\ ver' = NewVersion(ver, n, r, x)
       /\ Finish(x, <<KillStep(n)>>, {r}, "put")
  /\ UNCHANGED <<txnVars, lock, reader, vacuum, seen>>

\* LockManager::try_acquire_write under WaitPolicy::NoWait.
LockRow(x) ==
  LET i == Head(op[x].todo) IN
  /\ op[x].stage = "lock"
  /\ IF lock[i] \in {NoXid, x}
       THEN /\ lock' = [lock EXCEPT ![i] = x]
            /\ GoTo(x, IF op[x].path = "hotXpage" THEN "check" ELSE "stamp",
                    op[x].todo, <<>>)
            /\ UNCHANGED <<txnVars, undo, ver, reader, vacuum, histVars>>
       ELSE StartAbort(x)

\* Mutant: the undo action of the stamp is not recorded.
DeleteUnlogged(x) ==
  LET i == Head(op[x].todo) IN
  /\ At(x, {"delete"}, "stamp") /\ Unstamped(i)
  /\ ver' = [Stamped(ver, i, x) EXCEPT ![i].hint = TRUE]
  /\ Finish(x, <<>>, RowsOf(op[x].old), "delete")
  /\ UNCHANGED <<txnVars, lock, reader, vacuum, seen>>

\* Heap::delete also marks the inserter committed.
DeleteStamp(x) ==
  LET i == Head(op[x].todo) IN
  /\ At(x, {"delete"}, "stamp") /\ Unstamped(i)
  /\ ver' = [Stamped(ver, i, x) EXCEPT ![i].hint = TRUE]
  /\ Finish(x, <<ReviveStep(i)>>, RowsOf(op[x].old), "delete")
  /\ UNCHANGED <<txnVars, lock, reader, vacuum, seen>>

\* Heap::try_hot_insert when the page has room: one latch for both versions.
HotUpdate(x) ==
  LET i == Head(op[x].todo) IN
  /\ At(x, {"hot"}, "stamp") /\ Unstamped(i)
  /\ \E n \in FreeSlots :
       /\ ver' = NewVersion(Stamped(ver, i, x), n, ver[i].row, x)
       /\ Finish(x, <<[kill |-> {n}, revive |-> {i}]>>, RowsOf(op[x].old), "put")
  /\ UNCHANGED <<txnVars, lock, reader, vacuum, seen>>

\* try_hot_insert when it has none: the check that precedes the new version.
HotXpageCheck(x) ==
  /\ At(x, {"hotXpage"}, "check") /\ Unstamped(Head(op[x].todo))
  /\ GoTo(x, "insert", op[x].todo, <<>>)
  /\ UNCHANGED <<txnVars, undo, ver, lock, reader, vacuum, histVars>>

\* ... and, after the new version, the stamp, which checks nothing.
HotXpageLink(x) ==
  LET i == Head(op[x].old) IN
  /\ At(x, {"hotXpage"}, "link")
  /\ ver' = Stamped(ver, i, x)
  /\ Finish(x, <<ReviveStep(i), KillStep(op[x].new[1])>>, RowsOf(op[x].old), "put")
  /\ UNCHANGED <<txnVars, lock, reader, vacuum, seen>>

\* The stamps of Heap::update, of update_many's and hot_update_many's phase A
\* and of delete_many, page by page.
StampNext(x) ==
  LET i    == Head(op[x].todo)
      rest == Tail(op[x].todo)
  IN
  /\ At(x, {"update", "deleteMany", "updateMany"}, "stamp")
  /\ op[x].todo # <<>> /\ Unstamped(i)
  /\ ver' = Stamped(ver, i, x)
  /\ IF rest # <<>> THEN GoTo(x, "stamp", rest, <<>>) /\ UNCHANGED <<undo, intent>>
     ELSE IF op[x].path = "deleteMany"
       THEN Finish(x, [k \in DOMAIN op[x].old |-> ReviveStep(op[x].old[k])],
                   RowsOf(op[x].old), "delete")
       ELSE GoTo(x, "insert", op[x].old, <<>>) /\ UNCHANGED <<undo, intent>>
  /\ UNCHANGED <<txnVars, lock, reader, vacuum, seen>>

\* Phase B: the new versions, one by one; the undo actions of an update are
\* recorded after the last of them, its stamps first.  (hot_update_many pairs
\* them row by row; its phase C, which links old to new, moves no stamp.)
InsertNext(x) ==
  LET i    == Head(op[x].todo)
      rest == Tail(op[x].todo)
      o    == op[x].old
  IN
  /\ At(x, {"update", "hotXpage", "updateMany"}, "insert")
  /\ \E n \in FreeSlots :
       LET new == Append(op[x].new, n) IN
       /\ ver' = NewVersion(ver, n, ver[i].row, x)
       /\ IF rest # <<>> THEN GoTo(x, "insert", rest, new) /\ UNCHANGED <<undo, intent>>
          ELSE IF op[x].path = "hotXpage"
            THEN GoTo(x, "link", <<>>, new) /\ UNCHANGED <<undo, intent>>
            ELSE Finish(x, [k \in DOMAIN o |-> ReviveStep(o[k])] \o
                           [k \in DOMAIN new |-> KillStep(new[k])], RowsOf(o), "put")
  /\ UNCHANGED <<txnVars, lock, reader, vacuum, seen>>

----------------------------------------------------------------------------
(* txn.rs: the end of a transaction *)

\* active.remove: what the manager knew of x goes with it.
Forget(x, outcome) ==
  /\ state' = [state EXCEPT ![x] = outcome]
  /\ snap' = [snap EXCEPT ![x] = NoSnap]
  /\ undo' = [undo EXCEPT ![x] = <<>>]

Commit(x) ==
  /\ state[x] = "active" /\ op[x] = Idle
  /\ Forget(x, "committed")
  /\ intent' = [intent EXCEPT ![x] = NoWrites]
  /\ seen' = [seen EXCEPT ![x] = NoRows]
  /\ UNCHANGED <<nextXid, iso, op, ver, lock, reader, vacuum>>

Rollback(x) == state[x] = "active" /\ op[x] = Idle /\ StartAbort(x)

\* abort: one undo action, the last one left.  A slot that no longer resolves
\* fails it, and the transaction stays in `active`.
Undo(x) ==
  LET last == undo[x][Len(undo[x])] IN
  /\ state[x] = "aborting" /\ undo[x] # <<>>
  /\ \A i \in last.kill \cup last.revive : ver[i].slot = "live"
  /\ ver' = [i \in Slots |-> IF i \in last.kill THEN [ver[i] EXCEPT !.xmax = x]
                             ELSE IF i \in last.revive THEN [ver[i] EXCEPT !.xmax = NoXid]
                             ELSE ver[i]]
  /\ undo' = [undo EXCEPT ![x] = SubSeq(@, 1, Len(@) - 1)]
  /\ UNCHANGED <<txnVars, op, lock, reader, vacuum, histVars>>

\* Mutant: the xid leaves `active` before the undo.
AbortAtOnce(x) ==
  /\ state[x] = "aborting"
  /\ Forget(x, "aborted")
  /\ UNCHANGED <<nextXid, iso, op, ver, lock, reader, vacuum, histVars>>

\* abort: only when everything is undone does the xid leave `active`.
AbortDone(x) ==
  /\ state[x] = "aborting" /\ undo[x] = <<>>
  /\ Forget(x, "aborted")
  /\ UNCHANGED <<nextXid, iso, op, ver, lock, reader, vacuum, histVars>>

\* lock_mgr.release_all, the last thing commit and abort do.
ReleaseLocks(x) ==
  /\ state[x] \in {"committed", "aborted"}
  /\ \E i \in Slots : lock[i] = x
  /\ lock' = [i \in Slots |-> IF lock[i] = x THEN NoXid ELSE lock[i]]
  /\ UNCHANGED <<txnVars, undo, op, ver, reader, vacuum, histVars>>

----------------------------------------------------------------------------
(* Readers and vacuum *)

\* read_snapshot: a snapshot and its registration.
ReaderOpen ==
  /\ load.reader /\ reader = NoReader
  /\ reader' = [snap |-> ComputeSnapshot(nextXid), self |-> nextXid, seen |-> Committed]
  /\ UNCHANGED <<txnVars, undo, op, ver, lock, vacuum, histVars>>

\* ReadRegistration::drop
ReaderClose ==
  /\ reader # NoReader
  /\ reader' = NoReader
  /\ UNCHANGED <<txnVars, undo, op, ver, lock, vacuum, histVars>>

VacuumStart ==
  /\ load.vacuums = "always" \/ (load.vacuums = "quiet" /\ Active = {})
  /\ vacuum.pc = "idle"
  /\ vacuum' = [pc |-> "collect", horizon |-> VacuumHorizon, cand |-> {}]
  /\ UNCHANGED <<txnVars, undo, op, ver, lock, reader, histVars>>

\* collect_reclaimable
VacuumCollect ==
  /\ vacuum.pc = "collect"
  /\ LET cand == {i \in Slots : /\ ver[i].slot = "live"
                                /\ IsReclaimable(ver[i], vacuum.horizon)}
     IN vacuum' = IF cand = {} THEN NoVacuum
                  ELSE [vacuum EXCEPT !.pc = "mark", !.cand = cand]
  /\ UNCHANGED <<txnVars, undo, op, ver, lock, reader, histVars>>

\* Heap::mark_dead on the next candidate.
VacuumMark ==
  /\ vacuum.pc = "mark"
  /\ LET i == Least(vacuum.cand, NoXid)
         c == vacuum.cand \ {i}
     IN /\ ver' = [ver EXCEPT ![i].slot = IF @ = "live" THEN "dead" ELSE @]
        /\ vacuum' = [vacuum EXCEPT !.pc = IF c = {} THEN "compact" ELSE "mark",
                                    !.cand = c]
  /\ UNCHANGED <<txnVars, undo, op, lock, reader, histVars>>

\* compact_page over the pages touched: dead line pointers become reusable.
VacuumCompact ==
  /\ vacuum.pc = "compact"
  /\ ver' = [i \in Slots |-> IF ver[i].slot = "dead" THEN Free ELSE ver[i]]
  /\ vacuum' = NoVacuum
  /\ UNCHANGED <<txnVars, undo, op, lock, reader, histVars>>

----------------------------------------------------------------------------

Step ==
  \/ \E x \in Xids :
       \/ \E i \in load.isolations : Begin(x, i)
       \/ \E path \in load.paths : Statement(x, path)
       \/ InsertRow(x) \/ LockRow(x) \/ DeleteStamp(x) \/ HotUpdate(x)
       \/ HotXpageCheck(x) \/ HotXpageLink(x) \/ StampNext(x) \/ InsertNext(x)
       \/ Conflict(x) \/ Commit(x) \/ Rollback(x) \/ Undo(x) \/ AbortDone(x)
       \/ ReleaseLocks(x)
  \/ ReaderOpen \/ ReaderClose
  \/ VacuumStart \/ VacuumCollect \/ VacuumMark \/ VacuumCompact

Next == Step /\ UNCHANGED load

Spec == Init /\ [][Next]_vars

----------------------------------------------------------------------------
(* Properties *)

\* The transactions behind the versions implement snapshot isolation: rows
\* change when a transaction commits and never otherwise (not when it stamps,
\* rolls back or is vacuumed), all of its writes at once, and nobody writes over
\* a version changed since the snapshot it read.
Snapshots == INSTANCE SnapshotStore WITH
  store   <- Committed,
  status  <- [x \in Xids |-> CASE state[x] = "unborn" -> "unborn"
                               [] state[x] = "active" -> "open"
                               [] OTHER               -> "closed"],
  base    <- seen,
  pending <- intent

SnapshotIsolation == Snapshots!Spec

\* read_snapshot: no transaction has the reader's self_xid, so it sees exactly
\* what was committed when it registered.
ReaderSeesCommitted ==
  reader # NoReader => View(reader.snap, reader.self) = reader.seen

\* Vacuum keeps every version a registered reader still has to see.
ReaderVersionsKept ==
  reader # NoReader => \A r \in Rows, y \in Xids :
    y \in reader.seen[r] =>
      \E i \in Slots : ver[i].slot = "live" /\ ver[i].row = r /\ ver[i].xmin = y

\* Between statements a transaction sees the rows as they were committed when
\* its snapshot was taken, overlaid with its own writes, whatever other
\* transactions, rollbacks and vacuum did since.
SnapshotReads ==
  \A x \in Xids : state[x] = "active" /\ op[x] = Idle =>
    View(snap[x], x) = [r \in Rows |-> CASE intent[x][r] = "put"    -> {x}
                                         [] intent[x][r] = "delete" -> {}
                                         [] OTHER                   -> seen[x][r]]

\* What a snapshot promises to whoever holds it, transaction or reader.
ReadsExact == SnapshotReads /\ ReaderVersionsKept

\* As long as a transaction may still roll back, every slot its undo log names
\* holds what the undo expects: its own stamp to clear, or its own version to
\* kill.  Neither another writer nor vacuum has taken it.
UndoTargetsIntact ==
  \A x \in Active : \A k \in DOMAIN undo[x] :
    /\ \A i \in undo[x][k].revive : ver[i].slot = "live" /\ ver[i].xmax = x
    /\ \A i \in undo[x][k].kill : ver[i].slot = "live" /\ ver[i].xmin = x

\* "no live tuple bears this xid any longer" (TransactionManager::abort): the
\* visibility rules take a finished xid for a committed one, so an aborted one
\* may be left only on a version that it both wrote and stamped.
AbortLeavesNothing ==
  \A x \in Xids, i \in Slots :
    state[x] = "aborted" /\ ver[i].slot = "live" => (ver[i].xmin = x <=> ver[i].xmax = x)

============================================================================
