------------------------------ MODULE Recovery ------------------------------
(***************************************************************************)
(* Crash recovery of unidb: heap pages in the buffer pool and on disk, the *)
(* write-ahead log, fuzzy page steals, checkpoints, a crash at any moment, *)
(* and the passes of recovery::recover (redo, undo of incomplete mini-     *)
(* transactions, the two phases that undo incomplete user transactions)    *)
(* replayed one record at a time, so that a crash may also fall inside.    *)
(*                                                                         *)
(* A row version is a slot of a page with its xmin and xmax; its payload,  *)
(* its place in a version chain and the page's byte layout are left out.   *)
(* Wal models the segments, fsyncs and truncation this module takes as a   *)
(* sequence with a durable prefix; Mvcc models the write paths in full.    *)
(***************************************************************************)
EXTENDS Integers, SequencesExt

CONSTANTS Pages,     \* heap pages, natural numbers
          MaxXid,    \* bound: the largest xid handed out
          MaxSlot,   \* bound: line pointers of a page
          MaxLsn,    \* bound: log sequence numbers of a session
          MaxCrash,  \* bound: crashes of a behaviour
          Loads      \* the workloads, see LoadType

ASSUME RecoveryAssumption ==
  /\ Pages \subseteq Nat \ {0}
  /\ {MaxXid, MaxSlot, MaxLsn, MaxCrash} \subseteq Nat

LoadType == [writes : SUBSET {"insert", "batch", "stamp", "xmaxBatch", "hot"},
             aborts : BOOLEAN, width : Nat, vacuum : BOOLEAN,
             overlap : BOOLEAN, dirtyRestart : BOOLEAN,
             pages : SUBSET Pages,      \* the heap
             rows : 0..MaxSlot,         \* committed rows each page starts with
             lsns : 0..MaxLsn]          \* bound: the log of a session

ASSUME LoadsAssumption == \A l \in Loads : l \in LoadType

VARIABLES load,       \* the workload, fixed
          log,        \* the records of the write-ahead log, oldest first
          durable,    \* how many of them a crash cannot take away
          durLsn,     \* the pool's durable frontier, 0 before the first fsync
          mem,        \* the pages as the engine sees them
          disk,       \* the pages a crash leaves
          dirty,      \* pages whose frame is dirty
          fpi,        \* pages with a full-page image since the checkpoint
          control,    \* the control file
          nextLsn, nextMini, nextXid,
          txn,        \* state of each xid
          undo,       \* undo log of each xid
          open,       \* the mini-transaction each owner is inside of
          ckpt,       \* progress of a running checkpoint
          state,      \* "up", "recovering" or "failed"
          todo,       \* what recovery still has to do, see Work
          crashes,
          writable,   \* this session may write, see OpenDone
          committed,  \* history: xids whose commit record survives
          ins, del    \* history: versions inserted and deleted, by xid

pagesVars == <<mem, disk, dirty, fpi>>
walVars   == <<log, durable, durLsn, nextLsn>>
txnVars   == <<nextXid, txn, undo>>
history   == <<committed, ins, del>>
vars == <<load, pagesVars, walVars, txnVars, history, control, nextMini, open,
          ckpt, state, todo, crashes, writable>>

-----------------------------------------------------------------------------
(* Pages.                                                                  *)

Row  == [st : {"live", "dead", "unused"}, xmin : 0..MaxXid, xmax : 0..MaxXid]
Page == [lsn : 0..MaxLsn, slots : BoundedSeq(Row, MaxSlot)]

Live(slots, s) == s \in DOMAIN slots /\ slots[s].st = "live"
InRange(slots, ss) == ToSet(ss) \subseteq DOMAIN slots
Free(st) == [st |-> st, xmin |-> 0, xmax |-> 0]

\* The line pointer insert_versioned takes: the lowest unused one, or a new one.
NextSlot(slots) ==
  LET unused == {s \in DOMAIN slots : slots[s].st = "unused"}
  IN IF unused = {} THEN Len(slots) + 1 ELSE Min(unused)

InsertRow(slots, x) ==
  LET s   == NextSlot(slots)
      row == [st |-> "live", xmin |-> x, xmax |-> 0]
  IN IF s > Len(slots) THEN Append(slots, row) ELSE [slots EXCEPT ![s] = row]

\* xmax set on every live slot of ss; the others answer TupleDeleted.
SetXmax(slots, ss, x) ==
  [s \in DOMAIN slots |->
     IF s \in ToSet(ss) /\ Live(slots, s) THEN [slots[s] EXCEPT !.xmax = x] ELSE slots[s]]

Delete(slots, ss) ==
  [s \in DOMAIN slots |->
     IF s \in ToSet(ss) /\ Live(slots, s) THEN Free("unused") ELSE slots[s]]

MarkDead(slots, ss) ==
  [s \in DOMAIN slots |->
     IF s \in ToSet(ss) /\ Live(slots, s) THEN Free("dead") ELSE slots[s]]

Compact(slots) ==
  [s \in DOMAIN slots |-> IF Live(slots, s) THEN slots[s] ELSE Free("unused")]

-----------------------------------------------------------------------------
(* Log records: of a mini-transaction (mini is its id) or of a user        *)
(* transaction (mini is its xid). val is the xid a record stamps, old and  *)
(* new the slots it stamps and fills, was the xmax it replaced.            *)

NoPage == [lsn |-> 0, slots |-> <<>>]
Blank  == [lsn |-> 0, typ |-> "", mini |-> 0, page |-> 0, val |-> 0,
           old |-> <<>>, new |-> <<>>, was |-> 0, img |-> NoPage]

Note(typ, id)         == [Blank EXCEPT !.typ = typ, !.mini = id]
Change(typ, x, o, n)  == [Blank EXCEPT !.typ = typ, !.val = x, !.old = o, !.new = n]
Stamp(s, x, before)   == [Blank EXCEPT !.typ = "stamp", !.val = x, !.old = <<s>>, !.was = before]

Numbered(recs) == [i \in DOMAIN recs |-> [recs[i] EXCEPT !.lsn = nextLsn + i - 1]]

Logged(recs) ==
  /\ nextLsn + Len(recs) - 1 <= load.lsns
  /\ log' = log \o Numbered(recs)
  /\ nextLsn' = nextLsn + Len(recs)

Active == {x \in DOMAIN txn : txn[x] \in {"active", "aborting"}}
NoMini == [mini |-> 0, page |-> 0, undo |-> <<>>]
Latched(p) == \E o \in DOMAIN open : open[o] # NoMini /\ open[o].page = p
Quiet == Active = {} /\ \A o \in DOMAIN open : open[o] = NoMini

OldPage == [lsn |-> 1, slots |-> [s \in 1..load.rows |-> [st |-> "live", xmin |-> 1, xmax |-> 0]]]

\* Just after a checkpoint: every page on disk, nothing else in the log.
Init ==
  /\ load \in Loads
  /\ log = <<[Note("ckpt", 0) EXCEPT !.lsn = 2]>>
  /\ durable = 1 /\ durLsn = 2 /\ nextLsn = 3 /\ nextMini = 1 /\ nextXid = 2
  /\ mem = [p \in load.pages |-> OldPage] /\ disk = mem
  /\ dirty = {} /\ fpi = {}
  /\ control = [ckpt |-> 2, tail |-> 2, nextXid |-> 2]
  /\ txn = [x \in 2..MaxXid |-> "none"]
  /\ undo = [x \in 2..MaxXid |-> <<>>]
  /\ open = [o \in {0} \cup (2..MaxXid) |-> NoMini]
  /\ ckpt = [pc |-> "idle", lsn |-> 0, xid |-> 0]
  /\ state = "up" /\ todo = {} /\ crashes = 0 /\ writable = TRUE
  /\ committed = {1}
  /\ ins = {<<1, p, s>> : p \in load.pages, s \in 1..load.rows}
  /\ del = {}

-----------------------------------------------------------------------------
(* Transactions and their writes.                                          *)

Begin ==
  /\ state = "up" /\ writable
  /\ nextXid <= MaxXid /\ Cardinality(Active) < load.width
  /\ ~load.overlap => ckpt.pc = "idle"
  /\ Logged(<<Note("txnBegin", nextXid)>>)
  /\ nextXid' = nextXid + 1
  /\ txn' = [txn EXCEPT ![nextXid] = "active"]
  /\ UNCHANGED <<load, pagesVars, history, durable, durLsn, undo, control, nextMini,
                 open, ckpt, state, todo, crashes, writable>>

\* The page's image, before its first change since the checkpoint.
FirstImage(p) == IF p \in fpi THEN <<>> ELSE <<[Blank EXCEPT !.typ = "fpi", !.img = mem[p]]>>

\* A mini-transaction of owner o changes page p, latched until it commits:
\* BEGIN, an image if one is due, then the change records; the page carries
\* the LSN of the last of them.
Mini(o, p, image, changes, slots, undoEntries) ==
  LET own  == image \o changes
      recs == <<Note("begin", nextMini)>>
                 \o [i \in DOMAIN own |-> [own[i] EXCEPT !.mini = nextMini, !.page = p]]
  IN /\ open[o] = NoMini /\ ~Latched(p)
     /\ Logged(recs)
     /\ mem' = [mem EXCEPT ![p] = [lsn |-> nextLsn + Len(recs) - 1, slots |-> slots]]
     /\ dirty' = dirty \cup {p} /\ fpi' = fpi \cup {p}
     /\ nextMini' = nextMini + 1
     /\ open' = [open EXCEPT ![o] = [mini |-> nextMini, page |-> p, undo |-> undoEntries]]

\* The rows of a page a statement of x may delete or update.
Targets(x, slots) ==
  {s \in DOMAIN slots : /\ Live(slots, s) /\ slots[s].xmax = 0
                        /\ slots[s].xmin \notin Active \ {x}}

\* The slots of a batch, in the order of the page's line pointers.
Ascending(t) == {o \in BoundedSeq(t, MaxSlot) : \A i, j \in DOMAIN o : i < j => o[i] < o[j]}

\* One row inserted, two at once, one row stamped, a page's rows stamped at
\* once, a row replaced on its page.
Changes(x, slots) ==
  LET t  == Targets(x, slots)
      s1 == NextSlot(slots)
      s2 == NextSlot(InsertRow(slots, x))
  IN {Change("insert", x, <<>>, <<s1>>), Change("batch", x, <<>>, <<s1, s2>>)}
       \cup {Stamp(s, x, 0) : s \in t}
       \cup {Change("xmaxBatch", x, ss, <<>>) : ss \in Ascending(t) \ {<<>>}}
       \cup {Change("hot", x, <<s>>, <<s1>>) : s \in t}

\* What heap does to the page for a change, in memory; a record fills at most
\* two slots.
Changed(slots, r) ==
  LET Filled(sl, i) == IF i \in DOMAIN r.new THEN InsertRow(sl, r.val) ELSE sl
  IN Filled(Filled(SetXmax(slots, r.old, r.val), 1), 2)

\* The undo entries the executor records: one for each row inserted, one for
\* the rest.
UndoOf(r, p) ==
  IF r.typ \in {"insert", "batch"}
  THEN [i \in DOMAIN r.new |-> [page |-> p, old |-> <<>>, new |-> <<r.new[i]>>]]
  ELSE <<[page |-> p, old |-> r.old, new |-> r.new]>>

Write(x, p) ==
  /\ state = "up" /\ txn[x] = "active"
  /\ \E r \in Changes(x, mem[p].slots) :
       /\ r.typ \in load.writes
       /\ \A s \in ToSet(r.new) : s <= MaxSlot
       /\ Mini(x, p, FirstImage(p), <<r>>, Changed(mem[p].slots, r), UndoOf(r, p))
       /\ ins' = ins \cup {<<x, p, s>> : s \in ToSet(r.new)}
       /\ del' = del \cup {<<x, <<mem[p].slots[s].xmin, p, s>>>> : s \in ToSet(r.old)}
  /\ UNCHANGED <<load, disk, durable, durLsn, txnVars, committed, control, ckpt, state,
                 todo, crashes, writable>>

\* The mini-transaction's COMMIT record; the statement returns and its undo is
\* recorded.
MiniCommit(o) ==
  /\ state = "up" /\ open[o] # NoMini
  /\ Logged(<<Note("commit", open[o].mini)>>)
  /\ open' = [open EXCEPT ![o] = NoMini]
  /\ undo' = [x \in DOMAIN undo |-> IF x = o THEN undo[x] \o open[o].undo ELSE undo[x]]
  /\ UNCHANGED <<load, pagesVars, history, durable, durLsn, nextXid, txn, control,
                 nextMini, ckpt, state, todo, crashes, writable>>

\* A transaction that wrote nothing writes no commit record.
Commit(x) ==
  /\ state = "up" /\ txn[x] = "active" /\ open[x] = NoMini
  /\ IF undo[x] = <<>> THEN UNCHANGED <<log, nextLsn>> ELSE Logged(<<Note("txnCommit", x)>>)
  /\ txn' = [txn EXCEPT ![x] = "done"]
  /\ committed' = IF undo[x] = <<>> THEN committed ELSE committed \cup {x}
  /\ UNCHANGED <<load, pagesVars, durable, durLsn, nextXid, undo, ins, del, control,
                 nextMini, open, ckpt, state, todo, crashes, writable>>

Rollback(x) ==
  /\ load.aborts /\ state = "up" /\ txn[x] = "active" /\ open[x] = NoMini
  /\ txn' = [txn EXCEPT ![x] = "aborting"]
  /\ UNCHANGED <<load, pagesVars, walVars, history, nextXid, undo, control, nextMini,
                 open, ckpt, state, todo, crashes, writable>>

\* abort reverses the last undo entry in a mini-transaction of its own: an
\* inserted version is stamped with its own xid, a stamp goes back to 0.
UndoWrite(x) ==
  /\ state = "up" /\ txn[x] = "aborting" /\ undo[x] # <<>>
  /\ LET e     == Last(undo[x])
         slots == mem[e.page].slots
         recs  == [i \in DOMAIN e.new |-> Stamp(e.new[i], x, 0)]
                    \o [i \in DOMAIN e.old |-> Stamp(e.old[i], 0, slots[e.old[i]].xmax)]
     IN Mini(x, e.page, FirstImage(e.page), recs,
             SetXmax(SetXmax(slots, e.new, x), e.old, 0), <<>>)
  /\ undo' = [undo EXCEPT ![x] = Front(undo[x])]
  /\ UNCHANGED <<load, disk, durable, durLsn, nextXid, txn, history, control, ckpt,
                 state, todo, crashes, writable>>

AbortDone(x) ==
  /\ state = "up" /\ txn[x] = "aborting" /\ undo[x] = <<>> /\ open[x] = NoMini
  /\ Logged(<<Note("txnAbort", x)>>)
  /\ txn' = [txn EXCEPT ![x] = "done"]
  /\ UNCHANGED <<load, pagesVars, durable, durLsn, nextXid, undo, history, control,
                 nextMini, open, ckpt, state, todo, crashes, writable>>

-----------------------------------------------------------------------------
(* Vacuum: a version no snapshot can see is marked dead, a page compacted. *)

\* Mutant: a version stamped by a running transaction counts as dead.
ReclaimStamped(row) == row.st = "live" /\ row.xmax # 0

Reclaimable(row) ==
  /\ row.st = "live" /\ row.xmax # 0
  /\ \A x \in Active : row.xmax < x

VacuumMark(p) ==
  /\ load.vacuum /\ state = "up" /\ writable /\ ckpt.pc = "idle"
  /\ \E s \in DOMAIN mem[p].slots :
       /\ Reclaimable(mem[p].slots[s])
       /\ Mini(0, p, FirstImage(p), <<Change("vacuum", 0, <<s>>, <<>>)>>,
               MarkDead(mem[p].slots, <<s>>), <<>>)
  /\ UNCHANGED <<load, disk, durable, durLsn, txnVars, history, control, ckpt, state,
                 todo, crashes, writable>>

\* The record holds the compacted page, so no image of the page is logged.
VacuumCompact(p) ==
  /\ load.vacuum /\ state = "up" /\ writable /\ ckpt.pc = "idle"
  /\ \E s \in DOMAIN mem[p].slots : mem[p].slots[s].st = "dead"
  /\ LET slots == Compact(mem[p].slots)
     IN Mini(0, p, <<>>,
             <<[Blank EXCEPT !.typ = "compact", !.img = [mem[p] EXCEPT !.slots = slots]]>>,
             slots, <<>>)
  /\ UNCHANGED <<load, disk, durable, durLsn, txnVars, history, control, ckpt, state,
                 todo, crashes, writable>>

-----------------------------------------------------------------------------
(* The log becomes durable, pages are stolen, checkpoints run.             *)

\* A group fsync or any other sync of the log.
Sync ==
  /\ state = "up" /\ durable < Len(log)
  /\ durable' = Len(log) /\ durLsn' = nextLsn - 1
  /\ UNCHANGED <<load, log, nextLsn, pagesVars, txnVars, history, control, nextMini,
                 open, ckpt, state, todo, crashes, writable>>

\* Mutant: a page is stolen ahead of the log.
MayFlushAny(p) == TRUE

\* find_victim writes a dirty page back only behind the durable frontier (D5).
MayFlush(p) == durLsn # 0 /\ mem[p].lsn <= durLsn

Steal(p) ==
  /\ state \in {"up", "recovering"} /\ p \in dirty /\ MayFlush(p)
  /\ disk' = [disk EXCEPT ![p] = mem[p]]
  /\ dirty' = dirty \ {p}
  /\ UNCHANGED <<load, mem, fpi, walVars, txnVars, history, control, nextMini, open,
                 ckpt, state, todo, crashes, writable>>

\* next_xid is read by the caller, then the log is synced.
CkptSync ==
  /\ state = "up" /\ writable /\ ckpt.pc = "idle"
  /\ ~load.overlap => Quiet
  /\ ckpt' = [ckpt EXCEPT !.pc = "flush", !.xid = nextXid]
  /\ durable' = Len(log) /\ durLsn' = nextLsn - 1
  /\ UNCHANGED <<load, log, nextLsn, pagesVars, txnVars, history, control, nextMini,
                 open, state, todo, crashes, writable>>

\* flush_all refuses a page ahead of the frontier, and the checkpoint fails.
CkptFlush ==
  /\ state = "up" /\ ckpt.pc = "flush"
  /\ IF \A p \in dirty : mem[p].lsn <= durLsn
     THEN /\ disk' = [p \in load.pages |-> IF p \in dirty THEN mem[p] ELSE disk[p]]
          /\ dirty' = {} /\ fpi' = {}
          /\ ckpt' = [ckpt EXCEPT !.pc = "log"]
     ELSE ckpt' = [ckpt EXCEPT !.pc = "idle"] /\ UNCHANGED <<disk, dirty, fpi>>
  /\ UNCHANGED <<load, mem, walVars, txnVars, history, control, nextMini, open, state,
                 todo, crashes, writable>>

CkptLog ==
  /\ state = "up" /\ ckpt.pc = "log"
  /\ Logged(<<Note("ckpt", 0)>>)
  /\ durable' = Len(log') /\ durLsn' = nextLsn
  /\ ckpt' = [ckpt EXCEPT !.pc = "control", !.lsn = nextLsn]
  /\ UNCHANGED <<load, pagesVars, txnVars, history, control, nextMini, open, state, todo,
                 crashes, writable>>

\* The control file is written; truncation then removes the records before the
\* checkpoint when they fill whole segments, or keeps them.
CkptControl ==
  /\ state = "up" /\ ckpt.pc = "control"
  /\ control' = [ckpt |-> ckpt.lsn, tail |-> nextLsn - 1, nextXid |-> ckpt.xid]
  /\ \E n \in {0, SelectInSeq(log, LAMBDA r : r.typ = "ckpt" /\ r.lsn = ckpt.lsn) - 1} :
       /\ log' = SubSeq(log, n + 1, Len(log))
       /\ durable' = durable - n
  /\ ckpt' = [ckpt EXCEPT !.pc = "idle"]
  /\ UNCHANGED <<load, nextLsn, durLsn, pagesVars, txnVars, history, nextMini, open,
                 state, todo, crashes, writable>>

-----------------------------------------------------------------------------
(* Crash and recovery.                                                     *)

Lsns(recs) == {r.lsn : r \in ToSet(recs)}

Stamps  == {"stamp", "xmaxBatch", "hot"}
Inserts == {"insert", "batch"}

\* The records at the positions of a set, each with the step that applies it.
Items(step, recs, at) == {[step |-> step, at |-> i, r |-> recs[i]] : i \in at}

\* Everything recover does to pages: redo of the committed mini-transactions,
\* undo of the incomplete ones, and for incomplete user transactions their
\* stamps, then their inserts.
Work(recs) ==
  LET relevant == {i \in DOMAIN recs : recs[i].lsn >= control.ckpt}
      IdsOf(typ) == {recs[i].mini : i \in {j \in relevant : recs[j].typ = typ}}
      committedMinis  == IdsOf("commit")
      incompleteMinis == IdsOf("begin") \ committedMinis
      incompleteXids  == (IdsOf("txnBegin") \ IdsOf("txnCommit")) \ IdsOf("txnAbort")
      redone == {i \in relevant : recs[i].page # 0 /\ recs[i].mini \in committedMinis}
      undone == {i \in relevant : /\ recs[i].mini \in incompleteMinis
                                  /\ recs[i].typ \in Stamps \cup Inserts}
      phase1 == {i \in redone : recs[i].typ \in Stamps /\ recs[i].val \in incompleteXids}
      phase2 == {i \in redone : recs[i].typ \in Inserts /\ recs[i].val \in incompleteXids}
  IN Items("redo", recs, redone) \cup Items("undo", recs, undone)
       \cup Items("unstamp", recs, phase1) \cup Items("kill", recs, phase2)

\* The passes in order, each along the log; the undo pass from the last LSN.
Pass == [redo |-> 1, undo |-> 2, unstamp |-> 3, kill |-> 4]

Precedes(a, b) ==
  \/ Pass[a.step] < Pass[b.step]
  \/ /\ a.step = b.step
     /\ IF a.step = "undo" /\ a.r.lsn # b.r.lsn THEN a.r.lsn > b.r.lsn ELSE a.at < b.at

\* The machine stops: the durable records and any prefix of the others survive,
\* and the pages on disk. Recovery's pool may steal up to the end of that log.
Crash ==
  /\ state \in {"up", "recovering"} /\ crashes < MaxCrash
  /\ crashes' = crashes + 1
  /\ \E n \in durable..Len(log) :
       /\ log' = SubSeq(log, 1, n)
       /\ durable' = n
       /\ durLsn' = Max(Lsns(log'))
       /\ committed' = committed \ {r.mini : r \in {log[i] : i \in {j \in n+1..Len(log) :
                                                        log[j].typ = "txnCommit"}}}
  /\ mem' = disk /\ dirty' = {} /\ fpi' = {}
  /\ ins' = {v \in ins : v[1] \in committed'}
  /\ del' = {d \in del : d[1] \in committed'}
  /\ txn' = [x \in DOMAIN txn |-> "none"]
  /\ undo' = [x \in DOMAIN undo |-> <<>>]
  /\ open' = [o \in DOMAIN open |-> NoMini]
  /\ ckpt' = [ckpt EXCEPT !.pc = "idle"]
  /\ state' = "recovering" /\ todo' = Work(log')
  /\ UNCHANGED <<load, disk, control, nextLsn, nextMini, nextXid, writable>>

\* A plain INSERT is guarded by the slot count alone, an image by nothing; the
\* others apply to a page older than the record. An error leaves the page.
Redo(r, pg) ==
  LET at(slots)   == [lsn |-> r.lsn, slots |-> slots]
      Grown(sl, i) == IF i \in DOMAIN r.new /\ r.new[i] > Len(sl)
                      THEN InsertRow(sl, r.val) ELSE sl
      grown       == Grown(Grown(SetXmax(pg.slots, r.old, r.val), 1), 2)
      inserted    == r.new[1] > Len(pg.slots)
  IN CASE r.typ = "fpi" -> r.img
       [] r.typ = "insert" -> IF inserted THEN at(InsertRow(pg.slots, r.val)) ELSE pg
       [] r.typ \notin {"fpi", "insert"} /\ pg.lsn >= r.lsn -> pg
       [] OTHER ->
            CASE r.typ = "stamp" /\ Live(pg.slots, r.old[1]) -> at(SetXmax(pg.slots, r.old, r.val))
              [] r.typ \in {"xmaxBatch", "hot", "batch"} /\ InRange(pg.slots, r.old) -> at(grown)
              [] r.typ = "vacuum" /\ InRange(pg.slots, r.old) -> at(MarkDead(pg.slots, r.old))
              [] r.typ = "compact" -> at(r.img.slots)
              [] OTHER -> pg

\* The reverse of a record: its new slots freed, its stamps taken back. A slot
\* out of range skips the record.
Undo(r, pg) ==
  IF InRange(pg.slots, r.new \o r.old)
  THEN [pg EXCEPT !.slots = SetXmax(Delete(pg.slots, r.new), r.old, r.was)]
  ELSE pg

\* Mutant: what an incomplete transaction inserted is left alone.
KillSkipped(r, pg) == pg

\* Stamps of an incomplete user transaction go back to 0 whatever is there
\* now; what it inserted is stamped with its own xid.
Unstamp(r, pg) == [pg EXCEPT !.slots = SetXmax(Delete(pg.slots, r.new), r.old, 0)]
Kill(r, pg)    == [pg EXCEPT !.slots = SetXmax(pg.slots, r.new, r.val)]

\* The errors recover returns to its caller: a slot out of range, and for the
\* one-row records a slot that is not live any more.
Fatal(item, pg) ==
  LET slots == item.r.new \o item.r.old
  IN /\ item.step \in {"unstamp", "kill"}
     /\ IF item.r.typ \in {"stamp", "insert"}
        THEN ~Live(pg.slots, slots[1])
        ELSE ~InRange(pg.slots, slots)

Applied(item, pg) ==
  CASE item.step = "redo"    -> Redo(item.r, pg)
    [] item.step = "undo"    -> Undo(item.r, pg)
    [] item.step = "unstamp" -> Unstamp(item.r, pg)
    [] item.step = "kill"    -> Kill(item.r, pg)

RecoverStep ==
  /\ state = "recovering"
  /\ \E item \in todo :
       LET p == item.r.page IN
       /\ \A other \in todo \ {item} : Precedes(item, other)
       /\ IF Fatal(item, mem[p])
          THEN state' = "failed" /\ UNCHANGED <<mem, dirty, todo>>
          ELSE /\ mem' = [mem EXCEPT ![p] = Applied(item, mem[p])]
               /\ dirty' = IF mem' = mem THEN dirty ELSE dirty \cup {p}
               /\ todo' = todo \ {item} /\ UNCHANGED state
  /\ UNCHANGED <<load, disk, fpi, walVars, txnVars, history, control, nextMini, open, ckpt,
                 crashes, writable>>

\* One past the highest xid a WAL_TXN_BEGIN record names, or what the last
\* checkpoint saved.
RecoverNextXid(recs, saved) ==
  Max({r.mini + 1 : r \in {q \in ToSet(recs) : q.typ = "txnBegin"}} \cup {saved})

\* Wal::open continues after the tail the last checkpoint saved.
ResumeLsn == control.tail + 1

\* flush_all, then Engine::open starts its counters. Only after a clean
\* restart, with nothing logged past the last checkpoint, may the session
\* write, unless the workload has dirtyRestart.
OpenDone ==
  /\ state = "recovering" /\ todo = {}
  /\ disk' = mem /\ dirty' = {}
  /\ nextLsn' = ResumeLsn
  /\ nextMini' = 1
  /\ nextXid' = RecoverNextXid(log, control.nextXid)
  /\ durLsn' = 0
  /\ writable' = (load.dirtyRestart \/ Max(Lsns(log)) <= control.tail)
  /\ state' = "up"
  /\ UNCHANGED <<load, mem, fpi, log, durable, txn, undo, history, control, open, ckpt, crashes, todo>>

-----------------------------------------------------------------------------

Next ==
  \/ Begin \/ Sync \/ CkptSync \/ CkptFlush \/ CkptLog \/ CkptControl
  \/ \E x \in DOMAIN txn :
       Commit(x) \/ Rollback(x) \/ UndoWrite(x) \/ AbortDone(x)
  \/ \E x \in DOMAIN txn, p \in load.pages : Write(x, p)
  \/ \E o \in DOMAIN open : MiniCommit(o)
  \/ \E p \in load.pages : VacuumMark(p) \/ VacuumCompact(p) \/ Steal(p)
  \/ Crash \/ RecoverStep \/ OpenDone

Spec == Init /\ [][Next]_vars

-----------------------------------------------------------------------------
(* Properties.                                                             *)

\* Types: in particular the counters recover resumes from the control file and
\* the durable prefix a checkpoint's truncation moves stay in their ranges.
TypeOK ==
  /\ load \in LoadType
  /\ mem \in [load.pages -> Page] /\ disk \in [load.pages -> Page]
  /\ dirty \subseteq Pages /\ fpi \subseteq Pages
  /\ durable \in 0..Len(log) /\ durLsn \in 0..MaxLsn
  /\ nextLsn \in 1..(MaxLsn + 1) /\ nextMini \in 1..MaxLsn /\ nextXid \in 2..(MaxXid + 1)
  /\ txn \in [2..MaxXid -> {"none", "active", "aborting", "done"}]
  /\ ckpt.pc \in {"idle", "flush", "log", "control"}
  /\ state \in {"up", "recovering", "failed"}
  /\ crashes \in 0..MaxCrash

\* What a snapshot taken now takes for committed, and the versions it sees.
IsSettled(x) == x # 0 /\ x < nextXid /\ x \notin Active

VisibleOn(p) ==
  {<<mem[p].slots[s].xmin, p, s>> : s \in
    {t \in DOMAIN mem[p].slots : /\ Live(mem[p].slots, t)
                                 /\ IsSettled(mem[p].slots[t].xmin)
                                 /\ ~IsSettled(mem[p].slots[t].xmax)}}

Visible == UNION {VisibleOn(p) : p \in load.pages}

Promised ==
  {v \in ins : v[1] \in committed} \ {d[2] : d \in {e \in del : e[1] \in committed}}

\* Whenever the engine is open, before and after any number of crashes, a new
\* snapshot sees exactly the rows of the transactions whose commit record
\* survived: recover loses none of them and brings back nothing else.
RecoveredIsCommitted == state = "up" => Visible = Promised

\* recover never returns an error, so Engine::open opens the database.
RecoveryOpens == state # "failed"

\* Were the machine to stop now, the xid counter Engine::open computes from
\* the durable log and the control file is past every xid on the disk's pages.
XidsNotReissued ==
  \A p \in load.pages : \A s \in DOMAIN disk[p].slots :
    LET row == disk[p].slots[s]
        resumed == RecoverNextXid(SubSeq(log, 1, durable), control.nextXid)
    IN row.xmin < resumed /\ row.xmax < resumed

=============================================================================
