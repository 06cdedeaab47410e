----------------------------- MODULE EventQueue -----------------------------
(***************************************************************************)
(* The event queue: capture of row changes into __events__ and its seq     *)
(* index (src/sql/executor.rs, send_event_capture), poll_events,           *)
(* ack_events, vacuum_events and the restart of the sequence (src/lib.rs), *)
(* and the loops that consume the queue: the dispatcher of unidb-dispatch, *)
(* the webhook worker (src/server/webhooks.rs) and the live tail of        *)
(* src/server/sse.rs.                                                      *)
(*                                                                         *)
(* An event row is its sequence number, the transaction that wrote it and  *)
(* the table it is about.  A snapshot is the set of rows it sees.  A       *)
(* commit leaves the active set (and is seen by others), appends its       *)
(* record, and returns when the record is on disk: three steps, for the    *)
(* transactions of writers, of acknowledgements and of vacuum_events.      *)
(* Rolling back and recovering are single steps here; Mvcc and Recovery    *)
(* take them apart.                                                        *)
(***************************************************************************)
EXTENDS Integers, Sequences, FiniteSets, FiniteSetsExt, SequencesExt

CONSTANTS Writers,       \* client transactions, numbered in the order of their row ids
          Workers,       \* running consumer loops
          Consumers,     \* consumer names
          Tables,        \* tables with events enabled
          MaxAttempts,   \* RetryPolicy.max_attempts, MAX_ATTEMPTS
          MaxSeq,        \* bound: sequence numbers
          Loads          \* the workloads, one of which runs: see `load`

ASSUME BoundAssumption == /\ Writers \subseteq Nat /\ IsFiniteSet(Writers)
                          /\ {MaxAttempts, MaxSeq} \subseteq Nat \ {0}
ASSUME LoadAssumption ==
  \A l \in Loads :
    /\ l.kind \in [Workers -> {"off", "dispatcher", "webhook", "tail"}]
    /\ l.name \in [Workers -> Consumers]
    /\ l.wants \in [Workers -> SUBSET Tables]
    /\ {l.serial, l.vacuums, l.window} \subseteq BOOLEAN
    /\ l.tables \subseteq Tables
    /\ {l.writers, l.perTxn, l.stale, l.crashes, l.limit} \subseteq Nat /\ l.limit > 0
    /\ l.crashes > 0 => \A d, e \in Workers : l.name[d] = l.name[e] => d = e

VARIABLES
  load,      \* what runs, fixed from the start: the `kind` of each worker (it
             \* may be off), its consumer `name` and the tables it `wants`; the
             \* `limit` of a poll (poll_limit, POLL_LIMIT, SubscribeParams.limit);
             \* how many `writers` there are, how many events each captures
             \* (`perTxn`) on which `tables`, and whether they run one after
             \* another (`serial`); how many `stale` index entries aborts may
             \* leave; how many crashes there are; whether a poll may fall
             \* between a commit's leaving the active set and its record
             \* (`window`); whether vacuum_events is called
  nextSeq,   \* Engine.next_event_seq
  txn,       \* per writer: "idle", "active", "visible", "logged", "durable", "aborted"
  rows,      \* the rows of __events__ that are not deleted or undone
  index,     \* the entries of the seq index
  offset,    \* per consumer: its rows in __consumers__ in scan order, each with the
             \* worker whose open acknowledgement has stamped it; for a tail, which
             \* has no row, its cursor
  log,       \* commit records that are not on disk yet
  work,      \* per worker: where its loop is
  vac,       \* the running vacuum_events transaction
  crashes,   \* how often the process has crashed
  written,   \* history: all rows ever captured
  handled,   \* history: per consumer, rows delivered or given up after the last attempt
  owed       \* history: per consumer, rows a poll could see after the offset

histVars == <<written, handled, owed>>
vars == <<load, nextSeq, txn, rows, index, offset, log, work, vac, crashes, histVars>>

Seqs  == 1 .. MaxSeq
Row   == [seq : Seqs, w : Writers, table : Tables]

\* A worker's loop: the snapshot and offset of its poll, the batch, what is left
\* of it, failed attempts of the next delivery, and the consumer's rows before
\* its acknowledgement.
Idle == [pc |-> "idle", snap |-> {}, off |-> 0, batch |-> {}, todo |-> {},
         attempts |-> 0, before |-> <<>>]

NoVac == [pc |-> "idle", rows |-> {}]

IsPresent(w) == txn[w] \in {"visible", "logged", "durable"}
Running      == {d \in Workers : load.kind[d] # "off"}
Acking       == {d \in Running : load.kind[d] # "tail"}

\* What a snapshot taken now sees of __events__.
Visible == {r \in rows : IsPresent(r.w)}

\* find_consumer_offset, and 0 for a consumer without a row.
Offset(c) == IF offset[c] = <<>> THEN 0 ELSE Head(offset[c]).seq

ConsumerRow(seq) == [seq |-> seq, xmax |-> {}]

Wants(d, r) == r.table \in load.wants[d]

\* The order of index entries: by key, then by row id.
Before(q, r) == q.seq < r.seq \/ (q.seq = r.seq /\ q.w < r.w)

Largest(S) == Max({r.seq : r \in S} \cup {0})

----------------------------------------------------------------------------
TypeOK ==
  /\ nextSeq \in 1 .. MaxSeq + 1
  /\ txn \in [Writers -> {"idle", "active", "visible", "logged", "durable", "aborted"}]
  /\ rows \subseteq Row /\ written \subseteq Row /\ index \subseteq Row
  /\ offset \in [Consumers -> Seq([seq : 0 .. MaxSeq, xmax : SUBSET Workers])]
  /\ \A d \in Workers :
       /\ work[d].pc \in {"idle", "polled", "deliver", "acking", "acked", "logged"}
       /\ work[d].todo \subseteq work[d].batch /\ work[d].batch \subseteq work[d].snap
       /\ work[d].attempts \in 0 .. MaxAttempts - 1
  /\ vac.pc \in {"idle", "open", "visible", "logged"} /\ vac.rows \subseteq Row
  /\ \A i \in 1 .. Len(log) : log[i] \in ({"txn"} \X Writers) \cup ({"ack"} \X Workers)
                                         \cup {<<"vac", 0>>}

Init ==
  /\ load \in Loads
  /\ nextSeq = 1
  /\ txn = [w \in Writers |-> "idle"]
  /\ rows = {} /\ index = {} /\ written = {}
  /\ offset = [c \in Consumers |-> <<>>]
  /\ log = <<>>
  /\ work = [d \in Workers |-> Idle]
  /\ vac = NoVac
  /\ crashes = 0
  /\ handled = [c \in Consumers |-> {}]
  /\ owed = [c \in Consumers |-> {}]
----------------------------------------------------------------------------
(* Writers *)

Begin(w) ==
  /\ txn[w] = "idle" /\ w <= load.writers
  /\ load.serial => \A v \in Writers : txn[v] \in {"idle", "durable", "aborted"}
  /\ txn' = [txn EXCEPT ![w] = "active"]
  /\ UNCHANGED <<load, nextSeq, rows, index, offset, log, work, vac, crashes, histVars>>

\* send_event_capture, for one changed row.
SendEventCapture(w, t) ==
  LET r == [seq |-> nextSeq, w |-> w, table |-> t] IN
  /\ txn[w] = "active" /\ nextSeq <= MaxSeq /\ t \in load.tables
  /\ Cardinality({q \in rows : q.w = w}) < load.perTxn
  /\ nextSeq' = nextSeq + 1
  /\ rows' = rows \cup {r}
  /\ index' = index \cup {r}
  /\ written' = written \cup {r}
  /\ UNCHANGED <<load, txn, offset, log, work, vac, crashes, handled, owed>>

\* TransactionManager::commit leaves `active` before it logs anything.
Commit(w) ==
  /\ txn[w] = "active"
  /\ txn' = [txn EXCEPT ![w] = "visible"]
  /\ UNCHANGED <<load, nextSeq, rows, index, offset, log, work, vac, crashes, histVars>>

CommitLog(w) ==
  /\ txn[w] = "visible"
  /\ txn' = [txn EXCEPT ![w] = "logged"]
  /\ log' = Append(log, <<"txn", w>>)
  /\ UNCHANGED <<load, nextSeq, rows, index, offset, work, vac, crashes, histVars>>

\* undo_insert for each row; the index keeps its entries.
Abort(w) ==
  /\ txn[w] = "active"
  /\ Cardinality({r \in index : r.w = w \/ r \notin rows}) <= load.stale
  /\ txn' = [txn EXCEPT ![w] = "aborted"]
  /\ rows' = {r \in rows : r.w # w}
  /\ UNCHANGED <<load, nextSeq, index, offset, log, work, vac, crashes, histVars>>

\* Wal::sync_up_to on behalf of any of the waiting commits: whoever's record is
\* on disk returns.
SyncUpTo(n) ==
  LET done == {log[i] : i \in 1 .. n} IN
  /\ n \in 1 .. Len(log)
  /\ log' = SubSeq(log, n + 1, Len(log))
  /\ txn' = [w \in Writers |-> IF <<"txn", w>> \in done THEN "durable" ELSE txn[w]]
  /\ work' = [d \in Workers |-> IF <<"ack", d>> \in done THEN Idle ELSE work[d]]
  /\ vac' = IF <<"vac", 0>> \in done THEN NoVac ELSE vac
  /\ UNCHANGED <<load, nextSeq, rows, index, offset, crashes, histVars>>
----------------------------------------------------------------------------
(* Consumers *)

\* poll_events, first half: the statement's snapshot, and the consumer's offset
\* under it; for the tail, its cursor.
Poll(d) ==
  /\ d \in Running /\ work[d].pc = "idle"
  /\ load.window \/ \A w \in Writers : txn[w] # "visible"
  /\ work' = [work EXCEPT ![d] = [Idle EXCEPT !.pc = "polled", !.snap = Visible,
                                              !.off = Offset(load.name[d])]]
  /\ owed' = [owed EXCEPT ![load.name[d]] =
                 @ \cup {r \in Visible : r.seq > Offset(load.name[d])}]
  /\ UNCHANGED <<load, nextSeq, txn, rows, index, offset, log, vac, crashes, written, handled>>

\* search_range_limit on the seq index: the first `limit` entries after `off`.
SearchRangeLimit(off) ==
  {r \in index : /\ r.seq > off
                 /\ Cardinality({q \in index : q.seq > off /\ Before(q, r)}) < load.limit}

\* poll_events, second half: the index, then resolve_event_candidates, which
\* skips entries whose row the snapshot does not see.
Resolve(d) ==
  LET batch == SearchRangeLimit(work[d].off) \cap work[d].snap IN
  /\ work[d].pc = "polled"
  /\ work' = [work EXCEPT ![d] =
                IF batch = {} THEN Idle
                ELSE [@ EXCEPT !.pc = "deliver", !.batch = batch, !.todo = batch]]
  /\ UNCHANGED <<load, nextSeq, txn, rows, index, offset, log, vac, crashes, histVars>>

\* An event leaves the batch, handled.  The webhook worker delivers the events of
\* a batch concurrently, the others in order.  The tail moves its cursor with
\* every event it yields, and not with those its filter excludes.
Handle(d, r) ==
  LET c == load.name[d] IN
  /\ work[d].pc = "deliver" /\ r \in work[d].todo
  /\ load.kind[d] = "webhook" \/ \A q \in work[d].todo : ~Before(q, r)
  /\ work' = [work EXCEPT ![d].todo = @ \ {r}, ![d].attempts = 0]
  /\ handled' = [handled EXCEPT ![c] = @ \cup {r}]
  /\ offset' = IF load.kind[d] = "tail" /\ Wants(d, r)
               THEN [offset EXCEPT ![c] = <<ConsumerRow(Max({Offset(c), r.seq}))>>]
               ELSE offset
  /\ UNCHANGED <<load, nextSeq, txn, rows, index, log, vac, crashes, written, owed>>

\* An attempt that succeeds, or an event the filter excludes; for the webhook
\* worker also one whose attempts are used up, which it drops.
Deliver(d) == \E r \in work[d].todo : Handle(d, r)

\* Mutant: a poison event is tried again for ever.
RetryForEver(d) ==
  /\ load.kind[d] = "dispatcher" /\ work[d].pc = "deliver" /\ work[d].todo # {}
  /\ work' = [work EXCEPT ![d].attempts = 1 - @]
  /\ UNCHANGED <<load, nextSeq, txn, rows, index, offset, log, vac, crashes, histVars>>

\* An attempt of the dispatcher fails.  After the last one it writes a dead
\* letter, in a transaction of its own, and goes on.
DeliverFails(d) ==
  /\ load.kind[d] = "dispatcher" /\ work[d].pc = "deliver"
  /\ \E r \in work[d].todo :
       /\ Wants(d, r)
       /\ IF work[d].attempts + 1 < MaxAttempts
          THEN /\ \A q \in work[d].todo : ~Before(q, r)
               /\ work' = [work EXCEPT ![d].attempts = @ + 1]
               /\ UNCHANGED <<load, nextSeq, txn, rows, index, offset, log, vac, crashes,
                               histVars>>
          ELSE Handle(d, r)

\* The tail has yielded its batch.
TailDone(d) ==
  /\ load.kind[d] = "tail" /\ work[d].pc = "deliver" /\ work[d].todo = {}
  /\ work' = [work EXCEPT ![d] = Idle]
  /\ UNCHANGED <<load, nextSeq, txn, rows, index, offset, log, vac, crashes, histVars>>

\* Mutant: acknowledges the batch before it is delivered.
AckEarly(d) ==
  /\ load.kind[d] # "tail" /\ work[d].pc = "deliver"
  /\ work' = [work EXCEPT ![d].pc = "acking", ![d].before = offset[load.name[d]]]
  /\ UNCHANGED <<load, nextSeq, txn, rows, index, offset, log, vac, crashes, histVars>>

\* ack_events in the worker's own transaction: stamps the consumer's row, if it
\* has one.  A row that another worker has stamped is a write conflict, and
\* the cycle ends there.
AckEvents(d) ==
  LET c == load.name[d] IN
  /\ load.kind[d] # "tail" /\ work[d].pc = "deliver" /\ work[d].todo = {}
  /\ IF offset[c] # <<>> /\ Head(offset[c]).xmax # {}
     THEN work' = [work EXCEPT ![d] = Idle] /\ UNCHANGED offset
     ELSE /\ work' = [work EXCEPT ![d].pc = "acking", ![d].before = offset[c]]
          /\ offset' = IF offset[c] = <<>> THEN offset
                       ELSE [offset EXCEPT ![c][1].xmax = {d}]
  /\ UNCHANGED <<load, nextSeq, txn, rows, index, log, vac, crashes, histVars>>

\* A consumer's rows without the one that d has stamped.
Unstamped(s, d) == RemoveFirstMatch(s, LAMBDA q : d \in q.xmax)

\* Its commit leaves `active`: others see the new row, in whatever slot it was
\* put, in place of the stamped one.
AckCommit(d) ==
  LET c    == load.name[d]
      rest == Unstamped(offset[c], d)
  IN
  /\ work[d].pc = "acking"
  /\ \E i \in 1 .. Len(rest) + 1 :
       offset' = [offset EXCEPT ![c] = InsertAt(rest, i, ConsumerRow(Largest(work[d].batch)))]
  /\ work' = [work EXCEPT ![d].pc = "acked"]
  /\ UNCHANGED <<load, nextSeq, txn, rows, index, log, vac, crashes, histVars>>

AckLog(d) ==
  /\ work[d].pc = "acked"
  /\ work' = [work EXCEPT ![d].pc = "logged"]
  /\ log' = Append(log, <<"ack", d>>)
  /\ UNCHANGED <<load, nextSeq, txn, rows, index, offset, vac, crashes, histVars>>
----------------------------------------------------------------------------
(* Reclaiming *)

ConsumerRows == UNION {{q.seq : q \in ToSet(offset[load.name[d]])} : d \in Acking}

\* vacuum_events: the smallest offset of the rows it finds.
MinOffset == Min(ConsumerRows)

\* vacuum_events, by an operator who waits until every consumer in use is
\* registered: one that never acknowledged is not protected.
VacuumEvents ==
  /\ load.vacuums /\ vac.pc = "idle"
  /\ \A d \in Acking : offset[load.name[d]] # <<>>
  /\ LET reclaim == {r \in Visible : r.seq <= MinOffset} IN
     /\ reclaim # {}
     /\ vac' = [pc |-> "open", rows |-> reclaim]
     /\ index' = index \ reclaim
  /\ UNCHANGED <<load, nextSeq, txn, rows, offset, log, work, crashes, histVars>>

VacuumCommit ==
  /\ vac.pc = "open"
  /\ vac' = [vac EXCEPT !.pc = "visible"]
  /\ rows' = rows \ vac.rows
  /\ UNCHANGED <<load, nextSeq, txn, index, offset, log, work, crashes, histVars>>

VacuumLog ==
  /\ vac.pc = "visible"
  /\ vac' = [vac EXCEPT !.pc = "logged"]
  /\ log' = Append(log, <<"vac", 0>>)
  /\ UNCHANGED <<load, nextSeq, txn, rows, index, offset, work, crashes, histVars>>

\* undo_xmax_stamp restores the rows; nothing restores their index entries.
VacuumAbort ==
  /\ vac.pc = "open"
  /\ vac' = NoVac
  /\ UNCHANGED <<load, nextSeq, txn, rows, index, offset, log, work, crashes, histVars>>

\* Heap vacuum of __events__ (vacuum_table): drops the entries of rows that are
\* gone for every snapshot, when no older transaction is open.
VacuumTable ==
  LET gone == {r \in index : r \notin rows} IN
  /\ gone # {} /\ vac.pc # "open"
  /\ \A w \in Writers : txn[w] # "active"
  /\ \A d \in Workers : gone \cap work[d].snap = {}
  /\ index' = index \ gone
  /\ UNCHANGED <<load, nextSeq, txn, rows, offset, log, work, vac, crashes, histVars>>
----------------------------------------------------------------------------
(* Crash and reopening *)

\* The transactions whose commit record is lost when n waiting records survive.
Lost(n) ==
  {w \in Writers : /\ txn[w] \in {"active", "visible", "logged"}
                   /\ \A i \in 1 .. n : log[i] # <<"txn", w>>}

AckLost(c, n) ==
  {d \in Acking : /\ load.name[d] = c /\ work[d].pc \in {"acking", "acked", "logged"}
                  /\ \A i \in 1 .. n : log[i] # <<"ack", d>>}

VacLost(n) == vac.pc # "idle" /\ \A i \in 1 .. n : log[i] # <<"vac", 0>>

\* Mutant: resumes at the highest number in use.
ResumeAtHighest(present) == Max({Largest(present), 1})

\* derive_next_event_seq
DeriveNextEventSeq(present) == Largest(present) + 1

\* The process stops and Engine::open recovers: some prefix of the waiting
\* commit records made it to disk, and of the index changes of lost
\* transactions any part.
Crash ==
  /\ crashes < load.crashes
  /\ crashes' = crashes + 1
  /\ \E n \in 0 .. Len(log) :
       LET lost    == Lost(n)
           back    == IF VacLost(n) THEN vac.rows ELSE {}
           present == {r \in rows \cup back : IsPresent(r.w) /\ r.w \notin lost}
       IN
       /\ txn' = [w \in Writers |-> IF w \in lost THEN "aborted"
                                    ELSE IF IsPresent(w) THEN "durable" ELSE txn[w]]
       /\ rows' = present
       /\ \E kept \in SUBSET {r \in index : r.w \in lost}, again \in SUBSET back :
            index' = {r \in index : r.w \notin lost} \cup kept \cup again
       /\ offset' = [c \in Consumers |->
                       IF AckLost(c, n) = {} THEN offset[c]
                       ELSE work[CHOOSE d \in AckLost(c, n) : TRUE].before]
       /\ nextSeq' = DeriveNextEventSeq(present)
  /\ log' = <<>>
  /\ work' = [d \in Workers |-> Idle]
  /\ vac' = NoVac
  /\ UNCHANGED <<load, histVars>>

----------------------------------------------------------------------------
WriterStep(w) == \/ Begin(w) \/ Commit(w) \/ CommitLog(w) \/ Abort(w)
                 \/ \E t \in Tables : SendEventCapture(w, t)

WorkerStep(d) == \/ Poll(d) \/ Resolve(d) \/ Deliver(d) \/ DeliverFails(d)
                 \/ TailDone(d) \/ AckEvents(d) \/ AckCommit(d) \/ AckLog(d)

VacuumStep == VacuumCommit \/ VacuumLog \/ VacuumAbort

Sync == \E n \in 1 .. Len(log) : SyncUpTo(n)

Next == \/ \E w \in Writers : WriterStep(w)
        \/ \E d \in Workers : WorkerStep(d)
        \/ Sync \/ VacuumEvents \/ VacuumStep \/ VacuumTable \/ Crash

\* An open transaction ends, by its client or by the server's reaper; a commit
\* in progress and a consumer's loop go on.  Nothing has to begin, no delivery
\* has to succeed, and vacuum does not have to run.
Fairness ==
  /\ \A w \in Writers : WF_vars(Commit(w) \/ Abort(w)) /\ WF_vars(CommitLog(w))
  /\ \A d \in Workers : WF_vars(WorkerStep(d))
  /\ WF_vars(Sync) /\ WF_vars(VacuumStep)

Spec == Init /\ [][Next]_vars /\ Fairness
----------------------------------------------------------------------------
(* Properties *)

\* Every event of a committed transaction at or below a consumer's offset was
\* delivered to it, or given up after the last attempt (unidb-dispatch/src/lib.rs:
\* "Zero loss").
ZeroLoss ==
  \A d \in Running : \A r \in written :
    txn[r.w] = "durable" /\ r.seq <= Offset(load.name[d]) /\ Wants(d, r)
      => r \in handled[load.name[d]]

\* The same for every event a poll of the consumer could see; and for all events
\* when writers do not overlap.  (With overlapping writers a consumer may pass
\* the number of an event that is not committed yet.)
NothingSkipped ==
  \A d \in Running : \A r \in written :
    (/\ txn[r.w] = "durable" /\ r.seq <= Offset(load.name[d]) /\ Wants(d, r)
     /\ load.serial \/ r \in owed[load.name[d]])
      => r \in handled[load.name[d]]

\* vacuum_events never takes, and its rollback never hides, a committed event
\* that some consumer still has to get: the row is there and in the index.
UnackedRetained ==
  \A d \in Acking : \A r \in written :
    txn[r.w] = "durable" /\ r.seq > Offset(load.name[d]) /\ r \notin handled[load.name[d]]
      => r \in rows \cap index

\* No event is lost: none is skipped by a consumer that could have seen it, and
\* none is reclaimed, or hidden by a rolled-back vacuum_events, before every
\* consumer has got it.
NoLoss == NothingSkipped /\ UnackedRetained

\* The next event's number is above every offset, also right after a restart, so
\* that its consumers will get it; and above the number of every event a
\* consumer has kept, so that consumers can tell events apart by number.
SeqsFresh ==
  \A d \in Running :
    /\ nextSeq > Offset(load.name[d])
    /\ \A r \in handled[load.name[d]] : txn[r.w] = "durable" => nextSeq > r.seq

\* Consumers catch up: in the end each has handled, or passed, every committed
\* event, whatever deliveries fail.
CaughtUp ==
  <>[](\A d \in Running : \A r \in Visible :
         Wants(d, r) => r \in handled[load.name[d]] \/ r.seq <= Offset(load.name[d]))
============================================================================
