-------------------------------- MODULE Wal --------------------------------
(***************************************************************************)
(* The write-ahead log of src/wal.rs as its callers see durability: LSN    *)
(* allocation and append under the `inner` mutex, segment rotation with    *)
(* the background sealer, the group-commit barrier `sync_up_to`, and the   *)
(* checkpointer's sync / log_checkpoint / truncate_before sequence.        *)
(*                                                                         *)
(* A record is its LSN.  `synced` is what stable storage holds: an fsync   *)
(* of a segment's file adds that segment's records to it.  Record contents *)
(* and sizes are left out: a segment holds segCap records.  `mutex` names  *)
(* the thread that holds `inner` across more than one step; every other    *)
(* action that locks `inner` is one step and needs it free.                *)
(***************************************************************************)
EXTENDS Naturals, FiniteSets

CONSTANTS Committers,  \* threads running Engine::commit
          Ckpt,        \* the thread running checkpoint::run
          None,        \* no thread
          MaxLsn,      \* bound: LSNs ever allocated
          SegCaps      \* segment sizes, in records, one of which is configured

Threads == Committers \cup {Ckpt}

ASSUME ThreadAssumption == Ckpt \notin Committers /\ None \notin Threads
ASSUME BoundAssumption  == MaxLsn \in Nat /\ SegCaps \subseteq Nat \ {0}

Lsns == 1 .. MaxLsn

VARIABLES
  segCap,     \* WalInner.segment_size: the records that fit into a segment
  nextLsn,    \* WalInner.next_lsn
  seg,        \* the segment each LSN was written to; 0 when not allocated
  active,     \* WalInner.active_seg
  removed,    \* segments deleted by truncate_before
  synced,     \* LSNs on stable storage
  durable,    \* WalInner.durable_lsn
  poisoned,   \* WalInner.poisoned
  mutex,      \* holder of WalInner across steps, or None
  leader,     \* holder of flush_lock, or None
  pending,    \* SealerState.pending: a segment, or 0
  sealing,    \* the segment the sealer thread has taken and is fsyncing, or 0
  doneLsn,    \* SealerState.done_lsn
  sealFailed, \* segments whose background fsync failed; {} iff error is None
  pc,         \* where each thread is
  target,     \* the LSN a thread's barrier waits for
  flushed,    \* the tail LSN and the segment captured by group_fsync
  acked,      \* targets for which sync_up_to returned Ok
  ckptLsn,    \* LSN of the last checkpoint record
  shipped     \* highest LSN handed to a replica by records_from

sealer  == <<pending, sealing, doneLsn, sealFailed>>
logVars == <<nextLsn, seg, active>>
vars == <<segCap, logVars, removed, synced, durable, poisoned, mutex, leader, sealer,
          pc, target, flushed, acked, ckptLsn, shipped>>

PCs == {"idle", "rotate", "rotateCommit", "sync", "lead", "wait", "recheck",
        "group", "fsync", "advance", "drain", "ckptFsync", "log", "rotateCkpt",
        "truncDrain", "truncate"}

NoFlush == [lsn |-> 0, seg |-> 0]

TypeOK ==
  /\ segCap \in SegCaps
  /\ nextLsn \in 1 .. MaxLsn + 1
  /\ seg \in [Lsns -> Nat]
  /\ active \in Nat \ {0}
  /\ removed \subseteq 1 .. active - 1
  /\ synced \subseteq Lsns
  /\ durable \in Nat /\ doneLsn \in Nat /\ ckptLsn \in Nat /\ shipped \in Nat
  /\ poisoned \in BOOLEAN
  /\ mutex \in Threads \cup {None}
  /\ leader \in Committers \cup {None}
  /\ pending \in Nat /\ sealing \in Nat /\ sealFailed \subseteq Nat
  /\ pc \in [Threads -> PCs]
  /\ target \in [Threads -> Nat]
  /\ flushed \in [Committers -> [lsn : Nat, seg : Nat]]
  /\ acked \subseteq Lsns

Init ==
  /\ segCap \in SegCaps
  /\ nextLsn = 1 /\ seg = [l \in Lsns |-> 0] /\ active = 1
  /\ removed = {} /\ synced = {} /\ durable = 0 /\ poisoned = FALSE
  /\ mutex = None /\ leader = None
  /\ pending = 0 /\ sealing = 0 /\ doneLsn = 0 /\ sealFailed = {}
  /\ pc = [t \in Threads |-> "idle"]
  /\ target = [t \in Threads |-> 0]
  /\ flushed = [t \in Committers |-> NoFlush]
  /\ acked = {} /\ ckptLsn = 0 /\ shipped = 0

----------------------------------------------------------------------------
(* Helpers *)

Records(s) == {l \in Lsns : seg[l] = s}
SegFull    == Cardinality(Records(active)) = segCap
Goto(t, l) == pc' = [pc EXCEPT ![t] = l]

\* write_framed_locked + the allocation in append_locked: the record with the
\* next LSN goes to segment s.
WriteRecord(s) ==
  /\ nextLsn <= MaxLsn
  /\ seg' = [seg EXCEPT ![nextLsn] = s]
  /\ nextLsn' = nextLsn + 1

\* Sealer::wait_until_durable(tgt) returns: with an error, because the target
\* is confirmed, or because no segment is waiting to be taken.
SealerError == sealFailed # {}
SealerOk(tgt) == ~SealerError /\ (doneLsn >= tgt \/ pending = 0)

\* fsync_locked succeeds, with the records of sg as they are after the append.
FsyncLocked(sg, tail) ==
  /\ synced' = synced \cup {l \in Lsns : sg[l] = active}
  /\ durable' = tail
  /\ UNCHANGED poisoned

\* fsync_locked (or group_fsync's sync_all) fails: poison, frontier unmoved.
FsyncFails == poisoned' = TRUE /\ UNCHANGED <<synced, durable>>

----------------------------------------------------------------------------
(* Append, with rotation when the active segment is full *)

\* append_locked by a committer: a row record or its TXN_COMMIT record.
Append(t, isCommit) ==
  /\ pc[t] = "idle" /\ mutex = None /\ ~SegFull
  /\ WriteRecord(active)
  /\ IF isCommit
       THEN Goto(t, "sync") /\ target' = [target EXCEPT ![t] = nextLsn]
       ELSE UNCHANGED <<pc, target>>
  /\ UNCHANGED <<active, removed, synced, durable, poisoned, mutex, leader,
                 sealer, flushed, acked, ckptLsn, shipped>>

\* rotate_segment up to the hand-off: the next segment is open, `inner` stays
\* locked.  A poisoned WAL returns an error before it changes anything.
RotateOpen(t, next) ==
  /\ mutex = None /\ SegFull /\ ~poisoned /\ nextLsn <= MaxLsn
  /\ mutex' = t
  /\ active' = active + 1
  /\ Goto(t, next)
  /\ UNCHANGED <<nextLsn, seg, removed, synced, durable, poisoned, leader,
                 sealer, target, flushed, acked, ckptLsn, shipped>>

\* rotate_segment fails to flush or to clone the file: poison, and the append,
\* or log_checkpoint, returns the error.
RotateFails(t) ==
  /\ pc[t] = (IF t = Ckpt THEN "log" ELSE "idle")
  /\ mutex = None /\ SegFull /\ ~poisoned /\ nextLsn <= MaxLsn
  /\ FsyncFails
  /\ Goto(t, "idle")
  /\ UNCHANGED <<logVars, removed, mutex, leader, sealer, target, flushed,
                 acked, ckptLsn, shipped>>

RotateForAppend(t, isCommit) ==
  /\ pc[t] = "idle"
  /\ RotateOpen(t, IF isCommit THEN "rotateCommit" ELSE "rotate")

\* The hand-off to the sealer, which waits for its one slot to be empty, and
\* the append that caused the rotation.
RotateSubmit(t) ==
  /\ pc[t] \in {"rotate", "rotateCommit"}
  /\ pending = 0
  /\ pending' = active - 1
  /\ WriteRecord(active)
  /\ mutex' = None
  /\ IF pc[t] = "rotateCommit"
       THEN Goto(t, "sync") /\ target' = [target EXCEPT ![t] = nextLsn]
       ELSE Goto(t, "idle") /\ UNCHANGED target
  /\ UNCHANGED <<active, removed, synced, durable, poisoned, leader, sealing,
                 doneLsn, sealFailed, flushed, acked, ckptLsn, shipped>>

----------------------------------------------------------------------------
(* The sealer thread *)

\* Mutant: the slot is read but not emptied.
SealerPeek ==
  /\ sealing = 0 /\ pending # 0
  /\ sealing' = pending
  /\ UNCHANGED <<logVars, removed, synced, durable, poisoned, mutex, leader,
                 pending, doneLsn, sealFailed, pc, target, flushed, acked,
                 ckptLsn, shipped>>

\* st.pending.take(): the slot is empty from here on, the fsync is not done.
SealerTake ==
  /\ sealing = 0 /\ pending # 0
  /\ sealing' = pending
  /\ pending' = 0
  /\ UNCHANGED <<logVars, removed, synced, durable, poisoned, mutex, leader,
                 doneLsn, sealFailed, pc, target, flushed, acked, ckptLsn,
                 shipped>>

SealerDone ==
  /\ sealing # 0
  /\ synced' = synced \cup Records(sealing)
  /\ \E last \in Records(sealing) :
       /\ \A l \in Records(sealing) : l <= last
       /\ doneLsn' = IF doneLsn < last THEN last ELSE doneLsn
  /\ sealing' = 0
  /\ UNCHANGED <<logVars, removed, durable, poisoned, mutex, leader, pending,
                 sealFailed, pc, target, flushed, acked, ckptLsn, shipped>>

\* Mutant: the error of the background fsync is dropped.
SealerFailsUnseen ==
  /\ sealing # 0
  /\ sealing' = 0
  /\ UNCHANGED <<logVars, removed, synced, durable, poisoned, mutex, leader,
                 pending, doneLsn, sealFailed, pc, target, flushed, acked,
                 ckptLsn, shipped>>

SealerFails ==
  /\ sealing # 0
  /\ sealFailed' = sealFailed \cup {sealing}
  /\ sealing' = 0
  /\ UNCHANGED <<logVars, removed, synced, durable, poisoned, mutex, leader,
                 pending, doneLsn, pc, target, flushed, acked, ckptLsn, shipped>>

----------------------------------------------------------------------------
(* sync_up_to: the group-commit barrier *)

\* sync_up_to returns: its locals are gone, flush_lock is free if it was ours.
Return(t) ==
  /\ Goto(t, "idle")
  /\ leader' = IF leader = t THEN None ELSE leader
  /\ target' = [target EXCEPT ![t] = 0]
  /\ flushed' = [flushed EXCEPT ![t] = NoFlush]
  /\ UNCHANGED <<logVars, removed, mutex, sealer, ckptLsn, shipped>>

\* It returns Ok: Engine::commit reports success to its client.
Ack(t)  == Return(t) /\ acked' = acked \cup {target[t]}
Fail(t) == Return(t) /\ UNCHANGED acked

\* The fast path and the two re-checks: another thread's fsync covered us.
\* The dwell window sleeps before the "lead" check is made.
SyncCovered(t) ==
  /\ pc[t] \in {"sync", "lead", "recheck"} /\ mutex = None
  /\ durable >= target[t]
  /\ Ack(t)
  /\ UNCHANGED <<synced, durable, poisoned>>

SyncElect(t) ==
  /\ pc[t] = "sync" /\ leader = None
  /\ leader' = t
  /\ Goto(t, "lead")
  /\ UNCHANGED <<logVars, removed, synced, durable, poisoned, mutex, sealer,
                 target, flushed, acked, ckptLsn, shipped>>

\* The checks that fail move on, to the sealer's wait and to group_fsync.
SyncBehind(t) ==
  /\ pc[t] \in {"lead", "recheck"} /\ mutex = None
  /\ durable < target[t]
  /\ Goto(t, IF pc[t] = "lead" THEN "wait" ELSE "group")
  /\ UNCHANGED <<logVars, removed, synced, durable, poisoned, mutex, leader,
                 sealer, target, flushed, acked, ckptLsn, shipped>>

SyncWait(t) ==
  /\ pc[t] = "wait"
  /\ \/ SealerError /\ Fail(t)
     \/ /\ SealerOk(target[t])
        /\ Goto(t, "recheck")
        /\ UNCHANGED <<logVars, removed, mutex, leader, sealer, target, flushed,
                       acked, ckptLsn, shipped>>
  /\ UNCHANGED <<synced, durable, poisoned>>

\* group_fsync, phase 1: refuse when poisoned; the flush of the buffer may fail;
\* else capture the tail and the active segment's file.
GroupCapture(t) ==
  /\ pc[t] = "group" /\ mutex = None
  /\ \/ poisoned /\ Fail(t) /\ UNCHANGED <<synced, durable, poisoned>>
     \/ ~poisoned /\ FsyncFails /\ Fail(t)
     \/ /\ ~poisoned
        /\ flushed' = [flushed EXCEPT ![t] = [lsn |-> nextLsn - 1,
                                              seg |-> active]]
        /\ Goto(t, "fsync")
        /\ UNCHANGED <<logVars, removed, synced, durable, poisoned, mutex, leader,
                       sealer, target, acked, ckptLsn, shipped>>

\* Phase 2, without the append lock: what was flushed reaches the disk ...
GroupFsync(t) ==
  /\ pc[t] = "fsync"
  /\ synced' = synced \cup {l \in Records(flushed[t].seg) : l <= flushed[t].lsn}
  /\ Goto(t, "advance")
  /\ UNCHANGED <<logVars, removed, durable, poisoned, mutex, leader, sealer,
                 target, flushed, acked, ckptLsn, shipped>>

\* ... or sync_all fails and the WAL is poisoned.
GroupFsyncFails(t) ==
  /\ pc[t] = "fsync" /\ mutex = None
  /\ FsyncFails
  /\ Fail(t)

\* Phase 3: the frontier advances, whether or not the WAL is poisoned by now.
GroupAdvance(t) ==
  /\ pc[t] = "advance" /\ mutex = None
  /\ durable' = IF durable < flushed[t].lsn THEN flushed[t].lsn ELSE durable
  /\ Ack(t)
  /\ UNCHANGED <<synced, poisoned>>

----------------------------------------------------------------------------
(* checkpoint::run: sync, log_checkpoint, truncate_before *)

\* sync and truncate_before first read the tail they will wait for.
CkptDrainTarget(from, to) ==
  /\ pc[Ckpt] = from /\ mutex = None
  /\ target' = [target EXCEPT ![Ckpt] = nextLsn - 1]
  /\ Goto(Ckpt, to)
  /\ UNCHANGED <<logVars, removed, synced, durable, poisoned, mutex, leader,
                 sealer, flushed, acked, ckptLsn, shipped>>

CkptBegin == nextLsn > 1 /\ CkptDrainTarget("idle", "drain")

\* sync: wait for the sealer, then fsync_locked.
CkptSync ==
  /\ pc[Ckpt] = "drain"
  /\ \/ SealerError /\ Goto(Ckpt, "idle")
     \/ SealerOk(target[Ckpt]) /\ Goto(Ckpt, "ckptFsync")
  /\ target' = [target EXCEPT ![Ckpt] = 0]
  /\ UNCHANGED <<logVars, removed, synced, durable, poisoned, mutex, leader,
                 sealer, flushed, acked, ckptLsn, shipped>>

CkptFsync ==
  /\ pc[Ckpt] = "ckptFsync" /\ mutex = None
  /\ \/ ~poisoned /\ FsyncLocked(seg, nextLsn - 1) /\ Goto(Ckpt, "log")
     \/ FsyncFails /\ Goto(Ckpt, "idle")
  /\ UNCHANGED <<logVars, removed, mutex, leader, sealer, target, flushed,
                 acked, ckptLsn, shipped>>

\* log_checkpoint: append, rotating if need be, and fsync_locked, all under
\* one hold of `inner`.  When the fsync fails no checkpoint has been taken.
CkptLogged ==
  /\ WriteRecord(active)
  /\ \/ /\ ~poisoned
        /\ FsyncLocked(seg', nextLsn)
        /\ ckptLsn' = nextLsn
        /\ Goto(Ckpt, "truncDrain")
     \/ FsyncFails /\ Goto(Ckpt, "idle") /\ UNCHANGED ckptLsn
  /\ UNCHANGED <<active, removed, leader, sealing, doneLsn, sealFailed, target,
                 flushed, acked, shipped>>

CkptLog ==
  /\ pc[Ckpt] = "log" /\ mutex = None /\ ~SegFull
  /\ CkptLogged
  /\ UNCHANGED <<mutex, pending>>

CkptRotate == pc[Ckpt] = "log" /\ RotateOpen(Ckpt, "rotateCkpt")

CkptRotateSubmit ==
  /\ pc[Ckpt] = "rotateCkpt" /\ pending = 0
  /\ pending' = active - 1
  /\ mutex' = None
  /\ CkptLogged

\* log_checkpoint when the segment is full and the WAL poisoned meanwhile, or
\* the bound on LSNs reached: the checkpoint gives up.
CkptLogFails ==
  /\ pc[Ckpt] = "log" /\ mutex = None
  /\ (SegFull /\ poisoned) \/ nextLsn > MaxLsn
  /\ Goto(Ckpt, "idle")
  /\ UNCHANGED <<logVars, removed, synced, durable, poisoned, mutex, leader,
                 sealer, target, flushed, acked, ckptLsn, shipped>>

CkptTruncDrain == CkptDrainTarget("truncDrain", "truncate")

\* Mutant: a segment's own base LSN is compared in place of its successor's.
RemovableByOwnBase(keep) ==
  {s \in 1 .. active - 1 : \E l \in Records(s) : l <= keep}

\* truncate_before(keep): delete every sealed segment whose successor starts
\* at or below keep.  Replication slots may hold keep back (wal_retain).
Removable(keep) ==
  {s \in 1 .. active - 1 : \E l \in Records(s + 1) : l <= keep}

CkptTruncate ==
  /\ pc[Ckpt] = "truncate" /\ mutex = None
  /\ \/ /\ SealerOk(target[Ckpt])
        /\ \E keep \in 1 .. ckptLsn : removed' = removed \cup Removable(keep)
     \/ SealerError /\ UNCHANGED removed
  /\ Goto(Ckpt, "idle")
  /\ target' = [target EXCEPT ![Ckpt] = 0]
  /\ UNCHANGED <<logVars, synced, durable, poisoned, mutex, leader, sealer,
                 flushed, acked, ckptLsn, shipped>>

\* Mutant: the file is shipped to its end, not to the durable frontier.
ShipTail ==
  /\ mutex = None
  /\ shipped < nextLsn - 1
  /\ shipped' = nextLsn - 1
  /\ UNCHANGED <<logVars, removed, synced, durable, poisoned, mutex, leader,
                 sealer, pc, target, flushed, acked, ckptLsn>>

\* records_from: a replica gets everything up to the durable frontier.
Ship ==
  /\ mutex = None
  /\ shipped < durable
  /\ shipped' = durable
  /\ UNCHANGED <<logVars, removed, synced, durable, poisoned, mutex, leader,
                 sealer, pc, target, flushed, acked, ckptLsn>>

----------------------------------------------------------------------------

CommitterStep(t) ==
  \/ RotateSubmit(t) \/ SyncCovered(t) \/ SyncElect(t) \/ SyncBehind(t)
  \/ SyncWait(t) \/ GroupCapture(t) \/ GroupFsync(t) \/ GroupFsyncFails(t)
  \/ GroupAdvance(t)

CkptStep ==
  \/ CkptSync \/ CkptFsync \/ CkptLog \/ CkptRotate \/ CkptRotateSubmit
  \/ CkptLogFails \/ CkptTruncDrain \/ CkptTruncate

SealerStep == SealerTake \/ SealerDone \/ SealerFails

Step ==
  \/ \E t \in Committers, isCommit \in BOOLEAN :
       Append(t, isCommit) \/ RotateForAppend(t, isCommit)
  \/ \E t \in Committers : CommitterStep(t)
  \/ \E t \in Threads : RotateFails(t)
  \/ SealerStep
  \/ CkptBegin \/ CkptStep
  \/ Ship

Next == Step /\ UNCHANGED segCap

Spec == Init /\ [][Next]_vars

\* Every thread that is inside a WAL call keeps running; nobody is obliged to
\* append, to start a checkpoint or to poll for replication.
Fairness ==
  /\ \A t \in Committers : WF_vars(CommitterStep(t) /\ UNCHANGED segCap)
  /\ WF_vars(CkptStep /\ UNCHANGED segCap) /\ WF_vars(SealerStep /\ UNCHANGED segCap)

FairSpec == Spec /\ Fairness

----------------------------------------------------------------------------
(* Properties *)

\* A sealed segment that was handed to the sealer and is not confirmed.
Outstanding(s) == s # 0 /\ (s \in {pending, sealing} \/ s \in sealFailed)

\* rotate_segment, group_fsync, fsync_locked: a record at or below durable_lsn
\* is on stable storage, or in a rotated segment whose background fsync is
\* outstanding.  Nothing else can be missing.
DurableOrOutstanding ==
  \A l \in Lsns : l <= durable => l \in synced \/ Outstanding(seg[l])

\* sync_up_to: "return once every record up to and including `target` is
\* durable" (wal.rs:1213).
AckedIsDurable ==
  \A a \in acked : \A l \in Lsns : l <= a => l \in synced

\* truncate_before: no record from the last checkpoint on is ever deleted.
TruncateKeepsTail ==
  \A l \in Lsns : ckptLsn <= l /\ l < nextLsn /\ ckptLsn > 0
     => seg[l] \notin removed

\* sync_up_to, sync, rotate_segment: no call blocks for ever, although a
\* rotation waits for the sealer with the append mutex held.
CallsReturn == \A t \in Threads : pc[t] # "idle" ~> pc[t] = "idle"
============================================================================
