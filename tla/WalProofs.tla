----------------------------- MODULE WalProofs -----------------------------
(***************************************************************************)
(* Proofs about Wal for every set of committers, every bound on the LSNs   *)
(* and every segment size.                                                 *)
(*                                                                         *)
(* DurableOrOutstanding is not inductive: a leader raises the frontier to  *)
(* a tail it captured before it gave up the append lock.  What carries it  *)
(* is that LSNs go to segments in order, that every segment behind the     *)
(* active one is on disk or with the sealer except while its rotation      *)
(* holds `inner`, and that a captured tail keeps this for its own segment. *)
(***************************************************************************)
EXTENDS Wal, TLAPS

\* The record is on disk, or in a segment whose background fsync is due.
Safe(l) == l \in synced \/ Outstanding(seg[l])

Rotating == {"rotate", "rotateCommit", "rotateCkpt"}
Syncing  == {"sync", "lead", "wait", "recheck", "group", "fsync", "advance"}

\* append_locked: LSNs are handed out densely and go to segments in order.
LogShape ==
  /\ \A l \in Lsns : seg[l] <= active /\ (seg[l] = 0 <=> nextLsn <= l)
  /\ \A l, m \in Lsns : l <= m /\ m < nextLsn => seg[l] <= seg[m]
  /\ durable < nextLsn /\ ckptLsn < nextLsn

\* rotate_segment: exactly the thread in the middle of a rotation holds
\* `inner`, and the segment it has opened is still empty.
RotationHoldsMutex ==
  /\ \A t \in Threads : pc[t] \in Rotating <=> mutex = t
  /\ mutex # None => active > 1 /\ \A l \in Lsns : seg[l] # active

\* The highest segment that has been handed to the sealer.
LastHanded == IF mutex = None THEN active - 1 ELSE active - 2

\* rotate_segment, the sealer: a segment that was handed over is confirmed or
\* still outstanding.
HandedAreSafe ==
  \A l \in Lsns : l < nextLsn /\ seg[l] <= LastHanded => Safe(l)

\* sync_up_to: the barrier waits for an allocated LSN.
TargetsAllocated ==
  \A t \in Committers : pc[t] \in Syncing => target[t] >= 1 /\ target[t] < nextLsn

\* group_fsync: the captured tail covers the target and ends in the captured
\* segment; the segments before that one are safe, and after the fsync the
\* captured part of it is too.
CaptureCovers ==
  \A t \in Committers : pc[t] \in {"fsync", "advance"} =>
    /\ target[t] <= flushed[t].lsn /\ flushed[t].lsn < nextLsn
    /\ \A l \in Lsns : l <= flushed[t].lsn =>
         /\ seg[l] <= flushed[t].seg
         /\ seg[l] < flushed[t].seg \/ pc[t] = "advance" => Safe(l)

\* Engine::commit: a commit is reported only when the frontier has reached it.
AckedBehindFrontier == \A a \in acked : a <= durable

\* truncate_before: what has been removed precedes the checkpoint's segment.
RemovedBeforeCkpt ==
  \A s \in removed : ckptLsn > 0 /\ s < seg[ckptLsn]

IInv == /\ TypeOK
        /\ LogShape
        /\ RotationHoldsMutex
        /\ HandedAreSafe
        /\ TargetsAllocated
        /\ CaptureCovers
        /\ DurableOrOutstanding
        /\ AckedBehindFrontier
        /\ RemovedBeforeCkpt

----------------------------------------------------------------------------
(* Steps *)

USE ThreadAssumption, BoundAssumption DEF Lsns, Threads

\* A step that leaves the log, the sealer, the frontier and the checkpoint
\* alone disturbs at most the barrier's own bookkeeping.
LEMMA LogUnmoved ==
  ASSUME IInv,
         UNCHANGED <<logVars, mutex, removed, synced, durable, sealer, acked,
                     ckptLsn>>
  PROVE  /\ LogShape' /\ HandedAreSafe' /\ DurableOrOutstanding'
         /\ AckedBehindFrontier' /\ RemovedBeforeCkpt'
<1> USE DEF IInv, logVars, sealer, Safe, Outstanding
<1>1. LogShape'
  BY DEF LogShape
<1>2. HandedAreSafe'
  BY DEF HandedAreSafe, LastHanded
<1>3. DurableOrOutstanding'
  BY DEF DurableOrOutstanding
<1>4. AckedBehindFrontier'
  BY DEF AckedBehindFrontier
<1>5. RemovedBeforeCkpt'
  BY DEF RemovedBeforeCkpt
<1> QED
  BY <1>1, <1>2, <1>3, <1>4, <1>5

\* append_locked writes the record with the next LSN and touches no other.
LEMMA WriteRecordEffect ==
  ASSUME IInv, WriteRecord(active)
  PROVE  /\ seg' \in [Lsns -> Nat] /\ nextLsn' \in 1 .. MaxLsn + 1
         /\ nextLsn \in Lsns /\ nextLsn \in Nat /\ nextLsn' = nextLsn + 1
         /\ \A l \in Lsns : seg'[l] = IF l = nextLsn THEN active ELSE seg[l]
BY DEF IInv, TypeOK, WriteRecord

\* The order of the log after such a write, whatever the step does to the
\* frontier and the checkpoint.
LEMMA WriteRecordShape ==
  ASSUME IInv, WriteRecord(active), active' = active,
         durable' < nextLsn', ckptLsn' < nextLsn'
  PROVE  LogShape'
<1>1. /\ nextLsn \in Lsns /\ nextLsn \in Nat /\ nextLsn' = nextLsn + 1
      /\ \A l \in Lsns : seg'[l] = IF l = nextLsn THEN active ELSE seg[l]
  BY WriteRecordEffect
<1>2. active \in Nat \ {0} /\ seg \in [Lsns -> Nat] /\ Lsns \subseteq Nat
  BY DEF IInv, TypeOK
<1>3. \A l \in Lsns : seg[l] <= active /\ (seg[l] = 0 <=> nextLsn <= l)
  BY DEF IInv, LogShape
<1>4. \A l, m \in Lsns : l <= m /\ m < nextLsn => seg[l] <= seg[m]
  BY DEF IInv, LogShape
<1> HIDE DEF Lsns
<1>5. \A l \in Lsns : seg'[l] <= active /\ (seg'[l] = 0 <=> nextLsn + 1 <= l)
  BY <1>1, <1>2, <1>3
<1>6. \A l, m \in Lsns : l <= m /\ m < nextLsn + 1 => seg'[l] <= seg'[m]
  BY <1>1, <1>2, <1>3, <1>4
<1> QED
  BY <1>1, <1>5, <1>6 DEF LogShape

\* The barrier's targets stay allocated when the log grows by one record, which
\* may be the target of the thread that appended it.
LEMMA TargetsKept ==
  ASSUME IInv, nextLsn \in Lsns, nextLsn \in Nat, nextLsn' = nextLsn + 1,
         \A u \in Committers : pc'[u] \in Syncing =>
            \/ target'[u] = nextLsn
            \/ target'[u] = target[u] /\ pc[u] \in Syncing
  PROVE  TargetsAllocated'
<1>1. \A u \in Committers : target[u] \in Nat
  BY DEF IInv, TypeOK
<1>2. \A u \in Committers : pc[u] \in Syncing =>
         target[u] >= 1 /\ target[u] < nextLsn
  BY DEF IInv, TargetsAllocated
<1>3. nextLsn >= 1
  OBVIOUS
<1> SUFFICES ASSUME NEW u \in Committers, pc'[u] \in Syncing
             PROVE  target'[u] >= 1 /\ target'[u] < nextLsn + 1
  BY DEF TargetsAllocated
<1>4. CASE target'[u] = nextLsn
  BY <1>3, <1>4
<1>5. CASE target'[u] = target[u] /\ pc[u] \in Syncing
  BY <1>1, <1>2, <1>5
<1> QED
  BY <1>4, <1>5

\* group_fsync's capture stays good while the log grows, records stay safe and
\* no thread enters group_fsync.
LEMMA CaptureKept ==
  ASSUME IInv, nextLsn' \in Nat, nextLsn <= nextLsn',
         \A l \in Lsns : l < nextLsn =>
            seg'[l] = seg[l] /\ (Safe(l) => Safe(l)'),
         \A u \in Committers : pc'[u] \in {"fsync", "advance"} =>
            /\ pc'[u] = pc[u] /\ target'[u] = target[u]
            /\ flushed'[u] = flushed[u]
  PROVE  CaptureCovers'
<1>1. SUFFICES ASSUME NEW u \in Committers, pc'[u] \in {"fsync", "advance"}
               PROVE  /\ target'[u] <= flushed'[u].lsn
                      /\ flushed'[u].lsn < nextLsn'
                      /\ \A l \in Lsns : l <= flushed'[u].lsn =>
                           /\ seg'[l] <= flushed'[u].seg
                           /\ seg'[l] < flushed'[u].seg \/ pc'[u] = "advance"
                                => Safe(l)'
  BY DEF CaptureCovers
<1>2. flushed[u].lsn \in Nat /\ flushed[u].lsn < nextLsn
  BY <1>1 DEF IInv, TypeOK, CaptureCovers
<1>3. \A l \in Lsns : l <= flushed[u].lsn => l < nextLsn
  BY <1>2 DEF IInv, TypeOK
<1>4. /\ target[u] <= flushed[u].lsn
      /\ \A l \in Lsns : l <= flushed[u].lsn =>
           /\ seg[l] <= flushed[u].seg
           /\ seg[l] < flushed[u].seg \/ pc[u] = "advance" => Safe(l)
  BY <1>1 DEF IInv, CaptureCovers
<1>5. nextLsn \in Nat /\ pc'[u] = pc[u] /\ target'[u] = target[u]
      /\ flushed'[u] = flushed[u]
  BY <1>1 DEF IInv, TypeOK
<1> QED
  BY <1>2, <1>3, <1>4, <1>5

\* append_locked with room in the active segment.
LEMMA AppendInv ==
  ASSUME IInv, NEW t \in Committers, NEW isCommit \in BOOLEAN,
         Append(t, isCommit), UNCHANGED segCap
  PROVE  IInv'
<1> USE DEF IInv, Append, sealer, logVars, Safe,
        Outstanding
<1>1. WriteRecord(active)
  OBVIOUS
<1>2. /\ seg' \in [Lsns -> Nat] /\ nextLsn' \in 1 .. MaxLsn + 1
      /\ nextLsn \in Lsns /\ nextLsn \in Nat /\ nextLsn' = nextLsn + 1
      /\ \A l \in Lsns : seg'[l] = IF l = nextLsn THEN active ELSE seg[l]
  BY <1>1, WriteRecordEffect
<1>3. /\ pc' \in [Threads -> PCs] /\ target' \in [Threads -> Nat]
      /\ \A u \in Threads : u # t => pc'[u] = pc[u] /\ target'[u] = target[u]
      /\ \/ pc'[t] = "idle" /\ target'[t] = target[t]
         \/ pc'[t] = "sync" /\ target'[t] = nextLsn
  <2>1. CASE isCommit
    <3>1. pc' = [pc EXCEPT ![t] = "sync"] /\ target' = [target EXCEPT ![t] = nextLsn]
      BY <2>1 DEF Goto
    <3> QED
      BY <1>2, <3>1 DEF TypeOK, PCs
  <2>2. CASE ~isCommit
    BY <1>2, <2>2 DEF TypeOK, PCs, Goto
  <2> QED
    BY <2>1, <2>2
<1>4. TypeOK'
  BY <1>2, <1>3 DEF TypeOK
<1>5. LogShape'
  <2>1. durable' < nextLsn' /\ ckptLsn' < nextLsn'
    BY <1>2 DEF LogShape, TypeOK
  <2> HIDE DEF IInv
  <2> QED
    BY <1>1, <2>1, WriteRecordShape
<1>6. RotationHoldsMutex'
  BY <1>3 DEF RotationHoldsMutex, Rotating, TypeOK
<1>7. HandedAreSafe'
  <2> SUFFICES ASSUME NEW l \in Lsns, l < nextLsn', seg'[l] <= active - 1
               PROVE  Safe(l)'
    BY DEF HandedAreSafe, LastHanded
  <2>1. l < nextLsn /\ seg'[l] = seg[l]
    <3>1. l < nextLsn \/ l = nextLsn
      BY <1>2
    <3>2. active \in Nat /\ seg'[nextLsn] = active
      BY <1>2 DEF TypeOK
    <3> QED
      BY <1>2, <3>1, <3>2
  <2> QED
    BY <2>1 DEF HandedAreSafe, LastHanded
<1>8. TargetsAllocated'
  <2>1. \A u \in Committers : pc'[u] \in Syncing =>
          \/ target'[u] = nextLsn
          \/ target'[u] = target[u] /\ pc[u] \in Syncing
    BY <1>3 DEF Syncing
  <2> HIDE DEF IInv, Safe, Outstanding, Append
  <2> QED
    BY <1>2, <2>1, TargetsKept
<1>9. CaptureCovers'
  <2>1. \A l \in Lsns : l < nextLsn => seg'[l] = seg[l] /\ (Safe(l) => Safe(l)')
    <3>1. \A l \in Lsns : l < nextLsn => l # nextLsn
      BY <1>2
    <3> QED
      BY <1>2, <3>1
  <2>2. \A u \in Committers : pc'[u] \in {"fsync", "advance"} =>
          pc'[u] = pc[u] /\ target'[u] = target[u] /\ flushed'[u] = flushed[u]
    BY <1>3
  <2>3. nextLsn' \in Nat /\ nextLsn <= nextLsn'
    BY <1>2
  <2> HIDE DEF IInv, Safe, Outstanding
  <2> QED
    BY <2>1, <2>2, <2>3, CaptureKept
<1>10. DurableOrOutstanding'
  BY <1>2 DEF DurableOrOutstanding, LogShape, TypeOK
<1>11. AckedBehindFrontier'
  BY DEF AckedBehindFrontier
<1>12. RemovedBeforeCkpt'
  BY <1>2 DEF RemovedBeforeCkpt, LogShape, TypeOK
<1> QED
  BY <1>4, <1>5, <1>6, <1>7, <1>8, <1>9, <1>10, <1>11, <1>12

\* Both rotations, of an append and of log_checkpoint.
LEMMA RotateOpenInv ==
  ASSUME IInv, NEW t \in Threads, NEW next \in Rotating,
         pc[t] \in {"idle", "log"}, RotateOpen(t, next), UNCHANGED segCap
  PROVE  IInv'
<1> USE DEF IInv, RotateOpen, Goto, sealer, logVars, Safe,
        Outstanding
<1>1. /\ next \in PCs /\ next \notin Syncing /\ t # None /\ mutex = None
      /\ pc' \in [Threads -> PCs]
      /\ \A u \in Threads : pc'[u] = IF u = t THEN next ELSE pc[u]
  BY DEF TypeOK, PCs, Rotating, Syncing
<1>2. TypeOK'
  <2>1. active' \in Nat \ {0} /\ removed' \subseteq 1 .. active' - 1
    BY DEF TypeOK
  <2> HIDE DEF Lsns
  <2> QED
    BY <1>1, <2>1 DEF TypeOK
<1>3. LogShape'
  BY DEF LogShape, TypeOK
<1>4. RotationHoldsMutex'
  <2>1. \A u \in Threads : pc'[u] \in Rotating <=> mutex' = u
    BY <1>1 DEF RotationHoldsMutex
  <2>2. active' > 1 /\ \A l \in Lsns : seg'[l] # active'
    BY DEF LogShape, TypeOK
  <2> QED
    BY <2>1, <2>2 DEF RotationHoldsMutex
<1>5. HandedAreSafe'
  BY <1>1 DEF HandedAreSafe, LastHanded, TypeOK
<1>6. TargetsAllocated'
  BY <1>1 DEF TargetsAllocated
<1>7. CaptureCovers'
  BY <1>1 DEF CaptureCovers, Rotating
<1>8. DurableOrOutstanding'
  BY DEF DurableOrOutstanding
<1>9. AckedBehindFrontier'
  BY DEF AckedBehindFrontier
<1>10. RemovedBeforeCkpt'
  BY DEF RemovedBeforeCkpt
<1> QED
  BY <1>2, <1>3, <1>4, <1>5, <1>6, <1>7, <1>8, <1>9, <1>10

\* rotate_segment's hand-off and the append behind it.
LEMMA RotateSubmitInv ==
  ASSUME IInv, NEW t \in Committers, RotateSubmit(t), UNCHANGED segCap
  PROVE  IInv'
<1> USE DEF IInv, RotateSubmit, sealer, logVars, Safe,
        Outstanding
<1>1. WriteRecord(active)
  OBVIOUS
<1>2. /\ seg' \in [Lsns -> Nat] /\ nextLsn' \in 1 .. MaxLsn + 1
      /\ nextLsn \in Lsns /\ nextLsn \in Nat /\ nextLsn' = nextLsn + 1
      /\ \A l \in Lsns : seg'[l] = IF l = nextLsn THEN active ELSE seg[l]
  BY <1>1, WriteRecordEffect
<1>3. /\ pc' \in [Threads -> PCs] /\ target' \in [Threads -> Nat]
      /\ \A u \in Threads : u # t => pc'[u] = pc[u] /\ target'[u] = target[u]
      /\ \/ pc'[t] = "idle"
         \/ pc'[t] = "sync" /\ target'[t] = nextLsn
  <2>1. CASE pc[t] = "rotateCommit"
    <3>1. pc' = [pc EXCEPT ![t] = "sync"] /\ target' = [target EXCEPT ![t] = nextLsn]
      BY <2>1 DEF Goto
    <3> QED
      BY <1>2, <3>1 DEF TypeOK, PCs
  <2>2. CASE pc[t] # "rotateCommit"
    BY <1>2, <2>2 DEF TypeOK, PCs, Goto
  <2> QED
    BY <2>1, <2>2
<1>4. mutex = t /\ t # None /\ active > 1 /\ active \in Nat
  BY DEF RotationHoldsMutex, Rotating, TypeOK
<1>5. TypeOK'
  <2>1. pending' \in Nat
    BY <1>4
  <2> QED
    BY <1>2, <1>3, <1>4, <2>1 DEF TypeOK
<1>6. LogShape'
  <2>1. durable' < nextLsn' /\ ckptLsn' < nextLsn'
    BY <1>2 DEF LogShape, TypeOK
  <2> HIDE DEF IInv
  <2> QED
    BY <1>1, <2>1, WriteRecordShape
<1>7. RotationHoldsMutex'
  BY <1>3, <1>4 DEF RotationHoldsMutex, Rotating, TypeOK
<1>8. \A l \in Lsns : l < nextLsn => seg'[l] = seg[l] /\ (Safe(l) => Safe(l)')
  <2>1. \A l \in Lsns : l < nextLsn => l # nextLsn
    BY <1>2
  <2>2. \A l \in Lsns : l < nextLsn => seg'[l] = seg[l]
    BY <1>2, <2>1
  <2>3. \A s \in Nat : Outstanding(s) => Outstanding(s)'
    OBVIOUS
  <2> QED
    BY <2>2, <2>3 DEF TypeOK
<1>9. HandedAreSafe'
  <2>1. SUFFICES ASSUME NEW l \in Lsns, l < nextLsn', seg'[l] <= active - 1
                 PROVE  Safe(l)'
    BY <1>4 DEF HandedAreSafe, LastHanded
  <2>2. l < nextLsn /\ seg'[l] = seg[l]
    BY <1>2, <1>4, <2>1
  <2>3. CASE seg[l] = active - 1
    BY <1>4, <2>2, <2>3
  <2>4. CASE seg[l] <= active - 2
    BY <1>4, <1>8, <2>2, <2>4 DEF HandedAreSafe, LastHanded
  <2> QED
    BY <1>4, <2>1, <2>2, <2>3, <2>4 DEF TypeOK
<1>10. TargetsAllocated'
  <2>1. \A u \in Committers : pc'[u] \in Syncing =>
          \/ target'[u] = nextLsn
          \/ target'[u] = target[u] /\ pc[u] \in Syncing
    BY <1>3 DEF Syncing
  <2> HIDE DEF IInv, Safe, Outstanding, RotateSubmit
  <2> QED
    BY <1>2, <2>1, TargetsKept
<1>11. CaptureCovers'
  <2>1. \A u \in Committers : pc'[u] \in {"fsync", "advance"} =>
          pc'[u] = pc[u] /\ target'[u] = target[u] /\ flushed'[u] = flushed[u]
    BY <1>3
  <2>2. nextLsn' \in Nat /\ nextLsn <= nextLsn'
    BY <1>2
  <2> HIDE DEF IInv, Safe, Outstanding
  <2> QED
    BY <1>8, <2>1, <2>2, CaptureKept
<1>12. DurableOrOutstanding'
  BY <1>2, <1>8 DEF DurableOrOutstanding, LogShape, TypeOK
<1>13. AckedBehindFrontier'
  BY DEF AckedBehindFrontier
<1>14. RemovedBeforeCkpt'
  BY <1>2 DEF RemovedBeforeCkpt, LogShape, TypeOK
<1> QED
  BY <1>5, <1>6, <1>7, <1>9, <1>10, <1>11, <1>12, <1>13, <1>14

\* rotate_segment poisons the log and changes nothing else.
LEMMA RotateFailsInv ==
  ASSUME IInv, NEW t \in Threads, RotateFails(t), UNCHANGED segCap
  PROVE  IInv'
<1> USE DEF IInv, RotateFails, FsyncFails, Goto, sealer, logVars, Safe,
        Outstanding
<1>0. /\ LogShape' /\ HandedAreSafe' /\ DurableOrOutstanding'
      /\ AckedBehindFrontier' /\ RemovedBeforeCkpt'
  BY LogUnmoved
<1>1. TypeOK'
  BY DEF TypeOK, PCs
<1>2. RotationHoldsMutex'
  BY DEF RotationHoldsMutex, Rotating, TypeOK, LogShape
<1>3. TargetsAllocated'
  BY DEF TargetsAllocated, Syncing, TypeOK
<1>4. CaptureCovers'
  BY DEF CaptureCovers, TypeOK, LogShape
<1> QED
  BY <1>0, <1>1, <1>2, <1>3, <1>4

\* The segment moves from the slot to the sealer: it stays outstanding.
LEMMA SealerTakeInv ==
  ASSUME IInv, SealerTake, UNCHANGED segCap
  PROVE  IInv'
<1> USE DEF IInv, SealerTake, sealer, logVars, Safe,
        Outstanding
<1>1. TypeOK'
  BY DEF TypeOK, PCs
<1>2. LogShape'
  BY DEF LogShape, TypeOK
<1>3. RotationHoldsMutex'
  BY DEF RotationHoldsMutex, Rotating, TypeOK, LogShape
<1>4. HandedAreSafe'
  BY DEF HandedAreSafe, LastHanded, TypeOK, LogShape, RotationHoldsMutex, Rotating
<1>5. TargetsAllocated'
  BY DEF TargetsAllocated, Syncing, TypeOK
<1>6. CaptureCovers'
  BY DEF CaptureCovers, TypeOK, LogShape
<1>7. DurableOrOutstanding'
  BY DEF DurableOrOutstanding, TypeOK, LogShape
<1>8. AckedBehindFrontier'
  BY DEF AckedBehindFrontier, TypeOK, LogShape
<1>9. RemovedBeforeCkpt'
  BY DEF RemovedBeforeCkpt, TypeOK, LogShape
<1> QED
  BY <1>1, <1>2, <1>3, <1>4, <1>5, <1>6, <1>7, <1>8, <1>9

\* The segment is no longer outstanding, and its records are on disk.
LEMMA SealerDoneInv ==
  ASSUME IInv, SealerDone, UNCHANGED segCap
  PROVE  IInv'
<1> USE DEF IInv, SealerDone, Records, sealer, logVars, Safe,
        Outstanding
<1>1. TypeOK'
  <2>1. PICK last \in Lsns : doneLsn' = IF doneLsn < last THEN last ELSE doneLsn
    OBVIOUS
  <2>2. doneLsn' \in Nat
    BY <2>1 DEF TypeOK
  <2> QED
    BY <2>2 DEF TypeOK
<1>2. LogShape'
  BY DEF LogShape, TypeOK
<1>3. RotationHoldsMutex'
  BY DEF RotationHoldsMutex, Rotating, TypeOK, LogShape
<1>4. HandedAreSafe'
  BY DEF HandedAreSafe, LastHanded, TypeOK, LogShape, RotationHoldsMutex, Rotating
<1>5. TargetsAllocated'
  BY DEF TargetsAllocated, Syncing, TypeOK
<1>6. CaptureCovers'
  BY DEF CaptureCovers, TypeOK, LogShape
<1>7. DurableOrOutstanding'
  BY DEF DurableOrOutstanding, TypeOK, LogShape
<1>8. AckedBehindFrontier'
  BY DEF AckedBehindFrontier, TypeOK, LogShape
<1>9. RemovedBeforeCkpt'
  BY DEF RemovedBeforeCkpt, TypeOK, LogShape
<1> QED
  BY <1>1, <1>2, <1>3, <1>4, <1>5, <1>6, <1>7, <1>8, <1>9

\* A failed background fsync stays on record as outstanding.
LEMMA SealerFailsInv ==
  ASSUME IInv, SealerFails, UNCHANGED segCap
  PROVE  IInv'
<1> USE DEF IInv, SealerFails, sealer, logVars, Safe,
        Outstanding
<1>1. TypeOK'
  BY DEF TypeOK, PCs
<1>2. LogShape'
  BY DEF LogShape, TypeOK
<1>3. RotationHoldsMutex'
  BY DEF RotationHoldsMutex, Rotating, TypeOK, LogShape
<1>4. HandedAreSafe'
  BY DEF HandedAreSafe, LastHanded, TypeOK, LogShape, RotationHoldsMutex, Rotating
<1>5. TargetsAllocated'
  BY DEF TargetsAllocated, Syncing, TypeOK
<1>6. CaptureCovers'
  BY DEF CaptureCovers, TypeOK, LogShape
<1>7. DurableOrOutstanding'
  BY DEF DurableOrOutstanding, TypeOK, LogShape
<1>8. AckedBehindFrontier'
  BY DEF AckedBehindFrontier, TypeOK, LogShape
<1>9. RemovedBeforeCkpt'
  BY DEF RemovedBeforeCkpt, TypeOK, LogShape
<1> QED
  BY <1>1, <1>2, <1>3, <1>4, <1>5, <1>6, <1>7, <1>8, <1>9

\* The fast path and the re-checks acknowledge behind the frontier only.
LEMMA SyncCoveredInv ==
  ASSUME IInv, NEW t \in Committers, SyncCovered(t), UNCHANGED segCap
  PROVE  IInv'
<1> USE DEF IInv, SyncCovered, Ack, Return, Goto, sealer, logVars, Safe,
        Outstanding
<1>0. target[t] \in Lsns
  BY DEF TypeOK, TargetsAllocated, Syncing
<1>1. TypeOK'
  BY <1>0 DEF TypeOK, PCs, NoFlush
<1>2. LogShape'
  BY <1>0 DEF LogShape, TypeOK
<1>3. RotationHoldsMutex'
  BY <1>0 DEF RotationHoldsMutex, Rotating, TypeOK, LogShape
<1>4. HandedAreSafe'
  BY <1>0 DEF HandedAreSafe, LastHanded, TypeOK, LogShape, RotationHoldsMutex, Rotating
<1>5. TargetsAllocated'
  BY <1>0 DEF TargetsAllocated, Syncing, TypeOK
<1>6. CaptureCovers'
  BY <1>0 DEF CaptureCovers, TypeOK, LogShape
<1>7. DurableOrOutstanding'
  BY <1>0 DEF DurableOrOutstanding, TypeOK, LogShape
<1>8. AckedBehindFrontier'
  BY <1>0 DEF AckedBehindFrontier, TypeOK, LogShape
<1>9. RemovedBeforeCkpt'
  BY <1>0 DEF RemovedBeforeCkpt, TypeOK, LogShape
<1> QED
  BY <1>1, <1>2, <1>3, <1>4, <1>5, <1>6, <1>7, <1>8, <1>9

\* A thread becomes the leader.
LEMMA SyncElectInv ==
  ASSUME IInv, NEW t \in Committers, SyncElect(t), UNCHANGED segCap
  PROVE  IInv'
<1> USE DEF IInv, SyncElect, Goto, sealer, logVars, Safe,
        Outstanding
<1>0. /\ LogShape' /\ HandedAreSafe' /\ DurableOrOutstanding'
      /\ AckedBehindFrontier' /\ RemovedBeforeCkpt'
  BY LogUnmoved
<1>1. TypeOK'
  BY DEF TypeOK, PCs
<1>2. RotationHoldsMutex'
  BY DEF RotationHoldsMutex, Rotating, TypeOK, LogShape
<1>3. TargetsAllocated'
  BY DEF TargetsAllocated, Syncing, TypeOK
<1>4. CaptureCovers'
  BY DEF CaptureCovers, TypeOK, LogShape
<1> QED
  BY <1>0, <1>1, <1>2, <1>3, <1>4

\* The re-checks that fail change nothing but the place.
LEMMA SyncBehindInv ==
  ASSUME IInv, NEW t \in Committers, SyncBehind(t), UNCHANGED segCap
  PROVE  IInv'
<1> USE DEF IInv, SyncBehind, Goto, sealer, logVars, Safe,
        Outstanding
<1>0. /\ LogShape' /\ HandedAreSafe' /\ DurableOrOutstanding'
      /\ AckedBehindFrontier' /\ RemovedBeforeCkpt'
  BY LogUnmoved
<1>1. TypeOK'
  BY DEF TypeOK, PCs
<1>2. RotationHoldsMutex'
  BY DEF RotationHoldsMutex, Rotating, TypeOK, LogShape
<1>3. TargetsAllocated'
  BY DEF TargetsAllocated, Syncing, TypeOK
<1>4. CaptureCovers'
  BY DEF CaptureCovers, TypeOK, LogShape
<1> QED
  BY <1>0, <1>1, <1>2, <1>3, <1>4

\* sync_up_to returns an error, from the sealer's wait or from group_fsync.
LEMMA FailInv ==
  ASSUME IInv, NEW t \in Committers, pc[t] \in Syncing, Fail(t),
         poisoned' \in BOOLEAN, UNCHANGED <<segCap, synced, durable>>
  PROVE  IInv'
<1> USE DEF IInv, Fail, Return, Goto, sealer, logVars
<1>1. LogShape' /\ HandedAreSafe' /\ DurableOrOutstanding'
      /\ AckedBehindFrontier' /\ RemovedBeforeCkpt'
  BY LogUnmoved
<1>2. TypeOK'
  BY DEF TypeOK, PCs, NoFlush
<1>3. RotationHoldsMutex'
  BY DEF RotationHoldsMutex, Rotating, TypeOK, Syncing
<1>4. TargetsAllocated'
  BY DEF TargetsAllocated, Syncing, TypeOK
<1>5. CaptureCovers'
  BY DEF CaptureCovers, TypeOK, Safe, Outstanding
<1> QED
  BY <1>1, <1>2, <1>3, <1>4, <1>5

\* The sealer's wait, left with an error or without.
LEMMA SyncWaitInv ==
  ASSUME IInv, NEW t \in Committers, SyncWait(t), UNCHANGED segCap
  PROVE  IInv'
<1>1. CASE Fail(t)
  BY <1>1, FailInv DEF SyncWait, Syncing, IInv, TypeOK
<1>2. CASE ~Fail(t)
  <2> USE DEF IInv, sealer, logVars
  <2>1. /\ pc[t] = "wait" /\ pc' = [pc EXCEPT ![t] = "recheck"]
        /\ UNCHANGED <<logVars, removed, mutex, leader, sealer, target, flushed,
                       acked, ckptLsn, shipped, synced, durable, poisoned>>
    BY <1>2 DEF SyncWait, Goto
  <2>2. /\ LogShape' /\ HandedAreSafe' /\ DurableOrOutstanding'
        /\ AckedBehindFrontier' /\ RemovedBeforeCkpt'
    BY <2>1, LogUnmoved
  <2>3. TypeOK'
    BY <2>1 DEF TypeOK, PCs
  <2>4. RotationHoldsMutex'
    BY <2>1 DEF RotationHoldsMutex, Rotating, TypeOK
  <2>5. TargetsAllocated'
    BY <2>1 DEF TargetsAllocated, Syncing, TypeOK
  <2>6. CaptureCovers'
    BY <2>1 DEF CaptureCovers, TypeOK, Safe, Outstanding
  <2> QED
    BY <2>2, <2>3, <2>4, <2>5, <2>6
<1> QED
  BY <1>1, <1>2

\* group_fsync, phase 1: under `inner` the capture covers all there is.
LEMMA GroupCaptureInv ==
  ASSUME IInv, NEW t \in Committers, GroupCapture(t), UNCHANGED segCap
  PROVE  IInv'
<1>1. CASE Fail(t)
  BY <1>1, FailInv DEF GroupCapture, FsyncFails, Syncing, IInv, TypeOK
<1>2. CASE ~Fail(t)
  <2> USE DEF IInv, sealer, logVars
  <2>1. /\ pc[t] = "group" /\ mutex = None
        /\ flushed' = [flushed EXCEPT ![t] = [lsn |-> nextLsn - 1, seg |-> active]]
        /\ pc' = [pc EXCEPT ![t] = "fsync"]
        /\ UNCHANGED <<logVars, removed, synced, durable, poisoned, mutex, leader,
                       sealer, target, acked, ckptLsn, shipped>>
    BY <1>2 DEF GroupCapture, Goto
  <2>2. LogShape' /\ HandedAreSafe' /\ DurableOrOutstanding'
        /\ AckedBehindFrontier' /\ RemovedBeforeCkpt'
    BY <2>1, LogUnmoved
  <2>3. /\ pc' \in [Threads -> PCs]
        /\ flushed' \in [Committers -> [lsn : Nat, seg : Nat]]
        /\ flushed'[t] = [lsn |-> nextLsn - 1, seg |-> active]
        /\ \A u \in Committers : u # t => flushed'[u] = flushed[u]
    BY <2>1 DEF TypeOK, PCs
  <2>4. TypeOK'
    BY <2>1, <2>3 DEF TypeOK
  <2>5. RotationHoldsMutex'
    BY <2>1 DEF RotationHoldsMutex, Rotating, TypeOK
  <2>6. TargetsAllocated'
    BY <2>1 DEF TargetsAllocated, Syncing, TypeOK
  <2>7. CaptureCovers'
    <3>1. SUFFICES ASSUME NEW u \in Committers, pc'[u] \in {"fsync", "advance"}
                   PROVE  /\ target[u] <= flushed'[u].lsn
                          /\ flushed'[u].lsn < nextLsn
                          /\ \A l \in Lsns : l <= flushed'[u].lsn =>
                               /\ seg[l] <= flushed'[u].seg
                               /\ seg[l] < flushed'[u].seg \/ pc'[u] = "advance"
                                    => Safe(l)
      BY <2>1 DEF CaptureCovers, Safe, Outstanding
    <3>2. CASE u = t
      <4>1. flushed'[u].lsn = nextLsn - 1 /\ flushed'[u].seg = active /\ pc'[u] = "fsync"
        BY <2>1, <2>3, <3>2 DEF TypeOK
      <4>2. target[u] < nextLsn /\ target[u] \in Nat
        BY <2>1, <3>2 DEF TargetsAllocated, Syncing, TypeOK
      <4>3. \A l \in Lsns : l < nextLsn => /\ seg[l] \in Nat /\ seg[l] <= active
                                           /\ seg[l] < active => Safe(l)
        <5>1. \A l \in Lsns : seg[l] \in Nat /\ seg[l] <= active
          BY DEF LogShape, TypeOK
        <5>2. \A l \in Lsns : l < nextLsn /\ seg[l] <= active - 1 => Safe(l)
          BY <2>1 DEF HandedAreSafe, LastHanded
        <5>3. active \in Nat
          BY DEF TypeOK
        <5> QED
          BY <5>1, <5>2, <5>3
      <4>4. nextLsn \in Nat /\ Lsns \subseteq Nat
        BY DEF TypeOK
      <4> HIDE DEF Lsns, IInv
      <4>5. \A l \in Lsns : l <= flushed'[u].lsn => l < nextLsn
        BY <4>1, <4>4
      <4>6. target[u] <= flushed'[u].lsn /\ flushed'[u].lsn < nextLsn
        BY <4>1, <4>2, <4>4
      <4>7. pc'[u] # "advance"
        BY <4>1
      <4> QED
        BY <4>1, <4>3, <4>5, <4>6, <4>7
    <3>3. CASE u # t
      <4>1. flushed'[u] = flushed[u] /\ pc'[u] = pc[u]
        BY <2>1, <2>3, <3>3 DEF TypeOK
      <4> QED
        BY <3>1, <4>1 DEF CaptureCovers
    <3> QED
      BY <3>2, <3>3
  <2> QED
    BY <2>2, <2>4, <2>5, <2>6, <2>7
<1> QED
  BY <1>1, <1>2

\* group_fsync, phase 2: the captured part of the segment becomes safe.
LEMMA GroupFsyncInv ==
  ASSUME IInv, NEW t \in Committers, GroupFsync(t), UNCHANGED segCap
  PROVE  IInv'
<1> USE DEF IInv, GroupFsync, Records, Goto, sealer, logVars, Safe,
        Outstanding
<1>1. TypeOK'
  BY DEF TypeOK, PCs
<1>2. LogShape'
  BY DEF LogShape, TypeOK
<1>3. RotationHoldsMutex'
  BY DEF RotationHoldsMutex, Rotating, TypeOK, LogShape
<1>4. HandedAreSafe'
  BY DEF HandedAreSafe, LastHanded, TypeOK, LogShape, RotationHoldsMutex, Rotating
<1>5. TargetsAllocated'
  BY DEF TargetsAllocated, Syncing, TypeOK
<1>6. CaptureCovers'
  <2> SUFFICES ASSUME NEW u \in Committers, pc'[u] \in {"fsync", "advance"},
                      NEW l \in Lsns, l <= flushed[u].lsn
               PROVE  /\ target[u] <= flushed[u].lsn /\ flushed[u].lsn < nextLsn
                      /\ seg[l] <= flushed[u].seg
                      /\ seg[l] < flushed[u].seg \/ pc'[u] = "advance" => Safe(l)'
    BY DEF CaptureCovers, TypeOK
  <2>1. pc[u] \in {"fsync", "advance"} /\ (u # t => pc'[u] = pc[u])
    BY DEF TypeOK
  <2>2. /\ target[u] <= flushed[u].lsn /\ flushed[u].lsn < nextLsn
        /\ seg[l] <= flushed[u].seg
        /\ seg[l] < flushed[u].seg \/ pc[u] = "advance" => Safe(l)
    BY <2>1 DEF CaptureCovers
  <2>3. CASE u # t
    BY <2>1, <2>2, <2>3
  <2>4. CASE u = t
    <3>1. seg[l] = flushed[t].seg => l \in synced'
      BY <2>4
    <3> QED
      BY <2>2, <2>4, <3>1 DEF TypeOK
  <2> QED
    BY <2>3, <2>4
<1>7. DurableOrOutstanding'
  BY DEF DurableOrOutstanding, TypeOK, LogShape
<1>8. AckedBehindFrontier'
  BY DEF AckedBehindFrontier, TypeOK, LogShape
<1>9. RemovedBeforeCkpt'
  BY DEF RemovedBeforeCkpt, TypeOK, LogShape
<1> QED
  BY <1>1, <1>2, <1>3, <1>4, <1>5, <1>6, <1>7, <1>8, <1>9

\* group_fsync, phase 2, when sync_all fails.
LEMMA GroupFsyncFailsInv ==
  ASSUME IInv, NEW t \in Committers, GroupFsyncFails(t), UNCHANGED segCap
  PROVE  IInv'
BY FailInv DEF GroupFsyncFails, FsyncFails, Syncing

\* group_fsync, phase 3: the frontier moves to a tail that is safe.
LEMMA GroupAdvanceInv ==
  ASSUME IInv, NEW t \in Committers, GroupAdvance(t), UNCHANGED segCap
  PROVE  IInv'
<1> USE DEF IInv, GroupAdvance, Ack, Return, Goto, sealer, logVars, Safe,
        Outstanding
<1>0. target[t] \in Lsns
  BY DEF TypeOK, TargetsAllocated, Syncing
<1>1. TypeOK'
  BY <1>0 DEF TypeOK, PCs, NoFlush
<1>2. LogShape'
  BY <1>0 DEF LogShape, TypeOK, CaptureCovers
<1>3. RotationHoldsMutex'
  BY <1>0 DEF RotationHoldsMutex, Rotating, TypeOK, LogShape
<1>4. HandedAreSafe'
  BY <1>0 DEF HandedAreSafe, LastHanded, TypeOK, LogShape, RotationHoldsMutex, Rotating
<1>5. TargetsAllocated'
  BY <1>0 DEF TargetsAllocated, Syncing, TypeOK
<1>6. CaptureCovers'
  BY <1>0 DEF CaptureCovers, TypeOK, LogShape
<1>7. DurableOrOutstanding'
  BY <1>0 DEF DurableOrOutstanding, TypeOK, LogShape, CaptureCovers
<1>8. AckedBehindFrontier'
  BY <1>0 DEF AckedBehindFrontier, TypeOK, LogShape, CaptureCovers
<1>9. RemovedBeforeCkpt'
  BY <1>0 DEF RemovedBeforeCkpt, TypeOK, LogShape
<1> QED
  BY <1>1, <1>2, <1>3, <1>4, <1>5, <1>6, <1>7, <1>8, <1>9

\* checkpoint::run starts to drain the sealer.
LEMMA CkptBeginInv ==
  ASSUME IInv, CkptBegin, UNCHANGED segCap
  PROVE  IInv'
<1> USE DEF IInv, CkptBegin, CkptDrainTarget, Goto, sealer, logVars, Safe,
        Outstanding
<1>0. /\ LogShape' /\ HandedAreSafe' /\ DurableOrOutstanding'
      /\ AckedBehindFrontier' /\ RemovedBeforeCkpt'
  BY LogUnmoved
<1>1. TypeOK'
  <2>1. nextLsn - 1 \in Nat /\ Ckpt \in Threads
    BY DEF TypeOK
  <2>2. pc' \in [Threads -> PCs] /\ target' \in [Threads -> Nat]
    BY <2>1 DEF TypeOK, PCs
  <2> QED
    BY <2>2 DEF TypeOK
<1>2. RotationHoldsMutex'
  BY DEF RotationHoldsMutex, Rotating, TypeOK, LogShape
<1>3. TargetsAllocated'
  BY DEF TargetsAllocated, Syncing, TypeOK
<1>4. CaptureCovers'
  BY DEF CaptureCovers, TypeOK, LogShape
<1> QED
  BY <1>0, <1>1, <1>2, <1>3, <1>4

\* sync's wait for the sealer.
LEMMA CkptSyncInv ==
  ASSUME IInv, CkptSync, UNCHANGED segCap
  PROVE  IInv'
<1> USE DEF IInv, CkptSync, Goto, sealer, logVars, Safe,
        Outstanding
<1>0. /\ LogShape' /\ HandedAreSafe' /\ DurableOrOutstanding'
      /\ AckedBehindFrontier' /\ RemovedBeforeCkpt'
  BY LogUnmoved
<1>1. TypeOK'
  <2>1. CASE SealerError /\ Goto(Ckpt, "idle")
    BY <2>1 DEF TypeOK, PCs
  <2>2. CASE SealerOk(target[Ckpt]) /\ Goto(Ckpt, "ckptFsync")
    BY <2>2 DEF TypeOK, PCs
  <2> QED
    BY <2>1, <2>2
<1>2. RotationHoldsMutex'
  BY DEF RotationHoldsMutex, Rotating, TypeOK, LogShape
<1>3. TargetsAllocated'
  BY DEF TargetsAllocated, Syncing, TypeOK
<1>4. CaptureCovers'
  BY DEF CaptureCovers, TypeOK, LogShape
<1> QED
  BY <1>0, <1>1, <1>2, <1>3, <1>4

\* fsync_locked inside sync: the whole tail is safe.
LEMMA CkptFsyncInv ==
  ASSUME IInv, CkptFsync, UNCHANGED segCap
  PROVE  IInv'
<1> USE DEF IInv, CkptFsync, sealer, logVars, Safe,
        Outstanding
<1>1. /\ pc' \in [Threads -> PCs] /\ poisoned' \in BOOLEAN /\ pc'[Ckpt] \in {"log", "idle"}
      /\ \A u \in Threads : u # Ckpt => pc'[u] = pc[u]
  BY DEF TypeOK, PCs, Goto, FsyncLocked, FsyncFails
<1>2. \/ /\ synced' = synced \cup {l \in Lsns : seg[l] = active}
         /\ durable' = nextLsn - 1
      \/ UNCHANGED <<synced, durable>>
  BY DEF FsyncLocked, FsyncFails
<1>3. synced' \in SUBSET Lsns /\ synced \subseteq synced' /\ durable' \in Nat
      /\ durable <= durable' /\ durable' < nextLsn
  <2>1. CASE durable' = nextLsn - 1 /\ synced' = synced \cup {l \in Lsns : seg[l] = active}
    <3>1. nextLsn \in Nat \ {0} /\ durable \in Nat /\ durable < nextLsn
      BY DEF TypeOK, LogShape
    <3>2. durable' \in Nat /\ durable <= durable' /\ durable' < nextLsn
      BY <2>1, <3>1
    <3>3. synced' \in SUBSET Lsns /\ synced \subseteq synced'
      BY <2>1 DEF TypeOK
    <3> QED
      BY <3>2, <3>3
  <2>2. CASE UNCHANGED <<synced, durable>>
    BY <2>2 DEF TypeOK, LogShape
  <2> QED
    BY <1>2, <2>1, <2>2
<1>4. TypeOK'
  BY <1>1, <1>3 DEF TypeOK
<1>5. LogShape'
  BY <1>3 DEF LogShape
<1>6. RotationHoldsMutex'
  BY <1>1 DEF RotationHoldsMutex, Rotating, TypeOK
<1>7. HandedAreSafe'
  BY <1>3 DEF HandedAreSafe, LastHanded
<1>8. TargetsAllocated'
  BY <1>1 DEF TargetsAllocated
<1>9. CaptureCovers'
  BY <1>1, <1>3 DEF CaptureCovers
<1>10. DurableOrOutstanding'
  <2>1. CASE UNCHANGED <<synced, durable>>
    BY <2>1 DEF DurableOrOutstanding
  <2>2. CASE /\ synced' = synced \cup {l \in Lsns : seg[l] = active}
             /\ durable' = nextLsn - 1
    <3>1. \A l \in Lsns : l < nextLsn => seg[l] = active \/ Safe(l)
      BY DEF HandedAreSafe, LastHanded, LogShape, TypeOK
    <3> QED
      BY <2>2, <3>1 DEF DurableOrOutstanding, TypeOK
  <2> QED
    BY <1>2, <2>1, <2>2
<1>11. AckedBehindFrontier'
  BY <1>3 DEF AckedBehindFrontier, TypeOK
<1>12. RemovedBeforeCkpt'
  BY DEF RemovedBeforeCkpt
<1> QED
  BY <1>4, <1>5, <1>6, <1>7, <1>8, <1>9, <1>10, <1>11, <1>12

\* log_checkpoint once its record has a segment: from CkptLog, or from a
\* rotation that hands the full segment over in the same step.
LEMMA CkptLoggedInv ==
  ASSUME IInv, CkptLogged, mutex' = None, UNCHANGED segCap, pending' \in Nat,
         pc[Ckpt] \in {"log", "rotateCkpt"}, active > 1 \/ mutex = None,
         mutex \in {None, Ckpt},
         mutex = None => UNCHANGED pending,
         mutex = Ckpt => pending = 0 /\ pending' = active - 1
  PROVE  IInv'
<1> USE DEF IInv, CkptLogged, sealer, logVars, Safe,
        Outstanding
<1>1. WriteRecord(active)
  OBVIOUS
<1>2. /\ seg' \in [Lsns -> Nat] /\ nextLsn' \in 1 .. MaxLsn + 1
      /\ nextLsn \in Lsns /\ nextLsn \in Nat /\ nextLsn' = nextLsn + 1
      /\ \A l \in Lsns : seg'[l] = IF l = nextLsn THEN active ELSE seg[l]
  BY <1>1, WriteRecordEffect
<1>3. /\ pc' \in [Threads -> PCs] /\ poisoned' \in BOOLEAN
      /\ pc'[Ckpt] \in {"truncDrain", "idle"}
      /\ \A u \in Threads : u # Ckpt => pc'[u] = pc[u]
  BY DEF TypeOK, PCs, Goto, FsyncLocked, FsyncFails
<1>4. \/ /\ synced' = synced \cup {l \in Lsns : seg'[l] = active}
         /\ durable' = nextLsn /\ ckptLsn' = nextLsn
      \/ UNCHANGED <<synced, durable, ckptLsn>>
  BY DEF FsyncLocked, FsyncFails
<1>5. /\ synced' \in SUBSET Lsns /\ synced \subseteq synced' /\ durable' \in Nat
      /\ ckptLsn' \in Nat /\ durable <= durable' /\ durable' < nextLsn'
      /\ ckptLsn' < nextLsn'
  <2> HIDE DEF CkptLogged
  <2>1. CASE /\ synced' = synced \cup {l \in Lsns : seg'[l] = active}
             /\ durable' = nextLsn /\ ckptLsn' = nextLsn
    <3>1. durable \in Nat /\ durable < nextLsn
      BY DEF TypeOK, LogShape
    <3>2. /\ durable' \in Nat /\ ckptLsn' \in Nat /\ durable <= durable'
          /\ durable' < nextLsn' /\ ckptLsn' < nextLsn'
      BY <1>2, <2>1, <3>1
    <3>3. synced' \in SUBSET Lsns /\ synced \subseteq synced'
      BY <2>1 DEF TypeOK
    <3> QED
      BY <3>2, <3>3
  <2>2. CASE UNCHANGED <<synced, durable, ckptLsn>>
    BY <1>2, <2>2 DEF TypeOK, LogShape
  <2> QED
    BY <1>4, <2>1, <2>2
<1>6. \A l \in Lsns : l < nextLsn => seg'[l] = seg[l] /\ (Safe(l) => Safe(l)')
  <2>1. \A l \in Lsns : l < nextLsn => l # nextLsn
    BY <1>2
  <2>2. \A l \in Lsns : l < nextLsn => seg'[l] = seg[l]
    BY <1>2, <2>1
  <2>3. \A s \in Nat : Outstanding(s) => Outstanding(s)'
    OBVIOUS
  <2> QED
    BY <1>5, <2>2, <2>3 DEF TypeOK
<1>7. TypeOK'
  BY <1>2, <1>3, <1>5 DEF TypeOK
<1>8. LogShape'
  <2> HIDE DEF IInv
  <2> QED
    BY <1>1, <1>5, WriteRecordShape
<1>9. RotationHoldsMutex'
  BY <1>3 DEF RotationHoldsMutex, Rotating, TypeOK
<1>10. HandedAreSafe'
  <2>1. SUFFICES ASSUME NEW l \in Lsns, l < nextLsn', seg'[l] <= active - 1
                 PROVE  Safe(l)'
    BY DEF HandedAreSafe, LastHanded
  <2>2. l < nextLsn /\ seg'[l] = seg[l] /\ seg[l] # 0 /\ seg[l] \in Nat
    <3>1. l < nextLsn \/ l = nextLsn
      BY <1>2, <2>1
    <3>2. active \in Nat \ {0} /\ seg'[nextLsn] = active
      BY <1>2 DEF TypeOK
    <3>3. l < nextLsn /\ seg'[l] = seg[l]
      BY <1>2, <2>1, <3>1, <3>2
    <3> QED
      BY <3>3 DEF LogShape, TypeOK
  <2>3. CASE mutex = Ckpt /\ seg[l] = active - 1
    BY <2>2, <2>3
  <2>4. CASE seg[l] <= LastHanded
    BY <1>6, <2>2, <2>4 DEF HandedAreSafe
  <2> QED
    BY <2>1, <2>2, <2>3, <2>4 DEF TypeOK, LastHanded
<1>11. TargetsAllocated'
  <2>1. \A u \in Committers : pc'[u] \in Syncing =>
          \/ target'[u] = nextLsn
          \/ target'[u] = target[u] /\ pc[u] \in Syncing
    BY <1>3 DEF Syncing
  <2> HIDE DEF IInv, Safe, Outstanding, CkptLogged
  <2> QED
    BY <1>2, <2>1, TargetsKept
<1>12. CaptureCovers'
  <2>1. \A u \in Committers : pc'[u] \in {"fsync", "advance"} =>
          pc'[u] = pc[u] /\ target'[u] = target[u] /\ flushed'[u] = flushed[u]
    BY <1>3
  <2>2. nextLsn' \in Nat /\ nextLsn <= nextLsn'
    BY <1>2
  <2> HIDE DEF IInv, Safe, Outstanding
  <2> QED
    BY <1>6, <2>1, <2>2, CaptureKept
<1>13. DurableOrOutstanding'
  <2>1. CASE UNCHANGED <<synced, durable, ckptLsn>>
    BY <1>6, <2>1 DEF DurableOrOutstanding, LogShape, TypeOK
  <2>2. CASE /\ synced' = synced \cup {l \in Lsns : seg'[l] = active}
             /\ durable' = nextLsn
    <3>1. \A l \in Lsns : l < nextLsn' => seg'[l] = active \/ Safe(l)'
      <4> SUFFICES ASSUME NEW l \in Lsns, l < nextLsn', seg'[l] # active
                   PROVE  Safe(l)'
        OBVIOUS
      <4>1. seg'[l] <= active - 1
        BY <1>7, <1>8 DEF LogShape, TypeOK
      <4> QED
        BY <1>10, <4>1 DEF HandedAreSafe, LastHanded
    <3> QED
      BY <1>2, <2>2, <3>1 DEF DurableOrOutstanding, TypeOK
  <2> QED
    BY <1>4, <2>1, <2>2
<1>14. AckedBehindFrontier'
  BY <1>5 DEF AckedBehindFrontier, TypeOK
<1>15. RemovedBeforeCkpt'
  <2>1. CASE ckptLsn' = nextLsn
    BY <1>2, <2>1 DEF TypeOK, RemovedBeforeCkpt
  <2>2. CASE ckptLsn' = ckptLsn
    BY <1>2, <2>2 DEF RemovedBeforeCkpt, LogShape, TypeOK
  <2> QED
    BY <1>4, <2>1, <2>2
<1> QED
  BY <1>7, <1>8, <1>9, <1>10, <1>11, <1>12, <1>13, <1>14, <1>15

\* log_checkpoint in a segment with room.
LEMMA CkptLogInv ==
  ASSUME IInv, CkptLog, UNCHANGED segCap
  PROVE  IInv'
BY CkptLoggedInv DEF CkptLog, IInv, TypeOK

\* log_checkpoint after a rotation.
LEMMA CkptRotateSubmitInv ==
  ASSUME IInv, CkptRotateSubmit, UNCHANGED segCap
  PROVE  IInv'
<1>1. mutex = Ckpt /\ Ckpt # None /\ active > 1 /\ active \in Nat
  BY DEF CkptRotateSubmit, IInv, RotationHoldsMutex, Rotating, TypeOK
<1> QED
  BY <1>1, CkptLoggedInv DEF CkptRotateSubmit

\* log_checkpoint gives up.
LEMMA CkptLogFailsInv ==
  ASSUME IInv, CkptLogFails, UNCHANGED segCap
  PROVE  IInv'
<1> USE DEF IInv, CkptLogFails, Goto, sealer, logVars, Safe,
        Outstanding
<1>0. /\ LogShape' /\ HandedAreSafe' /\ DurableOrOutstanding'
      /\ AckedBehindFrontier' /\ RemovedBeforeCkpt'
  BY LogUnmoved
<1>1. TypeOK'
  BY DEF TypeOK, PCs
<1>2. RotationHoldsMutex'
  BY DEF RotationHoldsMutex, Rotating, TypeOK, LogShape
<1>3. TargetsAllocated'
  BY DEF TargetsAllocated, Syncing, TypeOK
<1>4. CaptureCovers'
  BY DEF CaptureCovers, TypeOK, LogShape
<1> QED
  BY <1>0, <1>1, <1>2, <1>3, <1>4

\* truncate_before starts to drain the sealer.
LEMMA CkptTruncDrainInv ==
  ASSUME IInv, CkptTruncDrain, UNCHANGED segCap
  PROVE  IInv'
<1> USE DEF IInv, CkptTruncDrain, CkptDrainTarget, Goto, sealer, logVars, Safe,
        Outstanding
<1>0. /\ LogShape' /\ HandedAreSafe' /\ DurableOrOutstanding'
      /\ AckedBehindFrontier' /\ RemovedBeforeCkpt'
  BY LogUnmoved
<1>1. TypeOK'
  <2>1. nextLsn - 1 \in Nat /\ Ckpt \in Threads
    BY DEF TypeOK
  <2>2. pc' \in [Threads -> PCs] /\ target' \in [Threads -> Nat]
    BY <2>1 DEF TypeOK, PCs
  <2> QED
    BY <2>2 DEF TypeOK
<1>2. RotationHoldsMutex'
  BY DEF RotationHoldsMutex, Rotating, TypeOK, LogShape
<1>3. TargetsAllocated'
  BY DEF TargetsAllocated, Syncing, TypeOK
<1>4. CaptureCovers'
  BY DEF CaptureCovers, TypeOK, LogShape
<1> QED
  BY <1>0, <1>1, <1>2, <1>3, <1>4

\* truncate_before: what it deletes precedes the checkpoint's segment.
LEMMA CkptTruncateInv ==
  ASSUME IInv, CkptTruncate, UNCHANGED segCap
  PROVE  IInv'
<1> USE DEF IInv, CkptTruncate, Removable, Records, Goto, sealer, logVars, Safe,
        Outstanding
<1>1. TypeOK'
  BY DEF TypeOK, PCs
<1>2. LogShape'
  BY DEF LogShape, TypeOK
<1>3. RotationHoldsMutex'
  BY DEF RotationHoldsMutex, Rotating, TypeOK, LogShape
<1>4. HandedAreSafe'
  BY DEF HandedAreSafe, LastHanded, TypeOK, LogShape, RotationHoldsMutex, Rotating
<1>5. TargetsAllocated'
  BY DEF TargetsAllocated, Syncing, TypeOK
<1>6. CaptureCovers'
  BY DEF CaptureCovers, TypeOK, LogShape
<1>7. DurableOrOutstanding'
  BY DEF DurableOrOutstanding, TypeOK, LogShape
<1>8. AckedBehindFrontier'
  BY DEF AckedBehindFrontier, TypeOK, LogShape
<1>9. RemovedBeforeCkpt'
  <2>1. SUFFICES ASSUME NEW s \in removed', s \notin removed
                 PROVE  ckptLsn > 0 /\ s < seg[ckptLsn]
    BY DEF RemovedBeforeCkpt
  <2>2. PICK keep \in 1 .. ckptLsn : s \in Removable(keep)
    BY <2>1
  <2>3. PICK l \in Lsns : seg[l] = s + 1 /\ l <= keep
    BY <2>2
  <2>4. ckptLsn \in Lsns /\ l <= ckptLsn
    BY <2>2, <2>3 DEF TypeOK, LogShape
  <2>5. seg[l] <= seg[ckptLsn] /\ s \in Nat
    BY <2>2, <2>3, <2>4 DEF TypeOK, LogShape
  <2> QED
    BY <2>3, <2>4, <2>5 DEF TypeOK
<1> QED
  BY <1>1, <1>2, <1>3, <1>4, <1>5, <1>6, <1>7, <1>8, <1>9

\* records_from only reads the log.
LEMMA ShipInv ==
  ASSUME IInv, Ship, UNCHANGED segCap
  PROVE  IInv'
<1> USE DEF IInv, Ship, sealer, logVars, Safe,
        Outstanding
<1>1. TypeOK'
  BY DEF TypeOK, PCs
<1>2. LogShape'
  BY DEF LogShape, TypeOK
<1>3. RotationHoldsMutex'
  BY DEF RotationHoldsMutex, Rotating, TypeOK, LogShape
<1>4. HandedAreSafe'
  BY DEF HandedAreSafe, LastHanded, TypeOK, LogShape, RotationHoldsMutex, Rotating
<1>5. TargetsAllocated'
  BY DEF TargetsAllocated, Syncing, TypeOK
<1>6. CaptureCovers'
  BY DEF CaptureCovers, TypeOK, LogShape
<1>7. DurableOrOutstanding'
  BY DEF DurableOrOutstanding, TypeOK, LogShape
<1>8. AckedBehindFrontier'
  BY DEF AckedBehindFrontier, TypeOK, LogShape
<1>9. RemovedBeforeCkpt'
  BY DEF RemovedBeforeCkpt, TypeOK, LogShape
<1> QED
  BY <1>1, <1>2, <1>3, <1>4, <1>5, <1>6, <1>7, <1>8, <1>9

----------------------------------------------------------------------------
(* The theorems *)

\* A new log.
LEMMA InitInv == Init => IInv
<1> SUFFICES ASSUME Init PROVE IInv
  OBVIOUS
<1> USE DEF Init
<1>1. TypeOK
  <2>1. /\ nextLsn \in 1 .. MaxLsn + 1 /\ seg \in [Lsns -> Nat]
        /\ active \in Nat \ {0} /\ removed \subseteq 1 .. active - 1
    OBVIOUS
  <2>2. /\ pc \in [Threads -> PCs] /\ target \in [Threads -> Nat]
        /\ flushed \in [Committers -> [lsn : Nat, seg : Nat]]
    BY DEF PCs, NoFlush
  <2> QED
    BY <2>1, <2>2 DEF TypeOK
<1>2. LogShape /\ HandedAreSafe /\ DurableOrOutstanding
  BY DEF LogShape, HandedAreSafe, DurableOrOutstanding
<1>3. RotationHoldsMutex
  BY DEF RotationHoldsMutex, Rotating
<1>4. TargetsAllocated /\ CaptureCovers
  BY DEF TargetsAllocated, CaptureCovers, Syncing
<1>5. AckedBehindFrontier /\ RemovedBeforeCkpt
  BY DEF AckedBehindFrontier, RemovedBeforeCkpt
<1> QED
  BY <1>1, <1>2, <1>3, <1>4, <1>5 DEF IInv

\* Every step keeps the invariant.
LEMMA StepInv == IInv /\ [Next]_vars => IInv'
<1> SUFFICES ASSUME IInv, [Next]_vars PROVE IInv'
  OBVIOUS
<1>1. CASE UNCHANGED vars
  <2> USE <1>1 DEF vars, IInv, logVars, sealer
  <2>1. LogShape' /\ HandedAreSafe' /\ DurableOrOutstanding'
        /\ AckedBehindFrontier' /\ RemovedBeforeCkpt'
    BY LogUnmoved
  <2>2. TypeOK' /\ RotationHoldsMutex' /\ TargetsAllocated'
    BY DEF TypeOK, RotationHoldsMutex, TargetsAllocated
  <2>3. CaptureCovers'
    BY DEF CaptureCovers, Safe, Outstanding
  <2> QED
    BY <2>1, <2>2, <2>3
<1>2. CASE Next
  <2> HIDE DEF Lsns, Threads
  <2> UNCHANGED segCap
    BY <1>2 DEF Next
  <2>1. ASSUME NEW t \in Committers, NEW isCommit \in BOOLEAN,
               RotateForAppend(t, isCommit)
        PROVE  IInv'
    BY <2>1, RotateOpenInv DEF RotateForAppend, Rotating, Threads
  <2>2. CASE CkptRotate
    BY <2>2, RotateOpenInv DEF CkptRotate, Rotating, Threads
  <2>3. ASSUME NEW t \in Committers, CommitterStep(t)
        PROVE  IInv'
    BY <2>3, RotateSubmitInv, SyncCoveredInv, SyncElectInv, SyncBehindInv,
       SyncWaitInv, GroupCaptureInv, GroupFsyncInv, GroupFsyncFailsInv,
       GroupAdvanceInv DEF CommitterStep
  <2>4. CASE CkptStep
    BY <2>2, <2>4, CkptSyncInv, CkptFsyncInv, CkptLogInv, CkptRotateSubmitInv,
       CkptLogFailsInv, CkptTruncDrainInv, CkptTruncateInv DEF CkptStep
  <2>5. CASE SealerStep
    BY <2>5, SealerTakeInv, SealerDoneInv, SealerFailsInv DEF SealerStep
  <2> QED
    BY <1>2, <2>1, <2>3, <2>4, <2>5, AppendInv, RotateFailsInv, CkptBeginInv,
       ShipInv DEF Next, Step
<1> QED
  BY <1>1, <1>2

\* The inductive invariant holds in every reachable state.
THEOREM Invariance == Spec => []IInv
BY InitInv, StepInv, PTL DEF Spec

\* Wal::sync_up_to: when no background fsync is due or has failed, every record
\* of every commit that was reported is on disk.
AckedDurableWhenDrained ==
  (\A s \in Nat : ~Outstanding(s)) =>
     \A a \in acked : \A l \in Lsns : l <= a => l \in synced

\* WalInner.durable_lsn never moves back, whichever of the two fsync paths
\* writes it.
FrontierAdvances == durable <= durable'

\* The state of the log, the barrier and the sealer is well typed.
THEOREM TypeCorrect == Spec => []TypeOK
BY Invariance, PTL DEF IInv

\* rotate_segment, group_fsync, fsync_locked: whatever the interleaving, a
\* record behind durable_lsn is on disk or in a segment the sealer still owes.
THEOREM FrontierIsCovered == Spec => []DurableOrOutstanding
BY Invariance, PTL DEF IInv

\* truncate_before never deletes a segment that holds a record from the last
\* checkpoint on.
THEOREM TailSurvivesTruncation == Spec => []TruncateKeepsTail
<1>1. IInv => TruncateKeepsTail
  <2> SUFFICES ASSUME IInv, NEW l \in Lsns, ckptLsn <= l, l < nextLsn, ckptLsn > 0,
                      seg[l] \in removed
               PROVE  FALSE
    BY DEF TruncateKeepsTail
  <2>1. ckptLsn \in Lsns
    BY DEF IInv, TypeOK
  <2>2. seg[ckptLsn] <= seg[l]
    BY <2>1 DEF IInv, LogShape
  <2>3. seg[l] < seg[ckptLsn]
    BY DEF IInv, RemovedBeforeCkpt
  <2> QED
    BY <2>1, <2>2, <2>3 DEF IInv, TypeOK
<1> QED
  BY <1>1, Invariance, PTL

\* Engine::commit's promise, for a log whose sealer is idle and has not failed.
THEOREM AckedCommitsDurable == Spec => []AckedDurableWhenDrained
<1>1. IInv => AckedDurableWhenDrained
  <2> SUFFICES ASSUME IInv, \A s \in Nat : ~Outstanding(s), NEW a \in acked,
                      NEW l \in Lsns, l <= a
               PROVE  l \in synced
    BY DEF AckedDurableWhenDrained
  <2>1. l <= durable
    BY DEF IInv, TypeOK, AckedBehindFrontier
  <2>2. seg[l] \in Nat
    BY DEF IInv, TypeOK
  <2> QED
    BY <2>1, <2>2 DEF IInv, DurableOrOutstanding
<1> QED
  BY <1>1, Invariance, PTL

\* No step lowers the durable frontier.
THEOREM FrontierMonotone == Spec => [][FrontierAdvances]_vars
<1>1. ASSUME IInv, Next PROVE FrontierAdvances
  <2> USE DEF FrontierAdvances
  <2>1. durable \in Nat /\ nextLsn \in Nat /\ durable < nextLsn
    BY <1>1 DEF IInv, TypeOK, LogShape
  <2>2. CASE UNCHANGED durable
    BY <2>1, <2>2
  <2>3. ASSUME NEW t \in Committers, GroupAdvance(t) PROVE FrontierAdvances
    <3>1. flushed[t].lsn \in Nat
      BY <1>1 DEF IInv, TypeOK
    <3> QED
      BY <2>1, <2>3, <3>1 DEF GroupAdvance
  <2>4. CASE CkptFsync
    BY <2>1, <2>4 DEF CkptFsync, FsyncLocked, FsyncFails
  <2>5. CASE CkptLogged
    BY <2>1, <2>5 DEF CkptLogged, FsyncLocked, FsyncFails
  <2>6. ASSUME NEW t \in Committers, CommitterStep(t)
        PROVE  UNCHANGED durable \/ GroupAdvance(t)
    BY <2>6 DEF CommitterStep, RotateSubmit, SyncCovered, SyncElect, SyncBehind,
       SyncWait, GroupCapture, GroupFsync, GroupFsyncFails, FsyncFails
  <2>7. CASE CkptStep
    BY <2>2, <2>4, <2>5, <2>7 DEF CkptStep, CkptSync, CkptLog, CkptRotate,
       RotateOpen, CkptRotateSubmit, CkptLogFails, CkptTruncDrain,
       CkptDrainTarget, CkptTruncate
  <2>8. ASSUME NEW t \in Committers, NEW isCommit \in BOOLEAN,
               Append(t, isCommit) \/ RotateForAppend(t, isCommit)
        PROVE  UNCHANGED durable
    BY <2>8 DEF Append, RotateForAppend, RotateOpen
  <2>9. ASSUME NEW t \in Threads, RotateFails(t) PROVE UNCHANGED durable
    BY <2>9 DEF RotateFails, FsyncFails
  <2>10. SealerStep \/ CkptBegin \/ Ship => UNCHANGED durable
    BY DEF SealerStep, SealerTake, SealerDone, SealerFails, CkptBegin,
       CkptDrainTarget, Ship
  <2> QED
    BY <1>1, <2>2, <2>3, <2>6, <2>7, <2>8, <2>9, <2>10 DEF Next, Step
<1>2. IInv /\ [Next]_vars => [FrontierAdvances]_vars
  BY <1>1
<1> QED
  BY <1>2, Invariance, PTL DEF Spec
============================================================================
