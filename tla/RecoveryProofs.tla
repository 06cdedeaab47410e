--------------------------- MODULE RecoveryProofs ---------------------------
(***************************************************************************)
(* Proofs about Recovery for any number of pages, slots, xids, log records *)
(* and crashes.                                                            *)
(*                                                                         *)
(* An xid is covered by a prefix of the log when the control file's        *)
(* next_xid is past it or the prefix holds its WAL_TXN_BEGIN.  The         *)
(* invariant says how much of the log covers each place an xid can be in:  *)
(* a page on disk needs no more than the durable prefix, and so does a     *)
(* page in memory that may be stolen; a log record needs what is before    *)
(* it, because a crash may cut the log right after it and recovery will    *)
(* then write its xids, or those of its page image, to a page again.       *)
(***************************************************************************)
EXTENDS Recovery, FiniteSetTheorems, SequenceTheorems, WellFoundedInduction, TLAPS

Xids == 2..MaxXid

RecordTypes == {"", "begin", "commit", "txnBegin", "txnCommit", "txnAbort", "ckpt", "fpi",
                "vacuum", "compact", "insert", "batch", "stamp", "xmaxBatch", "hot"}

\* Row versions, pages, log records whose xids are in X.
RowOf(X)    == [st : {"live", "dead", "unused"}, xmin : X, xmax : X]
PageOf(X)   == [lsn : Nat, slots : Seq(RowOf(X))]
RecordOf(X) == [lsn : Nat, typ : RecordTypes, mini : Nat, page : Nat, val : X,
                old : Seq(Nat), new : Seq(Nat), was : X, img : PageOf(X)]
EntryType   == [page : load.pages, old : Seq(Nat), new : Seq(Nat)]

\* WAL_TXN_BEGIN of x is among the first n records.
Begun(recs, n, x) == \E i \in 1..n : recs[i].typ = "txnBegin" /\ recs[i].mini = x

CoveredBy(recs, saved, n) == {x \in Nat : x < saved \/ Begun(recs, n, x)}
Covered(n) == CoveredBy(log, control.nextXid, n)

TypeInv ==
  /\ load \in LoadType
  /\ log \in Seq(RecordOf(Nat)) /\ durable \in 0..Len(log)
  /\ (state = "up" => durLsn \in Nat) /\ nextLsn \in Nat /\ nextMini \in Nat /\ nextXid \in Nat
  /\ mem \in [load.pages -> PageOf(Nat)] /\ disk \in [load.pages -> PageOf(Nat)]
  /\ dirty \subseteq load.pages
  /\ control \in [ckpt : Nat, tail : Nat, nextXid : Nat]
  /\ txn \in [Xids -> {"none", "active", "aborting", "done"}]
  /\ undo \in [Xids -> Seq(EntryType)]
  /\ open \in [{0} \cup Xids -> [mini : Nat, page : Nat, undo : Seq(EntryType)]]
  /\ ckpt \in [pc : {"idle", "flush", "log", "control"}, lsn : Nat, xid : Nat]
  /\ state \in {"up", "recovering", "failed"}

\* What a record stamps or holds was begun before it.
LogOK ==
  \A i \in 1..Len(log) :
    /\ log[i] \in RecordOf(Covered(i))
    /\ log[i].typ = "txnBegin" => log[i].mini <= MaxXid

DiskOK == \A p \in load.pages : disk[p] \in PageOf(Covered(durable))

\* find_victim's test (D5) is enough: a page it lets go has durable xids only.
MemOK ==
  \A p \in load.pages :
    /\ mem[p] \in PageOf(Covered(Len(log)))
    /\ mem[p].lsn <= durLsn => mem[p] \in PageOf(Covered(durable))

ActiveOK == \A x \in Active : x \in Covered(Len(log))

\* The counters of an open engine are past everything it has logged.
CountersOK ==
  /\ control.nextXid >= 2
  /\ state = "up" =>
       /\ durLsn < nextLsn /\ nextXid >= control.nextXid
       /\ \A i \in 1..Len(log) : log[i].typ = "txnBegin" => log[i].mini < nextXid

\* The slots an undo entry has to clear are there.
EntriesOK(entries) ==
  \A k \in DOMAIN entries : \A i \in DOMAIN entries[k].old :
    entries[k].old[i] \in DOMAIN mem[entries[k].page].slots

UndoOK ==
  /\ \A x \in Xids : EntriesOK(undo[x])
  /\ \A o \in {0} \cup Xids : EntriesOK(open[o].undo)

Steps == {"redo", "undo", "unstamp", "kill"}

\* Recovery replays records of the log, all of it durable, with nothing running.
RecoveringOK ==
  /\ state # "up" => /\ durable = Len(log) /\ ckpt.pc = "idle"
                     /\ undo = [x \in Xids |-> <<>>] /\ open = [o \in {0} \cup Xids |-> NoMini]
                     /\ txn = [x \in Xids |-> "none"]
  /\ \A item \in todo : item.step \in Steps /\ item.r \in ToSet(log)
  /\ state = "up" => todo = {}

\* No transaction begins while a checkpoint runs, so the next_xid it has read
\* stays the right one; its record is durable before the control file names it.
CkptOK ==
  /\ ckpt.pc # "idle" => ckpt.xid = nextXid
  /\ ckpt.pc = "control" => \E i \in 1..durable : log[i].typ = "ckpt" /\ log[i].lsn = ckpt.lsn

XidInv ==
  /\ TypeInv /\ LogOK /\ DiskOK /\ MemOK /\ ActiveOK /\ CountersOK /\ UndoOK
  /\ RecoveringOK /\ CkptOK
-----------------------------------------------------------------------------
(* Numbers: least and greatest elements, the counter Engine::open computes. *)

\* Every nonempty set of naturals has a least element.
LEMMA LeastNat ==
  ASSUME NEW S \in SUBSET Nat, S # {}
  PROVE  \E m \in S : \A k \in S : m <= k
<1> DEFINE R == OpToRel(<, Nat)
<1>1. IsWellFoundedOn(R, Nat)
  BY NatLessThanWellFounded
<1>2. \A y, z \in Nat : <<y, z>> \in R <=> y < z
  BY DEF OpToRel
<1> HIDE DEF R
<1>3. PICK x \in S : \A y \in S : ~(<<y, x>> \in R)
  BY <1>1, WFMin
<1>4. \A y \in S : ~(y < x)
  BY <1>2, <1>3
<1> QED BY <1>4

LEMMA MinFact ==
  ASSUME NEW S \in SUBSET Nat, S # {}
  PROVE  Min(S) \in S /\ \A k \in S : Min(S) <= k
<1>1. \E m \in S : \A k \in S : m <= k
  BY LeastNat
<1> QED BY <1>1 DEF Min

\* A nonempty set of naturals with a bound has a greatest element.
LEMMA MaxFact ==
  ASSUME NEW S \in SUBSET Nat, S # {}, NEW b \in Nat, \A k \in S : k <= b
  PROVE  Max(S) \in S /\ \A k \in S : k <= Max(S)
<1> DEFINE above == {n \in Nat : \A k \in S : k <= n}
<1>1. PICK m \in above : \A n \in above : m <= n
  BY LeastNat
<1>2. m \in S
  <2> SUFFICES ASSUME m \notin S PROVE FALSE
    OBVIOUS
  <2>1. \A k \in S : k <= m - 1
    BY <1>1
  <2>2. PICK k \in S : TRUE
    OBVIOUS
  <2>3. m - 1 \in above
    BY <2>1, <2>2, <1>1
  <2> QED BY <2>3, <1>1
<1>3. \E y \in S : \A k \in S : y >= k
  BY <1>1, <1>2
<1>4. Max(S) \in S /\ \A k \in S : Max(S) >= k
  BY <1>3 DEF Max
<1> QED BY <1>4

\* recover_next_xid: past what the control file saved and every begin record.
LEMMA Resumed ==
  ASSUME NEW recs \in Seq(RecordOf(Nat)), NEW saved \in Nat,
         \A i \in 1..Len(recs) : recs[i].typ = "txnBegin" => recs[i].mini <= MaxXid
  PROVE  LET next == RecoverNextXid(recs, saved) IN
         /\ next \in Nat /\ saved <= next
         /\ \A i \in 1..Len(recs) : recs[i].typ = "txnBegin" => recs[i].mini < next
<1> DEFINE begins == {q \in ToSet(recs) : q.typ = "txnBegin"}
           S == {r.mini + 1 : r \in begins} \cup {saved}
<1>0. DOMAIN recs = 1..Len(recs) /\ \A i \in 1..Len(recs) : recs[i] \in RecordOf(Nat)
  BY LenProperties
<1>1. \A q \in begins : q.mini \in Nat /\ q.mini <= MaxXid
  BY <1>0 DEF ToSet, RecordOf
<1>2. S \in SUBSET Nat /\ S # {}
  BY <1>1
<1>3. MaxXid + 1 + saved \in Nat
  BY RecoveryAssumption
<1>4. \A k \in S : k <= MaxXid + 1 + saved
  BY <1>1, <1>3, RecoveryAssumption
<1> HIDE DEF S
<1>5. Max(S) \in S /\ \A k \in S : k <= Max(S)
  BY <1>2, <1>3, <1>4, MaxFact
<1> USE DEF S
<1>6. RecoverNextXid(recs, saved) = Max(S)
  BY DEF RecoverNextXid
<1>7. saved <= Max(S)
  BY <1>5
<1>8. ASSUME NEW i \in 1..Len(recs), recs[i].typ = "txnBegin" PROVE recs[i].mini < Max(S)
  <2>1. recs[i] \in begins
    BY <1>0, <1>8 DEF ToSet
  <2>2. recs[i].mini + 1 \in S
    BY <2>1
  <2>3. recs[i].mini + 1 <= Max(S) /\ Max(S) \in Nat
    BY <2>2, <1>2, <1>5
  <2> QED BY <2>1, <2>3, <1>1
<1> HIDE DEF S
<1> QED BY <1>2, <1>5, <1>6, <1>7, <1>8

-----------------------------------------------------------------------------
(* Pages and records with xids of a set.                                   *)

LEMMA RowsGrow ==
  ASSUME NEW X, NEW Y, X \subseteq Y
  PROVE  /\ \A s \in Seq(RowOf(X)) : s \in Seq(RowOf(Y))
         /\ \A pg \in PageOf(X) : pg \in PageOf(Y)
         /\ \A r \in RecordOf(X) : r \in RecordOf(Y)
<1>1. RowOf(X) \subseteq RowOf(Y)
  BY DEF RowOf
<1>2. \A s \in Seq(RowOf(X)) : s \in Seq(RowOf(Y))
  BY <1>1, SeqMonotonic
<1>3. \A pg \in PageOf(X) : pg \in PageOf(Y)
  BY <1>2 DEF PageOf
<1> QED BY <1>2, <1>3 DEF RecordOf

\* A longer prefix of the log covers more.
LEMMA CoverGrows ==
  ASSUME NEW recs, NEW saved, NEW m \in Int, NEW n \in Int, m <= n
  PROVE  CoveredBy(recs, saved, m) \subseteq CoveredBy(recs, saved, n)
BY DEF CoveredBy, Begun

LEMMA SlotsFact ==
  ASSUME NEW X, NEW slots \in Seq(RowOf(X))
  PROVE  /\ DOMAIN slots = 1..Len(slots) /\ Len(slots) \in Nat
         /\ NextSlot(slots) \in 1..(Len(slots) + 1)
<1> DEFINE unused == {s \in DOMAIN slots : slots[s].st = "unused"}
<1>1. DOMAIN slots = 1..Len(slots) /\ Len(slots) \in Nat
  BY LenProperties
<1>2. CASE unused = {}
  BY <1>1, <1>2 DEF NextSlot
<1>3. CASE unused # {}
  <2>1. unused \in SUBSET Nat
    BY <1>1
  <2>2. Min(unused) \in unused
    BY <1>3, <2>1, MinFact
  <2> QED BY <1>1, <1>3, <2>2 DEF NextSlot
<1> QED BY <1>1, <1>2, <1>3

\* insert_versioned adds one xid and takes no line pointer away.
LEMMA InsertFact ==
  ASSUME NEW X, 0 \in X, NEW slots \in Seq(RowOf(X)), NEW x \in X
  PROVE  InsertRow(slots, x) \in Seq(RowOf(X)) /\ DOMAIN slots \subseteq DOMAIN InsertRow(slots, x)
<1> DEFINE s == NextSlot(slots)
           row == [st |-> "live", xmin |-> x, xmax |-> 0]
<1>1. row \in RowOf(X)
  BY DEF RowOf
<1>2. s \in 1..(Len(slots) + 1) /\ Len(slots) \in Nat /\ DOMAIN slots = 1..Len(slots)
  BY SlotsFact
<1>3. InsertRow(slots, x) = IF s > Len(slots) THEN Append(slots, row) ELSE [slots EXCEPT ![s] = row]
  BY DEF InsertRow
<1> HIDE DEF s, row
<1>4. CASE s > Len(slots)
  <2>1. /\ Append(slots, row) \in Seq(RowOf(X))
        /\ Len(Append(slots, row)) = Len(slots) + 1
    BY <1>1, AppendProperties
  <2>2. DOMAIN Append(slots, row) = 1..(Len(slots) + 1)
    BY <2>1, LenProperties
  <2> QED BY <1>2, <1>3, <1>4, <2>1, <2>2
<1>5. CASE ~(s > Len(slots))
  <2>1. s \in 1..Len(slots)
    BY <1>2, <1>5
  <2>2. [slots EXCEPT ![s] = row] \in Seq(RowOf(X))
    BY <1>1, <2>1, ExceptSeq
  <2> QED BY <1>3, <1>5, <2>2
<1> QED BY <1>4, <1>5

LEMMA MapSlots ==
  ASSUME NEW X, NEW slots \in Seq(RowOf(X)), NEW t, DOMAIN t = DOMAIN slots,
         t = [s \in DOMAIN slots |-> t[s]], \A s \in DOMAIN slots : t[s] \in RowOf(X)
  PROVE  t \in Seq(RowOf(X))
<1>1. DOMAIN slots = 1..Len(slots) /\ Len(slots) \in Nat
  BY LenProperties
<1>2. t \in [1..Len(slots) -> RowOf(X)]
  BY <1>1
<1> QED BY <1>1, <1>2, SeqDef

\* What the page operations write: the xid they are given, or 0.
LEMMA StampFact ==
  ASSUME NEW X, NEW slots \in Seq(RowOf(X)), NEW ss, NEW x \in X
  PROVE  SetXmax(slots, ss, x) \in Seq(RowOf(X)) /\ DOMAIN SetXmax(slots, ss, x) = DOMAIN slots
<1> DEFINE t == SetXmax(slots, ss, x)
<1>1. \A s \in DOMAIN slots : slots[s] \in RowOf(X)
  BY LenProperties
<1>2. \A s \in DOMAIN slots : [slots[s] EXCEPT !.xmax = x] \in RowOf(X)
  BY <1>1 DEF RowOf
<1>3. DOMAIN t = DOMAIN slots /\ t = [s \in DOMAIN slots |-> t[s]]
  BY DEF SetXmax
<1>4. \A s \in DOMAIN slots : t[s] \in RowOf(X)
  BY <1>1, <1>2 DEF SetXmax
<1> QED BY <1>3, <1>4, MapSlots

LEMMA ClearFact ==
  ASSUME NEW X, 0 \in X, NEW slots \in Seq(RowOf(X)), NEW ss
  PROVE  /\ Delete(slots, ss) \in Seq(RowOf(X))
         /\ MarkDead(slots, ss) \in Seq(RowOf(X)) /\ DOMAIN MarkDead(slots, ss) = DOMAIN slots
<1>1. \A s \in DOMAIN slots : slots[s] \in RowOf(X)
  BY LenProperties
<1>2. Free("unused") \in RowOf(X) /\ Free("dead") \in RowOf(X)
  BY DEF Free, RowOf
<1>3. Delete(slots, ss) \in Seq(RowOf(X))
  <2> DEFINE t == Delete(slots, ss)
  <2>1. DOMAIN t = DOMAIN slots /\ t = [s \in DOMAIN slots |-> t[s]]
    BY DEF Delete
  <2>2. \A s \in DOMAIN slots : t[s] \in RowOf(X)
    BY <1>1, <1>2 DEF Delete
  <2> QED BY <2>1, <2>2, MapSlots
<1>4. MarkDead(slots, ss) \in Seq(RowOf(X)) /\ DOMAIN MarkDead(slots, ss) = DOMAIN slots
  <2> DEFINE t == MarkDead(slots, ss)
  <2>1. DOMAIN t = DOMAIN slots /\ t = [s \in DOMAIN slots |-> t[s]]
    BY DEF MarkDead
  <2>2. \A s \in DOMAIN slots : t[s] \in RowOf(X)
    BY <1>1, <1>2 DEF MarkDead
  <2> QED BY <2>1, <2>2, MapSlots
<1> QED BY <1>3, <1>4

LEMMA CompactFact ==
  ASSUME NEW X, 0 \in X, NEW slots \in Seq(RowOf(X))
  PROVE  Compact(slots) \in Seq(RowOf(X)) /\ DOMAIN Compact(slots) = DOMAIN slots
<1> DEFINE t == Compact(slots)
<1>1. \A s \in DOMAIN slots : slots[s] \in RowOf(X)
  BY LenProperties
<1>2. Free("unused") \in RowOf(X)
  BY DEF Free, RowOf
<1>3. DOMAIN t = DOMAIN slots /\ t = [s \in DOMAIN slots |-> t[s]]
  BY DEF Compact
<1>4. \A s \in DOMAIN slots : t[s] \in RowOf(X)
  BY <1>1, <1>2 DEF Compact
<1> QED BY <1>3, <1>4, MapSlots

\* What a statement does to its page.
LEMMA ChangedFact ==
  ASSUME NEW X, 0 \in X, NEW slots \in Seq(RowOf(X)), NEW r, r.val \in X
  PROVE  Changed(slots, r) \in Seq(RowOf(X)) /\ DOMAIN slots \subseteq DOMAIN Changed(slots, r)
<1> DEFINE Filled(sl, i) == IF i \in DOMAIN r.new THEN InsertRow(sl, r.val) ELSE sl
           a == SetXmax(slots, r.old, r.val)
           b == Filled(a, 1)
           c == Filled(b, 2)
<1>1. a \in Seq(RowOf(X)) /\ DOMAIN a = DOMAIN slots
  BY StampFact
<1> HIDE DEF a
<1>2. b \in Seq(RowOf(X)) /\ DOMAIN a \subseteq DOMAIN b
  BY <1>1, InsertFact
<1> HIDE DEF b
<1>3. c \in Seq(RowOf(X)) /\ DOMAIN b \subseteq DOMAIN c
  BY <1>2, InsertFact
<1>4. Changed(slots, r) = c
  BY DEF Changed, a, b
<1> HIDE DEF c
<1> QED BY <1>1, <1>2, <1>3, <1>4

\* What recovery does with a record brings only the record's xids to a page.
LEMMA AppliedFact ==
  ASSUME NEW X, 0 \in X, NEW item, item.r \in RecordOf(X), NEW pg \in PageOf(X),
         item.step \in {"redo", "undo", "unstamp", "kill"}
  PROVE  Applied(item, pg) \in PageOf(X)
<1> DEFINE r == item.r
           slots == pg.slots
<1>1. slots \in Seq(RowOf(X)) /\ pg.lsn \in Nat
  BY DEF PageOf
<1>2. r.val \in X /\ r.was \in X /\ r.lsn \in Nat /\ r.img \in PageOf(X) /\ r.img.slots \in Seq(RowOf(X))
  BY DEF RecordOf, PageOf
<1>3. \A t \in Seq(RowOf(X)) : [lsn |-> r.lsn, slots |-> t] \in PageOf(X)
  BY <1>2 DEF PageOf
<1>4. \A t \in Seq(RowOf(X)) : [pg EXCEPT !.slots = t] \in PageOf(X)
  BY DEF PageOf
<1> DEFINE Grown(sl, i) == IF i \in DOMAIN r.new /\ r.new[i] > Len(sl)
                           THEN InsertRow(sl, r.val) ELSE sl
           a == SetXmax(slots, r.old, r.val)
           b == Grown(a, 1)
           c == Grown(b, 2)
<1> HIDE DEF r, slots
<1>5. a \in Seq(RowOf(X))
  BY <1>1, <1>2, StampFact
<1> HIDE DEF a
<1>6. b \in Seq(RowOf(X))
  BY <1>2, <1>5, InsertFact
<1> HIDE DEF b
<1>7. c \in Seq(RowOf(X))
  BY <1>2, <1>6, InsertFact
<1> HIDE DEF c
<1>8. Redo(r, pg) \in PageOf(X)
  <2>1. InsertRow(slots, r.val) \in Seq(RowOf(X))
    BY <1>1, <1>2, InsertFact
  <2>2. MarkDead(slots, r.old) \in Seq(RowOf(X))
    BY <1>1, ClearFact
  <2>3. \/ Redo(r, pg) = r.img \/ Redo(r, pg) = pg
        \/ Redo(r, pg) = [lsn |-> r.lsn, slots |-> InsertRow(slots, r.val)]
        \/ Redo(r, pg) = [lsn |-> r.lsn, slots |-> a]
        \/ Redo(r, pg) = [lsn |-> r.lsn, slots |-> c]
        \/ Redo(r, pg) = [lsn |-> r.lsn, slots |-> MarkDead(slots, r.old)]
        \/ Redo(r, pg) = [lsn |-> r.lsn, slots |-> r.img.slots]
    BY DEF Redo, a, b, c, slots
  <2> QED BY <1>2, <1>3, <1>5, <1>7, <2>1, <2>2, <2>3
<1>9. Undo(r, pg) \in PageOf(X)
  <2>1. Delete(slots, r.new) \in Seq(RowOf(X))
    BY <1>1, ClearFact
  <2>2. SetXmax(Delete(slots, r.new), r.old, r.was) \in Seq(RowOf(X))
    BY <1>2, <2>1, StampFact
  <2> QED BY <1>4, <2>2 DEF Undo, slots
<1>10. Unstamp(r, pg) \in PageOf(X)
  <2>1. Delete(slots, r.new) \in Seq(RowOf(X))
    BY <1>1, ClearFact
  <2>2. SetXmax(Delete(slots, r.new), r.old, 0) \in Seq(RowOf(X))
    BY <2>1, StampFact
  <2> QED BY <1>4, <2>2 DEF Unstamp, slots
<1>11. Kill(r, pg) \in PageOf(X)
  <2>1. SetXmax(slots, r.new, r.val) \in Seq(RowOf(X))
    BY <1>1, <1>2, StampFact
  <2> QED BY <1>4, <2>1 DEF Kill, slots
<1> QED BY <1>8, <1>9, <1>10, <1>11 DEF Applied, r
-----------------------------------------------------------------------------
(* The log grows, and with it what it covers.                              *)

LEMMA CoverFacts ==
  ASSUME TypeInv, CountersOK, NEW n \in Int
  PROVE  /\ 0 \in Covered(n) /\ 1 \in Covered(n) /\ Covered(n) \subseteq Nat
         /\ n <= Len(log) => Covered(n) \subseteq Covered(Len(log))
         /\ durable <= n => Covered(durable) \subseteq Covered(n)
<1>1. Len(log) \in Nat /\ durable \in Int /\ control.nextXid \in Nat
  BY DEF TypeInv
<1>2. 0 \in Covered(n) /\ 1 \in Covered(n) /\ Covered(n) \subseteq Nat
  BY <1>1 DEF Covered, CoveredBy, CountersOK
<1>3. n <= Len(log) => Covered(n) \subseteq Covered(Len(log))
  BY <1>1, CoverGrows DEF Covered
<1>4. durable <= n => Covered(durable) \subseteq Covered(n)
  BY <1>1, CoverGrows DEF Covered
<1> QED BY <1>2, <1>3, <1>4

LEMMA LogGrows ==
  ASSUME TypeInv, CountersOK, LogOK, NEW recs \in Seq(RecordOf(Covered(Len(log)))),
         \A i \in 1..Len(recs) : recs[i].typ = "txnBegin" => recs[i].mini <= MaxXid,
         Logged(recs), control' = control
  PROVE  /\ Len(recs) \in Nat /\ Len(log) \in Nat
         /\ log' \in Seq(RecordOf(Nat)) /\ Len(log') = Len(log) + Len(recs)
         /\ nextLsn' = nextLsn + Len(recs) /\ nextLsn' \in Nat
         /\ \A i \in 1..Len(log) : log'[i] = log[i]
         /\ \A i \in 1..Len(recs) : /\ log'[Len(log) + i].typ = recs[i].typ
                                    /\ log'[Len(log) + i].mini = recs[i].mini
                                    /\ log'[Len(log) + i].lsn = nextLsn + i - 1
         /\ \A n \in 0..Len(log) : Covered(n)' = Covered(n)
         /\ Covered(Len(log)) \subseteq Covered(Len(log))'
         /\ LogOK'
<1> DEFINE C == Covered(Len(log))
           new == Numbered(recs)
<1>1. Len(log) \in Nat /\ DOMAIN log = 1..Len(log) /\ log \in Seq(RecordOf(Nat)) /\ nextLsn \in Nat
  BY LenProperties DEF TypeInv
<1>2. Len(recs) \in Nat /\ DOMAIN recs = 1..Len(recs) /\ \A i \in 1..Len(recs) : recs[i] \in RecordOf(C)
  BY LenProperties
<1>3. C \subseteq Nat
  BY <1>1, CoverFacts
<1> HIDE DEF C
<1>4. /\ new \in [1..Len(recs) -> RecordOf(C)]
      /\ \A i \in 1..Len(recs) : new[i].typ = recs[i].typ /\ new[i].mini = recs[i].mini
                                 /\ new[i].lsn = nextLsn + i - 1
  <2> SUFFICES ASSUME NEW i \in 1..Len(recs)
               PROVE  /\ [recs[i] EXCEPT !.lsn = nextLsn + i - 1] \in RecordOf(C)
                      /\ [recs[i] EXCEPT !.lsn = nextLsn + i - 1].typ = recs[i].typ
                      /\ [recs[i] EXCEPT !.lsn = nextLsn + i - 1].mini = recs[i].mini
                      /\ [recs[i] EXCEPT !.lsn = nextLsn + i - 1].lsn = nextLsn + i - 1
    BY <1>2 DEF Numbered
  <2>1. nextLsn + i - 1 \in Nat
    BY <1>1
  <2> QED BY <1>2, <2>1 DEF RecordOf
<1>5. new \in Seq(RecordOf(C)) /\ Len(new) = Len(recs)
  <2>1. new \in Seq(RecordOf(C))
    BY <1>2, <1>4, SeqDef
  <2> QED BY <1>2, <1>4, <2>1, LenProperties
<1>6. new \in Seq(RecordOf(Nat))
  BY <1>3, <1>5, RowsGrow, SeqMonotonic
<1> HIDE DEF new
<1>7. log' = log \o new /\ nextLsn' = nextLsn + Len(recs)
  BY DEF Logged, new
<1>8. /\ log' \in Seq(RecordOf(Nat)) /\ Len(log') = Len(log) + Len(recs)
      /\ \A i \in 1..Len(log) + Len(recs) :
            log'[i] = IF i <= Len(log) THEN log[i] ELSE new[i - Len(log)]
  <2>1. /\ log \o new \in Seq(RecordOf(Nat)) /\ Len(log \o new) = Len(log) + Len(new)
        /\ \A i \in 1..Len(log) + Len(new) :
              (log \o new)[i] = IF i <= Len(log) THEN log[i] ELSE new[i - Len(log)]
    BY ONLY <1>1, <1>6, ConcatProperties
  <2> QED BY ONLY <1>5, <1>7, <2>1
<1>9. \A i \in 1..Len(log) : log'[i] = log[i]
  BY <1>1, <1>2, <1>8
<1>10. \A i \in 1..Len(recs) : log'[Len(log) + i] = new[i]
  <2> SUFFICES ASSUME NEW i \in 1..Len(recs) PROVE log'[Len(log) + i] = new[i]
    OBVIOUS
  <2>1. Len(log) + i \in 1..Len(log) + Len(recs) /\ ~(Len(log) + i <= Len(log)) /\ (Len(log) + i) - Len(log) = i
    BY <1>1, <1>2
  <2> QED BY <1>8, <2>1
<1>11. \A n \in 0..Len(log) : Covered(n)' = Covered(n)
  BY <1>1, <1>9 DEF Covered, CoveredBy, Begun
<1>12. \A n \in Nat : Len(log) <= n => C \subseteq Covered(n)'
  BY <1>1, <1>9 DEF Covered, CoveredBy, Begun, C
<1>13. LogOK'
  <2> SUFFICES ASSUME NEW i \in 1..Len(log')
               PROVE  /\ log'[i] \in RecordOf(Covered(i)')
                      /\ log'[i].typ = "txnBegin" => log'[i].mini <= MaxXid
    BY DEF LogOK
  <2>1. CASE i <= Len(log)
    <3>1. i \in 1..Len(log) /\ log'[i] = log[i] /\ Covered(i)' = Covered(i)
      BY <1>1, <1>9, <1>11, <2>1
    <3> QED BY <3>1 DEF LogOK
  <2>2. CASE i > Len(log)
    <3> DEFINE j == i - Len(log)
    <3>1. j \in 1..Len(recs) /\ i = Len(log) + j /\ i \in Nat /\ Len(log) <= i
      BY <1>1, <1>2, <1>8, <2>2
    <3>2. log'[i] = new[j]
      BY <1>10, <3>1
    <3>3. new[j] \in RecordOf(C) /\ new[j].typ = recs[j].typ /\ new[j].mini = recs[j].mini
      BY <1>4, <3>1
    <3>4. C \subseteq Covered(i)'
      BY <1>12, <3>1
    <3>5. new[j] \in RecordOf(Covered(i)')
      BY <3>3, <3>4, RowsGrow
    <3> QED BY <3>1, <3>2, <3>3, <3>5
  <2> QED BY <1>1, <1>8, <2>1, <2>2
<1>14. C \subseteq Covered(Len(log))'
  <2>1. Len(log') \in Nat /\ Len(log) <= Len(log')
    BY <1>1, <1>2, <1>8
  <2>2. C \subseteq CoveredBy(log', control'.nextXid, Len(log'))
    BY <1>12, <2>1 DEF Covered
  <2> QED BY <2>2 DEF Covered
<1>15. nextLsn' \in Nat
  BY <1>1, <1>2, <1>7
<1> QED BY <1>1, <1>2, <1>4, <1>7, <1>8, <1>9, <1>10, <1>11, <1>13, <1>14, <1>15 DEF C

\* The pages stay as they are, and what covered them covers them still.
LEMMA PagesKept ==
  ASSUME XidInv, UNCHANGED <<load, mem, disk>>,
         Covered(Len(log)) \subseteq Covered(Len(log))',
         Covered(durable) \subseteq Covered(durable)',
         durLsn' = durLsn \/ Covered(Len(log)) \subseteq Covered(durable)'
  PROVE  DiskOK' /\ MemOK'
<1>1. ASSUME NEW q \in load.pages
      PROVE  /\ disk[q] \in PageOf(Covered(durable)')
             /\ mem[q] \in PageOf(Covered(Len(log))')
             /\ mem[q].lsn <= durLsn' => mem[q] \in PageOf(Covered(durable)')
  <2>1. disk[q] \in PageOf(Covered(durable)')
    BY RowsGrow DEF XidInv, DiskOK
  <2>2. mem[q] \in PageOf(Covered(Len(log)))
    BY DEF XidInv, MemOK
  <2>3. mem[q] \in PageOf(Covered(Len(log))')
    BY <2>2, RowsGrow
  <2>4. CASE durLsn' = durLsn
    <3>1. mem[q].lsn <= durLsn' => mem[q] \in PageOf(Covered(durable))
      BY <2>4 DEF XidInv, MemOK
    <3> QED BY <2>1, <2>3, <3>1, RowsGrow
  <2>5. CASE Covered(Len(log)) \subseteq Covered(durable)'
    BY <2>1, <2>2, <2>3, <2>5, RowsGrow
  <2> QED BY <2>4, <2>5
<1> QED BY <1>1 DEF DiskOK, MemOK

\* The same after records were appended.
LEMMA PagesKeptByLog ==
  ASSUME XidInv, UNCHANGED <<load, mem, disk, durable, durLsn, control>>,
         NEW recs \in Seq(RecordOf(Covered(Len(log)))),
         \A i \in 1..Len(recs) : recs[i].typ = "txnBegin" => recs[i].mini <= MaxXid,
         Logged(recs)
  PROVE  /\ DiskOK' /\ MemOK' /\ LogOK' /\ log' \in Seq(RecordOf(Nat)) /\ durable' \in 0..Len(log')
         /\ nextLsn' \in Nat /\ nextLsn <= nextLsn'
         /\ Covered(Len(log)) \subseteq Covered(Len(log))'
<1>1. /\ log' \in Seq(RecordOf(Nat)) /\ LogOK' /\ Len(log') = Len(log) + Len(recs)
      /\ Len(log) \in Nat /\ Len(recs) \in Nat /\ nextLsn' \in Nat /\ nextLsn' = nextLsn + Len(recs)
      /\ Covered(Len(log)) \subseteq Covered(Len(log))'
      /\ \A n \in 0..Len(log) : Covered(n)' = Covered(n)
  BY LogGrows DEF XidInv
<1>2. durable \in 0..Len(log) /\ nextLsn \in Nat
  BY DEF XidInv, TypeInv
<1>3. Covered(durable)' = Covered(durable)
  <2>1. CoveredBy(log', control'.nextXid, durable) = Covered(durable)
    BY <1>1, <1>2 DEF Covered
  <2> QED BY <2>1 DEF Covered
<1>4. DiskOK' /\ MemOK'
  BY <1>1, <1>3, PagesKept
<1> QED BY <1>1, <1>2, <1>4
-----------------------------------------------------------------------------
(* A mini-transaction.                                                     *)

LEMMA BlankFact ==
  ASSUME NEW X, 0 \in X
  PROVE  /\ Blank \in RecordOf(X) /\ NoPage \in PageOf(X)
         /\ \A typ \in RecordTypes : \A id \in Nat :
              Note(typ, id) \in RecordOf(X) /\ Note(typ, id).typ = typ /\ Note(typ, id).mini = id
<1>1. <<>> \in Seq(RowOf(X)) /\ <<>> \in Seq(Nat)
  BY EmptySeq
<1>2. NoPage \in PageOf(X)
  BY <1>1 DEF NoPage, PageOf
<1>3. Blank \in RecordOf(X)
  BY <1>1, <1>2 DEF Blank, RecordOf, RecordTypes
<1>4. ASSUME NEW typ \in RecordTypes, NEW id \in Nat
      PROVE Note(typ, id) \in RecordOf(X) /\ Note(typ, id).typ = typ /\ Note(typ, id).mini = id
  BY <1>3 DEF Note, RecordOf
<1> QED BY <1>2, <1>3, <1>4

LEMMA OneRecord ==
  ASSUME NEW S, NEW e \in S
  PROVE  <<e>> \in Seq(S) /\ Len(<<e>>) = 1 /\ <<e>>[1] = e /\ DOMAIN <<e>> = 1..1
OBVIOUS

\* maybe_log_fpi: an image of the page, with the xids that are on it.
LEMMA ImageFact ==
  ASSUME XidInv, NEW p \in load.pages
  PROVE  /\ FirstImage(p) \in Seq(RecordOf(Covered(Len(log))))
         /\ \A i \in 1..Len(FirstImage(p)) : FirstImage(p)[i].typ # "txnBegin"
<1> DEFINE C == Covered(Len(log))
           r == [Blank EXCEPT !.typ = "fpi", !.img = mem[p]]
<1>1. 0 \in C
  BY CoverFacts DEF XidInv, TypeInv
<1>2. mem[p] \in PageOf(C)
  BY DEF XidInv, MemOK
<1> HIDE DEF C
<1>3. r \in RecordOf(C) /\ r.typ = "fpi"
  BY <1>1, <1>2, BlankFact DEF RecordOf, RecordTypes
<1> HIDE DEF r
<1>4. CASE p \in fpi
  BY <1>4, EmptySeq DEF FirstImage, C
<1>5. CASE p \notin fpi
  <2>1. FirstImage(p) = <<r>>
    BY <1>5 DEF FirstImage, r
  <2>2. <<r>> \in Seq(RecordOf(C)) /\ Len(<<r>>) = 1 /\ <<r>>[1] = r
    BY <1>3, OneRecord
  <2> QED BY <1>3, <2>1, <2>2 DEF C
<1> QED BY <1>4, <1>5

\* The records of mini-transaction m on page p.
MiniLog(own, m, p) ==
  <<Note("begin", m)>> \o [i \in DOMAIN own |-> [own[i] EXCEPT !.mini = m, !.page = p]]

LEMMA MiniRecords ==
  ASSUME NEW X, 0 \in X, NEW image \in Seq(RecordOf(X)), NEW changes \in Seq(RecordOf(X)),
         \A i \in 1..Len(image) : image[i].typ # "txnBegin",
         \A i \in 1..Len(changes) : changes[i].typ # "txnBegin",
         NEW m \in Nat, NEW p \in Nat
  PROVE  LET recs == MiniLog(image \o changes, m, p)
         IN /\ recs \in Seq(RecordOf(X)) /\ Len(recs) \in Nat \ {0}
            /\ \A i \in 1..Len(recs) : recs[i].typ # "txnBegin"
<1> DEFINE own == image \o changes
           body == [i \in DOMAIN own |-> [own[i] EXCEPT !.mini = m, !.page = p]]
           head == <<Note("begin", m)>>
           recs == head \o body
<1>1. /\ own \in Seq(RecordOf(X)) /\ Len(own) = Len(image) + Len(changes)
      /\ \A i \in 1..Len(image) + Len(changes) :
            own[i] = IF i <= Len(image) THEN image[i] ELSE changes[i - Len(image)]
  BY ConcatProperties
<1>2. Len(image) \in Nat /\ Len(changes) \in Nat
  BY LenProperties
<1> HIDE DEF own
<1>3. Len(own) \in Nat /\ DOMAIN own = 1..Len(own) /\ \A i \in 1..Len(own) : own[i] \in RecordOf(X)
  BY <1>1, LenProperties
<1>4. \A i \in 1..Len(own) : own[i].typ # "txnBegin"
  <2> SUFFICES ASSUME NEW i \in 1..Len(own) PROVE own[i].typ # "txnBegin"
    OBVIOUS
  <2>1. CASE i <= Len(image)
    BY <1>1, <1>2, <2>1
  <2>2. CASE i > Len(image)
    <3>1. i - Len(image) \in 1..Len(changes) /\ own[i] = changes[i - Len(image)]
      BY <1>1, <1>2, <2>2
    <3> QED BY <3>1
  <2> QED BY <1>2, <2>1, <2>2
<1>5. /\ body \in [1..Len(own) -> RecordOf(X)]
      /\ \A i \in 1..Len(own) : body[i].typ # "txnBegin"
  <2> SUFFICES ASSUME NEW i \in 1..Len(own)
               PROVE  /\ [own[i] EXCEPT !.mini = m, !.page = p] \in RecordOf(X)
                      /\ [own[i] EXCEPT !.mini = m, !.page = p].typ = own[i].typ
    BY <1>3, <1>4
  <2> QED BY <1>3 DEF RecordOf
<1> HIDE DEF body
<1>6. body \in Seq(RecordOf(X)) /\ Len(body) = Len(own)
  <2>1. body \in Seq(RecordOf(X))
    BY <1>3, <1>5, SeqDef
  <2>2. DOMAIN body = 1..Len(body) /\ Len(body) \in Nat
    BY <2>1, LenProperties
  <2>3. DOMAIN body = 1..Len(own)
    BY <1>5
  <2>4. ~(Len(body) > Len(own)) /\ ~(Len(own) > Len(body))
    BY <1>3, <2>2, <2>3
  <2>5. Len(own) \in Nat
    BY <1>3
  <2> QED BY ONLY <2>1, <2>2, <2>4, <2>5
<1>7. Note("begin", m) \in RecordOf(X) /\ Note("begin", m).typ = "begin"
  <2>1. "begin" \in RecordTypes
    BY DEF RecordTypes
  <2> QED BY <2>1, BlankFact
<1>8. head \in Seq(RecordOf(X)) /\ Len(head) = 1 /\ head[1] = Note("begin", m)
  BY <1>7, OneRecord
<1> HIDE DEF head
<1>9. /\ recs \in Seq(RecordOf(X)) /\ Len(recs) = Len(head) + Len(body)
      /\ \A i \in 1..Len(head) + Len(body) :
            recs[i] = IF i <= Len(head) THEN head[i] ELSE body[i - Len(head)]
  BY ONLY <1>6, <1>8, ConcatProperties
<1> HIDE DEF recs
<1>10. Len(recs) = 1 + Len(own)
  BY <1>6, <1>8, <1>9
<1>11. \A i \in 1..Len(recs) : recs[i].typ # "txnBegin"
  <2> SUFFICES ASSUME NEW i \in 1..Len(recs) PROVE recs[i].typ # "txnBegin"
    OBVIOUS
  <2>1. CASE i = 1
    <3>1. recs[1] = Note("begin", m)
      BY <1>3, <1>6, <1>8, <1>9
    <3> QED BY <1>7, <2>1, <3>1
  <2>2. CASE i # 1
    <3>1. i - 1 \in 1..Len(own) /\ recs[i] = body[i - 1]
      BY <1>3, <1>6, <1>8, <1>9, <1>10, <2>2
    <3> QED BY <1>5, <3>1
  <2> QED BY <2>1, <2>2
<1>12. Len(recs) \in Nat \ {0}
  BY <1>3, <1>10
<1>13. recs = MiniLog(image \o changes, m, p)
  BY DEF MiniLog, recs, head, body, own
<1> QED BY <1>9, <1>11, <1>12, <1>13

LEMMA EntryPages ==
  ASSUME NEW entries \in Seq(EntryType)
  PROVE  \A k \in DOMAIN entries : /\ entries[k] \in EntryType /\ entries[k].page \in load.pages
                                    /\ entries[k].old \in Seq(Nat) /\ entries[k].new \in Seq(Nat)
<1>1. \A k \in DOMAIN entries : entries[k] \in EntryType
  BY LenProperties
<1> QED BY <1>1 DEF EntryType

\* A mini-transaction leaves its page ahead of the durable frontier, so that the
\* page waits for its records; the slots that undo entries name stay.
LEMMA MiniInv ==
  ASSUME XidInv, state = "up", NEW o \in {0} \cup Xids, NEW p \in load.pages,
         NEW image, image = <<>> \/ image = FirstImage(p),
         NEW changes \in Seq(RecordOf(Covered(Len(log)))),
         \A i \in 1..Len(changes) : changes[i].typ # "txnBegin",
         NEW slots \in Seq(RowOf(Covered(Len(log)))), DOMAIN mem[p].slots \subseteq DOMAIN slots,
         NEW entries \in Seq(EntryType),
         \A k \in DOMAIN entries : /\ entries[k].page = p
                                   /\ \A i \in DOMAIN entries[k].old : entries[k].old[i] \in DOMAIN slots,
         Mini(o, p, image, changes, slots, entries),
         undo' \in [Xids -> Seq(EntryType)],
         \A x \in Xids : \A k \in DOMAIN undo'[x] : k \in DOMAIN undo[x] /\ undo'[x][k] = undo[x][k],
         UNCHANGED <<load, disk, durable, durLsn, control, nextXid, txn, ckpt, state, todo>>
  PROVE  XidInv'
<1> DEFINE C == Covered(Len(log))
           recs == MiniLog(image \o changes, nextMini, p)
           lsn == nextLsn + Len(recs) - 1
<1>1. /\ load \in LoadType /\ nextMini \in Nat /\ nextLsn \in Nat /\ durLsn \in Nat /\ durLsn < nextLsn
      /\ mem \in [load.pages -> PageOf(Nat)] /\ durable \in 0..Len(log) /\ Len(log) \in Nat
  BY DEF XidInv, TypeInv, CountersOK
<1>2. 0 \in C /\ C \subseteq Nat
  BY <1>1, CoverFacts DEF XidInv
<1>3. p \in Nat
  BY <1>1, RecoveryAssumption DEF LoadType
<1>4. image \in Seq(RecordOf(C)) /\ \A i \in 1..Len(image) : image[i].typ # "txnBegin"
  <2>1. CASE image = <<>>
    BY <2>1, EmptySeq
  <2>2. CASE image = FirstImage(p)
    BY <2>2, ImageFact
  <2> QED BY <2>1, <2>2
<1> HIDE DEF recs
<1>5. /\ recs \in Seq(RecordOf(C)) /\ Len(recs) \in Nat \ {0}
      /\ \A i \in 1..Len(recs) : recs[i].typ # "txnBegin"
  <2> HIDE DEF C
  <2>1. changes \in Seq(RecordOf(C))
    BY DEF C
  <2>2. nextMini \in Nat
    BY <1>1
  <2>3. \A i \in 1..Len(changes) : changes[i].typ # "txnBegin"
    OBVIOUS
  <2> QED BY ONLY <1>2, <1>3, <1>4, <2>1, <2>2, <2>3, MiniRecords DEF recs
<1>6. /\ Logged(recs)
      /\ mem' = [mem EXCEPT ![p] = [lsn |-> lsn, slots |-> slots]]
      /\ dirty' = dirty \cup {p} /\ nextMini' = nextMini + 1
      /\ open' = [open EXCEPT ![o] = [mini |-> nextMini, page |-> p, undo |-> entries]]
  BY DEF Mini, MiniLog, recs
<1>7. /\ log' \in Seq(RecordOf(Nat)) /\ LogOK' /\ Len(log') = Len(log) + Len(recs)
      /\ nextLsn' \in Nat /\ nextLsn' = nextLsn + Len(recs)
      /\ C \subseteq Covered(Len(log))'
      /\ \A n \in 0..Len(log) : Covered(n)' = Covered(n)
      /\ \A i \in 1..Len(log) : log'[i] = log[i]
      /\ \A i \in 1..Len(recs) : log'[Len(log) + i].typ = recs[i].typ
  BY <1>5, <1>6, LogGrows DEF XidInv
<1>8. Covered(durable)' = Covered(durable)
  <2>1. CoveredBy(log', control'.nextXid, durable) = Covered(durable)
    BY <1>1, <1>7 DEF Covered
  <2> QED BY <2>1 DEF Covered
<1>9. lsn \in Nat /\ lsn > durLsn
  BY <1>1, <1>5
<1> HIDE DEF lsn, C
<1>10. slots \in Seq(RowOf(C)) /\ slots \in Seq(RowOf(Nat)) /\ slots \in Seq(RowOf(Covered(Len(log))'))
  BY <1>2, <1>7, RowsGrow DEF C
<1>11. ASSUME NEW X, slots \in Seq(RowOf(X)) PROVE [lsn |-> lsn, slots |-> slots] \in PageOf(X)
  BY <1>9, <1>11 DEF PageOf
<1>12. /\ mem'[p] = [lsn |-> lsn, slots |-> slots]
       /\ \A q \in load.pages : q # p => mem'[q] = mem[q]
       /\ mem' \in [load.pages -> PageOf(Nat)]
  BY <1>1, <1>6, <1>10, <1>11
<1>13. TypeInv'
  <2>1. open' \in [{0} \cup Xids -> [mini : Nat, page : Nat, undo : Seq(EntryType)]]
    BY <1>1, <1>3, <1>6 DEF XidInv, TypeInv
  <2>2. durable' \in 0..Len(log') /\ nextMini' \in Nat /\ dirty' \subseteq load.pages
    BY <1>1, <1>5, <1>6, <1>7 DEF XidInv, TypeInv
  <2>3. EntryType' = EntryType
    BY DEF EntryType
  <2> QED BY <1>7, <1>12, <2>1, <2>2, <2>3 DEF XidInv, TypeInv
<1>14. DiskOK'
  BY <1>8 DEF XidInv, DiskOK
<1>15. MemOK'
  <2> SUFFICES ASSUME NEW q \in load.pages
               PROVE  /\ mem'[q] \in PageOf(Covered(Len(log))')
                      /\ mem'[q].lsn <= durLsn' => mem'[q] \in PageOf(Covered(durable)')
    BY DEF MemOK
  <2>1. CASE q = p
    <3>1. mem'[p] \in PageOf(Covered(Len(log))')
      BY <1>10, <1>11, <1>12
    <3>2. mem'[p].lsn = lsn
      BY <1>12
    <3> QED BY <1>1, <1>9, <2>1, <3>1, <3>2
  <2>2. CASE q # p
    <3>1. mem'[q] = mem[q]
      BY <1>12, <2>2
    <3>2. mem[q] \in PageOf(C) /\ (mem[q].lsn <= durLsn => mem[q] \in PageOf(Covered(durable)))
      BY DEF XidInv, MemOK, C
    <3> QED BY <1>7, <1>8, <3>1, <3>2, RowsGrow
  <2> QED BY <2>1, <2>2
<1>16. ActiveOK'
  <2>1. Active' = Active
    BY DEF Active
  <2> QED BY <1>7, <2>1 DEF XidInv, ActiveOK, C
<1>17. CountersOK'
  <2>1. durLsn' < nextLsn'
    BY <1>1, <1>5, <1>7
  <2>2. ASSUME NEW i \in 1..Len(log'), log'[i].typ = "txnBegin" PROVE log'[i].mini < nextXid
    <3>1. CASE i <= Len(log)
      BY <1>1, <1>7, <2>2, <3>1 DEF XidInv, CountersOK
    <3>2. CASE i > Len(log)
      <4>1. i - Len(log) \in 1..Len(recs) /\ Len(log) + (i - Len(log)) = i
        BY <1>1, <1>5, <1>7, <3>2
      <4> QED BY <1>5, <1>7, <2>2, <4>1
    <3> QED BY <1>1, <3>1, <3>2
  <2> QED BY <2>1, <2>2 DEF XidInv, CountersOK
<1>18. UndoOK'
  <2>1. ASSUME NEW q \in load.pages PROVE DOMAIN mem[q].slots \subseteq DOMAIN mem'[q].slots
    <3>1. CASE q = p
      <4>1. mem'[q].slots = slots
        BY <1>12, <3>1
      <4> QED BY <3>1, <4>1
    <3>2. CASE q # p
      BY <1>12, <3>2
    <3> QED BY <3>1, <3>2
  <2>2. ASSUME NEW x \in Xids PROVE EntriesOK(undo[x])'
    <3>1. EntriesOK(undo[x]) /\ undo[x] \in Seq(EntryType)
      BY DEF XidInv, UndoOK, TypeInv
    <3>2. \A k \in DOMAIN undo[x] : undo[x][k].page \in load.pages
      BY <3>1, EntryPages
    <3> QED BY <2>1, <3>1, <3>2 DEF EntriesOK
  <2>3. ASSUME NEW a \in {0} \cup Xids PROVE EntriesOK(open[a].undo)'
    <3>1. CASE a = o
      <4>1. open'[a].undo = entries
        BY <1>6, <3>1 DEF XidInv, TypeInv
      <4> QED BY <1>12, <4>1 DEF EntriesOK
    <3>2. CASE a # o
      <4>1. open'[a] = open[a]
        BY <1>6, <3>2 DEF XidInv, TypeInv
      <4>2. EntriesOK(open[a].undo) /\ open[a].undo \in Seq(EntryType)
        BY DEF XidInv, UndoOK, TypeInv
      <4>3. \A k \in DOMAIN open[a].undo : open[a].undo[k].page \in load.pages
        BY <4>2, EntryPages
      <4> QED BY <2>1, <4>1, <4>2, <4>3 DEF EntriesOK
    <3> QED BY <3>1, <3>2
  <2> QED BY <2>2, <2>3 DEF UndoOK
<1>19. RecoveringOK'
  BY DEF XidInv, RecoveringOK
<1>20. CkptOK'
  <2>1. \A i \in 1..durable : log'[i] = log[i]
    BY <1>1, <1>7
  <2> QED BY <2>1 DEF XidInv, CkptOK
<1> QED BY <1>7, <1>13, <1>14, <1>15, <1>16, <1>17, <1>18, <1>19, <1>20 DEF XidInv
-----------------------------------------------------------------------------
(* One step per action.                                                    *)

LEMMA InitInv == Init => XidInv
<1> SUFFICES ASSUME Init PROVE XidInv
  OBVIOUS
<1> DEFINE first == [Note("ckpt", 0) EXCEPT !.lsn = 2]
<1>1. load \in LoadType /\ load.rows \in Nat
  BY LoadsAssumption, RecoveryAssumption DEF Init, LoadType
<1>2. \A n \in Int : {0, 1} \subseteq Covered(n) /\ Covered(n) \subseteq Nat
  BY DEF Init, Covered, CoveredBy
<1>3. ASSUME NEW X, 0 \in X, 1 \in X PROVE OldPage \in PageOf(X)
  <2> DEFINE rows == [s \in 1..load.rows |-> [st |-> "live", xmin |-> 1, xmax |-> 0]]
  <2>1. [st |-> "live", xmin |-> 1, xmax |-> 0] \in RowOf(X)
    BY <1>3 DEF RowOf
  <2>2. rows \in [1..load.rows -> RowOf(X)]
    BY <2>1
  <2> HIDE DEF rows
  <2>3. rows \in Seq(RowOf(X))
    BY <1>1, <2>2, SeqDef
  <2>4. OldPage = [lsn |-> 1, slots |-> rows]
    BY DEF OldPage, rows
  <2> QED BY <2>3, <2>4 DEF PageOf
<1>4. ASSUME NEW X, 0 \in X PROVE first \in RecordOf(X) /\ first.typ = "ckpt" /\ first.lsn = 2
  <2>1. "ckpt" \in RecordTypes
    BY DEF RecordTypes
  <2>2. Note("ckpt", 0) \in RecordOf(X) /\ Note("ckpt", 0).typ = "ckpt"
    BY <1>4, <2>1, BlankFact
  <2> QED BY <2>2 DEF RecordOf
<1> HIDE DEF first
<1>5. log = <<first>>
  BY DEF Init, first
<1>6. first \in RecordOf(Nat)
  BY <1>4
<1>7. log \in Seq(RecordOf(Nat)) /\ Len(log) = 1 /\ log[1] = first
  BY <1>5, <1>6, OneRecord
<1>8. OldPage \in PageOf(Nat)
  BY <1>3
<1>9. <<>> \in Seq(EntryType)
  BY EmptySeq
<1>10. NoMini \in [mini : Nat, page : Nat, undo : Seq(EntryType)]
  BY <1>9 DEF NoMini
<1>11. TypeInv
  BY <1>1, <1>7, <1>8, <1>9, <1>10 DEF Init, TypeInv, Xids
<1>12. LogOK
  <2>1. first \in RecordOf(Covered(1))
    BY <1>2, <1>4
  <2>2. first.typ = "ckpt"
    BY <1>6, <1>4
  <2> QED BY <1>7, <2>1, <2>2 DEF LogOK
<1>13. DiskOK /\ MemOK
  <2>1. \A n \in Int : OldPage \in PageOf(Covered(n))
    BY <1>2, <1>3
  <2>2. Len(log) \in Int /\ durable \in Int
    BY <1>7 DEF Init
  <2>3. \A p \in load.pages : mem[p] = OldPage /\ disk[p] = OldPage
    BY DEF Init
  <2> QED BY <2>1, <2>2, <2>3 DEF DiskOK, MemOK
<1>14. ActiveOK
  BY DEF Init, ActiveOK, Active
<1>15. CountersOK
  <2>1. first.typ = "ckpt"
    BY <1>6, <1>4
  <2> QED BY <1>7, <2>1 DEF Init, CountersOK
<1>16. UndoOK
  <2>1. EntriesOK(<<>>)
    BY DEF EntriesOK
  <2> QED BY <2>1 DEF Init, UndoOK, Xids, NoMini
<1>17. RecoveringOK /\ CkptOK
  BY DEF Init, RecoveringOK, CkptOK
<1> QED BY <1>11, <1>12, <1>13, <1>14, <1>15, <1>16, <1>17 DEF XidInv

\* One record is appended and no page changes.
LEMMA Appended ==
  ASSUME XidInv, state = "up", NEW r \in RecordOf(Covered(Len(log))), Logged(<<r>>),
         IF r.typ = "txnBegin"
         THEN r.mini = nextXid /\ nextXid <= MaxXid /\ nextXid' = nextXid + 1 /\ ckpt.pc = "idle"
         ELSE nextXid' = nextXid,
         UNCHANGED <<load, mem, disk, durable, durLsn, control, ckpt, state>>
  PROVE  /\ LogOK' /\ DiskOK' /\ MemOK' /\ CountersOK' /\ CkptOK'
         /\ log' \in Seq(RecordOf(Nat)) /\ durable' \in 0..Len(log') /\ nextLsn' \in Nat
         /\ nextXid' \in Nat
         /\ Covered(Len(log)) \subseteq Covered(Len(log))'
         /\ r.typ = "txnBegin" => nextXid \in Covered(Len(log))'
<1> DEFINE recs == <<r>>
<1>1. recs \in Seq(RecordOf(Covered(Len(log)))) /\ Len(recs) = 1 /\ recs[1] = r
  BY OneRecord
<1>2. \A i \in 1..Len(recs) : recs[i].typ = "txnBegin" => recs[i].mini <= MaxXid
  BY <1>1
<1>3. Logged(recs)
  OBVIOUS
<1> HIDE DEF recs
<1>4. /\ DiskOK' /\ MemOK' /\ LogOK' /\ log' \in Seq(RecordOf(Nat)) /\ durable' \in 0..Len(log')
      /\ nextLsn' \in Nat /\ nextLsn <= nextLsn'
      /\ Covered(Len(log)) \subseteq Covered(Len(log))'
  BY <1>1, <1>2, <1>3, PagesKeptByLog
<1>5. /\ Len(log) \in Nat /\ Len(log') = Len(log) + 1
      /\ \A i \in 1..Len(log) : log'[i] = log[i]
      /\ \A i \in 1..1 : log'[Len(log) + i].typ = r.typ /\ log'[Len(log) + i].mini = r.mini
  <2>1. /\ Len(log') = Len(log) + Len(recs) /\ Len(log) \in Nat
        /\ \A i \in 1..Len(log) : log'[i] = log[i]
        /\ \A i \in 1..Len(recs) : log'[Len(log) + i].typ = recs[i].typ /\ log'[Len(log) + i].mini = recs[i].mini
    BY <1>1, <1>2, <1>3, LogGrows DEF XidInv
  <2> QED BY <1>1, <2>1
<1>6. log'[Len(log) + 1].typ = r.typ /\ log'[Len(log) + 1].mini = r.mini
  BY <1>5
<1>7. /\ nextLsn \in Nat /\ nextXid \in Nat /\ durLsn \in Nat /\ durable \in 0..Len(log)
      /\ control.nextXid \in Nat
  BY DEF XidInv, TypeInv
<1>8. CountersOK'
  <2>1. nextXid' >= control.nextXid /\ nextXid' >= nextXid
    BY <1>7 DEF XidInv, CountersOK
  <2>2. ASSUME NEW i \in 1..Len(log'), log'[i].typ = "txnBegin" PROVE log'[i].mini < nextXid'
    <3>1. CASE i = Len(log) + 1
      BY <1>6, <1>7, <2>2, <3>1
    <3>2. CASE i # Len(log) + 1
      <4>1. i \in 1..Len(log)
        BY <1>5, <3>2
      <4>2. log[i].mini < nextXid /\ log[i].mini \in Nat
        <5>1. log[i] \in RecordOf(Nat)
          BY <4>1 DEF XidInv, TypeInv
        <5> QED BY <1>5, <2>2, <4>1, <5>1 DEF XidInv, CountersOK, RecordOf
      <4> QED BY <1>5, <1>7, <2>1, <4>1, <4>2
    <3> QED BY <3>1, <3>2
  <2>3. durLsn < nextLsn' /\ control.nextXid >= 2
    BY <1>4, <1>7 DEF XidInv, CountersOK
  <2> QED BY <2>1, <2>2, <2>3 DEF CountersOK
<1>9. CkptOK'
  <2>1. \A i \in 1..durable : log'[i] = log[i]
    BY <1>5, <1>7
  <2>2. ckpt.pc # "idle" => nextXid' = nextXid
    OBVIOUS
  <2> QED BY <2>1, <2>2 DEF XidInv, CkptOK
<1>10. r.typ = "txnBegin" => nextXid \in Covered(Len(log))'
  <2> SUFFICES ASSUME r.typ = "txnBegin" PROVE nextXid \in Covered(Len(log))'
    OBVIOUS
  <2>1. Len(log) + 1 \in 1..Len(log') /\ log'[Len(log) + 1].typ = "txnBegin" /\ log'[Len(log) + 1].mini = nextXid
    BY <1>5, <1>6
  <2> QED BY <1>7, <2>1 DEF Covered, CoveredBy, Begun
<1> QED BY <1>4, <1>7, <1>8, <1>9, <1>10

LEMMA NoteCovered ==
  ASSUME XidInv, NEW typ \in RecordTypes, NEW id \in Nat
  PROVE  Note(typ, id) \in RecordOf(Covered(Len(log))) /\ Note(typ, id).typ = typ /\ Note(typ, id).mini = id
<1>1. 0 \in Covered(Len(log))
  BY CoverFacts DEF XidInv, TypeInv
<1> QED BY <1>1, BlankFact

LEMMA BeginInv == ASSUME XidInv, ~load.overlap, Begin PROVE XidInv'
<1>1. /\ state = "up" /\ nextXid <= MaxXid /\ ckpt.pc = "idle" /\ nextXid' = nextXid + 1
      /\ Logged(<<Note("txnBegin", nextXid)>>)
      /\ txn' = [txn EXCEPT ![nextXid] = "active"]
      /\ UNCHANGED <<load, mem, disk, dirty, durable, durLsn, undo, control, nextMini, open, ckpt, state, todo>>
  BY DEF Begin, pagesVars
<1>2. nextXid \in Nat
  BY DEF XidInv, TypeInv
<1> DEFINE r == Note("txnBegin", nextXid)
<1>3. r \in RecordOf(Covered(Len(log))) /\ r.typ = "txnBegin" /\ r.mini = nextXid
  <2>1. "txnBegin" \in RecordTypes
    BY DEF RecordTypes
  <2> QED BY <1>2, <2>1, NoteCovered
<1> HIDE DEF r
<1>4. Logged(<<r>>)
  BY <1>1 DEF r
<1>5. /\ LogOK' /\ DiskOK' /\ MemOK' /\ CountersOK' /\ CkptOK'
      /\ log' \in Seq(RecordOf(Nat)) /\ durable' \in 0..Len(log') /\ nextLsn' \in Nat
      /\ nextXid' \in Nat
      /\ Covered(Len(log)) \subseteq Covered(Len(log))'
      /\ nextXid \in Covered(Len(log))'
  BY <1>1, <1>3, <1>4, Appended
<1>6. TypeInv'
  <2>1. EntryType' = EntryType
    BY <1>1 DEF EntryType
  <2>2. txn' \in [Xids -> {"none", "active", "aborting", "done"}]
    BY <1>1 DEF XidInv, TypeInv
  <2> QED BY <1>1, <1>5, <2>1, <2>2 DEF XidInv, TypeInv
<1>7. ActiveOK'
  <2>1. Active' \subseteq Active \cup {nextXid}
    BY <1>1 DEF Active, XidInv, TypeInv
  <2> QED BY <1>5, <2>1 DEF XidInv, ActiveOK
<1>8. UndoOK'
  BY <1>1 DEF XidInv, UndoOK, EntriesOK
<1>9. RecoveringOK'
  BY <1>1 DEF XidInv, RecoveringOK
<1> QED BY <1>5, <1>6, <1>7, <1>8, <1>9 DEF XidInv

\* Facts a step keeps when it leaves what they are about alone.
LEMMA Unmoved ==
  ASSUME XidInv, UNCHANGED <<load, mem, undo, open>>
  PROVE  UndoOK' /\ EntryType' = EntryType
BY DEF XidInv, UndoOK, EntriesOK, EntryType

LEMMA MiniCommitInv ==
  ASSUME XidInv, NEW o \in {0} \cup Xids, MiniCommit(o)
  PROVE  XidInv'
<1>1. /\ state = "up" /\ open[o] # NoMini
      /\ Logged(<<Note("commit", open[o].mini)>>)
      /\ open' = [open EXCEPT ![o] = NoMini]
      /\ undo' = [x \in DOMAIN undo |-> IF x = o THEN undo[x] \o open[o].undo ELSE undo[x]]
      /\ UNCHANGED <<load, mem, disk, dirty, durable, durLsn, control, nextMini, nextXid, txn, ckpt, state, todo>>
  BY DEF MiniCommit, pagesVars
<1>2. /\ open \in [{0} \cup Xids -> [mini : Nat, page : Nat, undo : Seq(EntryType)]]
      /\ undo \in [Xids -> Seq(EntryType)]
  BY DEF XidInv, TypeInv
<1> DEFINE r == Note("commit", open[o].mini)
<1>3. r \in RecordOf(Covered(Len(log))) /\ r.typ = "commit"
  <2>1. "commit" \in RecordTypes /\ open[o].mini \in Nat
    BY <1>2 DEF RecordTypes
  <2> QED BY <2>1, NoteCovered
<1> HIDE DEF r
<1>4. Logged(<<r>>)
  BY <1>1 DEF r
<1>5. /\ LogOK' /\ DiskOK' /\ MemOK' /\ CountersOK' /\ CkptOK'
      /\ log' \in Seq(RecordOf(Nat)) /\ durable' \in 0..Len(log') /\ nextLsn' \in Nat
      /\ Covered(Len(log)) \subseteq Covered(Len(log))'
  BY <1>1, <1>3, <1>4, Appended
<1>6. EntryType' = EntryType
  BY <1>1 DEF EntryType
<1>7. <<>> \in Seq(EntryType)
  BY EmptySeq
<1>8. NoMini \in [mini : Nat, page : Nat, undo : Seq(EntryType)] /\ NoMini.undo = <<>>
  BY <1>7 DEF NoMini
<1>9. ASSUME NEW x \in Xids PROVE undo'[x] \in Seq(EntryType) /\ EntriesOK(undo'[x])
  <2>1. undo[x] \in Seq(EntryType) /\ EntriesOK(undo[x])
    BY <1>2 DEF XidInv, UndoOK
  <2>2. open[o].undo \in Seq(EntryType) /\ EntriesOK(open[o].undo)
    BY <1>2 DEF XidInv, UndoOK
  <2>3. CASE x = o
    <3> DEFINE a == undo[x]
               b == open[o].undo
    <3>1. undo'[x] = a \o b
      BY <1>1, <1>2, <2>3
    <3>2. a \in Seq(EntryType) /\ b \in Seq(EntryType)
      BY <2>1, <2>2
    <3> HIDE DEF a, b
    <3>3. /\ a \o b \in Seq(EntryType) /\ Len(a \o b) = Len(a) + Len(b)
          /\ \A i \in 1..Len(a) + Len(b) : (a \o b)[i] = IF i <= Len(a) THEN a[i] ELSE b[i - Len(a)]
      BY ONLY <3>2, ConcatProperties
    <3>4. /\ DOMAIN (a \o b) = 1..Len(a) + Len(b) /\ Len(a) \in Nat /\ Len(b) \in Nat
          /\ DOMAIN a = 1..Len(a) /\ DOMAIN b = 1..Len(b)
      BY ONLY <3>2, <3>3, LenProperties
    <3>5. ASSUME NEW k \in DOMAIN (a \o b)
          PROVE  \A i \in DOMAIN (a \o b)[k].old :
                   (a \o b)[k].old[i] \in DOMAIN mem[(a \o b)[k].page].slots
      <4>1. CASE k <= Len(a)
        <5>1. k \in DOMAIN a /\ (a \o b)[k] = a[k]
          BY <3>3, <3>4, <4>1
        <5> QED BY <2>1, <5>1 DEF EntriesOK, a
      <4>2. CASE k > Len(a)
        <5>1. k - Len(a) \in DOMAIN b /\ (a \o b)[k] = b[k - Len(a)]
          BY <3>3, <3>4, <4>2
        <5> QED BY <2>2, <5>1 DEF EntriesOK, b
      <4> QED BY <3>4, <4>1, <4>2
    <3> QED BY <3>1, <3>3, <3>5 DEF EntriesOK
  <2>4. CASE x # o
    BY <1>1, <1>2, <2>1, <2>4
  <2> QED BY <2>3, <2>4
<1>10. UndoOK'
  <2>1. ASSUME NEW x \in Xids PROVE EntriesOK(undo[x])'
    BY <1>1, <1>9 DEF EntriesOK
  <2>2. ASSUME NEW a \in {0} \cup Xids PROVE EntriesOK(open[a].undo)'
    <3>1. CASE a = o
      <4>1. open'[a].undo = <<>>
        BY <1>1, <1>2, <1>8, <3>1
      <4> QED BY <4>1 DEF EntriesOK
    <3>2. CASE a # o
      <4>1. open'[a] = open[a] /\ EntriesOK(open[a].undo)
        BY <1>1, <1>2, <3>2 DEF XidInv, UndoOK
      <4> QED BY <1>1, <4>1 DEF EntriesOK
    <3> QED BY <3>1, <3>2
  <2> QED BY <2>1, <2>2 DEF UndoOK
<1>11. TypeInv'
  <2>1. undo' \in [Xids -> Seq(EntryType)]
    BY <1>1, <1>2, <1>9
  <2>2. open' \in [{0} \cup Xids -> [mini : Nat, page : Nat, undo : Seq(EntryType)]]
    BY <1>1, <1>2, <1>8
  <2> QED BY <1>1, <1>5, <1>6, <2>1, <2>2 DEF XidInv, TypeInv
<1>12. ActiveOK'
  <2>1. Active' = Active
    BY <1>1 DEF Active
  <2> QED BY <1>5, <2>1 DEF XidInv, ActiveOK
<1>13. RecoveringOK'
  BY <1>1 DEF XidInv, RecoveringOK
<1> QED BY <1>5, <1>10, <1>11, <1>12, <1>13 DEF XidInv

\* A transaction ends: its record, if it writes one, and it leaves the active set.
LEMMA EndInv ==
  ASSUME XidInv, state = "up", NEW x \in Xids, NEW typ \in {"txnCommit", "txnAbort"},
         Logged(<<Note(typ, x)>>) \/ UNCHANGED <<log, nextLsn>>,
         txn' = [txn EXCEPT ![x] = "done"],
         UNCHANGED <<load, mem, disk, dirty, durable, durLsn, undo, control, nextMini, nextXid,
                     open, ckpt, state, todo>>
  PROVE  XidInv'
<1>1. UndoOK' /\ EntryType' = EntryType
  BY Unmoved
<1>2. Active' \subseteq Active /\ txn' \in [Xids -> {"none", "active", "aborting", "done"}]
  BY DEF Active, XidInv, TypeInv
<1>3. RecoveringOK'
  BY DEF XidInv, RecoveringOK
<1>4. CASE Logged(<<Note(typ, x)>>)
  <2> DEFINE r == Note(typ, x)
  <2>1. r \in RecordOf(Covered(Len(log))) /\ r.typ = typ
    <3>1. x \in Nat
      BY RecoveryAssumption DEF Xids
    <3>2. typ \in RecordTypes
      BY DEF RecordTypes
    <3> QED BY <3>1, <3>2, NoteCovered
  <2> HIDE DEF r
  <2>2. Logged(<<r>>)
    BY <1>4 DEF r
  <2>3. /\ LogOK' /\ DiskOK' /\ MemOK' /\ CountersOK' /\ CkptOK'
        /\ log' \in Seq(RecordOf(Nat)) /\ durable' \in 0..Len(log') /\ nextLsn' \in Nat
        /\ Covered(Len(log)) \subseteq Covered(Len(log))'
    BY <2>1, <2>2, Appended
  <2>4. TypeInv'
    BY <1>1, <1>2, <2>3 DEF XidInv, TypeInv
  <2>5. ActiveOK'
    BY <1>2, <2>3 DEF XidInv, ActiveOK
  <2> QED BY <1>1, <1>3, <2>3, <2>4, <2>5 DEF XidInv
<1>5. CASE UNCHANGED <<log, nextLsn>>
  <2>1. \A n : Covered(n)' = Covered(n)
    BY <1>5 DEF Covered
  <2>2. TypeInv'
    BY <1>1, <1>2, <1>5 DEF XidInv, TypeInv
  <2>3. LogOK' /\ DiskOK' /\ MemOK' /\ ActiveOK' /\ CountersOK' /\ CkptOK'
    BY <1>2, <1>5 DEF XidInv, LogOK, DiskOK, MemOK, ActiveOK, CountersOK, CkptOK, Covered
  <2> QED BY <1>1, <1>3, <2>2, <2>3 DEF XidInv
<1> QED BY <1>4, <1>5

LEMMA CommitInv == ASSUME XidInv, NEW x \in Xids, Commit(x) PROVE XidInv'
BY EndInv DEF Commit, pagesVars

LEMMA AbortDoneInv == ASSUME XidInv, NEW x \in Xids, AbortDone(x) PROVE XidInv'
BY EndInv DEF AbortDone, pagesVars

LEMMA RollbackInv == ASSUME XidInv, NEW x \in Xids, Rollback(x) PROVE XidInv'
<1>1. /\ state = "up" /\ txn[x] = "active" /\ txn' = [txn EXCEPT ![x] = "aborting"]
      /\ UNCHANGED <<load, mem, disk, dirty, log, nextLsn, durable, durLsn, undo, control, nextMini,
                     nextXid, open, ckpt, state, todo>>
  BY DEF Rollback, pagesVars, walVars
<1>2. UndoOK' /\ EntryType' = EntryType
  BY <1>1, Unmoved
<1>3. Active' \subseteq Active /\ txn' \in [Xids -> {"none", "active", "aborting", "done"}]
  BY <1>1 DEF Active, XidInv, TypeInv
<1>4. TypeInv' /\ RecoveringOK'
  BY <1>1, <1>2, <1>3 DEF XidInv, TypeInv, RecoveringOK
<1>5. LogOK' /\ DiskOK' /\ MemOK' /\ ActiveOK' /\ CountersOK' /\ CkptOK'
  BY <1>1, <1>3 DEF XidInv, LogOK, DiskOK, MemOK, ActiveOK, CountersOK, CkptOK, Covered
<1> QED BY <1>2, <1>4, <1>5 DEF XidInv

LEMMA ChangeRecord ==
  ASSUME NEW X, 0 \in X, NEW x \in X, NEW old \in Seq(Nat), NEW new \in Seq(Nat),
         NEW typ \in RecordTypes
  PROVE  /\ Change(typ, x, old, new) \in RecordOf(X)
         /\ Change(typ, x, old, new).typ = typ /\ Change(typ, x, old, new).val = x
         /\ Change(typ, x, old, new).old = old /\ Change(typ, x, old, new).new = new
<1>1. Blank \in RecordOf(X)
  BY BlankFact
<1> QED BY <1>1 DEF Change, RecordOf

LEMMA StampRecord ==
  ASSUME NEW X, 0 \in X, NEW x \in X, NEW b \in X, NEW s \in Nat
  PROVE  /\ Stamp(s, x, b) \in RecordOf(X) /\ Stamp(s, x, b).typ = "stamp"
         /\ Stamp(s, x, b).val = x /\ Stamp(s, x, b).old = <<s>>
<1>1. Blank \in RecordOf(X)
  BY BlankFact
<1>2. <<s>> \in Seq(Nat)
  BY OneRecord
<1>3. "stamp" \in RecordTypes
  BY DEF RecordTypes
<1> QED BY <1>1, <1>2, <1>3 DEF Stamp, RecordOf

\* The records of a statement: the transaction's xid, slots of the page.
LEMMA ChangesFact ==
  ASSUME NEW X, 0 \in X, NEW x \in X, NEW slots \in Seq(RowOf(X)), NEW r \in Changes(x, slots)
  PROVE  /\ r \in RecordOf(X) /\ r.val = x /\ r.typ # "txnBegin"
         /\ \A i \in DOMAIN r.old : r.old[i] \in DOMAIN slots
<1> DEFINE t  == Targets(x, slots)
           s1 == NextSlot(slots)
           s2 == NextSlot(InsertRow(slots, x))
<1>1. DOMAIN slots = 1..Len(slots) /\ Len(slots) \in Nat /\ s1 \in Nat
  BY SlotsFact
<1>2. s2 \in Nat
  <2>1. InsertRow(slots, x) \in Seq(RowOf(X))
    BY InsertFact
  <2>2. s2 \in 1..(Len(InsertRow(slots, x)) + 1) /\ Len(InsertRow(slots, x)) \in Nat
    BY <2>1, SlotsFact
  <2> QED BY <2>2
<1>3. t \subseteq DOMAIN slots /\ \A s \in t : s \in Nat
  BY <1>1 DEF Targets
<1> HIDE DEF t, s1, s2
<1>4. /\ "insert" \in RecordTypes /\ "batch" \in RecordTypes
      /\ "xmaxBatch" \in RecordTypes /\ "hot" \in RecordTypes
  BY DEF RecordTypes
<1>5. <<>> \in Seq(Nat) /\ <<s1>> \in Seq(Nat) /\ <<s1, s2>> \in Seq(Nat) /\ DOMAIN <<>> = {}
  BY <1>1, <1>2
<1>10. ASSUME NEW typ \in RecordTypes, NEW old \in Seq(Nat), NEW new \in Seq(Nat),
             r = Change(typ, x, old, new)
       PROVE r \in RecordOf(X) /\ r.val = x /\ r.typ = typ /\ r.old = old
  BY <1>10, ChangeRecord
<1>6. CASE r = Change("insert", x, <<>>, <<s1>>) \/ r = Change("batch", x, <<>>, <<s1, s2>>)
  <2>1. CASE r = Change("insert", x, <<>>, <<s1>>)
    <3>1. r \in RecordOf(X) /\ r.val = x /\ r.typ = "insert" /\ r.old = <<>>
      BY <1>4, <1>5, <2>1, <1>10
    <3> QED BY <1>5, <3>1
  <2>2. CASE r = Change("batch", x, <<>>, <<s1, s2>>)
    <3>1. r \in RecordOf(X) /\ r.val = x /\ r.typ = "batch" /\ r.old = <<>>
      BY <1>4, <1>5, <2>2, <1>10
    <3> QED BY <1>5, <3>1
  <2> QED BY <1>6, <2>1, <2>2
<1>7. CASE \E s \in t : r = Stamp(s, x, 0)
  <2>1. PICK s \in t : r = Stamp(s, x, 0)
    BY <1>7
  <2>2. r \in RecordOf(X) /\ r.val = x /\ r.typ = "stamp" /\ r.old = <<s>>
    BY <1>3, <2>1, StampRecord
  <2>3. DOMAIN <<s>> = 1..1 /\ <<s>>[1] = s
    BY OneRecord
  <2> QED BY <1>3, <2>2, <2>3
<1>8. CASE \E ss \in Ascending(t) \ {<<>>} : r = Change("xmaxBatch", x, ss, <<>>)
  <2>1. PICK ss \in Ascending(t) : r = Change("xmaxBatch", x, ss, <<>>)
    BY <1>8
  <2>2. PICK m \in 0..MaxSlot : ss \in [1..m -> t]
    BY DEF Ascending, BoundedSeq, SeqOf
  <2>3. m \in Nat /\ ss \in [1..m -> Nat] /\ \A i \in DOMAIN ss : ss[i] \in DOMAIN slots
    BY <1>3, <2>2, RecoveryAssumption
  <2>4. ss \in Seq(Nat)
    BY <2>3, SeqDef
  <2>5. r \in RecordOf(X) /\ r.val = x /\ r.typ = "xmaxBatch" /\ r.old = ss
    BY <1>4, <1>5, <2>1, <2>4, <1>10
  <2> QED BY <2>3, <2>5
<1>9. CASE \E s \in t : r = Change("hot", x, <<s>>, <<s1>>)
  <2>1. PICK s \in t : r = Change("hot", x, <<s>>, <<s1>>)
    BY <1>9
  <2>2. <<s>> \in Seq(Nat)
    BY <1>3, OneRecord
  <2>3. r \in RecordOf(X) /\ r.val = x /\ r.typ = "hot" /\ r.old = <<s>>
    BY <1>4, <1>5, <2>1, <2>2, <1>10
  <2>4. DOMAIN <<s>> = 1..1 /\ <<s>>[1] = s
    BY OneRecord
  <2> QED BY <1>3, <2>3, <2>4
<1> QED BY <1>6, <1>7, <1>8, <1>9 DEF Changes, t, s1, s2

LEMMA UndoOfFact ==
  ASSUME NEW X, NEW r \in RecordOf(X), NEW p \in load.pages, NEW D,
         \A i \in DOMAIN r.old : r.old[i] \in D
  PROVE  /\ UndoOf(r, p) \in Seq(EntryType)
         /\ \A k \in DOMAIN UndoOf(r, p) :
              /\ UndoOf(r, p)[k].page = p
              /\ \A i \in DOMAIN UndoOf(r, p)[k].old : UndoOf(r, p)[k].old[i] \in D
<1>1. r.old \in Seq(Nat) /\ r.new \in Seq(Nat)
  BY DEF RecordOf
<1>2. Len(r.new) \in Nat /\ DOMAIN r.new = 1..Len(r.new) /\ \A i \in 1..Len(r.new) : r.new[i] \in Nat
  BY <1>1, LenProperties
<1>3. CASE r.typ \in {"insert", "batch"}
  <2> DEFINE u == [i \in DOMAIN r.new |-> [page |-> p, old |-> <<>>, new |-> <<r.new[i]>>]]
  <2>1. UndoOf(r, p) = u
    BY <1>3 DEF UndoOf
  <2>2. ASSUME NEW i \in 1..Len(r.new)
        PROVE  [page |-> p, old |-> <<>>, new |-> <<r.new[i]>>] \in EntryType
    <3>1. <<r.new[i]>> \in Seq(Nat)
      BY <1>2, OneRecord
    <3>2. <<>> \in Seq(Nat)
      BY EmptySeq
    <3> QED BY <3>1, <3>2 DEF EntryType
  <2>3. u \in [1..Len(r.new) -> EntryType]
    BY <1>2, <2>2
  <2>4. \A k \in DOMAIN u : u[k].page = p /\ u[k].old = <<>>
    OBVIOUS
  <2> HIDE DEF u
  <2>5. u \in Seq(EntryType)
    BY <1>2, <2>3, SeqDef
  <2> QED BY <2>1, <2>4, <2>5
<1>4. CASE r.typ \notin {"insert", "batch"}
  <2> DEFINE e == [page |-> p, old |-> r.old, new |-> r.new]
  <2>1. UndoOf(r, p) = <<e>>
    BY <1>4 DEF UndoOf
  <2>2. e \in EntryType /\ e.page = p /\ e.old = r.old
    BY <1>1 DEF EntryType
  <2> HIDE DEF e
  <2>3. <<e>> \in Seq(EntryType) /\ DOMAIN <<e>> = 1..1 /\ <<e>>[1] = e
    BY <2>2, OneRecord
  <2> QED BY <2>1, <2>2, <2>3
<1> QED BY <1>3, <1>4

LEMMA WriteInv ==
  ASSUME XidInv, NEW x \in Xids, NEW p \in load.pages, Write(x, p)
  PROVE  XidInv'
<1> DEFINE C == Covered(Len(log))
           slots == mem[p].slots
<1>1. PICK r \in Changes(x, slots) :
        Mini(x, p, FirstImage(p), <<r>>, Changed(slots, r), UndoOf(r, p))
  BY DEF Write
<1>2. /\ state = "up" /\ txn[x] = "active"
      /\ UNCHANGED <<load, disk, durable, durLsn, nextXid, txn, undo, control, ckpt, state, todo>>
  BY DEF Write, txnVars
<1>3. 0 \in C
  BY CoverFacts DEF XidInv, TypeInv
<1>4. x \in C
  BY <1>2 DEF XidInv, ActiveOK, Active, TypeInv
<1>5. slots \in Seq(RowOf(C))
  BY DEF XidInv, MemOK, PageOf
<1> HIDE DEF slots, C
<1>6. r \in RecordOf(C) /\ r.val = x /\ r.typ # "txnBegin" /\ \A i \in DOMAIN r.old : r.old[i] \in DOMAIN slots
  BY <1>3, <1>4, <1>5, ChangesFact
<1>7. Changed(slots, r) \in Seq(RowOf(C)) /\ DOMAIN slots \subseteq DOMAIN Changed(slots, r)
  BY <1>3, <1>4, <1>5, <1>6, ChangedFact
<1>8. /\ UndoOf(r, p) \in Seq(EntryType)
      /\ \A k \in DOMAIN UndoOf(r, p) :
           /\ UndoOf(r, p)[k].page = p
           /\ \A i \in DOMAIN UndoOf(r, p)[k].old : UndoOf(r, p)[k].old[i] \in DOMAIN Changed(slots, r)
  <2>1. \A i \in DOMAIN r.old : r.old[i] \in DOMAIN Changed(slots, r)
    BY <1>6, <1>7
  <2> QED BY <1>6, <2>1, UndoOfFact
<1>9. <<r>> \in Seq(RecordOf(C)) /\ \A i \in 1..Len(<<r>>) : <<r>>[i].typ # "txnBegin"
  BY <1>6, OneRecord
<1>10. undo' \in [Xids -> Seq(EntryType)] /\ undo' = undo
  BY <1>2 DEF XidInv, TypeInv
<1> QED BY <1>1, <1>2, <1>7, <1>8, <1>9, <1>10, MiniInv DEF C, slots

\* undo_xmax_stamp reads the stamp it takes back: the slot is there, and what it
\* holds is covered.
LEMMA UndoWriteInv ==
  ASSUME XidInv, NEW x \in Xids, UndoWrite(x)
  PROVE  XidInv'
<1> DEFINE C == Covered(Len(log))
           e == Last(undo[x])
           p == e.page
           slots == mem[p].slots
           kills == [i \in DOMAIN e.new |-> Stamp(e.new[i], x, 0)]
           frees == [i \in DOMAIN e.old |-> Stamp(e.old[i], 0, slots[e.old[i]].xmax)]
           after == SetXmax(SetXmax(slots, e.new, x), e.old, 0)
<1>1. /\ state = "up" /\ txn[x] = "aborting" /\ undo[x] # <<>>
      /\ Mini(x, p, FirstImage(p), kills \o frees, after, <<>>)
      /\ undo' = [undo EXCEPT ![x] = Front(undo[x])]
      /\ UNCHANGED <<load, disk, durable, durLsn, nextXid, txn, control, ckpt, state, todo>>
  BY DEF UndoWrite
<1>2. 0 \in C
  BY CoverFacts DEF XidInv, TypeInv
<1>3. x \in C
  BY <1>1 DEF XidInv, ActiveOK, Active, TypeInv
<1>4. undo \in [Xids -> Seq(EntryType)] /\ undo[x] \in Seq(EntryType)
  BY DEF XidInv, TypeInv
<1>5. Len(undo[x]) \in Nat \ {0} /\ DOMAIN undo[x] = 1..Len(undo[x])
  BY <1>1, <1>4, EmptySeq, LenProperties
<1>6. /\ e \in EntryType /\ p \in load.pages /\ e.old \in Seq(Nat) /\ e.new \in Seq(Nat)
      /\ \A i \in DOMAIN e.old : e.old[i] \in DOMAIN slots
  <2>1. Len(undo[x]) \in DOMAIN undo[x] /\ e = undo[x][Len(undo[x])]
    BY <1>5 DEF Last
  <2>2. EntriesOK(undo[x])
    BY DEF XidInv, UndoOK
  <2> QED BY <1>4, <2>1, <2>2, EntryPages DEF EntriesOK
<1>7. slots \in Seq(RowOf(C))
  BY <1>6 DEF XidInv, MemOK, PageOf
<1> HIDE DEF C, slots, e, p
<1>8. /\ after \in Seq(RowOf(C)) /\ DOMAIN after = DOMAIN slots
  <2> DEFINE mid == SetXmax(slots, e.new, x)
  <2>1. mid \in Seq(RowOf(C)) /\ DOMAIN mid = DOMAIN slots
    BY <1>2, <1>3, <1>7, StampFact
  <2> HIDE DEF mid
  <2>2. SetXmax(mid, e.old, 0) \in Seq(RowOf(C)) /\ DOMAIN SetXmax(mid, e.old, 0) = DOMAIN mid
    BY <1>2, <2>1, StampFact
  <2> QED BY <2>1, <2>2 DEF mid
<1>9. kills \in Seq(RecordOf(C)) /\ \A i \in DOMAIN kills : kills[i].typ = "stamp"
  <2>1. Len(e.new) \in Nat /\ DOMAIN e.new = 1..Len(e.new) /\ \A i \in DOMAIN e.new : e.new[i] \in Nat
    BY <1>6, LenProperties
  <2>2. \A i \in DOMAIN e.new : Stamp(e.new[i], x, 0) \in RecordOf(C) /\ Stamp(e.new[i], x, 0).typ = "stamp"
    BY <1>2, <1>3, <2>1, StampRecord
  <2>3. kills \in [1..Len(e.new) -> RecordOf(C)] /\ \A i \in DOMAIN kills : kills[i].typ = "stamp"
    BY <2>1, <2>2
  <2> HIDE DEF kills
  <2> QED BY <2>1, <2>3, SeqDef
<1>10. frees \in Seq(RecordOf(C)) /\ \A i \in DOMAIN frees : frees[i].typ = "stamp"
  <2>1. Len(e.old) \in Nat /\ DOMAIN e.old = 1..Len(e.old) /\ \A i \in DOMAIN e.old : e.old[i] \in Nat
    BY <1>6, LenProperties
  <2>2. \A i \in DOMAIN e.old : slots[e.old[i]].xmax \in C
    <3>1. \A s \in DOMAIN slots : slots[s] \in RowOf(C)
      BY <1>7, LenProperties
    <3> QED BY <1>6, <3>1 DEF RowOf
  <2>3. \A i \in DOMAIN e.old : /\ Stamp(e.old[i], 0, slots[e.old[i]].xmax) \in RecordOf(C)
                                /\ Stamp(e.old[i], 0, slots[e.old[i]].xmax).typ = "stamp"
    BY <1>2, <2>1, <2>2, StampRecord
  <2>4. frees \in [1..Len(e.old) -> RecordOf(C)] /\ \A i \in DOMAIN frees : frees[i].typ = "stamp"
    BY <2>1, <2>3
  <2> HIDE DEF frees
  <2> QED BY <2>1, <2>4, SeqDef
<1> HIDE DEF kills, frees, after
<1>11. kills \o frees \in Seq(RecordOf(C)) /\ \A i \in 1..Len(kills \o frees) : (kills \o frees)[i].typ # "txnBegin"
  <2>1. /\ kills \o frees \in Seq(RecordOf(C)) /\ Len(kills \o frees) = Len(kills) + Len(frees)
        /\ \A i \in 1..Len(kills) + Len(frees) :
              (kills \o frees)[i] = IF i <= Len(kills) THEN kills[i] ELSE frees[i - Len(kills)]
    BY ONLY <1>9, <1>10, ConcatProperties
  <2>2. /\ Len(kills) \in Nat /\ Len(frees) \in Nat
        /\ DOMAIN kills = 1..Len(kills) /\ DOMAIN frees = 1..Len(frees)
    BY ONLY <1>9, <1>10, LenProperties
  <2>3. ASSUME NEW i \in 1..Len(kills) + Len(frees) PROVE (kills \o frees)[i].typ = "stamp"
    <3>1. CASE i <= Len(kills)
      BY <1>9, <2>1, <2>2, <3>1
    <3>2. CASE i > Len(kills)
      <4>1. i - Len(kills) \in DOMAIN frees /\ (kills \o frees)[i] = frees[i - Len(kills)]
        BY <2>1, <2>2, <3>2
      <4> QED BY <1>10, <4>1
    <3> QED BY <2>2, <3>1, <3>2
  <2> QED BY <2>1, <2>3
<1>12. /\ undo' \in [Xids -> Seq(EntryType)]
       /\ \A y \in Xids : \A k \in DOMAIN undo'[y] : k \in DOMAIN undo[y] /\ undo'[y][k] = undo[y][k]
  <2> DEFINE f == Front(undo[x])
             n == Len(undo[x]) - 1
  <2>1. n \in Nat /\ \A i \in 1..n : i \in DOMAIN undo[x] /\ undo[x][i] \in EntryType
    BY <1>4, <1>5, LenProperties
  <2>2. f \in Seq(EntryType) /\ DOMAIN f = 1..n /\ \A i \in 1..n : f[i] = undo[x][i]
    BY <1>5, <2>1 DEF Front
  <2> HIDE DEF f, n
  <2>3. undo' = [undo EXCEPT ![x] = f]
    BY <1>1 DEF f
  <2> QED BY <1>4, <2>1, <2>2, <2>3
<1>13. <<>> \in Seq(EntryType) /\ DOMAIN <<>> = {}
  BY EmptySeq
<1>14. DOMAIN mem[p].slots \subseteq DOMAIN after
  BY <1>8 DEF slots
<1>15. \A k \in DOMAIN <<>> : /\ <<>>[k].page = p
                              /\ \A i \in DOMAIN <<>>[k].old : <<>>[k].old[i] \in DOMAIN after
  OBVIOUS
<1> QED BY <1>1, <1>6, <1>8, <1>11, <1>12, <1>13, <1>14, <1>15, MiniInv DEF C, p

\* Vacuum marks or compacts: it brings no xid to the page or to the log.
LEMMA VacuumInv ==
  ASSUME XidInv, NEW p \in load.pages, VacuumMark(p) \/ VacuumCompact(p)
  PROVE  XidInv'
<1> DEFINE C == Covered(Len(log))
           slots == mem[p].slots
<1>1. 0 \in C
  BY CoverFacts DEF XidInv, TypeInv
<1>2. slots \in Seq(RowOf(C)) /\ mem[p] \in PageOf(C)
  BY DEF XidInv, MemOK, PageOf
<1>3. undo \in [Xids -> Seq(EntryType)] /\ <<>> \in Seq(EntryType)
  BY EmptySeq DEF XidInv, TypeInv
<1>4. ASSUME NEW image, image = <<>> \/ image = FirstImage(p), NEW r \in RecordOf(C),
             r.typ # "txnBegin", NEW t \in Seq(RowOf(C)), DOMAIN t = DOMAIN slots,
             state = "up", Mini(0, p, image, <<r>>, t, <<>>),
             UNCHANGED <<load, disk, durable, durLsn, nextXid, txn, undo, control, ckpt, state, todo>>
      PROVE  XidInv'
  <2>1. <<r>> \in Seq(RecordOf(C)) /\ \A i \in 1..Len(<<r>>) : <<r>>[i].typ # "txnBegin"
    BY <1>4, OneRecord
  <2>2. DOMAIN mem[p].slots \subseteq DOMAIN t
    BY <1>4
  <2>3. undo' \in [Xids -> Seq(EntryType)] /\ undo' = undo
    BY <1>3, <1>4
  <2>4. \A k \in DOMAIN <<>> : /\ <<>>[k].page = p
                               /\ \A i \in DOMAIN <<>>[k].old : <<>>[k].old[i] \in DOMAIN t
    OBVIOUS
  <2> QED BY <1>3, <1>4, <2>1, <2>2, <2>3, <2>4, MiniInv
<1> HIDE DEF C
<1>5. CASE VacuumMark(p)
  <2>1. PICK s \in DOMAIN slots :
          Mini(0, p, FirstImage(p), <<Change("vacuum", 0, <<s>>, <<>>)>>, MarkDead(slots, <<s>>), <<>>)
    BY <1>5 DEF VacuumMark
  <2>2. /\ state = "up"
        /\ UNCHANGED <<load, disk, durable, durLsn, nextXid, txn, undo, control, ckpt, state, todo>>
    BY <1>5 DEF VacuumMark, txnVars
  <2>3. \A ss : MarkDead(slots, ss) \in Seq(RowOf(C)) /\ DOMAIN MarkDead(slots, ss) = DOMAIN slots
    BY <1>1, <1>2, ClearFact
  <2> DEFINE typ == "vacuum"
             old == <<s>>
             new == <<>>
             r == Change(typ, 0, old, new)
  <2>4. typ \in RecordTypes /\ typ # "txnBegin"
    BY DEF RecordTypes
  <2>5. old \in Seq(Nat) /\ new \in Seq(Nat)
    <3>1. s \in Nat
      BY <1>2, LenProperties
    <3> QED BY <3>1, OneRecord, EmptySeq
  <2> HIDE DEF typ, old, new
  <2>6. r \in RecordOf(C) /\ r.typ = typ
    BY <1>1, <2>4, <2>5, ChangeRecord
  <2> HIDE DEF r
  <2>7. Mini(0, p, FirstImage(p), <<r>>, MarkDead(slots, old), <<>>)
    BY <2>1 DEF r, typ, old, new
  <2>8. MarkDead(slots, old) \in Seq(RowOf(C)) /\ DOMAIN MarkDead(slots, old) = DOMAIN slots
    BY <2>3
  <2> QED BY <1>4, <2>2, <2>4, <2>6, <2>7, <2>8
<1>6. CASE VacuumCompact(p)
  <2> DEFINE t == Compact(slots)
             r == [Blank EXCEPT !.typ = "compact", !.img = [mem[p] EXCEPT !.slots = t]]
  <2>1. /\ state = "up" /\ Mini(0, p, <<>>, <<r>>, t, <<>>)
        /\ UNCHANGED <<load, disk, durable, durLsn, nextXid, txn, undo, control, ckpt, state, todo>>
    BY <1>6 DEF VacuumCompact, txnVars
  <2>2. t \in Seq(RowOf(C)) /\ DOMAIN t = DOMAIN slots
    BY <1>1, <1>2, CompactFact
  <2> HIDE DEF t
  <2>3. [mem[p] EXCEPT !.slots = t] \in PageOf(C)
    BY <1>2, <2>2 DEF PageOf
  <2>4. Blank \in RecordOf(C) /\ "compact" \in RecordTypes
    BY <1>1, BlankFact DEF RecordTypes
  <2>5. r \in RecordOf(C) /\ r.typ = "compact"
    BY <2>3, <2>4 DEF RecordOf
  <2> HIDE DEF r
  <2> QED BY <1>4, <2>1, <2>2, <2>5
<1> QED BY <1>5, <1>6

\* A sync makes the whole log durable.
LEMMA SyncInv == ASSUME XidInv, Sync \/ CkptSync PROVE XidInv'
<1>1. /\ state = "up" /\ durable' = Len(log) /\ durLsn' = nextLsn - 1
      /\ UNCHANGED <<load, mem, disk, dirty, log, nextLsn, txn, undo, control, nextMini, nextXid,
                     open, state, todo>>
      /\ \/ ckpt' = ckpt
         \/ ckpt.pc = "idle" /\ ckpt' = [ckpt EXCEPT !.pc = "flush", !.xid = nextXid]
  BY DEF Sync, CkptSync, pagesVars, txnVars
<1>2. /\ Len(log) \in Nat /\ durable \in 0..Len(log) /\ nextLsn \in Nat /\ durLsn \in Nat
      /\ durLsn < nextLsn /\ nextXid \in Nat
      /\ ckpt \in [pc : {"idle", "flush", "log", "control"}, lsn : Nat, xid : Nat]
  BY <1>1 DEF XidInv, TypeInv, CountersOK
<1>3. UndoOK' /\ EntryType' = EntryType
  BY <1>1, Unmoved
<1>4. ckpt' \in [pc : {"idle", "flush", "log", "control"}, lsn : Nat, xid : Nat]
  BY <1>1, <1>2
<1>5. TypeInv'
  BY <1>1, <1>2, <1>3, <1>4 DEF XidInv, TypeInv
<1>6. \A n : Covered(n)' = Covered(n)
  BY <1>1 DEF Covered
<1>7. /\ Covered(Len(log)) \subseteq Covered(Len(log))' /\ Covered(Len(log)) \subseteq Covered(durable)'
      /\ Covered(durable) \subseteq Covered(durable)'
  <2>1. Covered(durable) \subseteq Covered(Len(log))
    BY <1>2, CoverFacts DEF XidInv
  <2>2. CoveredBy(log', control'.nextXid, Len(log')) = Covered(Len(log))
    BY <1>1 DEF Covered
  <2>3. CoveredBy(log', control'.nextXid, durable') = Covered(Len(log))
    BY <1>1 DEF Covered
  <2> QED BY <2>1, <2>2, <2>3 DEF Covered
<1>8. DiskOK' /\ MemOK'
  BY <1>1, <1>7, PagesKept
<1>9. LogOK' /\ RecoveringOK'
  BY <1>1 DEF XidInv, LogOK, RecoveringOK, Covered
<1>10. ActiveOK'
  BY <1>1 DEF XidInv, ActiveOK, Active, Covered
<1>11. CountersOK'
  BY <1>1, <1>2 DEF XidInv, CountersOK
<1>12. CkptOK'
  <2>1. CASE ckpt' = ckpt
    BY <1>1, <1>2, <2>1 DEF XidInv, CkptOK
  <2>2. CASE ckpt' = [ckpt EXCEPT !.pc = "flush", !.xid = nextXid]
    <3>1. ckpt'.pc = "flush" /\ ckpt'.xid = nextXid
      BY <1>2, <2>2
    <3> QED BY <1>1, <3>1 DEF CkptOK
  <2> QED BY <1>1, <2>1, <2>2
<1> QED BY <1>3, <1>5, <1>8, <1>9, <1>10, <1>11, <1>12 DEF XidInv

\* find_victim: what the frontier lets go is covered by the durable log.
LEMMA StealInv == ASSUME XidInv, NEW p \in load.pages, Steal(p) PROVE XidInv'
<1>1. /\ mem[p].lsn <= durLsn /\ disk' = [disk EXCEPT ![p] = mem[p]] /\ dirty' = dirty \ {p}
      /\ UNCHANGED <<load, mem, log, nextLsn, durable, durLsn, txn, undo, control, nextMini, nextXid,
                     open, ckpt, state, todo>>
  BY DEF Steal, MayFlush, walVars, txnVars
<1>2. disk \in [load.pages -> PageOf(Nat)] /\ mem \in [load.pages -> PageOf(Nat)]
  BY DEF XidInv, TypeInv
<1>3. UndoOK' /\ EntryType' = EntryType
  BY <1>1, Unmoved
<1>4. disk' \in [load.pages -> PageOf(Nat)]
  BY <1>1, <1>2
<1>5. TypeInv'
  BY <1>1, <1>3, <1>4 DEF XidInv, TypeInv
<1>6. DiskOK'
  <2>1. mem[p] \in PageOf(Covered(durable))
    BY <1>1 DEF XidInv, MemOK
  <2>2. \A q \in load.pages : disk'[q] = IF q = p THEN mem[p] ELSE disk[q]
    BY <1>1, <1>2
  <2>3. \A q \in load.pages : disk'[q] \in PageOf(Covered(durable))
    BY <2>1, <2>2 DEF XidInv, DiskOK
  <2> QED BY <1>1, <2>3 DEF DiskOK, Covered
<1>7. LogOK' /\ MemOK' /\ ActiveOK' /\ CountersOK' /\ RecoveringOK' /\ CkptOK'
  BY <1>1 DEF XidInv, LogOK, MemOK, ActiveOK, Active, CountersOK, RecoveringOK, CkptOK, Covered
<1> QED BY <1>3, <1>5, <1>6, <1>7 DEF XidInv

\* flush_all does what the steals would do, or nothing.
LEMMA CkptFlushInv == ASSUME XidInv, CkptFlush PROVE XidInv'
<1>1. /\ state = "up" /\ ckpt.pc = "flush"
      /\ UNCHANGED <<load, mem, log, nextLsn, durable, durLsn, txn, undo, control, nextMini, nextXid,
                     open, state, todo>>
      /\ \/ /\ \A p \in dirty : mem[p].lsn <= durLsn
            /\ disk' = [p \in load.pages |-> IF p \in dirty THEN mem[p] ELSE disk[p]]
            /\ dirty' = {} /\ ckpt' = [ckpt EXCEPT !.pc = "log"]
         \/ UNCHANGED <<disk, dirty>> /\ ckpt' = [ckpt EXCEPT !.pc = "idle"]
  BY DEF CkptFlush, walVars, txnVars
<1>2. /\ disk \in [load.pages -> PageOf(Nat)] /\ mem \in [load.pages -> PageOf(Nat)]
      /\ ckpt \in [pc : {"idle", "flush", "log", "control"}, lsn : Nat, xid : Nat]
      /\ dirty \subseteq load.pages
  BY DEF XidInv, TypeInv
<1>3. UndoOK' /\ EntryType' = EntryType
  BY <1>1, Unmoved
<1>4. /\ ckpt' \in [pc : {"idle", "flush", "log", "control"}, lsn : Nat, xid : Nat]
      /\ ckpt'.pc \in {"idle", "log"} /\ ckpt'.xid = ckpt.xid
  BY <1>1, <1>2
<1>5. disk' \in [load.pages -> PageOf(Nat)] /\ dirty' \subseteq load.pages
  BY <1>1, <1>2
<1>6. TypeInv'
  BY <1>1, <1>3, <1>4, <1>5 DEF XidInv, TypeInv
<1>7. DiskOK'
  <2>1. ASSUME NEW q \in load.pages PROVE disk'[q] \in PageOf(Covered(durable))
    <3>1. disk[q] \in PageOf(Covered(durable))
      BY DEF XidInv, DiskOK
    <3>2. mem[q].lsn <= durLsn => mem[q] \in PageOf(Covered(durable))
      BY DEF XidInv, MemOK
    <3> QED BY <1>1, <3>1, <3>2
  <2> QED BY <1>1, <2>1 DEF DiskOK, Covered
<1>8. LogOK' /\ MemOK' /\ ActiveOK' /\ CountersOK' /\ RecoveringOK'
  BY <1>1 DEF XidInv, LogOK, MemOK, ActiveOK, Active, CountersOK, RecoveringOK, Covered
<1>9. CkptOK'
  BY <1>1, <1>4 DEF XidInv, CkptOK
<1> QED BY <1>3, <1>6, <1>7, <1>8, <1>9 DEF XidInv

LEMMA CkptLogInv == ASSUME XidInv, CkptLog PROVE XidInv'
<1>1. /\ state = "up" /\ ckpt.pc = "log" /\ Logged(<<Note("ckpt", 0)>>)
      /\ durable' = Len(log') /\ durLsn' = nextLsn
      /\ ckpt' = [ckpt EXCEPT !.pc = "control", !.lsn = nextLsn]
      /\ UNCHANGED <<load, mem, disk, dirty, txn, undo, control, nextMini, nextXid, open, state, todo>>
  BY DEF CkptLog, pagesVars, txnVars
<1> DEFINE r == Note("ckpt", 0)
           recs == <<r>>
<1>2. r \in RecordOf(Covered(Len(log))) /\ r.typ = "ckpt"
  <2>1. "ckpt" \in RecordTypes
    BY DEF RecordTypes
  <2> QED BY <2>1, NoteCovered
<1> HIDE DEF r
<1>3. recs \in Seq(RecordOf(Covered(Len(log)))) /\ Len(recs) = 1 /\ recs[1] = r
  BY <1>2, OneRecord
<1>4. Logged(recs)
  BY <1>1 DEF r
<1> HIDE DEF recs
<1>5. /\ Len(recs) \in Nat /\ Len(log) \in Nat
      /\ log' \in Seq(RecordOf(Nat)) /\ Len(log') = Len(log) + Len(recs)
      /\ nextLsn' = nextLsn + Len(recs) /\ nextLsn' \in Nat
      /\ \A i \in 1..Len(log) : log'[i] = log[i]
      /\ \A i \in 1..Len(recs) : /\ log'[Len(log) + i].typ = recs[i].typ
                                 /\ log'[Len(log) + i].lsn = nextLsn + i - 1
      /\ Covered(Len(log)) \subseteq Covered(Len(log))'
      /\ LogOK'
  <2>1. \A i \in 1..Len(recs) : recs[i].typ = "txnBegin" => recs[i].mini <= MaxXid
    BY <1>2, <1>3
  <2>2. control' = control
    BY <1>1
  <2> QED BY <1>3, <1>4, <2>1, <2>2, LogGrows DEF XidInv
<1>6. /\ Len(log') = Len(log) + 1 /\ nextLsn' = nextLsn + 1
      /\ log'[Len(log) + 1].typ = "ckpt" /\ log'[Len(log) + 1].lsn = nextLsn
  <2>1. nextLsn \in Nat
    BY DEF XidInv, TypeInv
  <2>2. log'[Len(log) + 1].typ = recs[1].typ /\ log'[Len(log) + 1].lsn = nextLsn + 1 - 1
    BY <1>3, <1>5
  <2> QED BY <1>2, <1>3, <1>5, <2>1, <2>2
<1>7. /\ nextLsn \in Nat /\ nextXid \in Nat
      /\ ckpt \in [pc : {"idle", "flush", "log", "control"}, lsn : Nat, xid : Nat]
      /\ durable \in 0..Len(log)
  BY DEF XidInv, TypeInv
<1>8. ckpt' \in [pc : {"idle", "flush", "log", "control"}, lsn : Nat, xid : Nat]
      /\ ckpt'.pc = "control" /\ ckpt'.lsn = nextLsn /\ ckpt'.xid = ckpt.xid
  BY <1>1, <1>7
<1>9. UndoOK' /\ EntryType' = EntryType
  BY <1>1, Unmoved
<1>10. TypeInv'
  <2>1. durable' \in 0..Len(log') /\ durLsn' \in Nat
    BY <1>1, <1>5, <1>6, <1>7
  <2> QED BY <1>1, <1>5, <1>8, <1>9, <2>1 DEF XidInv, TypeInv
<1>11. Covered(Len(log)) \subseteq Covered(durable)' /\ Covered(durable) \subseteq Covered(durable)'
  <2>1. Covered(durable) \subseteq Covered(Len(log))
    BY <1>7, <1>5, CoverFacts DEF XidInv
  <2>2. Covered(Len(log))' = Covered(durable)'
    BY <1>1 DEF Covered
  <2> QED BY <1>5, <2>1, <2>2
<1>12. DiskOK' /\ MemOK'
  BY <1>1, <1>5, <1>11, PagesKept
<1>13. ActiveOK'
  BY <1>1, <1>5 DEF XidInv, ActiveOK, Active
<1>14. CountersOK'
  <2>1. ASSUME NEW i \in 1..Len(log'), log'[i].typ = "txnBegin" PROVE log'[i].mini < nextXid
    <3>1. i \in 1..Len(log)
      BY <1>5, <1>6, <2>1
    <3> QED BY <1>1, <1>5, <2>1, <3>1 DEF XidInv, CountersOK
  <2> QED BY <1>1, <1>6, <1>7, <2>1 DEF XidInv, CountersOK
<1>15. RecoveringOK'
  BY <1>1 DEF XidInv, RecoveringOK
<1>16. CkptOK'
  <2>1. Len(log) + 1 \in 1..durable'
    BY <1>1, <1>5, <1>6
  <2> QED BY <1>1, <1>6, <1>8, <2>1 DEF XidInv, CkptOK
<1> QED BY <1>5, <1>9, <1>10, <1>12, <1>13, <1>14, <1>15, <1>16 DEF XidInv

\* After the control file is written every xid in use is below its next_xid, and
\* the log need cover nothing any more.
LEMMA CkptControlInv == ASSUME XidInv, CkptControl PROVE XidInv'
<1> DEFINE I == {i \in 1..Len(log) : log[i].typ = "ckpt" /\ log[i].lsn = ckpt.lsn}
<1>1. /\ state = "up" /\ ckpt.pc = "control"
      /\ control' = [ckpt |-> ckpt.lsn, tail |-> nextLsn - 1, nextXid |-> ckpt.xid]
      /\ ckpt' = [ckpt EXCEPT !.pc = "idle"]
      /\ UNCHANGED <<load, nextLsn, durLsn, mem, disk, dirty, txn, undo, nextMini, nextXid, open,
                     state, todo>>
  BY DEF CkptControl, pagesVars, txnVars
<1>2. /\ Len(log) \in Nat /\ durable \in 0..Len(log) /\ nextXid \in Nat /\ nextLsn \in Nat /\ durLsn \in Nat
      /\ ckpt \in [pc : {"idle", "flush", "log", "control"}, lsn : Nat, xid : Nat]
      /\ log \in Seq(RecordOf(Nat)) /\ \A i \in 1..Len(log) : log[i] \in RecordOf(Nat)
      /\ durLsn < nextLsn /\ control.nextXid \in Nat /\ nextXid >= 2 /\ ckpt.xid = nextXid
  BY <1>1 DEF XidInv, TypeInv, CountersOK, CkptOK
<1>3. I # {} /\ I \in SUBSET Nat /\ \E k \in I : k <= durable
  BY <1>1, <1>2 DEF XidInv, CkptOK
<1>4. Min(I) \in 1..durable
  <2>1. I \subseteq 1..Len(log)
    OBVIOUS
  <2> HIDE DEF I
  <2>2. Min(I) \in I /\ \A k \in I : Min(I) <= k
    BY <1>3, MinFact
  <2>3. PICK k \in I : k <= durable
    BY <1>3
  <2>4. Min(I) <= k
    BY ONLY <2>2, k \in I
  <2>5. k \in 1..Len(log) /\ Min(I) \in 1..Len(log)
    BY ONLY <2>1, <2>2, k \in I
  <2>6. Len(log) \in Nat /\ durable \in 0..Len(log)
    BY <1>2
  <2> QED BY ONLY <2>3, <2>4, <2>5, <2>6
<1>5. SelectInSeq(log, LAMBDA r : r.typ = "ckpt" /\ r.lsn = ckpt.lsn) = Min(I)
  BY <1>3 DEF SelectInSeq
<1>6. PICK n \in {0, Min(I) - 1} : log' = SubSeq(log, n + 1, Len(log)) /\ durable' = durable - n
  BY <1>5 DEF CkptControl
<1>7. n \in Nat /\ n <= durable /\ n <= Len(log)
  BY <1>2, <1>4
<1>8. /\ log' \in Seq(RecordOf(Nat)) /\ Len(log') = Len(log) - n
      /\ \A i \in 1..Len(log') : log'[i] = log[n + i]
  BY <1>2, <1>6, <1>7
<1>9. UndoOK' /\ EntryType' = EntryType
  BY <1>1, Unmoved
<1>10. /\ ckpt' \in [pc : {"idle", "flush", "log", "control"}, lsn : Nat, xid : Nat]
       /\ ckpt'.pc = "idle" /\ control' \in [ckpt : Nat, tail : Nat, nextXid : Nat]
       /\ control'.nextXid = nextXid
  BY <1>1, <1>2
<1>11. TypeInv'
  <2>1. durable' \in 0..Len(log')
    BY <1>2, <1>6, <1>7, <1>8
  <2> QED BY <1>1, <1>8, <1>9, <1>10, <2>1 DEF XidInv, TypeInv
<1>12. \A m \in Int : m <= Len(log) => Covered(m) \subseteq 0..(nextXid - 1)
  <2>1. Covered(Len(log)) \subseteq 0..(nextXid - 1)
    BY <1>1, <1>2 DEF XidInv, CountersOK, Covered, CoveredBy, Begun
  <2>2. \A m \in Int : m <= Len(log) => Covered(m) \subseteq Covered(Len(log))
    BY CoverFacts DEF XidInv
  <2> QED BY <2>1, <2>2
<1>13. \A m : 0..(nextXid - 1) \subseteq CoveredBy(log', control'.nextXid, m)
  BY <1>2, <1>10 DEF CoveredBy
<1>14. DiskOK' /\ MemOK'
  <2>1. Covered(Len(log)) \subseteq Covered(Len(log))' /\ Covered(Len(log)) \subseteq Covered(durable)'
    BY <1>2, <1>12, <1>13 DEF Covered
  <2>2. Covered(durable) \subseteq Covered(durable)'
    BY <1>2, <1>12, <1>13 DEF Covered
  <2> QED BY <1>1, <2>1, <2>2, PagesKept
<1>15. LogOK'
  <2> SUFFICES ASSUME NEW i \in 1..Len(log')
               PROVE  /\ log'[i] \in RecordOf(CoveredBy(log', control'.nextXid, i))
                      /\ log'[i].typ = "txnBegin" => log'[i].mini <= MaxXid
    BY DEF LogOK, Covered
  <2>1. n + i \in 1..Len(log) /\ log'[i] = log[n + i]
    BY <1>2, <1>7, <1>8
  <2>2. log[n + i] \in RecordOf(Covered(n + i)) /\ (log[n + i].typ = "txnBegin" => log[n + i].mini <= MaxXid)
    BY <2>1 DEF XidInv, LogOK
  <2>3. Covered(n + i) \subseteq CoveredBy(log', control'.nextXid, i)
    BY <1>12, <1>13, <2>1
  <2> QED BY <2>1, <2>2, <2>3, RowsGrow
<1>16. ActiveOK'
  <2>1. Active' = Active
    BY <1>1 DEF Active
  <2>2. \A x \in Active : x \in 0..(nextXid - 1)
    BY <1>2, <1>12 DEF XidInv, ActiveOK
  <2> QED BY <1>13, <2>1, <2>2 DEF ActiveOK, Covered
<1>17. CountersOK'
  <2>1. ASSUME NEW i \in 1..Len(log'), log'[i].typ = "txnBegin" PROVE log'[i].mini < nextXid
    <3>1. n + i \in 1..Len(log) /\ log'[i] = log[n + i]
      BY <1>2, <1>7, <1>8
    <3> QED BY <1>1, <2>1, <3>1 DEF XidInv, CountersOK
  <2> QED BY <1>1, <1>2, <1>10, <2>1 DEF XidInv, CountersOK
<1>18. RecoveringOK' /\ CkptOK'
  BY <1>1, <1>10 DEF XidInv, RecoveringOK, CkptOK
<1> QED BY <1>9, <1>11, <1>14, <1>15, <1>16, <1>17, <1>18 DEF XidInv

-----------------------------------------------------------------------------
(* Crash and recovery.                                                     *)

\* recover applies records of the log and nothing else.
LEMMA WorkFact ==
  ASSUME NEW recs, NEW item \in Work(recs)
  PROVE  item.step \in Steps /\ item.r \in ToSet(recs)
<1>1. ASSUME NEW step \in Steps, NEW at \in SUBSET DOMAIN recs, item \in Items(step, recs, at)
      PROVE  item.step \in Steps /\ item.r \in ToSet(recs)
  <2>1. PICK i \in at : item = [step |-> step, at |-> i, r |-> recs[i]]
    BY <1>1 DEF Items
  <2>2. item.step = step /\ item.r = recs[i] /\ i \in DOMAIN recs
    BY <2>1
  <2> QED BY <2>2 DEF ToSet
<1>2. \E step \in Steps : \E at \in SUBSET DOMAIN recs : item \in Items(step, recs, at)
  BY DEF Work, Steps
<1> QED BY <1>1, <1>2

\* Nothing of a statement or of a rollback is left.
LEMMA NothingToUndo ==
  ASSUME undo' = [x \in Xids |-> <<>>], open' = [o \in {0} \cup Xids |-> NoMini]
  PROVE  UndoOK'
<1>1. NoMini.undo = <<>>
  BY DEF NoMini
<1>2. \A x \in Xids : undo'[x] = <<>>
  OBVIOUS
<1>3. \A o \in {0} \cup Xids : open'[o].undo = <<>>
  BY <1>1
<1> QED BY <1>2, <1>3 DEF UndoOK, EntriesOK

\* The machine stops: the log keeps its durable records and perhaps some more.
LEMMA CrashInv == ASSUME XidInv, Crash PROVE XidInv'
<1>1. PICK n \in durable..Len(log) : log' = SubSeq(log, 1, n) /\ durable' = n
  BY DEF Crash
<1>2. /\ mem' = disk /\ dirty' = {} /\ state' = "recovering" /\ todo' = Work(log')
      /\ txn' = [x \in DOMAIN txn |-> "none"]
      /\ undo' = [x \in DOMAIN undo |-> <<>>]
      /\ open' = [o \in DOMAIN open |-> NoMini]
      /\ ckpt' = [ckpt EXCEPT !.pc = "idle"]
      /\ UNCHANGED <<load, disk, control, nextLsn, nextMini, nextXid>>
  BY DEF Crash
<1>3. /\ Len(log) \in Nat /\ durable \in 0..Len(log) /\ n \in 0..Len(log) /\ durable <= n
      /\ log \in Seq(RecordOf(Nat)) /\ control.nextXid \in Nat
      /\ DOMAIN txn = Xids /\ DOMAIN undo = Xids /\ DOMAIN open = {0} \cup Xids
      /\ ckpt \in [pc : {"idle", "flush", "log", "control"}, lsn : Nat, xid : Nat]
  BY DEF XidInv, TypeInv
<1>4. /\ log' \in Seq(RecordOf(Nat)) /\ Len(log') = n
      /\ \A i \in 1..n : log'[i] = log[i]
  BY <1>1, <1>3
<1>5. /\ txn' = [x \in Xids |-> "none"] /\ undo' = [x \in Xids |-> <<>>]
      /\ open' = [o \in {0} \cup Xids |-> NoMini]
      /\ ckpt' \in [pc : {"idle", "flush", "log", "control"}, lsn : Nat, xid : Nat]
      /\ ckpt'.pc = "idle"
  BY <1>2, <1>3
<1>6. UndoOK'
  BY <1>5, NothingToUndo
<1>7. TypeInv'
  <2>1. undo' \in [Xids -> Seq(EntryType')]
    BY <1>5, EmptySeq
  <2>2. NoMini \in [mini : Nat, page : Nat, undo : Seq(EntryType')]
    BY EmptySeq DEF NoMini
  <2>3. open' \in [{0} \cup Xids -> [mini : Nat, page : Nat, undo : Seq(EntryType')]]
    BY <1>5, <2>2
  <2>4. txn' \in [Xids -> {"none", "active", "aborting", "done"}]
    BY <1>5
  <2>5. durable' \in 0..Len(log')
    BY <1>1, <1>3, <1>4
  <2>6. state' # "up" /\ state' \in {"up", "recovering", "failed"}
    BY <1>2
  <2> QED BY <1>2, <1>4, <1>5, <2>1, <2>3, <2>4, <2>5, <2>6 DEF XidInv, TypeInv
<1>8. \A i \in 0..n : CoveredBy(log', control'.nextXid, i) = Covered(i)
  <2>1. ASSUME NEW i \in 0..n, NEW x PROVE Begun(log', i, x) <=> Begun(log, i, x)
    <3>1. \A j \in 1..i : log'[j] = log[j]
      BY <1>3, <1>4
    <3> QED BY <3>1 DEF Begun
  <2> QED BY <1>2, <2>1 DEF Covered, CoveredBy
<1>9. \A p \in load.pages : disk[p] \in PageOf(CoveredBy(log', control'.nextXid, n))
  <2>1. Covered(durable) \subseteq Covered(n)
    BY <1>3, CoverFacts DEF XidInv
  <2>2. n \in 0..n
    BY <1>3
  <2>3. Covered(durable) \subseteq CoveredBy(log', control'.nextXid, n)
    BY <1>8, <2>1, <2>2
  <2> QED BY <2>3, RowsGrow DEF XidInv, DiskOK
<1>10. DiskOK' /\ MemOK'
  BY <1>1, <1>2, <1>4, <1>9 DEF DiskOK, MemOK, Covered
<1>11. LogOK'
  <2> SUFFICES ASSUME NEW i \in 1..Len(log')
               PROVE  /\ log'[i] \in RecordOf(CoveredBy(log', control'.nextXid, i))
                      /\ log'[i].typ = "txnBegin" => log'[i].mini <= MaxXid
    BY DEF LogOK, Covered
  <2>1. i \in 1..Len(log) /\ i \in 0..n /\ log'[i] = log[i]
    BY <1>3, <1>4
  <2> QED BY <1>8, <2>1 DEF XidInv, LogOK
<1>12. ActiveOK'
  BY <1>5 DEF ActiveOK, Active
<1>13. CountersOK'
  BY <1>2 DEF XidInv, CountersOK
<1>14. RecoveringOK'
  <2>1. \A item \in todo' : item.step \in Steps /\ item.r \in ToSet(log')
    BY <1>2, WorkFact
  <2>2. durable' = Len(log')
    BY <1>1, <1>4
  <2> QED BY <1>2, <1>5, <2>1, <2>2 DEF RecoveringOK
<1>15. CkptOK'
  BY <1>5 DEF CkptOK
<1> QED BY <1>6, <1>7, <1>10, <1>11, <1>12, <1>13, <1>14, <1>15 DEF XidInv

\* One record redone, undone or neutralised, or an error.
LEMMA RecoverStepInv == ASSUME XidInv, RecoverStep PROVE XidInv'
<1> DEFINE C == Covered(Len(log))
<1>1. PICK item \in todo :
        \/ state' = "failed" /\ UNCHANGED <<mem, dirty, todo>>
        \/ /\ mem' = [mem EXCEPT ![item.r.page] = Applied(item, mem[item.r.page])]
           /\ dirty' = IF mem' = mem THEN dirty ELSE dirty \cup {item.r.page}
           /\ todo' = todo \ {item} /\ UNCHANGED state
  BY DEF RecoverStep
<1>2. /\ state = "recovering"
      /\ UNCHANGED <<load, disk, log, durable, durLsn, nextLsn, nextXid, txn, undo, control, nextMini,
                     open, ckpt>>
  BY DEF RecoverStep, walVars, txnVars
<1>3. /\ mem \in [load.pages -> PageOf(Nat)] /\ Len(log) \in Nat /\ log \in Seq(RecordOf(Nat))
      /\ dirty \subseteq load.pages
  BY DEF XidInv, TypeInv
<1>4. /\ durable = Len(log) /\ ckpt.pc = "idle"
      /\ undo = [x \in Xids |-> <<>>] /\ open = [o \in {0} \cup Xids |-> NoMini]
      /\ txn = [x \in Xids |-> "none"]
      /\ \A i \in todo : i.step \in Steps /\ i.r \in ToSet(log)
  BY <1>2 DEF XidInv, RecoveringOK
<1>5. 0 \in C /\ C \subseteq Nat
  BY <1>3, CoverFacts DEF XidInv
<1>6. item.r \in RecordOf(C)
  <2>1. PICK i \in 1..Len(log) : item.r = log[i]
    BY <1>3, <1>4, LenProperties DEF ToSet
  <2>2. log[i] \in RecordOf(Covered(i))
    BY DEF XidInv, LogOK
  <2>3. Covered(i) \subseteq C
    BY <1>3, CoverFacts DEF XidInv
  <2> QED BY <2>1, <2>2, <2>3, RowsGrow
<1>7. \A q \in load.pages : mem[q] \in PageOf(C)
  BY DEF XidInv, MemOK
<1> HIDE DEF C
<1>8. /\ mem' \in [load.pages -> PageOf(C)] /\ dirty' \subseteq load.pages
      /\ todo' \subseteq todo /\ state' \in {"recovering", "failed"}
  <2>1. mem \in [load.pages -> PageOf(C)]
    BY <1>3, <1>7
  <2>2. CASE state' = "failed" /\ UNCHANGED <<mem, dirty, todo>>
    BY <1>3, <2>1, <2>2
  <2>3. CASE /\ mem' = [mem EXCEPT ![item.r.page] = Applied(item, mem[item.r.page])]
             /\ dirty' = IF mem' = mem THEN dirty ELSE dirty \cup {item.r.page}
             /\ todo' = todo \ {item} /\ UNCHANGED state
    <3>1. CASE item.r.page \in load.pages
      <4>1. Applied(item, mem[item.r.page]) \in PageOf(C)
        BY <1>4, <1>5, <1>6, <1>7, <3>1, AppliedFact DEF Steps
      <4> QED BY <1>2, <1>3, <2>1, <2>3, <3>1, <4>1
    <3>2. CASE item.r.page \notin load.pages
      <4>1. mem' = mem
        BY <2>1, <2>3, <3>2
      <4> QED BY <1>2, <1>3, <2>1, <2>3, <4>1
    <3> QED BY <3>1, <3>2
  <2> QED BY <1>1, <2>2, <2>3
<1>9. UndoOK'
  BY <1>2, <1>4, NothingToUndo
<1>10. TypeInv'
  <2>1. mem' \in [load.pages -> PageOf(Nat)]
    BY <1>5, <1>8, RowsGrow
  <2>2. state' # "up" /\ state' \in {"up", "recovering", "failed"}
    BY <1>8
  <2>3. EntryType' = EntryType
    BY <1>2 DEF EntryType
  <2> QED BY <1>2, <1>8, <2>1, <2>2, <2>3 DEF XidInv, TypeInv
<1>11. C = CoveredBy(log', control'.nextXid, Len(log')) /\ C = CoveredBy(log', control'.nextXid, durable')
  BY <1>2, <1>4 DEF C, Covered
<1>12. MemOK'
  BY <1>2, <1>8, <1>11 DEF MemOK, Covered
<1>13. LogOK' /\ DiskOK' /\ ActiveOK' /\ CkptOK'
  BY <1>2 DEF XidInv, LogOK, DiskOK, ActiveOK, Active, CkptOK, Covered
<1>14. CountersOK'
  BY <1>2, <1>8 DEF XidInv, CountersOK
<1>15. RecoveringOK'
  BY <1>2, <1>4, <1>8 DEF RecoveringOK
<1> QED BY <1>9, <1>10, <1>12, <1>13, <1>14, <1>15 DEF XidInv

\* Engine::open: the counters start past everything in the log.
LEMMA OpenDoneInv == ASSUME XidInv, OpenDone PROVE XidInv'
<1>1. /\ state = "recovering" /\ todo = {} /\ disk' = mem /\ dirty' = {}
      /\ nextLsn' = control.tail + 1 /\ nextMini' = 1 /\ durLsn' = 0 /\ state' = "up"
      /\ nextXid' = RecoverNextXid(log, control.nextXid)
      /\ UNCHANGED <<load, mem, log, durable, txn, undo, control, open, ckpt, todo>>
  BY DEF OpenDone, ResumeLsn
<1>2. /\ Len(log) \in Nat /\ log \in Seq(RecordOf(Nat))
      /\ control \in [ckpt : Nat, tail : Nat, nextXid : Nat]
      /\ mem \in [load.pages -> PageOf(Nat)]
  BY DEF XidInv, TypeInv
<1>3. durable = Len(log) /\ ckpt.pc = "idle"
  BY <1>1 DEF XidInv, RecoveringOK
<1>4. /\ nextXid' \in Nat /\ control.nextXid <= nextXid'
      /\ \A i \in 1..Len(log) : log[i].typ = "txnBegin" => log[i].mini < nextXid'
  <2>1. \A i \in 1..Len(log) : log[i].typ = "txnBegin" => log[i].mini <= MaxXid
    BY DEF XidInv, LogOK
  <2> QED BY <1>1, <1>2, <2>1, Resumed
<1>5. UndoOK' /\ EntryType' = EntryType
  BY <1>1, Unmoved
<1>6. TypeInv'
  <2>1. nextLsn' \in Nat /\ nextMini' \in Nat /\ durLsn' \in Nat
    BY <1>1, <1>2
  <2> QED BY <1>1, <1>4, <1>5, <2>1 DEF XidInv, TypeInv
<1>7. \A p \in load.pages : mem[p] \in PageOf(Covered(Len(log)))
  BY DEF XidInv, MemOK
<1>8. Covered(Len(log)) = CoveredBy(log', control'.nextXid, Len(log'))
      /\ Covered(Len(log)) = CoveredBy(log', control'.nextXid, durable')
  BY <1>1, <1>3 DEF Covered
<1>9. DiskOK' /\ MemOK'
  BY <1>1, <1>7, <1>8 DEF DiskOK, MemOK, Covered
<1>10. LogOK' /\ ActiveOK'
  BY <1>1 DEF XidInv, LogOK, ActiveOK, Active, Covered
<1>11. CountersOK'
  <2>1. durLsn' < nextLsn'
    BY <1>1, <1>2
  <2>2. nextXid' >= control'.nextXid
    BY <1>1, <1>2, <1>4
  <2> QED BY <1>1, <1>4, <2>1, <2>2 DEF XidInv, CountersOK
<1>12. RecoveringOK' /\ CkptOK'
  BY <1>1, <1>3 DEF XidInv, RecoveringOK, CkptOK
<1> QED BY <1>5, <1>6, <1>9, <1>10, <1>11, <1>12 DEF XidInv

-----------------------------------------------------------------------------
(* Together.                                                               *)

\* Every action, when no transaction begins during a checkpoint.
LEMMA NextInv == ASSUME XidInv, ~load.overlap, [Next]_vars PROVE XidInv'
<1>1. DOMAIN txn = Xids /\ DOMAIN open = {0} \cup Xids
  BY DEF XidInv, TypeInv
<1>2. CASE UNCHANGED vars
  <2>1. UNCHANGED <<load, log, durable, durLsn, mem, disk, dirty, control, nextLsn, nextMini, nextXid,
                    txn, undo, open, ckpt, state, todo>>
    BY <1>2 DEF vars, pagesVars, walVars, txnVars
  <2>2. UndoOK' /\ EntryType' = EntryType
    BY <2>1, Unmoved
  <2>3. TypeInv'
    BY <2>1, <2>2 DEF XidInv, TypeInv
  <2>4. LogOK' /\ DiskOK' /\ MemOK' /\ ActiveOK' /\ CountersOK' /\ RecoveringOK' /\ CkptOK'
    BY <2>1 DEF XidInv, LogOK, DiskOK, MemOK, ActiveOK, Active, CountersOK, RecoveringOK, CkptOK, Covered
  <2> QED BY <2>2, <2>3, <2>4 DEF XidInv
<1>3. CASE Begin
  BY <1>3, BeginInv
<1>4. CASE Sync \/ CkptSync
  BY <1>4, SyncInv
<1>5. CASE CkptFlush
  BY <1>5, CkptFlushInv
<1>6. CASE CkptLog
  BY <1>6, CkptLogInv
<1>7. CASE CkptControl
  BY <1>7, CkptControlInv
<1>8. CASE \E x \in DOMAIN txn : Commit(x) \/ Rollback(x) \/ UndoWrite(x) \/ AbortDone(x)
  BY <1>1, <1>8, CommitInv, RollbackInv, UndoWriteInv, AbortDoneInv
<1>9. CASE \E x \in DOMAIN txn, p \in load.pages : Write(x, p)
  BY <1>1, <1>9, WriteInv
<1>10. CASE \E o \in DOMAIN open : MiniCommit(o)
  BY <1>1, <1>10, MiniCommitInv
<1>11. CASE \E p \in load.pages : VacuumMark(p) \/ VacuumCompact(p) \/ Steal(p)
  BY <1>11, VacuumInv, StealInv
<1>12. CASE Crash
  BY <1>12, CrashInv
<1>13. CASE RecoverStep
  BY <1>13, RecoverStepInv
<1>14. CASE OpenDone
  BY <1>14, OpenDoneInv
<1> QED BY <1>2, <1>3, <1>4, <1>5, <1>6, <1>7, <1>8, <1>9, <1>10, <1>11, <1>12, <1>13, <1>14 DEF Next

\* The workload of a behaviour is fixed.
LEMMA LoadFixed == [Next]_vars => load' = load
<1> SUFFICES ASSUME [Next]_vars PROVE load' = load
  OBVIOUS
<1>1. CASE UNCHANGED vars
  BY <1>1 DEF vars
<1>2. ASSUME NEW x, Commit(x) \/ Rollback(x) \/ UndoWrite(x) \/ AbortDone(x) PROVE load' = load
  BY <1>2 DEF Commit, Rollback, UndoWrite, AbortDone
<1>3. ASSUME NEW x, NEW p, Write(x, p) PROVE load' = load
  BY <1>3 DEF Write
<1>4. ASSUME NEW o, MiniCommit(o) PROVE load' = load
  BY <1>4 DEF MiniCommit
<1>5. ASSUME NEW p, VacuumMark(p) \/ VacuumCompact(p) \/ Steal(p) PROVE load' = load
  BY <1>5 DEF VacuumMark, VacuumCompact, Steal
<1>6. CASE Begin \/ Sync \/ CkptSync \/ CkptFlush \/ CkptLog \/ CkptControl
  BY <1>6 DEF Begin, Sync, CkptSync, CkptFlush, CkptLog, CkptControl
<1>7. CASE Crash \/ RecoverStep \/ OpenDone
  BY <1>7 DEF Crash, RecoverStep, OpenDone
<1> QED BY <1>1, <1>2, <1>3, <1>4, <1>5, <1>6, <1>7 DEF Next

LEMMA InvHolds == Spec => [](~load.overlap => XidInv)
<1>1. Init => (~load.overlap => XidInv)
  BY InitInv
<1>2. (~load.overlap => XidInv) /\ [Next]_vars => (~load.overlap => XidInv)'
  BY NextInv, LoadFixed
<1> QED BY <1>1, <1>2, PTL DEF Spec

\* A covered xid is below the counter computed from the covering prefix.
LEMMA CoveredIsPast ==
  ASSUME XidInv, NEW x \in Covered(durable)
  PROVE  x < RecoverNextXid(SubSeq(log, 1, durable), control.nextXid)
<1> DEFINE recs == SubSeq(log, 1, durable)
           next == RecoverNextXid(recs, control.nextXid)
<1>1. /\ Len(log) \in Nat /\ durable \in 0..Len(log) /\ log \in Seq(RecordOf(Nat))
      /\ control.nextXid \in Nat
  BY DEF XidInv, TypeInv
<1>2. recs \in Seq(RecordOf(Nat)) /\ Len(recs) = durable /\ \A i \in 1..durable : recs[i] = log[i]
  BY <1>1
<1> HIDE DEF recs
<1>3. \A i \in 1..Len(recs) : recs[i].typ = "txnBegin" => recs[i].mini <= MaxXid
  BY <1>1, <1>2 DEF XidInv, LogOK
<1>4. /\ next \in Nat /\ control.nextXid <= next
      /\ \A i \in 1..Len(recs) : recs[i].typ = "txnBegin" => recs[i].mini < next
  BY <1>1, <1>2, <1>3, Resumed
<1> HIDE DEF next
<1>5. x \in Nat /\ (x < control.nextXid \/ Begun(log, durable, x))
  BY DEF Covered, CoveredBy
<1>6. x < next
  <2>1. CASE x < control.nextXid
    BY <1>1, <1>4, <1>5, <2>1
  <2>2. CASE Begun(log, durable, x)
    BY <1>2, <1>4, <2>2 DEF Begun
  <2> QED BY <1>5, <2>1, <2>2
<1> QED BY <1>6 DEF next, recs

\* recover_next_xid (Engine::open) never hands out an xid that a page on disk
\* already carries, wherever a crash falls and however many pages, slots, xids,
\* records and crashes there are: find_victim's test against the durable
\* frontier (D5), flush_all's, and the checkpoint's order (sync, flush, record,
\* control file, truncation) are together enough, under every workload in which
\* no transaction begins while a checkpoint runs.
THEOREM XidsAreNotReissued == Spec => [](~load.overlap => XidsNotReissued)
<1>1. XidInv => XidsNotReissued
  <2> SUFFICES ASSUME XidInv, NEW p \in load.pages, NEW s \in DOMAIN disk[p].slots
               PROVE  LET resumed == RecoverNextXid(SubSeq(log, 1, durable), control.nextXid)
                      IN disk[p].slots[s].xmin < resumed /\ disk[p].slots[s].xmax < resumed
    BY DEF XidsNotReissued
  <2>1. disk[p].slots \in Seq(RowOf(Covered(durable)))
    BY DEF XidInv, DiskOK, PageOf
  <2>2. disk[p].slots[s] \in RowOf(Covered(durable))
    BY <2>1, LenProperties
  <2>3. disk[p].slots[s].xmin \in Covered(durable) /\ disk[p].slots[s].xmax \in Covered(durable)
    BY <2>2 DEF RowOf
  <2> QED BY <2>3, CoveredIsPast
<1> QED BY <1>1, InvHolds, PTL
=============================================================================
