-------------------------- MODULE EventQueueProofs --------------------------
(***************************************************************************)
(* Proofs about EventQueue for any writers, workers, consumers, tables and *)
(* workloads in RestartSafe.                                               *)
(*                                                                         *)
(* Numbers.  derive_next_event_seq may take back the numbers of events     *)
(* whose transactions are lost.  It must not take back one that an offset  *)
(* in __consumers__ names.  Two orders see to that: an acknowledgement's   *)
(* record is behind those of the transactions it acknowledges, so that     *)
(* they survive whenever it does (AcksFollow); and the offset it replaces, *)
(* the one that comes back when it does not survive, names an event whose  *)
(* transaction is on disk (Settled).                                       *)
(*                                                                         *)
(* Events.  A consumer has got all it could see up to its offset, and up   *)
(* to the offset its poll began at (GotTo).  It may move the offset to the *)
(* end of its batch because a poll sees again what earlier polls saw after *)
(* the offset (PollOK) and its batch leaves no gap (BatchOK).  This is for *)
(* workloads in Separate.                                                  *)
(***************************************************************************)
EXTENDS EventQueue, FiniteSetTheorems, SequenceTheorems, WellFoundedInduction, TLAPS

\* A restart is followed by the numbers that were not used when there is no
\* vacuum_events (which may take the highest row away), when no poll falls
\* between a commit's leaving the active set and its record, and when there is
\* no live tail, whose cursor is kept by its client and survives any crash.
RestartSafe(l) ==
  l.crashes > 0 => ~l.vacuums /\ ~l.window /\ \A d \in Workers : l.kind[d] # "tail"

Pcs         == {"idle", "polled", "deliver", "acking", "acked", "logged"}
States      == {"idle", "active", "visible", "logged", "durable", "aborted"}
OffsetRow   == [seq : Nat, xmax : SUBSET Workers]
WorkOf(W)   == [pc : Pcs, snap : SUBSET W, off : Nat, batch : SUBSET W, todo : SUBSET W,
                attempts : Nat, before : Seq(OffsetRow)]
LogEntry    == ({"txn"} \X Writers) \cup ({"ack"} \X Workers) \cup {<<"vac", 0>>}

\* The numbers in a consumer's rows; a record that waits for the disk.
SeqsOf(s) == {s[i].seq : i \in 1 .. Len(s)}
OnLog(e)  == \E i \in 1 .. Len(log) : log[i] = e

TypeInv ==
  /\ load \in Loads /\ nextSeq \in Nat \ {0} /\ crashes \in Nat
  /\ txn \in [Writers -> States]
  /\ written \subseteq Row /\ rows \subseteq written
  /\ offset \in [Consumers -> Seq(OffsetRow)]
  /\ log \in Seq(LogEntry)
  /\ work \in [Workers -> WorkOf(written)]
  /\ handled \in [Consumers -> SUBSET written]

\* Numbers in use are below the counter.
RowsFresh ==
  \A r \in written : txn[r.w] # "idle" /\ (txn[r.w] # "aborted" => r.seq < nextSeq)

\* A snapshot holds rows of transactions that left the active set.
SnapOK(k) ==
  /\ k.batch \subseteq k.snap /\ k.todo \subseteq k.batch
  /\ \A r \in k.snap : IsPresent(r.w) /\ (load.crashes > 0 => txn[r.w] # "visible")

SnapsOK == \A d \in Workers : SnapOK(work[d]) /\ (work[d].pc # "idle" => d \in Running)

OffsetsFresh ==
  \A d \in Running : \A n \in SeqsOf(offset[load.name[d]]) \cup SeqsOf(work[d].before) : n < nextSeq

\* A commit waits for its own record, which is there once.
LogMatches ==
  /\ \A w \in Writers : txn[w] = "logged" <=> OnLog(<<"txn", w>>)
  /\ \A d \in Workers : OnLog(<<"ack", d>>) => work[d].pc = "logged"
  /\ \A i, j \in 1 .. Len(log) : log[i] = log[j] /\ i # j => log[i] = <<"vac", 0>>

\* The number of an event that no crash takes away, or none.
Settled(n) == n = 0 \/ \E r \in written : r.seq = n /\ txn[r.w] = "durable"
Acked(d, n) == work[d].pc \in {"acked", "logged"} /\ \E r \in work[d].batch : r.seq = n

OffsetsSettled ==
  \A d \in Running :
    /\ \A n \in SeqsOf(work[d].before) : Settled(n)
    /\ \A n \in SeqsOf(offset[load.name[d]]) : Settled(n) \/ Acked(d, n)

\* What an acknowledgement on the log acknowledges is on disk or before it.
AcksFollow ==
  \A j \in 1 .. Len(log) : \A d \in Workers : log[j] = <<"ack", d>> =>
    \A r \in work[d].batch :
      txn[r.w] = "durable" \/ \E i \in 1 .. j - 1 : log[i] = <<"txn", r.w>>

RestartOK ==
  load.crashes > 0 =>
    /\ vac = NoVac
    /\ \A r \in written : txn[r.w] # "aborted" => r \in rows
    /\ OffsetsSettled /\ AcksFollow

EventInv ==
  TypeInv /\ RowsFresh /\ SnapsOK /\ OffsetsFresh /\ LogMatches /\ RestartOK
-----------------------------------------------------------------------------
(* Numbers and sequences.                                                  *)

LEMMA LeastNat ==
  ASSUME NEW S \in SUBSET Nat, S # {}
  PROVE  \E m \in S : \A k \in S : m <= k
<1> DEFINE R == OpToRel(<, Nat)
<1>1. IsWellFoundedOn(R, Nat)
  BY NatLessThanWellFounded
<1>2. \A y, z \in Nat : <<y, z>> \in R <=> y < z
  BY DEF OpToRel
<1> HIDE DEF R
<1>3. PICK x \in S : \A y \in S : ~(<<y, x>> \in R)
  BY <1>1, WFMin
<1>4. \A y \in S : ~(y < x)
  BY <1>2, <1>3
<1> QED BY <1>4

LEMMA MinFact ==
  ASSUME NEW S \in SUBSET Nat, S # {}
  PROVE  Min(S) \in S /\ \A k \in S : Min(S) <= k
<1>1. \E m \in S : \A k \in S : m <= k
  BY LeastNat
<1> QED BY <1>1 DEF Min

LEMMA MaxFact ==
  ASSUME NEW S \in SUBSET Nat, S # {}, NEW b \in Nat, \A k \in S : k <= b
  PROVE  Max(S) \in S /\ \A k \in S : k <= Max(S)
<1> DEFINE above == {n \in Nat : \A k \in S : k <= n}
<1>1. PICK m \in above : \A n \in above : m <= n
  BY LeastNat
<1>2. m \in S
  <2> SUFFICES ASSUME m \notin S PROVE FALSE
    OBVIOUS
  <2>1. \A k \in S : k <= m - 1
    BY <1>1
  <2>2. PICK k \in S : TRUE
    OBVIOUS
  <2>3. m - 1 \in above
    BY <2>1, <2>2, <1>1
  <2> QED BY <2>3, <1>1
<1>3. \E y \in S : \A k \in S : y >= k
  BY <1>1, <1>2
<1>4. Max(S) \in S /\ \A k \in S : Max(S) >= k
  BY <1>3 DEF Max
<1> QED BY <1>4

\* MAX(seq) over rows, 0 without any.
LEMMA LargestFact ==
  ASSUME NEW S \in SUBSET Row
  PROVE  /\ Largest(S) \in Nat /\ \A r \in S : r.seq <= Largest(S)
         /\ Largest(S) = 0 \/ \E r \in S : r.seq = Largest(S)
<1> DEFINE T == {r.seq : r \in S} \cup {0}
<1>1. T \in SUBSET Nat /\ T # {} /\ MaxSeq \in Nat /\ \A k \in T : k <= MaxSeq
  BY BoundAssumption DEF Row, Seqs
<1>2. 0 \in T /\ \A r \in S : r.seq \in T
  OBVIOUS
<1>3. \A k \in T : k = 0 \/ \E r \in S : r.seq = k
  OBVIOUS
<1> HIDE DEF T
<1>4. Max(T) \in T /\ \A k \in T : k <= Max(T)
  BY <1>1, MaxFact
<1>5. Largest(S) = Max(T)
  BY DEF Largest, T
<1> QED BY <1>1, <1>2, <1>3, <1>4, <1>5

LEMMA LargerFact ==
  ASSUME NEW a \in Nat, NEW b \in Nat
  PROVE  Max({a, b}) \in {a, b}
<1> DEFINE T == {a, b}
<1>1. T \in SUBSET Nat /\ T # {} /\ a + b \in Nat /\ \A k \in T : k <= a + b
  OBVIOUS
<1> HIDE DEF T
<1>2. Max(T) \in T
  BY <1>1, MaxFact
<1> QED BY <1>2 DEF T

\* The rows of a consumer after one is taken out, after one is put in.
LEMMA JoinFact ==
  ASSUME NEW s \in Seq(OffsetRow), NEW t \in Seq(OffsetRow)
  PROVE  s \o t \in Seq(OffsetRow) /\ SeqsOf(s \o t) \subseteq SeqsOf(s) \cup SeqsOf(t)
<1>1. /\ s \o t \in Seq(OffsetRow) /\ Len(s \o t) = Len(s) + Len(t) /\ Len(s) \in Nat /\ Len(t) \in Nat
      /\ \A i \in 1 .. Len(s) + Len(t) : (s \o t)[i] = IF i <= Len(s) THEN s[i] ELSE t[i - Len(s)]
  BY ONLY s \in Seq(OffsetRow), t \in Seq(OffsetRow), ConcatProperties, LenProperties
<1>2. ASSUME NEW i \in 1 .. Len(s \o t) PROVE (s \o t)[i].seq \in SeqsOf(s) \cup SeqsOf(t)
  <2>1. CASE i <= Len(s)
    <3>1. i \in 1 .. Len(s) /\ (s \o t)[i] = s[i]
      BY <1>1, <2>1
    <3> QED BY <3>1 DEF SeqsOf
  <2>2. CASE ~(i <= Len(s))
    <3>1. i - Len(s) \in 1 .. Len(t) /\ (s \o t)[i] = t[i - Len(s)]
      BY <1>1, <2>2
    <3> QED BY <3>1 DEF SeqsOf
  <2> QED BY <2>1, <2>2
<1> QED BY <1>1, <1>2 DEF SeqsOf

LEMMA SeqsNat == \A s \in Seq(OffsetRow) : SeqsOf(s) \subseteq Nat
<1> SUFFICES ASSUME NEW s \in Seq(OffsetRow), NEW i \in 1 .. Len(s) PROVE s[i].seq \in Nat
  BY DEF SeqsOf
<1>1. s[i] \in OffsetRow
  OBVIOUS
<1> QED BY <1>1 DEF OffsetRow

LEMMA PartFact ==
  ASSUME NEW s \in Seq(OffsetRow), NEW m \in Int, NEW n \in Int, 1 <= m, n <= Len(s)
  PROVE  SubSeq(s, m, n) \in Seq(OffsetRow) /\ SeqsOf(SubSeq(s, m, n)) \subseteq SeqsOf(s)
<1> DEFINE t == SubSeq(s, m, n)
<1>1. Len(s) \in Nat
  BY LenProperties
<1>2. CASE m > n
  <2>1. t = <<>>
    BY <1>2, SubSeqEmpty
  <2> QED BY <2>1, EmptySeq DEF SeqsOf
<1>3. CASE m <= n
  <2>1. /\ t \in Seq(OffsetRow) /\ Len(t) = n - m + 1
        /\ \A i \in 1 .. n - m + 1 : t[i] = s[m + i - 1]
    BY <1>1, <1>3
  <2>2. \A i \in 1 .. n - m + 1 : m + i - 1 \in 1 .. Len(s)
    BY <1>1
  <2> HIDE DEF t
  <2> QED BY <2>1, <2>2 DEF SeqsOf, t
<1> QED BY <1>2, <1>3

LEMMA InsertFact ==
  ASSUME NEW s \in Seq(OffsetRow), NEW i \in 1 .. Len(s) + 1, NEW e \in OffsetRow
  PROVE  InsertAt(s, i, e) \in Seq(OffsetRow) /\ SeqsOf(InsertAt(s, i, e)) \subseteq SeqsOf(s) \cup {e.seq}
<1> DEFINE a == SubSeq(s, 1, i - 1)
           b == <<e>>
           c == SubSeq(s, i, Len(s))
<1>1. Len(s) \in Nat
  BY LenProperties
<1>2. a \in Seq(OffsetRow) /\ SeqsOf(a) \subseteq SeqsOf(s)
  BY <1>1, PartFact
<1>3. c \in Seq(OffsetRow) /\ SeqsOf(c) \subseteq SeqsOf(s)
  BY <1>1, PartFact
<1>4. b \in Seq(OffsetRow) /\ SeqsOf(b) = {e.seq}
  BY DEF SeqsOf
<1>5. InsertAt(s, i, e) = a \o b \o c
  BY DEF InsertAt
<1> HIDE DEF a, b, c
<1>6. a \o b \in Seq(OffsetRow) /\ SeqsOf(a \o b) \subseteq SeqsOf(s) \cup {e.seq}
  BY <1>2, <1>4, JoinFact
<1>7. (a \o b) \o c \in Seq(OffsetRow) /\ SeqsOf((a \o b) \o c) \subseteq SeqsOf(s) \cup {e.seq}
  BY <1>3, <1>6, JoinFact
<1> QED BY <1>5, <1>7

LEMMA RestFact ==
  ASSUME NEW s \in Seq(OffsetRow), NEW d
  PROVE  Unstamped(s, d) \in Seq(OffsetRow) /\ SeqsOf(Unstamped(s, d)) \subseteq SeqsOf(s)
<1> DEFINE I == {i \in 1 .. Len(s) : d \in s[i].xmax}
           rest == Unstamped(s, d)
<1>1. Len(s) \in Nat
  BY LenProperties
<1>2. CASE I = {}
  <2>1. rest = s
    BY <1>2 DEF RemoveFirstMatch, Unstamped
  <2> QED BY <1>1, <2>1
<1>3. CASE I # {}
  <2>1. I \in SUBSET Nat /\ I \subseteq 1 .. Len(s)
    BY <1>1
  <2>2. rest = RemoveAt(s, Min(I))
    BY <1>3 DEF RemoveFirstMatch, SelectInSeq, Unstamped
  <2> HIDE DEF I
  <2>3. Min(I) \in 1 .. Len(s)
    BY <1>3, <2>1, MinFact
  <2> DEFINE m == Min(I)
             a == SubSeq(s, 1, m - 1)
             b == SubSeq(s, m + 1, Len(s))
  <2> HIDE DEF m
  <2>4. m \in 1 .. Len(s)
    BY <2>3 DEF m
  <2>5. a \in Seq(OffsetRow) /\ SeqsOf(a) \subseteq SeqsOf(s)
    BY <1>1, <2>4, PartFact
  <2>6. b \in Seq(OffsetRow) /\ SeqsOf(b) \subseteq SeqsOf(s)
    BY <1>1, <2>4, PartFact
  <2>7. rest = a \o b
    BY <2>2 DEF RemoveAt, m
  <2> HIDE DEF a, b, rest
  <2>8. a \o b \in Seq(OffsetRow) /\ SeqsOf(a \o b) \subseteq SeqsOf(s)
    BY <2>5, <2>6, JoinFact
  <2> QED BY <2>7, <2>8 DEF rest
<1> QED BY <1>2, <1>3

\* find_consumer_offset.
LEMMA OffsetFact ==
  ASSUME NEW c, offset[c] \in Seq(OffsetRow)
  PROVE  Offset(c) \in Nat /\ (Offset(c) = 0 \/ Offset(c) \in SeqsOf(offset[c]))
<1>1. CASE offset[c] = <<>>
  BY <1>1 DEF Offset
<1>2. CASE offset[c] # <<>>
  <2>1. Len(offset[c]) \in Nat /\ Len(offset[c]) > 0 /\ Head(offset[c]) = offset[c][1]
        /\ offset[c][1] \in OffsetRow
    BY <1>2
  <2>2. 1 \in 1 .. Len(offset[c])
    BY <2>1
  <2> QED BY <1>2, <2>1, <2>2 DEF Offset, SeqsOf, OffsetRow
<1> QED BY <1>1, <1>2
-----------------------------------------------------------------------------
(* Init, and steps that touch little.                                      *)

LEMMA IdleFact ==
  ASSUME NEW W
  PROVE  /\ Idle \in WorkOf(W) /\ Idle.pc = "idle" /\ Idle.snap = {} /\ Idle.batch = {} /\ Idle.todo = {}
         /\ Idle.before = <<>> /\ SeqsOf(<<>>) = {}
<1>1. <<>> \in Seq(OffsetRow)
  BY EmptySeq
<1>2. Idle \in WorkOf(W)
  BY <1>1 DEF Idle, WorkOf, Pcs
<1>3. SeqsOf(<<>>) = {}
  BY DEF SeqsOf
<1> QED BY <1>2, <1>3 DEF Idle

LEMMA LoadFact ==
  ASSUME load \in Loads
  PROVE  /\ load.kind \in [Workers -> {"off", "dispatcher", "webhook", "tail"}]
         /\ load.name \in [Workers -> Consumers] /\ load.crashes \in Nat
         /\ load.crashes > 0 => \A d, e \in Workers : load.name[d] = load.name[e] => d = e
BY LoadAssumption

LEMMA InitInv == Init => EventInv
<1> SUFFICES ASSUME Init PROVE EventInv
  OBVIOUS
<1> USE DEF Init
<1>1. Idle \in WorkOf({}) /\ Idle.pc = "idle" /\ Idle.snap = {} /\ Idle.batch = {} /\ Idle.todo = {}
      /\ Idle.before = <<>> /\ SeqsOf(<<>>) = {}
  BY IdleFact
<1>2. \A d \in Workers : work[d] = Idle
  OBVIOUS
<1>3. log \in Seq(LogEntry) /\ Len(log) = 0 /\ \A e : ~OnLog(e)
  BY EmptySeq DEF OnLog
<1>4. offset \in [Consumers -> Seq(OffsetRow)] /\ \A c \in Consumers : offset[c] = <<>>
  BY EmptySeq
<1>5. TypeInv
  <2>1. txn \in [Writers -> States]
    BY DEF States
  <2>2. work \in [Workers -> WorkOf(written)]
    BY <1>1
  <2> QED BY <1>3, <1>4, <2>1, <2>2 DEF TypeInv
<1>6. RowsFresh
  BY DEF RowsFresh
<1>7. SnapsOK
  BY <1>1, <1>2 DEF SnapsOK, SnapOK
<1>8. \A d \in Running : SeqsOf(offset[load.name[d]]) = {} /\ SeqsOf(work[d].before) = {}
  BY <1>1, <1>2, <1>4, LoadFact DEF Running
<1>9. OffsetsFresh
  BY <1>8 DEF OffsetsFresh
<1>10. LogMatches
  BY <1>3 DEF LogMatches
<1>11. RestartOK
  BY <1>3, <1>8 DEF RestartOK, OffsetsSettled, AcksFollow
<1> QED BY <1>5, <1>6, <1>7, <1>9, <1>10, <1>11 DEF EventInv

\* The rows that vacuum_events takes out of the heap are not asked for when a
\* crash may come.
LEMMA RowsShrink ==
  ASSUME EventInv, UNCHANGED <<load, nextSeq, txn, offset, log, work, crashes, written, handled>>,
         rows' \subseteq rows, load.crashes > 0 => rows' = rows /\ vac' = vac
  PROVE  EventInv'
<1>1. TypeInv'
  BY DEF EventInv, TypeInv
<1>2. RowsFresh' /\ SnapsOK' /\ OffsetsFresh' /\ LogMatches'
  BY DEF EventInv, RowsFresh, SnapsOK, SnapOK, OffsetsFresh, LogMatches, IsPresent, Running, OnLog
<1>3. ASSUME load.crashes > 0 PROVE OffsetsSettled' /\ AcksFollow' /\ vac' = NoVac /\ rows' = rows
  <2>1. OffsetsSettled /\ AcksFollow /\ vac = NoVac
    BY <1>3 DEF EventInv, RestartOK
  <2>2. OffsetsSettled'
    BY <2>1 DEF OffsetsSettled, Settled, Acked, Running
  <2>3. AcksFollow'
    BY <2>1 DEF AcksFollow
  <2> QED BY <1>3, <2>1, <2>2, <2>3
<1>4. RestartOK'
  BY <1>3 DEF EventInv, RestartOK
<1> QED BY <1>1, <1>2, <1>4 DEF EventInv

\* A record is appended.
LEMMA AppendFact ==
  ASSUME log \in Seq(LogEntry), NEW e \in LogEntry, log' = Append(log, e)
  PROVE  /\ log' \in Seq(LogEntry) /\ Len(log) \in Nat /\ Len(log') = Len(log) + 1
         /\ \A i \in 1 .. Len(log) : log'[i] = log[i]
         /\ log'[Len(log) + 1] = e
         /\ \A f : OnLog(f)' <=> OnLog(f) \/ f = e
<1>1. /\ log' \in Seq(LogEntry) /\ Len(log) \in Nat /\ Len(log') = Len(log) + 1
      /\ \A i \in 1 .. Len(log) : log'[i] = log[i]
      /\ log'[Len(log) + 1] = e
  BY AppendProperties
<1>2. ASSUME NEW f PROVE OnLog(f)' <=> OnLog(f) \/ f = e
  <2>1. ASSUME NEW i \in 1 .. Len(log'), log'[i] = f PROVE OnLog(f) \/ f = e
    <3>1. i \in 1 .. Len(log) \/ i = Len(log) + 1
      BY <1>1
    <3> QED BY <1>1, <2>1, <3>1 DEF OnLog
  <2>2. ASSUME NEW i \in 1 .. Len(log), log[i] = f PROVE \E j \in 1 .. Len(log') : log'[j] = f
    <3>1. i \in 1 .. Len(log')
      BY <1>1
    <3> QED BY <1>1, <2>2, <3>1
  <2>3. ASSUME f = e PROVE \E j \in 1 .. Len(log') : log'[j] = f
    <3>1. Len(log) + 1 \in 1 .. Len(log')
      BY <1>1
    <3> QED BY <1>1, <2>3, <3>1
  <2> QED BY <2>1, <2>2, <2>3 DEF OnLog
<1> QED BY <1>1, <1>2

\* What is on the log stays once only, and behind what it follows.
LEMMA AppendKeeps ==
  ASSUME log \in Seq(LogEntry), NEW e \in LogEntry, log' = Append(log, e),
         ~OnLog(e) \/ e = <<"vac", 0>>,
         \A i, j \in 1 .. Len(log) : log[i] = log[j] /\ i # j => log[i] = <<"vac", 0>>
  PROVE  \A i, j \in 1 .. Len(log') : log'[i] = log'[j] /\ i # j => log'[i] = <<"vac", 0>>
<1> SUFFICES ASSUME NEW i \in 1 .. Len(log'), NEW j \in 1 .. Len(log'), log'[i] = log'[j], i # j,
                    log'[i] # <<"vac", 0>>
             PROVE  FALSE
  OBVIOUS
<1>1. /\ Len(log) \in Nat /\ Len(log') = Len(log) + 1
      /\ \A k \in 1 .. Len(log) : log'[k] = log[k]
      /\ log'[Len(log) + 1] = e
  BY AppendFact
<1>2. (i \in 1 .. Len(log) \/ i = Len(log) + 1) /\ (j \in 1 .. Len(log) \/ j = Len(log) + 1)
  BY <1>1
<1>3. CASE i \in 1 .. Len(log) /\ j \in 1 .. Len(log)
  BY <1>1, <1>3
<1>4. CASE i \in 1 .. Len(log) /\ j = Len(log) + 1
  BY <1>1, <1>4 DEF OnLog
<1>5. CASE j \in 1 .. Len(log) /\ i = Len(log) + 1
  BY <1>1, <1>5 DEF OnLog
<1> QED BY <1>2, <1>3, <1>4, <1>5
-----------------------------------------------------------------------------
(* Writers.                                                                *)

\* A transaction moves on; the rows of others, and their records, do not.
LEMMA TxnInv ==
  ASSUME EventInv, NEW w \in Writers, NEW st \in States \ {"idle", "logged", "durable"},
         txn[w] \in {"idle", "active"}, txn' = [txn EXCEPT ![w] = st],
         st = "visible" => txn[w] = "active",
         rows' = IF st = "aborted" THEN {r \in rows : r.w # w} ELSE rows,
         UNCHANGED <<load, nextSeq, offset, log, work, vac, crashes, written, handled>>
  PROVE  EventInv'
<1>1. /\ txn \in [Writers -> States] /\ written \subseteq Row /\ rows \subseteq written
      /\ work \in [Workers -> WorkOf(written)]
  BY DEF EventInv, TypeInv
<1>2. /\ \A v \in Writers : txn'[v] = IF v = w THEN st ELSE txn[v]
      /\ txn' \in [Writers -> States]
  BY <1>1
<1>3. \A r \in written : r.w \in Writers
  BY <1>1 DEF Row
<1>4. ~IsPresent(w) /\ st # "idle" /\ st # "logged" /\ st # "durable"
  BY DEF IsPresent
<1>5. \A v \in Writers : IsPresent(v) => v # w /\ txn'[v] = txn[v]
  BY <1>2, <1>4
<1>6. TypeInv'
  <2>1. rows' \subseteq written
    BY <1>1
  <2> QED BY <1>2, <2>1 DEF EventInv, TypeInv
<1>7. RowsFresh'
  <2> SUFFICES ASSUME NEW r \in written
               PROVE  txn'[r.w] # "idle" /\ (txn'[r.w] # "aborted" => r.seq < nextSeq)
    BY DEF RowsFresh
  <2>1. txn[r.w] # "idle" /\ (txn[r.w] # "aborted" => r.seq < nextSeq)
    BY DEF EventInv, RowsFresh
  <2> QED BY <1>2, <1>3, <1>4, <2>1
<1>8. SnapsOK'
  <2>1. ASSUME NEW d \in Workers, NEW r \in work[d].snap
        PROVE  txn'[r.w] = txn[r.w]
    <3>1. IsPresent(r.w) /\ r \in written
      BY <1>1 DEF EventInv, SnapsOK, SnapOK, WorkOf
    <3> QED BY <1>3, <1>5, <3>1
  <2> QED BY <2>1 DEF EventInv, SnapsOK, SnapOK, IsPresent, Running
<1>9. OffsetsFresh'
  BY DEF EventInv, OffsetsFresh, Running
<1>10. LogMatches'
  BY <1>2, <1>4 DEF EventInv, LogMatches, OnLog
<1>11. \A n : Settled(n) => Settled(n)'
  BY <1>2, <1>3 DEF Settled
<1>12. ASSUME load.crashes > 0 PROVE \A r \in written : txn'[r.w] # "aborted" => r \in rows'
  <2>1. \A r \in written : txn[r.w] # "aborted" => r \in rows
    BY <1>12 DEF EventInv, RestartOK
  <2> QED BY <1>2, <1>3, <2>1
<1>13. ASSUME load.crashes > 0 PROVE OffsetsSettled'
  <2>1. OffsetsSettled
    BY <1>13 DEF EventInv, RestartOK
  <2> QED BY <1>11, <2>1 DEF OffsetsSettled, Acked, Running
<1>14. ASSUME load.crashes > 0 PROVE AcksFollow'
  <2>1. AcksFollow
    BY <1>14 DEF EventInv, RestartOK
  <2>2. \A d \in Workers : \A r \in work[d].batch : r.w \in Writers
    BY <1>1, <1>3 DEF WorkOf
  <2>3. \A v \in Writers : txn[v] = "durable" => txn'[v] = "durable"
    BY <1>2
  <2>4. ASSUME NEW j \in 1 .. Len(log), NEW d \in Workers, log[j] = <<"ack", d>>, NEW r \in work[d].batch
        PROVE  txn'[r.w] = "durable" \/ \E i \in 1 .. j - 1 : log[i] = <<"txn", r.w>>
    BY <2>1, <2>2, <2>3, <2>4 DEF AcksFollow
  <2> QED BY <2>4 DEF AcksFollow
<1>15. RestartOK'
  BY <1>12, <1>13, <1>14 DEF EventInv, RestartOK
<1> QED BY <1>6, <1>7, <1>8, <1>9, <1>10, <1>15 DEF EventInv

LEMMA CaptureInv ==
  ASSUME EventInv, NEW w \in Writers, NEW t \in Tables, SendEventCapture(w, t)
  PROVE  EventInv'
<1> DEFINE r == [seq |-> nextSeq, w |-> w, table |-> t]
<1>1. /\ txn[w] = "active" /\ nextSeq <= MaxSeq /\ nextSeq' = nextSeq + 1
      /\ rows' = rows \cup {r} /\ written' = written \cup {r}
      /\ UNCHANGED <<load, txn, offset, log, work, vac, crashes, handled>>
  BY DEF SendEventCapture
<1>2. /\ written \subseteq Row /\ rows \subseteq written /\ nextSeq \in Nat \ {0}
      /\ work \in [Workers -> WorkOf(written)] /\ handled \in [Consumers -> SUBSET written]
      /\ offset \in [Consumers -> Seq(OffsetRow)] /\ load \in Loads
  BY DEF EventInv, TypeInv
<1>3. r \in Row /\ r.w = w /\ r.seq = nextSeq
  BY <1>1, <1>2, BoundAssumption DEF Row, Seqs
<1>4. \A q \in written : q.seq \in Nat
  BY <1>2 DEF Row, Seqs
<1> HIDE DEF r
<1>5. TypeInv'
  <2>1. work' \in [Workers -> WorkOf(written')]
    BY <1>1, <1>2 DEF WorkOf
  <2>2. handled' \in [Consumers -> SUBSET written']
    BY <1>1, <1>2
  <2>3. nextSeq' \in Nat \ {0} /\ written' \subseteq Row /\ rows' \subseteq written'
    BY <1>1, <1>2, <1>3
  <2> QED BY <1>1, <2>1, <2>2, <2>3 DEF EventInv, TypeInv
<1>6. RowsFresh'
  BY <1>1, <1>2, <1>3, <1>4 DEF EventInv, RowsFresh
<1>7. SnapsOK'
  BY <1>1 DEF EventInv, SnapsOK, SnapOK, IsPresent, Running
<1>8. OffsetsFresh'
  <2> SUFFICES ASSUME NEW d \in Running, NEW n \in SeqsOf(offset[load.name[d]]) \cup SeqsOf(work[d].before)
               PROVE  n < nextSeq'
    BY <1>1 DEF OffsetsFresh, Running
  <2>1. n < nextSeq
    BY DEF EventInv, OffsetsFresh
  <2>2. n \in Nat
    <3>1. \A s \in Seq(OffsetRow) : SeqsOf(s) \subseteq Nat
      BY SeqsNat
    <3>2. offset[load.name[d]] \in Seq(OffsetRow) /\ work[d].before \in Seq(OffsetRow)
      BY <1>2, LoadFact DEF Running, WorkOf
    <3> QED BY <3>1, <3>2
  <2> QED BY <1>1, <1>2, <2>1, <2>2
<1>9. LogMatches'
  BY <1>1 DEF EventInv, LogMatches, OnLog
<1>10. ASSUME load.crashes > 0 PROVE OffsetsSettled' /\ AcksFollow' /\ vac' = NoVac
  <2>1. OffsetsSettled /\ AcksFollow /\ vac = NoVac
    BY <1>10 DEF EventInv, RestartOK
  <2>2. \A n : Settled(n) => Settled(n)'
    BY <1>1 DEF Settled
  <2>3. OffsetsSettled'
    BY <1>1, <2>1, <2>2 DEF OffsetsSettled, Acked, Running
  <2>4. AcksFollow'
    BY <1>1, <2>1 DEF AcksFollow
  <2> QED BY <1>1, <2>1, <2>3, <2>4
<1>11. RestartOK'
  BY <1>1, <1>10 DEF EventInv, RestartOK
<1> QED BY <1>5, <1>6, <1>7, <1>8, <1>9, <1>11 DEF EventInv

LEMMA CommitLogInv == ASSUME EventInv, NEW w \in Writers, CommitLog(w) PROVE EventInv'
<1> DEFINE e == <<"txn", w>>
<1>1. /\ txn[w] = "visible" /\ txn' = [txn EXCEPT ![w] = "logged"] /\ log' = Append(log, e)
      /\ UNCHANGED <<load, nextSeq, rows, offset, work, vac, crashes, written, handled>>
  BY DEF CommitLog, histVars
<1>2. /\ txn \in [Writers -> States] /\ written \subseteq Row
      /\ work \in [Workers -> WorkOf(written)] /\ log \in Seq(LogEntry)
  BY DEF EventInv, TypeInv
<1>3. /\ e \in LogEntry /\ e # <<"vac", 0>> /\ (\A v : e = <<"txn", v>> <=> v = w)
      /\ \A d : e # <<"ack", d>>
  BY DEF LogEntry
<1>4. /\ \A v \in Writers : txn'[v] = IF v = w THEN "logged" ELSE txn[v]
      /\ txn' \in [Writers -> States]
  BY <1>1, <1>2 DEF States
<1>5. \A r \in written : r.w \in Writers
  BY <1>2 DEF Row
<1>6. ~OnLog(e)
  BY <1>1 DEF EventInv, LogMatches
<1> HIDE DEF e
<1>7. /\ log' \in Seq(LogEntry) /\ Len(log) \in Nat /\ Len(log') = Len(log) + 1
      /\ \A i \in 1 .. Len(log) : log'[i] = log[i]
      /\ log'[Len(log) + 1] = e
      /\ \A f : OnLog(f)' <=> OnLog(f) \/ f = e
  BY <1>1, <1>2, <1>3, AppendFact
<1>8. TypeInv'
  BY <1>1, <1>4, <1>7 DEF EventInv, TypeInv
<1>9. RowsFresh'
  BY <1>1, <1>4, <1>5 DEF EventInv, RowsFresh
<1>10. SnapsOK'
  <2>1. ASSUME NEW d \in Workers, NEW r \in work[d].snap PROVE r.w \in Writers
    BY <1>2, <1>5 DEF WorkOf
  <2>2. \A v \in Writers : (IsPresent(v) => IsPresent(v)') /\ (txn'[v] = "visible" => txn[v] = "visible")
    BY <1>1, <1>4 DEF IsPresent
  <2> QED BY <1>1, <2>1, <2>2 DEF EventInv, SnapsOK, SnapOK, Running
<1>11. OffsetsFresh'
  BY <1>1 DEF EventInv, OffsetsFresh, Running
<1>12. LogMatches'
  <2>1. \A i, j \in 1 .. Len(log') : log'[i] = log'[j] /\ i # j => log'[i] = <<"vac", 0>>
    BY <1>1, <1>2, <1>3, <1>6, AppendKeeps DEF EventInv, LogMatches
  <2>2. \A v \in Writers : txn'[v] = "logged" <=> OnLog(<<"txn", v>>)'
    BY <1>3, <1>4, <1>7 DEF EventInv, LogMatches
  <2>3. \A d \in Workers : OnLog(<<"ack", d>>)' => work[d].pc = "logged"
    BY <1>3, <1>7 DEF EventInv, LogMatches
  <2> QED BY <1>1, <2>1, <2>2, <2>3 DEF LogMatches
<1>13. ASSUME load.crashes > 0 PROVE RestartOK'
  <2>1. OffsetsSettled /\ AcksFollow /\ vac = NoVac /\ \A r \in written : txn[r.w] # "aborted" => r \in rows
    BY <1>13 DEF EventInv, RestartOK
  <2>2. \A n : Settled(n) => Settled(n)'
    BY <1>1, <1>4, <1>5 DEF Settled
  <2>3. OffsetsSettled'
    BY <1>1, <2>1, <2>2 DEF OffsetsSettled, Acked, Running
  <2>4. AcksFollow'
    <3> SUFFICES ASSUME NEW j \in 1 .. Len(log'), NEW d \in Workers, log'[j] = <<"ack", d>>,
                        NEW r \in work[d].batch
                 PROVE  txn'[r.w] = "durable" \/ \E i \in 1 .. j - 1 : log'[i] = <<"txn", r.w>>
      BY <1>1 DEF AcksFollow
    <3>1. j \in 1 .. Len(log)
      BY <1>3, <1>7
    <3>2. r.w \in Writers
      BY <1>2, <1>5 DEF WorkOf
    <3>3. txn[r.w] = "durable" \/ \E i \in 1 .. j - 1 : log[i] = <<"txn", r.w>>
      BY <1>7, <2>1, <3>1 DEF AcksFollow
    <3>4. \A i \in 1 .. j - 1 : log'[i] = log[i]
      BY <1>7, <3>1
    <3> QED BY <1>1, <1>4, <3>2, <3>3, <3>4
  <2>5. \A r \in written : txn'[r.w] # "aborted" => r \in rows
    BY <1>1, <1>4, <1>5, <2>1
  <2> QED BY <1>1, <2>1, <2>3, <2>4, <2>5 DEF RestartOK
<1> QED BY <1>1, <1>8, <1>9, <1>10, <1>11, <1>12, <1>13 DEF EventInv, RestartOK

LEMMA WriterInv == ASSUME EventInv, NEW w \in Writers, WriterStep(w) PROVE EventInv'
<1>1. CASE Begin(w)
  <2>1. /\ txn[w] = "idle" /\ txn' = [txn EXCEPT ![w] = "active"] /\ rows' = rows
        /\ UNCHANGED <<load, nextSeq, offset, log, work, vac, crashes, written, handled>>
    BY <1>1 DEF Begin, histVars
  <2>2. "active" \in States \ {"idle", "logged", "durable"}
    BY DEF States
  <2> QED BY <2>1, <2>2, TxnInv
<1>2. CASE Commit(w)
  <2>1. /\ txn[w] = "active" /\ txn' = [txn EXCEPT ![w] = "visible"] /\ rows' = rows
        /\ UNCHANGED <<load, nextSeq, offset, log, work, vac, crashes, written, handled>>
    BY <1>2 DEF Commit, histVars
  <2>2. "visible" \in States \ {"idle", "logged", "durable"}
    BY DEF States
  <2> QED BY <2>1, <2>2, TxnInv
<1>3. CASE Abort(w)
  <2>1. /\ txn[w] = "active" /\ txn' = [txn EXCEPT ![w] = "aborted"] /\ rows' = {r \in rows : r.w # w}
        /\ UNCHANGED <<load, nextSeq, offset, log, work, vac, crashes, written, handled>>
    BY <1>3 DEF Abort, histVars
  <2>2. "aborted" \in States \ {"idle", "logged", "durable"}
    BY DEF States
  <2> QED BY <2>1, <2>2, TxnInv
<1> QED BY <1>1, <1>2, <1>3, CommitLogInv, CaptureInv DEF WriterStep
-----------------------------------------------------------------------------
(* The disk.                                                               *)

LEMMA AckFollows ==
  ASSUME AcksFollow, NEW j \in 1 .. Len(log), NEW d \in Workers, log[j] = <<"ack", d>>,
         NEW r \in work[d].batch
  PROVE  txn[r.w] = "durable" \/ \E i \in 1 .. j - 1 : log[i] = <<"txn", r.w>>
BY DEF AcksFollow

\* sync_up_to: of the first n records, every acknowledgement is there with
\* the commits it follows.
LEMMA SyncInv == ASSUME EventInv, NEW n \in 1 .. Len(log), SyncUpTo(n) PROVE EventInv'
<1> DEFINE done == {log[i] : i \in 1 .. n}
<1>1. /\ log' = SubSeq(log, n + 1, Len(log))
      /\ txn' = [w \in Writers |-> IF <<"txn", w>> \in done THEN "durable" ELSE txn[w]]
      /\ work' = [d \in Workers |-> IF <<"ack", d>> \in done THEN Idle ELSE work[d]]
      /\ vac' = IF <<"vac", 0>> \in done THEN NoVac ELSE vac
      /\ UNCHANGED <<load, nextSeq, rows, offset, crashes, written, handled>>
  BY DEF SyncUpTo, histVars
<1>2. /\ txn \in [Writers -> States] /\ written \subseteq Row
      /\ work \in [Workers -> WorkOf(written)] /\ log \in Seq(LogEntry) /\ Len(log) \in Nat
  BY DEF EventInv, TypeInv
<1>3. /\ log' \in Seq(LogEntry) /\ Len(log') = Len(log) - n
      /\ \A i \in 1 .. Len(log) - n : log'[i] = log[n + i]
  BY <1>1, <1>2
<1>4. \A r \in written : r.w \in Writers
  BY <1>2 DEF Row
<1>5. \A e \in done : OnLog(e)
  BY <1>2 DEF OnLog
<1>6. \A e : OnLog(e)' => OnLog(e)
  <2> SUFFICES ASSUME NEW e, NEW i \in 1 .. Len(log'), log'[i] = e PROVE OnLog(e)
    BY DEF OnLog
  <2>1. n + i \in 1 .. Len(log) /\ log[n + i] = e
    BY <1>2, <1>3
  <2> QED BY <2>1 DEF OnLog
<1>7. \A e : OnLog(e) => e \in done \/ OnLog(e)'
  <2> SUFFICES ASSUME NEW e, NEW i \in 1 .. Len(log), log[i] = e, e \notin done
               PROVE  \E j \in 1 .. Len(log') : log'[j] = e
    BY DEF OnLog
  <2>1. i > n
    BY <1>2
  <2>2. i - n \in 1 .. Len(log') /\ n + (i - n) = i
    BY <1>2, <1>3, <2>1
  <2>3. log'[i - n] = log[i]
    BY <1>3, <2>2
  <2> QED BY <2>2, <2>3
<1>8. \A e : OnLog(e)' /\ e # <<"vac", 0>> => e \notin done
  <2> SUFFICES ASSUME NEW e, e # <<"vac", 0>>, NEW i \in 1 .. Len(log'), log'[i] = e,
                      NEW j \in 1 .. n, log[j] = e
               PROVE  FALSE
    BY DEF OnLog
  <2>1. n + i \in 1 .. Len(log) /\ log[n + i] = e /\ j \in 1 .. Len(log) /\ j # n + i
    BY <1>2, <1>3
  <2> QED BY <2>1 DEF EventInv, LogMatches
<1>9. /\ \A v : <<"txn", v>> # <<"vac", 0>> /\ <<"ack", v>> # <<"vac", 0>>
  OBVIOUS
<1> HIDE DEF done
<1>10. \A w \in Writers : /\ <<"txn", w>> \in done => txn[w] = "logged" /\ txn'[w] = "durable"
                          /\ <<"txn", w>> \notin done => txn'[w] = txn[w]
  BY <1>1, <1>5 DEF EventInv, LogMatches
<1>11. \A d \in Workers : /\ <<"ack", d>> \in done => work[d].pc = "logged" /\ work'[d] = Idle
                          /\ <<"ack", d>> \notin done => work'[d] = work[d]
  BY <1>1, <1>5 DEF EventInv, LogMatches
<1>12. /\ Idle \in WorkOf(written) /\ Idle.pc = "idle" /\ Idle.snap = {} /\ Idle.batch = {} /\ Idle.todo = {}
       /\ Idle.before = <<>> /\ SeqsOf(<<>>) = {}
  BY IdleFact
<1>13. TypeInv'
  <2>1. txn' \in [Writers -> States]
    BY <1>1, <1>2 DEF States
  <2>2. work' \in [Workers -> WorkOf(written)]
    BY <1>1, <1>2, <1>12
  <2> QED BY <1>1, <1>3, <2>1, <2>2 DEF EventInv, TypeInv
<1>14. RowsFresh'
  BY <1>1, <1>4, <1>10 DEF EventInv, RowsFresh
<1>15. SnapsOK'
  <2> SUFFICES ASSUME NEW d \in Workers, work'[d] = work[d]
               PROVE  SnapOK(work[d])' /\ (work[d].pc # "idle" => d \in Running')
    BY <1>11, <1>12 DEF SnapsOK, SnapOK
  <2>1. SnapOK(work[d]) /\ (work[d].pc # "idle" => d \in Running)
    BY DEF EventInv, SnapsOK
  <2>2. \A r \in work[d].snap : r.w \in Writers
    BY <1>2, <1>4 DEF WorkOf
  <2>3. \A w \in Writers : (IsPresent(w) => IsPresent(w)') /\ (txn'[w] = "visible" => txn[w] = "visible")
    BY <1>10 DEF IsPresent
  <2> QED BY <1>1, <2>1, <2>2, <2>3 DEF SnapOK, Running
<1>16. OffsetsFresh'
  <2> SUFFICES ASSUME NEW d \in Running, NEW m \in SeqsOf(offset[load.name[d]]) \cup SeqsOf(work'[d].before)
               PROVE  m < nextSeq
    BY <1>1 DEF OffsetsFresh, Running
  <2>1. m \in SeqsOf(offset[load.name[d]]) \cup SeqsOf(work[d].before)
    BY <1>11, <1>12 DEF Running
  <2> QED BY <2>1 DEF EventInv, OffsetsFresh
<1>17. LogMatches'
  <2>1. ASSUME NEW w \in Writers PROVE txn'[w] = "logged" <=> OnLog(<<"txn", w>>)'
    <3>1. txn[w] = "logged" <=> OnLog(<<"txn", w>>)
      BY DEF EventInv, LogMatches
    <3> QED BY <1>6, <1>7, <1>8, <1>9, <1>10, <3>1
  <2>2. ASSUME NEW d \in Workers, OnLog(<<"ack", d>>)' PROVE work'[d].pc = "logged"
    <3>1. OnLog(<<"ack", d>>) /\ <<"ack", d>> \notin done
      BY <1>6, <1>8, <1>9, <2>2
    <3> QED BY <1>11, <3>1 DEF EventInv, LogMatches
  <2>3. ASSUME NEW i \in 1 .. Len(log'), NEW j \in 1 .. Len(log'), log'[i] = log'[j], i # j
        PROVE  log'[i] = <<"vac", 0>>
    <3>1. /\ n + i \in 1 .. Len(log) /\ n + j \in 1 .. Len(log) /\ n + i # n + j
          /\ log'[i] = log[n + i] /\ log'[j] = log[n + j]
      BY <1>2, <1>3, <2>3
    <3> QED BY <2>3, <3>1 DEF EventInv, LogMatches
  <2> QED BY <2>1, <2>2, <2>3 DEF LogMatches
<1>18. ASSUME load.crashes > 0 PROVE RestartOK'
  <2>1. OffsetsSettled /\ AcksFollow /\ vac = NoVac /\ \A r \in written : txn[r.w] # "aborted" => r \in rows
    BY <1>18 DEF EventInv, RestartOK
  <2>2. \A m : Settled(m) => Settled(m)'
    BY <1>1, <1>4, <1>10 DEF Settled
  <2>3. ASSUME NEW d \in Workers, <<"ack", d>> \in done, NEW r \in work[d].batch
        PROVE  r \in written /\ txn'[r.w] = "durable"
    <3>1. PICK j \in 1 .. n : log[j] = <<"ack", d>>
      BY <2>3 DEF done
    <3>2. txn[r.w] = "durable" \/ \E i \in 1 .. j - 1 : log[i] = <<"txn", r.w>>
      <4>1. j \in 1 .. Len(log)
        BY <1>2
      <4> QED BY <2>1, <3>1, <4>1, AckFollows
    <3>3. r \in written /\ r.w \in Writers
      BY <1>2, <1>4 DEF WorkOf
    <3>4. CASE \E i \in 1 .. j - 1 : log[i] = <<"txn", r.w>>
      <4>1. <<"txn", r.w>> \in done
        BY <3>4 DEF done
      <4> QED BY <1>10, <3>3, <4>1
    <3> QED BY <1>10, <3>2, <3>3, <3>4
  <2>4. OffsetsSettled'
    <3> SUFFICES ASSUME NEW d \in Running
                 PROVE  /\ \A m \in SeqsOf(work'[d].before) : Settled(m)'
                        /\ \A m \in SeqsOf(offset[load.name[d]]) : Settled(m)' \/ Acked(d, m)'
      BY <1>1 DEF OffsetsSettled, Running
    <3>1. d \in Workers
      BY DEF Running
    <3>2. CASE <<"ack", d>> \in done
      <4>1. \A m : Acked(d, m) => Settled(m)'
        BY <1>1, <2>3, <3>1, <3>2 DEF Acked, Settled
      <4> QED BY <1>11, <1>12, <2>1, <2>2, <3>1, <3>2, <4>1 DEF OffsetsSettled
    <3>3. CASE <<"ack", d>> \notin done
      BY <1>11, <2>1, <2>2, <3>1, <3>3 DEF OffsetsSettled, Acked
    <3> QED BY <3>2, <3>3
  <2>5. AcksFollow'
    <3> SUFFICES ASSUME NEW j \in 1 .. Len(log'), NEW d \in Workers, log'[j] = <<"ack", d>>,
                        NEW r \in work'[d].batch
                 PROVE  txn'[r.w] = "durable" \/ \E i \in 1 .. j - 1 : log'[i] = <<"txn", r.w>>
      BY DEF AcksFollow
    <3>1. n + j \in 1 .. Len(log) /\ log[n + j] = <<"ack", d>>
      BY <1>2, <1>3
    <3>2. r \in work[d].batch
      BY <1>11, <1>12
    <3>3. r.w \in Writers
      BY <1>2, <1>4, <3>2 DEF WorkOf
    <3>4. txn[r.w] = "durable" \/ \E i \in 1 .. n + j - 1 : log[i] = <<"txn", r.w>>
      <4> DEFINE k == n + j
      <4> HIDE DEF k
      <4>1. k \in 1 .. Len(log) /\ log[k] = <<"ack", d>>
        BY <3>1 DEF k
      <4>2. txn[r.w] = "durable" \/ \E i \in 1 .. k - 1 : log[i] = <<"txn", r.w>>
        BY <2>1, <3>2, <4>1, AckFollows
      <4> QED BY <4>2 DEF k
    <3>5. ASSUME NEW i \in 1 .. n + j - 1, log[i] = <<"txn", r.w>>
          PROVE  txn'[r.w] = "durable" \/ \E k \in 1 .. j - 1 : log'[k] = <<"txn", r.w>>
      <4>1. CASE i <= n
        <5>1. <<"txn", r.w>> \in done
          BY <3>5, <4>1 DEF done
        <5> QED BY <1>10, <3>3, <5>1
      <4>2. CASE i > n
        <5>1. i - n \in 1 .. j - 1 /\ i - n \in 1 .. Len(log) - n /\ n + (i - n) = i
          BY <1>2, <1>3, <4>2
        <5>2. log'[i - n] = log[i]
          BY <1>3, <5>1
        <5> QED BY <3>5, <5>1, <5>2
      <4> QED BY <4>1, <4>2
    <3> QED BY <1>10, <3>3, <3>4, <3>5
  <2>6. \A r \in written : txn'[r.w] # "aborted" => r \in rows
    BY <1>4, <1>10, <2>1
  <2> QED BY <1>1, <2>1, <2>4, <2>5, <2>6 DEF RestartOK
<1> QED BY <1>1, <1>13, <1>14, <1>15, <1>16, <1>17, <1>18 DEF EventInv, RestartOK
-----------------------------------------------------------------------------
(* Consumers.                                                              *)

\* A step of worker d before its acknowledgement is out: what it may leave in
\* its consumer's rows are the numbers that were there, 0, and at the end those
\* of its batch.
LEMMA LoopInv ==
  ASSUME EventInv, NEW d \in Running, work[d].pc \notin {"acked", "logged"},
         work' \in [Workers -> WorkOf(written)], \A e \in Workers \ {d} : work'[e] = work[e],
         SnapOK(work'[d]),
         offset' \in [Consumers -> Seq(OffsetRow)],
         \A c \in Consumers \ {load.name[d]} : offset'[c] = offset[c],
         \A n \in SeqsOf(offset'[load.name[d]]) :
            \/ n \in SeqsOf(offset[load.name[d]])
            \/ n < nextSeq /\ (load.crashes > 0 => n = 0 \/ Acked(d, n)'),
         SeqsOf(work'[d].before) \subseteq SeqsOf(work[d].before) \cup SeqsOf(offset[load.name[d]]),
         handled' \in [Consumers -> SUBSET written],
         UNCHANGED <<load, nextSeq, txn, rows, log, vac, crashes, written>>
  PROVE  EventInv'
<1>1. d \in Workers /\ load \in Loads
  BY DEF Running, EventInv, TypeInv
<1>2. load.name \in [Workers -> Consumers] /\ load.crashes \in Nat
      /\ (load.crashes > 0 => \A a, e \in Workers : load.name[a] = load.name[e] => a = e)
  BY <1>1, LoadFact
<1>3. ~OnLog(<<"ack", d>>)
  BY <1>1 DEF EventInv, LogMatches
<1>4. TypeInv'
  BY DEF EventInv, TypeInv
<1>5. RowsFresh'
  BY DEF EventInv, RowsFresh
<1>6. SnapsOK'
  <2>1. \A e \in Workers : SnapOK(work'[e])
    BY DEF EventInv, SnapsOK
  <2>2. \A e \in Workers : work'[e].pc # "idle" => e \in Running
    BY DEF EventInv, SnapsOK
  <2> QED BY <2>1, <2>2 DEF SnapsOK, SnapOK, Running, IsPresent
<1>7. OffsetsFresh'
  <2> SUFFICES ASSUME NEW e \in Running, NEW n \in SeqsOf(offset'[load.name[e]]) \cup SeqsOf(work'[e].before)
               PROVE  n < nextSeq
    BY DEF OffsetsFresh, Running
  <2>1. e \in Workers /\ load.name[e] \in Consumers
    BY <1>2 DEF Running
  <2>2. \A f \in Running : \A m \in SeqsOf(offset[load.name[f]]) \cup SeqsOf(work[f].before) : m < nextSeq
    BY DEF EventInv, OffsetsFresh
  <2>3. CASE n \in SeqsOf(offset'[load.name[e]])
    <3>1. CASE load.name[e] = load.name[d]
      BY <2>2, <2>3, <3>1
    <3>2. CASE load.name[e] # load.name[d]
      BY <2>1, <2>2, <2>3, <3>2
    <3> QED BY <3>1, <3>2
  <2>4. CASE n \in SeqsOf(work'[e].before)
    <3>1. CASE e = d
      BY <2>2, <2>4, <3>1
    <3>2. CASE e # d
      BY <2>1, <2>2, <2>4, <3>2
    <3> QED BY <3>1, <3>2
  <2> QED BY <2>3, <2>4
<1>8. LogMatches'
  <2>1. \A e \in Workers : OnLog(<<"ack", e>>) => work'[e].pc = "logged"
    BY <1>3 DEF EventInv, LogMatches
  <2> QED BY <2>1 DEF EventInv, LogMatches, OnLog
<1>9. ASSUME load.crashes > 0 PROVE OffsetsSettled' /\ AcksFollow'
  <2>1. OffsetsSettled /\ AcksFollow
    BY <1>9 DEF EventInv, RestartOK
  <2>2. \A n : (Settled(n) => Settled(n)') /\ (n = 0 => Settled(n)')
    BY DEF Settled
  <2>3. \A n : ~Acked(d, n)
    BY DEF Acked
  <2>4. ASSUME NEW e \in Running
        PROVE  /\ \A n \in SeqsOf(work'[e].before) : Settled(n)'
               /\ \A n \in SeqsOf(offset'[load.name[e]]) : Settled(n)' \/ Acked(e, n)'
    <3>1. e \in Workers /\ load.name[e] \in Consumers
      BY <1>2 DEF Running
    <3>2. /\ \A n \in SeqsOf(work[e].before) : Settled(n)
          /\ \A n \in SeqsOf(offset[load.name[e]]) : Settled(n) \/ Acked(e, n)
      BY <2>1 DEF OffsetsSettled
    <3>3. CASE e = d
      BY <1>9, <2>2, <2>3, <3>2, <3>3
    <3>4. CASE e # d
      <4>1. work'[e] = work[e] /\ offset'[load.name[e]] = offset[load.name[e]]
        BY <1>1, <1>2, <1>9, <3>1, <3>4
      <4>2. \A n : Acked(e, n) => Acked(e, n)'
        BY <4>1 DEF Acked
      <4> QED BY <2>2, <3>2, <4>1, <4>2
    <3> QED BY <3>3, <3>4
  <2>5. OffsetsSettled'
    BY <2>4 DEF OffsetsSettled, Running
  <2>6. AcksFollow'
    <3>1. ASSUME NEW j \in 1 .. Len(log), NEW e \in Workers, log[j] = <<"ack", e>>, NEW r \in work'[e].batch
          PROVE  txn[r.w] = "durable" \/ \E i \in 1 .. j - 1 : log[i] = <<"txn", r.w>>
      <4>1. e # d
        BY <1>3, <3>1 DEF OnLog
      <4>2. r \in work[e].batch
        BY <3>1, <4>1
      <4> QED BY <2>1, <3>1, <4>2, AckFollows
    <3>2. log' = log /\ txn' = txn
      OBVIOUS
    <3> SUFFICES ASSUME NEW j \in 1 .. Len(log'), NEW e \in Workers, log'[j] = <<"ack", e>>,
                        NEW r \in work'[e].batch
                 PROVE  txn'[r.w] = "durable" \/ \E i \in 1 .. j - 1 : log'[i] = <<"txn", r.w>>
      BY DEF AcksFollow
    <3>3. j \in 1 .. Len(log) /\ log[j] = <<"ack", e>>
      BY <3>2
    <3>4. txn[r.w] = "durable" \/ \E i \in 1 .. j - 1 : log[i] = <<"txn", r.w>>
      BY <3>1, <3>3
    <3> QED BY <3>2, <3>4
  <2> QED BY <2>5, <2>6
<1>10. RestartOK'
  BY <1>9 DEF EventInv, RestartOK
<1> QED BY <1>4, <1>5, <1>6, <1>7, <1>8, <1>10 DEF EventInv

\* The same when the consumer's rows stay as they are.
LEMMA LoopStays ==
  ASSUME EventInv, NEW d \in Running, work[d].pc \notin {"acked", "logged"},
         NEW k \in WorkOf(written), work' = [work EXCEPT ![d] = k], SnapOK(k),
         SeqsOf(k.before) \subseteq SeqsOf(work[d].before) \cup SeqsOf(offset[load.name[d]]),
         handled' \in [Consumers -> SUBSET written],
         UNCHANGED <<load, nextSeq, txn, rows, log, vac, crashes, written, offset>>
  PROVE  EventInv'
<1>1. /\ d \in Workers /\ work \in [Workers -> WorkOf(written)]
      /\ offset \in [Consumers -> Seq(OffsetRow)]
  BY DEF Running, EventInv, TypeInv
<1>2. /\ work' \in [Workers -> WorkOf(written)] /\ work'[d] = k
      /\ \A e \in Workers \ {d} : work'[e] = work[e]
  BY <1>1
<1> QED BY <1>1, <1>2, LoopInv

LEMMA PollInv == ASSUME EventInv, RestartSafe(load), NEW d \in Workers, Poll(d) PROVE EventInv'
<1> DEFINE k == [Idle EXCEPT !.pc = "polled", !.snap = Visible, !.off = Offset(load.name[d])]
<1>1. /\ d \in Running /\ work[d].pc = "idle" /\ work' = [work EXCEPT ![d] = k]
      /\ (load.window \/ \A w \in Writers : txn[w] # "visible")
      /\ UNCHANGED <<load, nextSeq, txn, rows, offset, log, vac, crashes, written, handled>>
  BY DEF Poll
<1>2. /\ load \in Loads /\ rows \subseteq written /\ written \subseteq Row
      /\ offset \in [Consumers -> Seq(OffsetRow)] /\ handled \in [Consumers -> SUBSET written]
  BY DEF EventInv, TypeInv
<1>3. Visible \subseteq written /\ \A r \in Visible : IsPresent(r.w) /\ r.w \in Writers
  BY <1>2 DEF Visible, Row
<1>4. Offset(load.name[d]) \in Nat
  <2>1. load.name[d] \in Consumers
    BY <1>2, LoadFact
  <2> QED BY <1>2, <2>1, OffsetFact
<1>5. /\ k \in WorkOf(written) /\ k.snap = Visible /\ k.batch = {} /\ k.todo = {} /\ k.before = <<>>
      /\ SeqsOf(<<>>) = {}
  BY <1>3, <1>4, IdleFact DEF WorkOf, Pcs
<1>6. SnapOK(k)
  BY <1>1, <1>3, <1>5 DEF SnapOK, RestartSafe
<1>7. work[d].pc \notin {"acked", "logged"}
  BY <1>1
<1> HIDE DEF k
<1> QED BY <1>1, <1>2, <1>5, <1>6, <1>7, LoopStays

\* A worker's record with other fields, the same snapshot and batch.
LEMMA Shuffled ==
  ASSUME EventInv, NEW d \in Workers, work[d].pc # "idle"
  PROVE  /\ d \in Running /\ work[d] \in WorkOf(written) /\ load.name[d] \in Consumers
         /\ SnapOK(work[d]) /\ SnapOK(Idle) /\ Idle \in WorkOf(written)
         /\ SeqsOf(Idle.before) = {} /\ handled \in [Consumers -> SUBSET written]
         /\ \A k : k.snap = work[d].snap /\ k.batch \subseteq k.snap /\ k.todo \subseteq k.batch
              => SnapOK(k)
<1>1. d \in Running /\ work[d] \in WorkOf(written) /\ SnapOK(work[d]) /\ load \in Loads
      /\ handled \in [Consumers -> SUBSET written]
  BY DEF EventInv, TypeInv, SnapsOK
<1>2. SnapOK(Idle) /\ Idle \in WorkOf(written) /\ SeqsOf(Idle.before) = {}
  BY IdleFact DEF SnapOK
<1>3. load.name[d] \in Consumers
  BY <1>1, LoadFact
<1> QED BY <1>1, <1>2, <1>3 DEF SnapOK

LEMMA ResolveInv == ASSUME EventInv, NEW d \in Workers, Resolve(d) PROVE EventInv'
<1> DEFINE batch == SearchRangeLimit(work[d].off) \cap work[d].snap
           k == [work[d] EXCEPT !.pc = "deliver", !.batch = batch, !.todo = batch]
<1>1. /\ work[d].pc = "polled"
      /\ work' = [work EXCEPT ![d] = IF batch = {} THEN Idle ELSE k]
      /\ UNCHANGED <<load, nextSeq, txn, rows, offset, log, vac, crashes, written, handled>>
  BY DEF Resolve, histVars
<1>2. /\ d \in Running /\ work[d] \in WorkOf(written) /\ SnapOK(Idle) /\ Idle \in WorkOf(written)
      /\ SeqsOf(Idle.before) = {} /\ handled \in [Consumers -> SUBSET written]
      /\ \A j : j.snap = work[d].snap /\ j.batch \subseteq j.snap /\ j.todo \subseteq j.batch => SnapOK(j)
  BY <1>1, Shuffled
<1>3. batch \subseteq work[d].snap
  OBVIOUS
<1> HIDE DEF batch
<1>4. k \in WorkOf(written) /\ k.snap = work[d].snap /\ k.batch = batch /\ k.todo = batch /\ k.before = work[d].before
  BY <1>2, <1>3 DEF WorkOf, Pcs
<1>5. SnapOK(k)
  BY <1>2, <1>3, <1>4
<1> HIDE DEF k
<1>6. work[d].pc \notin {"acked", "logged"} /\ handled' \in [Consumers -> SUBSET written]
  BY <1>1, <1>2
<1>7. CASE batch = {}
  <2>1. work' = [work EXCEPT ![d] = Idle]
    BY <1>1, <1>7
  <2> QED BY <1>1, <1>2, <1>6, <2>1, LoopStays
<1>8. CASE batch # {}
  <2>1. work' = [work EXCEPT ![d] = k]
    BY <1>1, <1>8
  <2> QED BY <1>1, <1>2, <1>4, <1>5, <1>6, <2>1, LoopStays
<1> QED BY <1>7, <1>8

\* A live tail moves its cursor to the number of a row it has seen.
LEMMA HandleInv ==
  ASSUME EventInv, RestartSafe(load), NEW d \in Workers, NEW r, Handle(d, r)
  PROVE  EventInv'
<1> DEFINE c == load.name[d]
           k == [work[d] EXCEPT !.todo = @ \ {r}, !.attempts = 0]
<1>1. /\ work[d].pc = "deliver" /\ r \in work[d].todo
      /\ work' = [work EXCEPT ![d].todo = @ \ {r}, ![d].attempts = 0]
      /\ handled' = [handled EXCEPT ![c] = @ \cup {r}]
      /\ offset' = IF load.kind[d] = "tail" /\ Wants(d, r)
                   THEN [offset EXCEPT ![c] = <<ConsumerRow(Max({Offset(c), r.seq}))>>]
                   ELSE offset
      /\ UNCHANGED <<load, nextSeq, txn, rows, log, vac, crashes, written>>
  BY DEF Handle
<1>2. /\ d \in Running /\ work[d] \in WorkOf(written) /\ SnapOK(work[d]) /\ c \in Consumers
      /\ handled \in [Consumers -> SUBSET written]
      /\ \A j : j.snap = work[d].snap /\ j.batch \subseteq j.snap /\ j.todo \subseteq j.batch => SnapOK(j)
  BY <1>1, Shuffled
<1> HIDE DEF c
<1>3. /\ offset \in [Consumers -> Seq(OffsetRow)] /\ work \in [Workers -> WorkOf(written)]
      /\ written \subseteq Row /\ nextSeq \in Nat \ {0}
  BY DEF EventInv, TypeInv
<1>4. r \in written
  BY <1>1, <1>2 DEF WorkOf
<1>5. /\ k \in WorkOf(written) /\ k.snap = work[d].snap /\ k.batch = work[d].batch
      /\ k.before = work[d].before /\ k.todo \subseteq work[d].todo
  BY <1>2 DEF WorkOf
<1>6. SnapOK(k)
  BY <1>2, <1>5 DEF SnapOK
<1>7. work' = [work EXCEPT ![d] = k]
  BY <1>1, <1>3
<1> HIDE DEF k
<1>8. handled' \in [Consumers -> SUBSET written]
  BY <1>1, <1>2, <1>4
<1>9. work[d].pc \notin {"acked", "logged"}
  BY <1>1
<1>10. CASE ~(load.kind[d] = "tail" /\ Wants(d, r))
  BY <1>1, <1>2, <1>5, <1>6, <1>7, <1>8, <1>9, <1>10, LoopStays
<1>11. CASE load.kind[d] = "tail" /\ Wants(d, r)
  <2> DEFINE n == Max({Offset(c), r.seq})
             row == ConsumerRow(n)
  <2>1. ~(load.crashes > 0)
    BY <1>11 DEF RestartSafe
  <2>2. Offset(c) \in Nat /\ Offset(c) < nextSeq
    <3>1. Offset(c) \in Nat /\ (Offset(c) = 0 \/ Offset(c) \in SeqsOf(offset[c]))
      BY <1>2, <1>3, OffsetFact
    <3>2. \A m \in SeqsOf(offset[c]) : m < nextSeq
      BY <1>2 DEF EventInv, OffsetsFresh, c
    <3> QED BY <1>3, <3>1, <3>2
  <2>3. r.seq \in Nat
    BY <1>3, <1>4 DEF Row, Seqs
  <2>4. CASE r.seq < nextSeq
    <3>1. n \in Nat /\ n < nextSeq
      BY <2>2, <2>3, <2>4, LargerFact
    <3> HIDE DEF n
    <3>2. row \in OffsetRow /\ row.seq = n
      BY <3>1 DEF ConsumerRow, OffsetRow
    <3> HIDE DEF row
    <3>3. <<row>> \in Seq(OffsetRow) /\ SeqsOf(<<row>>) = {n}
      BY <3>2 DEF SeqsOf
    <3>4. offset' = [offset EXCEPT ![c] = <<row>>]
      BY <1>1, <1>11 DEF row, n
    <3>5. /\ offset' \in [Consumers -> Seq(OffsetRow)] /\ offset'[c] = <<row>>
          /\ \A b \in Consumers \ {c} : offset'[b] = offset[b]
      BY <1>2, <1>3, <3>3, <3>4
    <3>6. /\ work' \in [Workers -> WorkOf(written)] /\ work'[d] = k
          /\ \A e \in Workers \ {d} : work'[e] = work[e]
      BY <1>3, <1>5, <1>7
    <3>7. \A m \in SeqsOf(offset'[load.name[d]]) :
            \/ m \in SeqsOf(offset[load.name[d]])
            \/ m < nextSeq /\ (load.crashes > 0 => m = 0 \/ Acked(d, m)')
      BY <2>1, <3>1, <3>3, <3>5 DEF c
    <3>8. SeqsOf(work'[d].before) \subseteq SeqsOf(work[d].before) \cup SeqsOf(offset[load.name[d]])
      BY <1>5, <3>6
    <3>9. SnapOK(work'[d])
      BY <1>6, <3>6
    <3>10. \A b \in Consumers \ {load.name[d]} : offset'[b] = offset[b]
      BY <3>5 DEF c
    <3> QED BY <1>1, <1>2, <1>8, <1>9, <3>5, <3>6, <3>7, <3>8, <3>9, <3>10, LoopInv
  <2>5. r.seq < nextSeq
    <3>1. r \in work[d].snap
      BY <1>1, <1>2 DEF SnapOK
    <3> QED BY <1>2, <1>4, <3>1 DEF EventInv, RowsFresh, SnapOK, IsPresent
  <2> QED BY <2>4, <2>5
<1> QED BY <1>10, <1>11

LEMMA DeliverFailsInv ==
  ASSUME EventInv, RestartSafe(load), NEW d \in Workers, DeliverFails(d)
  PROVE  EventInv'
<1>1. CASE \E r : Handle(d, r)
  BY <1>1, HandleInv
<1>2. CASE /\ work' = [work EXCEPT ![d].attempts = @ + 1]
           /\ UNCHANGED <<load, nextSeq, txn, rows, index, offset, log, vac, crashes, histVars>>
  <2> DEFINE k == [work[d] EXCEPT !.attempts = @ + 1]
  <2>1. work[d].pc = "deliver"
    BY DEF DeliverFails
  <2>2. /\ d \in Running /\ work[d] \in WorkOf(written) /\ SnapOK(work[d])
        /\ handled \in [Consumers -> SUBSET written] /\ work \in [Workers -> WorkOf(written)]
    BY <2>1, Shuffled DEF EventInv, TypeInv
  <2>3. /\ k \in WorkOf(written) /\ k.snap = work[d].snap /\ k.batch = work[d].batch
        /\ k.before = work[d].before /\ k.todo = work[d].todo
    <3> DEFINE a == work[d].attempts + 1
    <3>1. a \in Nat
      BY <2>2 DEF WorkOf
    <3> HIDE DEF a
    <3>2. k = [work[d] EXCEPT !.attempts = a]
      BY <2>2 DEF a
    <3> QED BY <2>2, <3>1, <3>2 DEF WorkOf
  <2>4. SnapOK(k)
    BY <2>2, <2>3 DEF SnapOK
  <2>5. work' = [work EXCEPT ![d] = k]
    BY <1>2, <2>2
  <2> HIDE DEF k
  <2>6. /\ UNCHANGED <<load, nextSeq, txn, rows, log, vac, crashes, written, offset>>
        /\ handled' \in [Consumers -> SUBSET written] /\ work[d].pc \notin {"acked", "logged"}
    BY <1>2, <2>1, <2>2 DEF histVars
  <2> QED BY <2>2, <2>3, <2>4, <2>5, <2>6, LoopStays
<1> QED BY <1>1, <1>2 DEF DeliverFails

LEMMA TailDoneInv == ASSUME EventInv, NEW d \in Workers, TailDone(d) PROVE EventInv'
<1>1. /\ work[d].pc = "deliver" /\ work' = [work EXCEPT ![d] = Idle]
      /\ UNCHANGED <<load, nextSeq, txn, rows, log, vac, crashes, written, offset, handled>>
  BY DEF TailDone, histVars
<1>2. /\ d \in Running /\ SnapOK(Idle) /\ Idle \in WorkOf(written) /\ SeqsOf(Idle.before) = {}
      /\ handled \in [Consumers -> SUBSET written]
  BY <1>1, Shuffled
<1>3. work[d].pc \notin {"acked", "logged"} /\ handled' \in [Consumers -> SUBSET written]
  BY <1>1, <1>2
<1> QED BY <1>1, <1>2, <1>3, LoopStays

\* ack_events stamps the row it replaces, and leaves its number.
LEMMA AckEventsInv == ASSUME EventInv, NEW d \in Workers, AckEvents(d) PROVE EventInv'
<1> DEFINE c == load.name[d]
           k == [work[d] EXCEPT !.pc = "acking", !.before = offset[c]]
<1>1. /\ work[d].pc = "deliver"
      /\ UNCHANGED <<load, nextSeq, txn, rows, log, vac, crashes, written, handled>>
      /\ \/ work' = [work EXCEPT ![d] = Idle] /\ UNCHANGED offset
         \/ /\ work' = [work EXCEPT ![d].pc = "acking", ![d].before = offset[c]]
            /\ offset' = IF offset[c] = <<>> THEN offset ELSE [offset EXCEPT ![c][1].xmax = {d}]
  BY DEF AckEvents, histVars
<1>2. /\ d \in Running /\ work[d] \in WorkOf(written) /\ SnapOK(work[d]) /\ SnapOK(Idle)
      /\ Idle \in WorkOf(written) /\ SeqsOf(Idle.before) = {} /\ c \in Consumers
      /\ handled \in [Consumers -> SUBSET written]
  BY <1>1, Shuffled
<1> HIDE DEF c
<1>3. /\ offset \in [Consumers -> Seq(OffsetRow)] /\ work \in [Workers -> WorkOf(written)]
  BY DEF EventInv, TypeInv
<1>4. work[d].pc \notin {"acked", "logged"} /\ handled' \in [Consumers -> SUBSET written]
  BY <1>1, <1>2
<1>5. CASE work' = [work EXCEPT ![d] = Idle] /\ UNCHANGED offset
  BY <1>1, <1>2, <1>4, <1>5, LoopStays
<1>6. CASE /\ work' = [work EXCEPT ![d].pc = "acking", ![d].before = offset[c]]
           /\ offset' = IF offset[c] = <<>> THEN offset ELSE [offset EXCEPT ![c][1].xmax = {d}]
  <2>1. /\ k \in WorkOf(written) /\ k.snap = work[d].snap /\ k.batch = work[d].batch
        /\ k.before = offset[c] /\ k.todo = work[d].todo
    BY <1>2, <1>3 DEF WorkOf, Pcs
  <2>2. SnapOK(k)
    BY <1>2, <2>1 DEF SnapOK
  <2>3. work' = [work EXCEPT ![d] = k]
    BY <1>3, <1>6
  <2> HIDE DEF k
  <2>4. /\ work' \in [Workers -> WorkOf(written)] /\ work'[d] = k
        /\ \A e \in Workers \ {d} : work'[e] = work[e]
    BY <1>3, <2>1, <2>3
  <2>5. /\ offset' \in [Consumers -> Seq(OffsetRow)] /\ SeqsOf(offset'[c]) \subseteq SeqsOf(offset[c])
        /\ \A b \in Consumers \ {c} : offset'[b] = offset[b]
    <3>1. CASE offset[c] = <<>>
      BY <1>3, <1>6, <3>1
    <3>2. CASE offset[c] # <<>>
      <4> DEFINE s == offset[c]
                 row == [s[1] EXCEPT !.xmax = {d}]
                 t == [s EXCEPT ![1] = row]
      <4>1. s \in Seq(OffsetRow) /\ Len(s) \in Nat /\ 1 \in 1 .. Len(s) /\ s[1] \in OffsetRow
        BY <1>2, <1>3, <3>2
      <4>2. row \in OffsetRow /\ row.seq = s[1].seq
        BY <1>2, <4>1 DEF OffsetRow, Running
      <4>3. offset' = [offset EXCEPT ![c] = t]
        BY <1>3, <1>6, <3>2
      <4> HIDE DEF row, s
      <4>4. t \in Seq(OffsetRow) /\ Len(t) = Len(s) /\ \A i \in 1 .. Len(s) : t[i] = IF i = 1 THEN row ELSE s[i]
        <5>1. t \in Seq(OffsetRow)
          BY <4>1, <4>2, ExceptSeq
        <5>2. DOMAIN t = 1 .. Len(s) /\ DOMAIN s = 1 .. Len(s)
          BY <4>1, LenProperties
        <5> QED BY <4>1, <5>1, <5>2, LenProperties
      <4> HIDE DEF t
      <4>5. SeqsOf(t) \subseteq SeqsOf(s)
        <5> SUFFICES ASSUME NEW i \in 1 .. Len(t) PROVE t[i].seq \in SeqsOf(s)
          BY DEF SeqsOf
        <5>1. i \in 1 .. Len(s) /\ t[i].seq = s[i].seq
          BY <4>2, <4>4
        <5> QED BY <5>1 DEF SeqsOf
      <4>6. /\ offset' \in [Consumers -> Seq(OffsetRow)] /\ offset'[c] = t
            /\ \A b \in Consumers \ {c} : offset'[b] = offset[b]
        BY <1>2, <1>3, <4>3, <4>4
      <4> QED BY <4>5, <4>6 DEF s
    <3> QED BY <3>1, <3>2
  <2>6. /\ \A m \in SeqsOf(offset'[load.name[d]]) : m \in SeqsOf(offset[load.name[d]])
        /\ SeqsOf(work'[d].before) \subseteq SeqsOf(work[d].before) \cup SeqsOf(offset[load.name[d]])
        /\ \A b \in Consumers \ {load.name[d]} : offset'[b] = offset[b]
    BY <2>1, <2>4, <2>5 DEF c
  <2>7. SnapOK(work'[d])
    BY <2>2, <2>4
  <2> QED BY <1>1, <1>2, <1>4, <2>4, <2>5, <2>6, <2>7, LoopInv
<1> QED BY <1>1, <1>5, <1>6

\* Its commit puts a row with the highest number of the batch in its place.
LEMMA AckCommitInv == ASSUME EventInv, NEW d \in Workers, AckCommit(d) PROVE EventInv'
<1> DEFINE c == load.name[d]
           rest == Unstamped(offset[c], d)
           n == Largest(work[d].batch)
           row == ConsumerRow(n)
           k == [work[d] EXCEPT !.pc = "acked"]
<1>1. /\ work[d].pc = "acking" /\ work' = [work EXCEPT ![d].pc = "acked"]
      /\ UNCHANGED <<load, nextSeq, txn, rows, log, vac, crashes, written, handled>>
      /\ \E i \in 1 .. Len(rest) + 1 : offset' = [offset EXCEPT ![c] = InsertAt(rest, i, row)]
  BY DEF AckCommit, histVars
<1>2. /\ d \in Running /\ work[d] \in WorkOf(written) /\ SnapOK(work[d]) /\ c \in Consumers
      /\ handled \in [Consumers -> SUBSET written]
  BY <1>1, Shuffled
<1> HIDE DEF c
<1>3. /\ offset \in [Consumers -> Seq(OffsetRow)] /\ work \in [Workers -> WorkOf(written)]
      /\ written \subseteq Row /\ nextSeq \in Nat \ {0}
  BY DEF EventInv, TypeInv
<1>4. rest \in Seq(OffsetRow) /\ SeqsOf(rest) \subseteq SeqsOf(offset[c])
  <2>1. offset[c] \in Seq(OffsetRow)
    BY <1>2, <1>3
  <2> QED BY <2>1, RestFact
<1>5. n \in Nat /\ (n = 0 \/ \E r \in work[d].batch : r.seq = n)
  <2>1. work[d].batch \in SUBSET Row
    BY <1>2, <1>3 DEF WorkOf
  <2> QED BY <2>1, LargestFact
<1>6. \A r \in work[d].batch : r.seq < nextSeq
  BY <1>2 DEF EventInv, RowsFresh, SnapOK, IsPresent, WorkOf
<1>7. n < nextSeq
  BY <1>3, <1>5, <1>6
<1> HIDE DEF rest, n
<1>8. row \in OffsetRow /\ row.seq = n
  BY <1>5 DEF ConsumerRow, OffsetRow
<1> HIDE DEF row
<1>9. PICK i \in 1 .. Len(rest) + 1 : offset' = [offset EXCEPT ![c] = InsertAt(rest, i, row)]
  BY <1>1
<1>10. InsertAt(rest, i, row) \in Seq(OffsetRow) /\ SeqsOf(InsertAt(rest, i, row)) \subseteq SeqsOf(rest) \cup {n}
  BY <1>4, <1>8, InsertFact
<1>11. /\ offset' \in [Consumers -> Seq(OffsetRow)] /\ offset'[c] = InsertAt(rest, i, row)
       /\ \A b \in Consumers \ {c} : offset'[b] = offset[b]
  BY <1>2, <1>3, <1>9, <1>10
<1>12. /\ k \in WorkOf(written) /\ k.snap = work[d].snap /\ k.batch = work[d].batch /\ k.pc = "acked"
       /\ k.before = work[d].before /\ k.todo = work[d].todo
  BY <1>2 DEF WorkOf, Pcs
<1>13. SnapOK(k)
  BY <1>2, <1>12 DEF SnapOK
<1>14. work' = [work EXCEPT ![d] = k]
  BY <1>1, <1>3
<1> HIDE DEF k
<1>15. /\ work' \in [Workers -> WorkOf(written)] /\ work'[d] = k
       /\ \A e \in Workers \ {d} : work'[e] = work[e]
  BY <1>3, <1>12, <1>14
<1>16. ASSUME NEW m, m = n, m # 0 PROVE Acked(d, m)'
  <2>1. work'[d].pc = "acked" /\ work'[d].batch = work[d].batch
    BY <1>12, <1>15
  <2>2. \E r \in work[d].batch : r.seq = m
    BY <1>5, <1>16
  <2> QED BY <2>1, <2>2 DEF Acked
<1>17. ASSUME NEW m \in SeqsOf(offset'[load.name[d]])
       PROVE  \/ m \in SeqsOf(offset[load.name[d]])
              \/ m < nextSeq /\ (load.crashes > 0 => m = 0 \/ Acked(d, m)')
  <2>1. m \in SeqsOf(offset[load.name[d]]) \/ m = n
    BY <1>4, <1>10, <1>11 DEF c
  <2> QED BY <1>7, <1>16, <2>1
<1>18. SeqsOf(work'[d].before) \subseteq SeqsOf(work[d].before) \cup SeqsOf(offset[load.name[d]])
  BY <1>12, <1>15
<1>19. SnapOK(work'[d]) /\ work[d].pc \notin {"acked", "logged"} /\ handled' \in [Consumers -> SUBSET written]
  BY <1>1, <1>2, <1>13, <1>15
<1>20. \A b \in Consumers \ {load.name[d]} : offset'[b] = offset[b]
  BY <1>11 DEF c
<1> QED BY <1>1, <1>2, <1>11, <1>15, <1>17, <1>18, <1>19, <1>20, LoopInv

\* Its record goes behind those of the transactions it acknowledges, whose rows
\* were seen when their commits were on the log.
LEMMA AckLogInv == ASSUME EventInv, NEW d \in Workers, AckLog(d) PROVE EventInv'
<1> DEFINE f == <<"ack", d>>
           k == [work[d] EXCEPT !.pc = "logged"]
<1>1. /\ work[d].pc = "acked" /\ work' = [work EXCEPT ![d].pc = "logged"] /\ log' = Append(log, f)
      /\ UNCHANGED <<load, nextSeq, txn, rows, offset, vac, crashes, written, handled>>
  BY DEF AckLog, histVars
<1>2. /\ d \in Running /\ work[d] \in WorkOf(written) /\ SnapOK(work[d])
      /\ work \in [Workers -> WorkOf(written)] /\ log \in Seq(LogEntry)
      /\ written \subseteq Row /\ txn \in [Writers -> States]
  BY <1>1, Shuffled DEF EventInv, TypeInv
<1>3. /\ f \in LogEntry /\ f # <<"vac", 0>> /\ (\A e : f = <<"ack", e>> <=> e = d)
      /\ \A w : f # <<"txn", w>>
  BY DEF LogEntry
<1>4. ~OnLog(f)
  BY <1>1 DEF EventInv, LogMatches
<1> HIDE DEF f
<1>5. /\ log' \in Seq(LogEntry) /\ Len(log) \in Nat /\ Len(log') = Len(log) + 1
      /\ \A i \in 1 .. Len(log) : log'[i] = log[i]
      /\ log'[Len(log) + 1] = f
      /\ \A e : OnLog(e)' <=> OnLog(e) \/ e = f
  BY <1>1, <1>2, <1>3, AppendFact
<1>6. /\ k \in WorkOf(written) /\ k.snap = work[d].snap /\ k.batch = work[d].batch /\ k.pc = "logged"
      /\ k.before = work[d].before /\ k.todo = work[d].todo
  BY <1>2 DEF WorkOf, Pcs
<1>7. work' = [work EXCEPT ![d] = k]
  BY <1>1, <1>2
<1> HIDE DEF k
<1>8. /\ work' \in [Workers -> WorkOf(written)] /\ work'[d] = k
      /\ \A e \in Workers \ {d} : work'[e] = work[e]
  BY <1>2, <1>6, <1>7
<1>9. \A e \in Workers : /\ work'[e].snap = work[e].snap /\ work'[e].batch = work[e].batch
                        /\ work'[e].todo = work[e].todo /\ work'[e].before = work[e].before
                        /\ work'[e].pc = IF e = d THEN "logged" ELSE work[e].pc
  BY <1>6, <1>8
<1>10. TypeInv'
  BY <1>1, <1>5, <1>8 DEF EventInv, TypeInv
<1>11. RowsFresh'
  BY <1>1 DEF EventInv, RowsFresh
<1>12. SnapsOK'
  <2> SUFFICES ASSUME NEW e \in Workers
               PROVE  SnapOK(work'[e]) /\ (work'[e].pc # "idle" => e \in Running)
    BY <1>1 DEF SnapsOK, SnapOK, IsPresent, Running
  <2>1. SnapOK(work[e]) /\ (work[e].pc # "idle" => e \in Running)
    BY DEF EventInv, SnapsOK
  <2> QED BY <1>2, <1>9, <2>1 DEF SnapOK
<1>13. OffsetsFresh'
  <2> SUFFICES ASSUME NEW e \in Running, NEW n \in SeqsOf(offset[load.name[e]]) \cup SeqsOf(work'[e].before)
               PROVE  n < nextSeq
    BY <1>1 DEF OffsetsFresh, Running
  <2>1. work'[e].before = work[e].before
    BY <1>9 DEF Running
  <2> QED BY <2>1 DEF EventInv, OffsetsFresh
<1>14. LogMatches'
  <2>1. \A i, j \in 1 .. Len(log') : log'[i] = log'[j] /\ i # j => log'[i] = <<"vac", 0>>
    BY <1>1, <1>2, <1>3, <1>4, AppendKeeps DEF EventInv, LogMatches
  <2>2. \A v \in Writers : txn[v] = "logged" <=> OnLog(<<"txn", v>>)'
    BY <1>3, <1>5 DEF EventInv, LogMatches
  <2>3. \A e \in Workers : OnLog(<<"ack", e>>)' => work'[e].pc = "logged"
    BY <1>3, <1>5, <1>9 DEF EventInv, LogMatches
  <2> QED BY <1>1, <2>1, <2>2, <2>3 DEF LogMatches
<1>15. ASSUME load.crashes > 0 PROVE RestartOK'
  <2>1. OffsetsSettled /\ AcksFollow /\ vac = NoVac /\ \A r \in written : txn[r.w] # "aborted" => r \in rows
    BY <1>15 DEF EventInv, RestartOK
  <2>2. OffsetsSettled'
    <3> SUFFICES ASSUME NEW e \in Running
                 PROVE  /\ \A n \in SeqsOf(work'[e].before) : Settled(n)'
                        /\ \A n \in SeqsOf(offset[load.name[e]]) : Settled(n)' \/ Acked(e, n)'
      BY <1>1 DEF OffsetsSettled, Running
    <3>1. e \in Workers
      BY DEF Running
    <3>2. \A n : (Settled(n) => Settled(n)') /\ (Acked(e, n) => Acked(e, n)')
      BY <1>1, <1>9, <3>1 DEF Settled, Acked
    <3> QED BY <1>9, <2>1, <3>1, <3>2 DEF OffsetsSettled
  <2>3. AcksFollow'
    <3> SUFFICES ASSUME NEW j \in 1 .. Len(log'), NEW e \in Workers, log'[j] = <<"ack", e>>,
                        NEW r \in work'[e].batch
                 PROVE  txn'[r.w] = "durable" \/ \E i \in 1 .. j - 1 : log'[i] = <<"txn", r.w>>
      BY DEF AcksFollow
    <3>1. r \in work[e].batch
      BY <1>9
    <3>2. CASE j \in 1 .. Len(log)
      <4>1. txn[r.w] = "durable" \/ \E i \in 1 .. j - 1 : log[i] = <<"txn", r.w>>
        BY <1>5, <2>1, <3>1, <3>2, AckFollows
      <4>2. \A i \in 1 .. j - 1 : log'[i] = log[i]
        BY <1>5, <3>2
      <4> QED BY <1>1, <4>1, <4>2
    <3>3. CASE j = Len(log) + 1
      <4>1. e = d
        BY <1>3, <1>5, <3>3
      <4>2. r.w \in Writers /\ IsPresent(r.w) /\ txn[r.w] # "visible"
        BY <1>2, <1>15, <3>1, <4>1 DEF SnapOK, WorkOf, Row
      <4>3. CASE txn[r.w] = "logged"
        <5>1. PICK i \in 1 .. Len(log) : log[i] = <<"txn", r.w>>
          BY <4>2, <4>3 DEF EventInv, LogMatches, OnLog
        <5>2. i \in 1 .. j - 1 /\ log'[i] = <<"txn", r.w>>
          BY <1>5, <3>3, <5>1
        <5> QED BY <5>2
      <4> QED BY <1>1, <4>2, <4>3 DEF IsPresent
    <3> QED BY <1>5, <3>2, <3>3
  <2> QED BY <1>1, <2>1, <2>2, <2>3 DEF RestartOK
<1> QED BY <1>1, <1>10, <1>11, <1>12, <1>13, <1>14, <1>15 DEF EventInv, RestartOK

LEMMA WorkerInv ==
  ASSUME EventInv, RestartSafe(load), NEW d \in Workers, WorkerStep(d)
  PROVE  EventInv'
<1>1. CASE Deliver(d)
  BY <1>1, HandleInv DEF Deliver
<1> QED BY <1>1, PollInv, ResolveInv, DeliverFailsInv, TailDoneInv, AckEventsInv, AckCommitInv,
           AckLogInv DEF WorkerStep
-----------------------------------------------------------------------------
(* vacuum_events, and vacuum of the heap.                                  *)

LEMMA VacuumInv ==
  ASSUME EventInv, RestartSafe(load), VacuumEvents \/ VacuumStep \/ VacuumTable
  PROVE  EventInv'
<1>1. load.crashes > 0 => vac = NoVac /\ vac.pc = "idle" /\ ~load.vacuums
  BY DEF EventInv, RestartOK, NoVac, RestartSafe
<1>2. CASE VacuumEvents
  BY <1>1, <1>2, RowsShrink DEF VacuumEvents, histVars
<1>3. CASE VacuumCommit
  <2>1. /\ UNCHANGED <<load, nextSeq, txn, offset, log, work, crashes, written, handled>>
        /\ rows' = rows \ vac.rows /\ vac.pc = "open"
    BY <1>3 DEF VacuumCommit, histVars
  <2> QED BY <1>1, <2>1, RowsShrink
<1>4. CASE VacuumAbort
  BY <1>1, <1>4, RowsShrink DEF VacuumAbort, histVars
<1>5. CASE VacuumTable
  BY <1>5, RowsShrink DEF VacuumTable, histVars
<1>6. CASE VacuumLog
  <2> DEFINE f == <<"vac", 0>>
  <2>1. /\ vac.pc = "visible" /\ log' = Append(log, f)
        /\ UNCHANGED <<load, nextSeq, txn, rows, offset, work, crashes, written, handled>>
    BY <1>6 DEF VacuumLog, histVars
  <2>2. ~(load.crashes > 0)
    BY <1>1, <2>1
  <2>3. log \in Seq(LogEntry)
    BY DEF EventInv, TypeInv
  <2>4. f \in LogEntry /\ \A v : f # <<"txn", v>> /\ f # <<"ack", v>>
    BY DEF LogEntry
  <2>5. log' \in Seq(LogEntry) /\ \A e : OnLog(e)' <=> OnLog(e) \/ e = f
    BY <2>1, <2>3, <2>4, AppendFact
  <2>6. \A i, j \in 1 .. Len(log') : log'[i] = log'[j] /\ i # j => log'[i] = <<"vac", 0>>
    BY <2>1, <2>3, <2>4, AppendKeeps DEF EventInv, LogMatches
  <2>7. TypeInv' /\ RowsFresh'
    BY <2>1, <2>5 DEF EventInv, TypeInv, RowsFresh
  <2>8. SnapsOK' /\ OffsetsFresh'
    BY <2>1 DEF EventInv, SnapsOK, SnapOK, IsPresent, Running, OffsetsFresh
  <2>9. LogMatches'
    BY <2>1, <2>4, <2>5, <2>6 DEF EventInv, LogMatches
  <2> QED BY <2>1, <2>2, <2>7, <2>8, <2>9 DEF EventInv, RestartOK
<1> QED BY <1>2, <1>3, <1>4, <1>5, <1>6 DEF VacuumStep
-----------------------------------------------------------------------------
(* Crash and restart.                                                      *)

LEMMA CrashInv == ASSUME EventInv, RestartSafe(load), Crash PROVE EventInv'
<1>1. PICK n \in 0 .. Len(log) :
        LET lost    == Lost(n)
            back    == IF VacLost(n) THEN vac.rows ELSE {}
            present == {r \in rows \cup back : IsPresent(r.w) /\ r.w \notin lost}
        IN
        /\ txn' = [w \in Writers |-> IF w \in lost THEN "aborted"
                                     ELSE IF IsPresent(w) THEN "durable" ELSE txn[w]]
        /\ rows' = present
        /\ offset' = [c \in Consumers |->
                        IF AckLost(c, n) = {} THEN offset[c]
                        ELSE work[CHOOSE d \in AckLost(c, n) : TRUE].before]
        /\ nextSeq' = DeriveNextEventSeq(present)
  BY DEF Crash
<1> DEFINE present == {r \in rows : IsPresent(r.w) /\ r.w \notin Lost(n)}
<1>2. /\ log' = <<>> /\ work' = [d \in Workers |-> Idle] /\ vac' = NoVac /\ crashes' = crashes + 1
      /\ crashes < load.crashes /\ UNCHANGED <<load, written, handled>>
  BY DEF Crash, histVars
<1>3. /\ load \in Loads /\ crashes \in Nat /\ txn \in [Writers -> States] /\ written \subseteq Row
      /\ rows \subseteq written /\ offset \in [Consumers -> Seq(OffsetRow)] /\ log \in Seq(LogEntry)
      /\ work \in [Workers -> WorkOf(written)] /\ Len(log) \in Nat
  BY DEF EventInv, TypeInv
<1>4. /\ load.crashes > 0 /\ load.name \in [Workers -> Consumers]
      /\ \A d, e \in Workers : load.name[d] = load.name[e] => d = e
      /\ \A d \in Workers : load.kind[d] # "tail"
  BY <1>2, <1>3, LoadFact DEF RestartSafe
<1>5. /\ vac = NoVac /\ OffsetsSettled /\ AcksFollow
      /\ \A r \in written : txn[r.w] # "aborted" => r \in rows
  BY <1>4 DEF EventInv, RestartOK
<1>6. /\ rows' = present /\ nextSeq' = Largest(present) + 1
      /\ offset' = [c \in Consumers |->
                      IF AckLost(c, n) = {} THEN offset[c]
                      ELSE work[CHOOSE d \in AckLost(c, n) : TRUE].before]
  <2>1. (IF VacLost(n) THEN vac.rows ELSE {}) = {}
    BY <1>5 DEF NoVac
  <2> QED BY <1>1, <2>1 DEF DeriveNextEventSeq
<1>7. \A w \in Writers : txn'[w] = IF w \in Lost(n) THEN "aborted"
                                  ELSE IF IsPresent(w) THEN "durable" ELSE txn[w]
  BY <1>1
<1>8. \A r \in written : r.w \in Writers /\ r.seq \in Nat
  BY <1>3 DEF Row, Seqs
<1>9. present \in SUBSET Row /\ present \subseteq written
  BY <1>3
<1>10. \A r \in written : txn'[r.w] # "aborted" => r \in present /\ txn'[r.w] = "durable"
  <2> SUFFICES ASSUME NEW r \in written, txn'[r.w] # "aborted"
               PROVE  r \in present /\ txn'[r.w] = "durable"
    OBVIOUS
  <2>1. r.w \in Writers /\ r.w \notin Lost(n)
    BY <1>7, <1>8
  <2>2. txn[r.w] # "aborted" /\ txn[r.w] # "idle"
    BY <1>7, <2>1 DEF IsPresent, EventInv, RowsFresh
  <2>3. txn[r.w] # "active"
    <3> SUFFICES ASSUME txn[r.w] = "active" PROVE FALSE
      OBVIOUS
    <3>1. ~OnLog(<<"txn", r.w>>)
      BY <2>1 DEF EventInv, LogMatches
    <3>2. \A i \in 1 .. n : log[i] # <<"txn", r.w>>
      BY <1>3, <3>1 DEF OnLog
    <3> QED BY <2>1, <3>2 DEF Lost
  <2>4. IsPresent(r.w)
    BY <1>3, <2>1, <2>2, <2>3 DEF States, IsPresent
  <2> QED BY <1>5, <1>7, <2>1, <2>2, <2>4
<1>11. \A w \in Writers : txn[w] = "durable" => txn'[w] = "durable"
  BY <1>7 DEF Lost, IsPresent
<1>12. \A w \in Writers : (\E i \in 1 .. n : log[i] = <<"txn", w>>) => txn'[w] = "durable"
  <2> SUFFICES ASSUME NEW w \in Writers, NEW i \in 1 .. n, log[i] = <<"txn", w>>
               PROVE  txn'[w] = "durable"
    OBVIOUS
  <2>1. w \notin Lost(n)
    BY DEF Lost
  <2>2. txn[w] = "logged"
    <3>1. i \in 1 .. Len(log)
      BY <1>3
    <3> QED BY <3>1 DEF EventInv, LogMatches, OnLog
  <2> QED BY <1>7, <2>1, <2>2 DEF IsPresent
<1>13. /\ Largest(present) \in Nat /\ \A r \in present : r.seq <= Largest(present)
  BY <1>9, LargestFact
<1> HIDE DEF present
<1>14. nextSeq' \in Nat \ {0} /\ \A r \in written : txn'[r.w] # "aborted" => r.seq < nextSeq'
  BY <1>6, <1>8, <1>10, <1>13
<1>15. \A m : Settled(m) => Settled(m)'
  BY <1>2, <1>8, <1>11 DEF Settled
<1>16. ASSUME NEW d \in Running, NEW m \in SeqsOf(offset'[load.name[d]]) PROVE Settled(m)'
  <2> DEFINE c == load.name[d]
  <2>1. d \in Workers /\ d \in Acking /\ c \in Consumers
    BY <1>4 DEF Running, Acking
  <2>2. \A e \in AckLost(c, n) : e = d
    BY <1>4, <2>1 DEF AckLost, Acking, Running
  <2>3. CASE AckLost(c, n) # {}
    <3>1. (CHOOSE e \in AckLost(c, n) : TRUE) = d
      BY <2>2, <2>3
    <3>2. offset'[c] = work[d].before
      BY <1>6, <2>1, <2>3, <3>1
    <3> QED BY <1>5, <1>15, <3>2 DEF OffsetsSettled
  <2>4. CASE AckLost(c, n) = {}
    <3>1. offset'[c] = offset[c]
      BY <1>6, <2>1, <2>4
    <3>2. Settled(m) \/ Acked(d, m)
      BY <1>5, <3>1 DEF OffsetsSettled
    <3>3. ASSUME Acked(d, m) PROVE Settled(m)'
      <4>1. PICK r \in work[d].batch : r.seq = m
        BY <3>3 DEF Acked
      <4>2. PICK j \in 1 .. n : log[j] = <<"ack", d>>
        <5>1. d \notin AckLost(c, n) /\ work[d].pc \in {"acking", "acked", "logged"}
          BY <2>4, <3>3 DEF Acked
        <5> QED BY <2>1, <5>1 DEF AckLost
      <4>3. j \in 1 .. Len(log)
        BY <1>3
      <4>4. txn[r.w] = "durable" \/ \E i \in 1 .. j - 1 : log[i] = <<"txn", r.w>>
        BY <1>5, <2>1, <4>2, <4>3, AckFollows
      <4>5. r \in written /\ r.w \in Writers
        BY <1>3, <1>8, <2>1 DEF WorkOf
      <4>6. txn'[r.w] = "durable"
        BY <1>11, <1>12, <4>4, <4>5
      <4> QED BY <1>2, <4>1, <4>5, <4>6 DEF Settled
    <3> QED BY <1>15, <3>2, <3>3
  <2> QED BY <2>3, <2>4
<1>17. /\ Idle \in WorkOf(written) /\ Idle.pc = "idle" /\ Idle.snap = {} /\ Idle.batch = {} /\ Idle.todo = {}
       /\ Idle.before = <<>> /\ SeqsOf(<<>>) = {}
  BY IdleFact
<1>18. \A d \in Workers : work'[d] = Idle
  BY <1>2
<1>19. log' \in Seq(LogEntry) /\ Len(log') = 0 /\ \A e : ~OnLog(e)'
  BY <1>2, EmptySeq DEF OnLog
<1>20. offset' \in [Consumers -> Seq(OffsetRow)]
  <2> SUFFICES ASSUME NEW c \in Consumers, AckLost(c, n) # {}
               PROVE  work[CHOOSE d \in AckLost(c, n) : TRUE].before \in Seq(OffsetRow)
    BY <1>3, <1>6
  <2> DEFINE d == CHOOSE d \in AckLost(c, n) : TRUE
  <2>1. d \in AckLost(c, n)
    OBVIOUS
  <2> HIDE DEF d
  <2>2. d \in Workers
    BY <2>1 DEF AckLost, Acking, Running
  <2>3. work[d].before \in Seq(OffsetRow)
    BY <1>3, <2>2 DEF WorkOf
  <2> QED BY <2>3 DEF d
<1>21. TypeInv'
  <2>1. txn' \in [Writers -> States]
    BY <1>1, <1>3 DEF States
  <2>2. work' \in [Workers -> WorkOf(written')] /\ rows' \subseteq written'
    BY <1>2, <1>6, <1>9, <1>17
  <2> QED BY <1>2, <1>3, <1>14, <1>19, <1>20, <2>1, <2>2 DEF EventInv, TypeInv
<1>22. RowsFresh'
  <2>1. \A r \in written : txn'[r.w] # "idle"
    BY <1>7, <1>8 DEF EventInv, RowsFresh
  <2> QED BY <1>2, <1>14, <2>1 DEF RowsFresh
<1>23. SnapsOK'
  BY <1>17, <1>18 DEF SnapsOK, SnapOK
<1>24. OffsetsFresh'
  <2> SUFFICES ASSUME NEW d \in Running, NEW m \in SeqsOf(offset'[load.name[d]]) PROVE m < nextSeq'
    BY <1>2, <1>17, <1>18 DEF OffsetsFresh, Running
  <2>1. Settled(m)'
    BY <1>16
  <2>2. CASE m = 0
    BY <1>14, <2>2
  <2>3. CASE m # 0
    BY <1>2, <1>14, <2>1, <2>3 DEF Settled
  <2> QED BY <2>2, <2>3
<1>25. LogMatches'
  <2>1. \A w \in Writers : txn'[w] # "logged"
    BY <1>7 DEF IsPresent
  <2> QED BY <1>19, <2>1 DEF LogMatches
<1>26. RestartOK'
  <2>1. OffsetsSettled'
    BY <1>2, <1>16, <1>17, <1>18 DEF OffsetsSettled, Running
  <2>2. AcksFollow'
    BY <1>19 DEF AcksFollow
  <2>3. \A r \in written' : txn'[r.w] # "aborted" => r \in rows'
    BY <1>2, <1>6, <1>10
  <2> QED BY <1>2, <2>1, <2>2, <2>3 DEF RestartOK
<1> QED BY <1>21, <1>22, <1>23, <1>24, <1>25, <1>26 DEF EventInv
-----------------------------------------------------------------------------
(* The theorem.                                                            *)

LEMMA LoadFixed == [Next]_vars => load' = load
BY DEF Next, vars, WriterStep, Begin, Commit, CommitLog, Abort, SendEventCapture, WorkerStep, Poll,
       Resolve, Deliver, Handle, DeliverFails, TailDone, AckEvents, AckCommit, AckLog, Sync, SyncUpTo,
       VacuumEvents, VacuumStep, VacuumCommit, VacuumLog, VacuumAbort, VacuumTable, Crash

LEMMA NextInv == EventInv /\ RestartSafe(load) /\ [Next]_vars => EventInv'
<1> SUFFICES ASSUME EventInv, RestartSafe(load), [Next]_vars PROVE EventInv'
  OBVIOUS
<1>1. CASE UNCHANGED vars
  BY <1>1, RowsShrink DEF vars, histVars
<1>2. CASE Sync
  BY <1>2, SyncInv DEF Sync
<1> QED BY <1>1, <1>2, WriterInv, WorkerInv, VacuumInv, CrashInv DEF Next

LEMMA InvHolds == Spec => [](RestartSafe(load) => EventInv)
<1>1. Init => EventInv
  BY InitInv
<1>2. (RestartSafe(load) => EventInv) /\ [Next]_vars => (RestartSafe(load) => EventInv)'
  BY LoadFixed, NextInv DEF RestartSafe
<1> QED BY <1>1, <1>2, PTL DEF Spec

LEMMA InvFresh == EventInv => SeqsFresh
<1> SUFFICES ASSUME EventInv, NEW d \in Running
             PROVE  /\ nextSeq > Offset(load.name[d])
                    /\ \A r \in handled[load.name[d]] : txn[r.w] = "durable" => nextSeq > r.seq
  BY DEF SeqsFresh
<1>1. /\ load \in Loads /\ offset \in [Consumers -> Seq(OffsetRow)] /\ nextSeq \in Nat \ {0}
      /\ handled \in [Consumers -> SUBSET written] /\ written \subseteq Row
  BY DEF EventInv, TypeInv
<1>2. load.name[d] \in Consumers
  BY <1>1, LoadFact DEF Running
<1>3. Offset(load.name[d]) \in Nat /\ Offset(load.name[d]) < nextSeq
  <2>1. /\ Offset(load.name[d]) \in Nat
        /\ Offset(load.name[d]) = 0 \/ Offset(load.name[d]) \in SeqsOf(offset[load.name[d]])
    BY <1>1, <1>2, OffsetFact
  <2> QED BY <1>1, <2>1 DEF EventInv, OffsetsFresh
<1>4. \A r \in handled[load.name[d]] : r \in written /\ r.seq \in Nat
  BY <1>1, <1>2 DEF Row, Seqs
<1> QED BY <1>1, <1>3, <1>4 DEF EventInv, RowsFresh

\* The next event's number is above every offset and above the number of every
\* committed event a consumer has handled, also after any number of restarts:
\* what derive_next_event_seq finds in __events__ is enough, because ack_events
\* never leaves an offset behind whose event a crash can take away.
THEOREM NumbersStayFresh == Spec => [](RestartSafe(load) => SeqsFresh)
<1>1. EventInv => SeqsFresh
  BY InvFresh
<1> QED BY <1>1, InvHolds, PTL
-----------------------------------------------------------------------------
(* No event is lost.                                                       *)

\* Each consumer has one worker, and live tails are not used beside
\* vacuum_events, which does not know their cursors.
Separate(l) ==
  /\ \A d, e \in Workers : l.name[d] = l.name[e] => d = e
  /\ l.vacuums => \A d \in Workers : l.kind[d] # "tail"

Live(r) == txn[r.w] # "aborted"
At(d)   == Offset(load.name[d])
Owed(d) == owed[load.name[d]]
Done(d) == handled[load.name[d]]

One(s, X) == s = <<>> \/ (Len(s) = 1 /\ s[1].xmax = X)
First(s)  == IF s = <<>> THEN 0 ELSE Head(s).seq

\* Two rows with one number: one of them was lost, or rolled back.
UniqueSeqs == \A q, r \in written : Live(q) /\ Live(r) /\ q.seq = r.seq => q = r

\* Writers that take turns, and so write in the order of the numbers.
Busy(w)   == txn[w] \in {"active", "visible", "logged"}
TakeTurns == load.serial => \A v, w \in Writers : Busy(v) /\ Busy(w) => v = w
InTurn ==
  load.serial => \A q, r \in written :
    Live(q) /\ Live(r) /\ q.w # r.w /\ r.seq < q.seq => txn[r.w] = "durable"

\* What some consumer has not acknowledged is there.
Kept ==
  /\ index \subseteq written /\ IsFiniteSet(index) /\ vac.rows \subseteq written
  /\ ~load.vacuums => vac = NoVac
  /\ vac.pc = "open" => \A r \in vac.rows, d \in Acking : r.seq <= At(d)
  /\ \A r \in written : Live(r) /\ (~load.vacuums \/ \E d \in Acking : r.seq > At(d))
       => r \in rows \cap index

\* The rows of a consumer: none, or one, which its worker's open acknowledgement
\* has stamped.  What it replaces is where the poll began.
PlaceOK(d) ==
  /\ One(offset[load.name[d]], IF work[d].pc = "acking" THEN {d} ELSE {})
  /\ work[d].pc \in {"acking", "acked", "logged"}
       => One(work[d].before, {}) /\ First(work[d].before) = work[d].off
  /\ work[d].pc = "polled" \/ (load.kind[d] # "tail" /\ work[d].pc \in {"deliver", "acking"})
       => At(d) = work[d].off

\* Up to number n the consumer has got what its polls saw; and they saw all when
\* writers take turns.
GotTo(d, n) ==
  /\ \A r \in Owed(d) : Live(r) /\ r.seq <= n /\ Wants(d, r) => r \in Done(d)
  /\ load.serial => \A r \in written : Live(r) /\ r.seq <= n => r \in Owed(d)

\* What a poll sees after its offset.
PollOK(d) ==
  work[d].pc # "idle" =>
    /\ GotTo(d, work[d].off)
    /\ \A r \in Owed(d) : Live(r) /\ r.seq > work[d].off => r \in work[d].snap
    /\ \A r \in work[d].snap : r.seq > work[d].off => r \in Owed(d)
    /\ load.serial => \A q \in work[d].snap, r \in written :
         Live(r) /\ work[d].off < r.seq /\ r.seq <= q.seq => r \in work[d].snap

\* A batch has no gaps, and what is not to do is done.
BatchOK(d) ==
  /\ work[d].pc = "polled" => \A r \in work[d].snap : r.seq > work[d].off => r \in index
  /\ work[d].pc \notin {"idle", "polled"} =>
       /\ work[d].batch # {} /\ work[d].batch \ work[d].todo \subseteq Done(d)
       /\ \A q \in work[d].batch : q.seq > work[d].off
       /\ \A q \in work[d].batch, r \in work[d].snap :
            work[d].off < r.seq /\ r.seq <= q.seq => r \in work[d].batch
  /\ work[d].pc \in {"acking", "acked", "logged"} => work[d].todo = {} /\ load.kind[d] # "tail"

ConsumerOK(d) ==
  /\ Owed(d) \subseteq written /\ \A r \in Owed(d) : IsPresent(r.w) \/ ~Live(r)
  /\ PlaceOK(d) /\ GotTo(d, At(d)) /\ PollOK(d) /\ BatchOK(d)

LossInv ==
  /\ owed \in [Consumers -> SUBSET Row]
  /\ UniqueSeqs /\ TakeTurns /\ InTurn /\ Kept
  /\ \A d \in Running : ConsumerOK(d)

LEMMA LossFacts ==
  ASSUME EventInv
  PROVE  /\ load \in Loads /\ nextSeq \in Nat /\ written \subseteq Row /\ rows \subseteq written
         /\ \A r \in written : /\ r.seq \in Nat /\ r.w \in Writers /\ r.w \in Nat
                               /\ Live(r) => r.seq < nextSeq
                               /\ txn[r.w] # "idle"
         /\ \A d \in Running :
              /\ d \in Workers /\ load.name[d] \in Consumers /\ work[d] \in WorkOf(written)
              /\ SnapOK(work[d]) /\ offset[load.name[d]] \in Seq(OffsetRow)
              /\ At(d) \in Nat /\ At(d) < nextSeq
              /\ Done(d) \subseteq written
<1>1. /\ load \in Loads /\ nextSeq \in Nat \ {0} /\ written \subseteq Row /\ rows \subseteq written
      /\ offset \in [Consumers -> Seq(OffsetRow)] /\ work \in [Workers -> WorkOf(written)]
      /\ handled \in [Consumers -> SUBSET written]
  BY DEF EventInv, TypeInv
<1>2. ASSUME NEW r \in written
      PROVE  r.seq \in Nat /\ r.w \in Writers /\ r.w \in Nat /\ (Live(r) => r.seq < nextSeq)
             /\ txn[r.w] # "idle"
  <2>1. r.seq \in Nat /\ r.w \in Writers /\ r.w \in Nat
    <3>1. r.seq \in 1 .. MaxSeq /\ r.w \in Writers
      BY <1>1 DEF Row, Seqs
    <3>2. MaxSeq \in Nat
      BY BoundAssumption
    <3>3. Writers \subseteq Nat
      BY BoundAssumption
    <3>4. r.seq \in Nat
      BY <3>1, <3>2
    <3>5. r.w \in Nat
      BY <3>1, <3>3
    <3> QED BY <3>1, <3>4, <3>5
  <2> QED BY <2>1 DEF EventInv, RowsFresh, Live
<1>3. ASSUME NEW d \in Running
      PROVE  /\ d \in Workers /\ load.name[d] \in Consumers /\ work[d] \in WorkOf(written)
             /\ SnapOK(work[d]) /\ offset[load.name[d]] \in Seq(OffsetRow)
             /\ At(d) \in Nat /\ At(d) < nextSeq /\ Done(d) \subseteq written
  <2>1. d \in Workers /\ load.name[d] \in Consumers
    BY <1>1, LoadFact DEF Running
  <2>2. /\ work[d] \in WorkOf(written) /\ SnapOK(work[d]) /\ offset[load.name[d]] \in Seq(OffsetRow)
        /\ Done(d) \subseteq written
    BY <1>1, <2>1 DEF EventInv, SnapsOK, Done
  <2>3. At(d) \in Nat /\ (At(d) = 0 \/ At(d) \in SeqsOf(offset[load.name[d]]))
    BY <2>2, OffsetFact DEF At
  <2>4. At(d) < nextSeq
    BY <1>1, <2>3 DEF EventInv, OffsetsFresh
  <2> QED BY <2>1, <2>2, <2>3, <2>4
<1> QED BY <1>1, <1>2, <1>3

LEMMA RowFact ==
  ASSUME EventInv, NEW d \in Running
  PROVE  /\ work[d].snap \subseteq written /\ work[d].batch \subseteq work[d].snap
         /\ work[d].todo \subseteq work[d].batch /\ work[d].off \in Nat
         /\ \A r \in work[d].snap : IsPresent(r.w) /\ Live(r) /\ r.seq \in Nat /\ r.seq < nextSeq
<1>1. work[d] \in WorkOf(written) /\ SnapOK(work[d])
  BY LossFacts
<1>2. /\ work[d].snap \subseteq written /\ work[d].batch \subseteq work[d].snap
      /\ work[d].todo \subseteq work[d].batch /\ work[d].off \in Nat
      /\ \A r \in work[d].snap : IsPresent(r.w)
  BY <1>1 DEF WorkOf, SnapOK
<1>3. \A r \in work[d].snap : Live(r)
  BY <1>2 DEF IsPresent, Live
<1> QED BY <1>2, <1>3, LossFacts

\* The offset of a running poll is below the counter.
LEMMA OffFresh ==
  ASSUME EventInv, NEW d \in Running, ConsumerOK(d), work[d].pc # "idle"
  PROVE  work[d].off < nextSeq
<1>1. At(d) < nextSeq /\ nextSeq \in Nat
  BY LossFacts
<1>2. CASE work[d].pc = "polled"
  BY <1>1, <1>2 DEF ConsumerOK, PlaceOK
<1>3. CASE work[d].pc # "polled"
  <2>1. PICK q \in work[d].batch : q.seq > work[d].off
    BY <1>3 DEF ConsumerOK, BatchOK
  <2>2. q.seq \in Nat /\ q.seq < nextSeq /\ work[d].off \in Nat
    BY RowFact
  <2> QED BY <1>1, <2>1, <2>2
<1> QED BY <1>2, <1>3

\* A consumer none of whose own state changes, while events are written, commit,
\* are rolled back and leave the index.
SameLoop(d) ==
  /\ work'[d].snap = work[d].snap /\ work'[d].off = work[d].off /\ work'[d].batch = work[d].batch
  /\ work'[d].todo = work[d].todo /\ work'[d].before = work[d].before
  /\ work'[d].pc = work[d].pc \/ (work[d].pc = "acked" /\ work'[d].pc = "logged")

LEMMA ConsumerStays ==
  ASSUME EventInv, NEW d \in Running, ConsumerOK(d), load' = load,
         offset'[load.name[d]] = offset[load.name[d]],
         owed'[load.name[d]] = owed[load.name[d]], handled'[load.name[d]] = handled[load.name[d]],
         SameLoop(d) \/ (work'[d].pc = "idle" /\ work[d].pc # "acking"),
         written \subseteq written',
         \A r \in written : /\ Live(r)' => Live(r)
                            /\ IsPresent(r.w) => IsPresent(r.w)' \/ ~Live(r)',
         \A r \in written' \ written :
            /\ r.seq \in Nat /\ r.seq > At(d)
            /\ work[d].pc # "idle" => r.seq > work[d].off
            /\ \A q \in work[d].snap : r.seq > q.seq,
         work[d].pc = "polled" =>
            \A r \in work[d].snap : r.seq > work[d].off /\ r \in index => r \in index'
  PROVE  ConsumerOK(d)'
<1>1. At(d)' = At(d) /\ Owed(d)' = Owed(d) /\ Done(d)' = Done(d)
      /\ \A r : Wants(d, r)' <=> Wants(d, r)
  BY DEF At, Offset, Owed, Done, Wants
<1>2. Owed(d) \subseteq written /\ \A r \in Owed(d) : IsPresent(r.w) \/ ~Live(r)
  BY DEF ConsumerOK
<1>3. /\ At(d) \in Nat /\ work[d].off \in Nat /\ \A r \in written : r.seq \in Nat
      /\ work[d].snap \subseteq written /\ work[d].batch \subseteq work[d].snap
  BY LossFacts, RowFact
<1>4. Owed(d)' \subseteq written' /\ \A r \in Owed(d)' : IsPresent(r.w)' \/ ~Live(r)'
  BY <1>1, <1>2
<1>5. ASSUME NEW n \in Nat, GotTo(d, n), \A r \in written' \ written : r.seq \in Nat /\ r.seq > n PROVE GotTo(d, n)'
  <2>1. \A r \in Owed(d) : Live(r)' => Live(r)
    BY <1>2
  <2>2. (\A r \in Owed(d) : Live(r) /\ r.seq <= n /\ Wants(d, r) => r \in Done(d))'
    BY <1>1, <1>5, <2>1 DEF GotTo
  <2>3. ASSUME load.serial, NEW r \in written', Live(r)', r.seq <= n PROVE r \in Owed(d)
    <3>1. CASE r \in written
      BY <1>5, <2>3, <3>1 DEF GotTo
    <3>2. CASE r \notin written
      <4>1. r.seq \in Nat /\ r.seq > n
        BY <1>5, <3>2
      <4> QED BY <2>3, <4>1
    <3> QED BY <3>1, <3>2
  <2> QED BY <1>1, <2>2, <2>3 DEF GotTo
<1>6. GotTo(d, At(d))'
  <2> DEFINE n == At(d)
  <2>1. n \in Nat /\ GotTo(d, n)
    BY <1>3 DEF ConsumerOK
  <2> QED BY <1>1, <1>5, <2>1 DEF GotTo
<1>7. CASE work'[d].pc = "idle" /\ work[d].pc # "acking"
  BY <1>4, <1>6, <1>7 DEF ConsumerOK, PlaceOK, PollOK, BatchOK
<1>8. CASE SameLoop(d)
  <2>1. PlaceOK(d)'
    BY <1>1, <1>8 DEF SameLoop, ConsumerOK, PlaceOK
  <2>2. PollOK(d)'
    <3> SUFFICES ASSUME work[d].pc # "idle" PROVE PollOK(d)'
      BY <1>8 DEF PollOK, SameLoop
    <3>1. PollOK(d) /\ work[d].pc # "idle"
      BY DEF ConsumerOK
    <3>2. GotTo(d, work[d].off)'
      <4> DEFINE n == work[d].off
      <4>1. n \in Nat /\ GotTo(d, n) /\ \A r \in written' \ written : r.seq \in Nat /\ r.seq > n
        BY <1>3, <3>1 DEF PollOK
      <4> QED BY <1>1, <1>5, <1>8, <4>1 DEF GotTo, SameLoop
    <3>3. \A r \in Owed(d) : Live(r)' /\ r.seq > work[d].off => r \in work[d].snap
      BY <1>2, <3>1 DEF PollOK
    <3>4. \A r \in work[d].snap : r.seq > work[d].off => r \in Owed(d)
      BY <3>1 DEF PollOK
    <3>5. ASSUME load.serial, NEW q \in work[d].snap, NEW r \in written', Live(r)',
                 work[d].off < r.seq, r.seq <= q.seq
          PROVE  r \in work[d].snap
      <4>1. CASE r \in written
        BY <3>1, <3>5, <4>1 DEF PollOK
      <4>2. CASE r \notin written
        <5>1. r.seq \in Nat /\ r.seq > q.seq /\ q.seq \in Nat
          BY <1>3, <4>2
        <5> QED BY <3>5, <5>1
      <4> QED BY <4>1, <4>2
    <3> QED BY <1>1, <1>8, <3>2, <3>3, <3>4, <3>5 DEF PollOK, SameLoop
  <2>3. BatchOK(d)'
    BY <1>1, <1>8 DEF SameLoop, ConsumerOK, BatchOK
  <2> QED BY <1>4, <1>6, <2>1, <2>2, <2>3 DEF ConsumerOK
<1> QED BY <1>7, <1>8
-----------------------------------------------------------------------------
(* Init, writers and the disk.                                             *)

LEMMA InitLoss == Init => LossInv
<1> SUFFICES ASSUME Init PROVE LossInv
  OBVIOUS
<1> USE DEF Init
<1>1. UniqueSeqs /\ TakeTurns /\ InTurn
  BY DEF UniqueSeqs, TakeTurns, InTurn, Busy
<1>2. Kept
  BY FS_EmptySet DEF Kept, NoVac
<1>3. ASSUME NEW d \in Running PROVE ConsumerOK(d)
  <2>1. work[d] = Idle /\ offset[load.name[d]] = <<>> /\ owed[load.name[d]] = {} /\ At(d) = 0
    BY LoadFact DEF Running, At, Offset
  <2>2. work[d].pc = "idle"
    BY <2>1 DEF Idle
  <2>3. GotTo(d, At(d))
    BY <2>1 DEF GotTo, Owed
  <2> QED BY <2>1, <2>2, <2>3 DEF ConsumerOK, Owed, PlaceOK, One, PollOK, BatchOK
<1> QED BY <1>1, <1>2, <1>3 DEF LossInv

\* Transactions move on, and records reach the disk.
LEMMA TxnLoss ==
  ASSUME EventInv, LossInv, UNCHANGED <<load, written, index, owed, handled, offset>>,
         \A d \in Workers : work'[d] = work[d] \/ (work'[d].pc = "idle" /\ work[d].pc = "logged"),
         vac' = vac \/ vac' = NoVac,
         \A w \in Writers : /\ txn'[w] # "aborted" => txn[w] # "aborted"
                            /\ IsPresent(w) => IsPresent(w)'
                            /\ txn[w] = "durable" => txn'[w] = "durable",
         \A r \in rows : Live(r)' => r \in rows',
         TakeTurns'
  PROVE  LossInv'
<1>1. /\ \A r \in written : r.w \in Writers /\ r.seq \in Nat
      /\ \A d \in Running : d \in Workers
  BY LossFacts
<1>2. \A r \in written : (Live(r)' => Live(r)) /\ (IsPresent(r.w) => IsPresent(r.w)')
  BY <1>1 DEF Live
<1>3. UniqueSeqs'
  BY <1>2 DEF LossInv, UniqueSeqs
<1>4. InTurn'
  BY <1>1, <1>2 DEF LossInv, InTurn
<1>5. Kept'
  <2>1. Acking' = Acking /\ \A d : At(d)' = At(d)
    BY DEF Acking, Running, At, Offset
  <2>2. Kept
    BY DEF LossInv
  <2>3. ASSUME NEW r \in written, Live(r)', ~load.vacuums \/ \E d \in Acking : r.seq > At(d)
        PROVE  r \in rows' \cap index
    BY <1>2, <2>2, <2>3 DEF Kept
  <2> QED BY <2>1, <2>2, <2>3 DEF Kept, NoVac
<1>6. ASSUME NEW d \in Running PROVE ConsumerOK(d)'
  <2>1. SameLoop(d) \/ (work'[d].pc = "idle" /\ work[d].pc # "acking")
    BY <1>1 DEF SameLoop
  <2>2. ConsumerOK(d)
    BY DEF LossInv
  <2> QED BY <1>2, <2>1, <2>2, ConsumerStays
<1> QED BY <1>3, <1>4, <1>5, <1>6 DEF LossInv, Running

\* One transaction moves on.
LEMMA OneTxnLoss ==
  ASSUME EventInv, LossInv, NEW w \in Writers, NEW st, txn' = [txn EXCEPT ![w] = st],
         txn[w] \in {"active", "visible"}, IsPresent(w) => st = "logged",
         UNCHANGED <<load, written, index, owed, handled, offset, work, vac>>,
         \A r \in rows : Live(r)' => r \in rows'
  PROVE  LossInv'
<1>1. \A v \in Writers : txn'[v] = IF v = w THEN st ELSE txn[v]
  BY DEF EventInv, TypeInv
<1>2. TakeTurns'
  BY <1>1 DEF LossInv, TakeTurns, Busy
<1>3. \A v \in Writers : /\ txn'[v] # "aborted" => txn[v] # "aborted"
                         /\ IsPresent(v) => IsPresent(v)'
                         /\ txn[v] = "durable" => txn'[v] = "durable"
  BY <1>1 DEF IsPresent
<1> QED BY <1>2, <1>3, TxnLoss

LEMMA CaptureLoss ==
  ASSUME EventInv, LossInv, NEW w \in Writers, NEW t \in Tables, SendEventCapture(w, t)
  PROVE  LossInv'
<1> DEFINE r == [seq |-> nextSeq, w |-> w, table |-> t]
<1>1. /\ txn[w] = "active" /\ rows' = rows \cup {r} /\ written' = written \cup {r}
      /\ index' = index \cup {r}
      /\ UNCHANGED <<load, txn, offset, work, vac, handled, owed>>
  BY DEF SendEventCapture
<1>2. r.w = w /\ r.seq = nextSeq
  OBVIOUS
<1> HIDE DEF r
<1>3. /\ nextSeq \in Nat
      /\ \A q \in written : /\ q.w \in Writers /\ q.seq \in Nat /\ txn[q.w] # "idle"
                            /\ Live(q) => q.seq < nextSeq
      /\ \A d \in Running : d \in Workers /\ At(d) \in Nat /\ At(d) < nextSeq
  BY LossFacts
<1>4. \A q : Live(q)' <=> Live(q)
  BY <1>1 DEF Live
<1>5. UniqueSeqs'
  BY <1>1, <1>2, <1>3, <1>4 DEF LossInv, UniqueSeqs
<1>6. TakeTurns'
  BY <1>1 DEF LossInv, TakeTurns, Busy
<1>7. InTurn'
  <2> SUFFICES ASSUME load.serial, NEW p \in written', NEW q \in written', Live(p), Live(q),
                      p.w # q.w, q.seq < p.seq
               PROVE  txn[q.w] = "durable"
    BY <1>1, <1>4 DEF InTurn
  <2>1. CASE p \in written /\ q \in written
    BY <2>1 DEF LossInv, InTurn
  <2>2. CASE q = r
    <3>1. p \in written /\ p.seq < nextSeq /\ p.seq \in Nat
      BY <1>1, <1>3, <2>2
    <3> QED BY <1>2, <1>3, <2>2, <3>1
  <2>3. CASE p = r /\ q \in written
    <3>1. ~Busy(q.w)
      BY <1>1, <1>2, <1>3, <2>3 DEF LossInv, TakeTurns, Busy
    <3>2. q.w \in Writers /\ txn[q.w] # "idle" /\ txn[q.w] # "aborted" /\ txn[q.w] \in States
      BY <1>3, <2>3 DEF Live, EventInv, TypeInv
    <3> QED BY <3>1, <3>2 DEF Busy, States
  <2> QED BY <1>1, <2>1, <2>2, <2>3
<1>8. Kept'
  <2>1. Acking' = Acking /\ \A d : At(d)' = At(d)
    BY <1>1 DEF Acking, Running, At, Offset
  <2>2. Kept
    BY DEF LossInv
  <2>3. IsFiniteSet(index')
    BY <1>1, <2>2, FS_AddElement DEF Kept
  <2>4. index' \subseteq written' /\ vac.rows \subseteq written'
    BY <1>1, <2>2 DEF Kept
  <2>5. ASSUME NEW q \in written', Live(q), ~load.vacuums \/ \E d \in Acking : q.seq > At(d)
        PROVE  q \in rows' \cap index'
    BY <1>1, <2>2, <2>5 DEF Kept
  <2> QED BY <1>1, <1>4, <2>1, <2>2, <2>3, <2>4, <2>5 DEF Kept
<1>9. ASSUME NEW d \in Running PROVE ConsumerOK(d)'
  <2>1. SameLoop(d)
    BY <1>1 DEF SameLoop
  <2>2. ConsumerOK(d)
    BY DEF LossInv
  <2>3. work[d].pc # "idle" => work[d].off < nextSeq /\ work[d].off \in Nat
    BY <2>2, OffFresh, RowFact
  <2>4. \A q \in work[d].snap : q.seq \in Nat /\ q.seq < nextSeq
    BY RowFact
  <2>5. \A q \in written' \ written :
            /\ q.seq \in Nat /\ q.seq > At(d)
            /\ work[d].pc # "idle" => q.seq > work[d].off
            /\ \A p \in work[d].snap : q.seq > p.seq
    BY <1>1, <1>2, <1>3, <2>3, <2>4
  <2>6. \A q \in written : (Live(q)' => Live(q)) /\ (IsPresent(q.w) => IsPresent(q.w)' \/ ~Live(q)')
    BY <1>1, <1>4 DEF IsPresent
  <2> QED BY <1>1, <2>1, <2>2, <2>5, <2>6, ConsumerStays
<1> QED BY <1>1, <1>5, <1>6, <1>7, <1>8, <1>9 DEF LossInv, Running

LEMMA WriterLoss == ASSUME EventInv, LossInv, NEW w \in Writers, WriterStep(w) PROVE LossInv'
<1>1. CASE Begin(w)
  <2>1. /\ txn[w] = "idle" /\ txn' = [txn EXCEPT ![w] = "active"]
        /\ load.serial => \A v \in Writers : txn[v] \in {"idle", "durable", "aborted"}
        /\ UNCHANGED <<load, rows, written, index, owed, handled, offset, work, vac>>
    BY <1>1 DEF Begin, histVars
  <2>2. \A v \in Writers : txn'[v] = IF v = w THEN "active" ELSE txn[v]
    BY <2>1 DEF EventInv, TypeInv
  <2>3. TakeTurns'
    BY <2>1, <2>2 DEF TakeTurns, Busy
  <2>4. \A v \in Writers : /\ txn'[v] # "aborted" => txn[v] # "aborted"
                           /\ IsPresent(v) => IsPresent(v)'
                           /\ txn[v] = "durable" => txn'[v] = "durable"
    BY <2>1, <2>2 DEF IsPresent
  <2> QED BY <2>1, <2>3, <2>4, TxnLoss
<1>2. CASE Commit(w)
  BY <1>2, OneTxnLoss DEF Commit, histVars, IsPresent
<1>3. CASE CommitLog(w)
  BY <1>3, OneTxnLoss DEF CommitLog, histVars
<1>4. CASE Abort(w)
  <2>1. /\ txn[w] = "active" /\ txn' = [txn EXCEPT ![w] = "aborted"] /\ rows' = {r \in rows : r.w # w}
        /\ UNCHANGED <<load, written, index, owed, handled, offset, work, vac>>
    BY <1>4 DEF Abort, histVars
  <2>2. \A r \in rows : Live(r)' => r \in rows'
    BY <2>1 DEF Live, EventInv, TypeInv
  <2> QED BY <2>1, <2>2, OneTxnLoss DEF IsPresent
<1> QED BY <1>1, <1>2, <1>3, <1>4, CaptureLoss DEF WriterStep

LEMMA SyncLoss == ASSUME EventInv, LossInv, NEW n \in 1 .. Len(log), SyncUpTo(n) PROVE LossInv'
<1> DEFINE done == {log[i] : i \in 1 .. n}
<1>1. /\ txn' = [w \in Writers |-> IF <<"txn", w>> \in done THEN "durable" ELSE txn[w]]
      /\ work' = [d \in Workers |-> IF <<"ack", d>> \in done THEN Idle ELSE work[d]]
      /\ vac' = IF <<"vac", 0>> \in done THEN NoVac ELSE vac
      /\ UNCHANGED <<load, rows, written, index, owed, handled, offset>>
  BY DEF SyncUpTo, histVars
<1>2. \A e \in done : OnLog(e)
  BY DEF OnLog, EventInv, TypeInv
<1> HIDE DEF done
<1>3. \A w \in Writers : /\ <<"txn", w>> \in done => txn[w] = "logged" /\ txn'[w] = "durable"
                         /\ <<"txn", w>> \notin done => txn'[w] = txn[w]
  BY <1>1, <1>2 DEF EventInv, LogMatches
<1>4. \A d \in Workers : work'[d] = work[d] \/ (work'[d].pc = "idle" /\ work[d].pc = "logged")
  BY <1>1, <1>2, IdleFact DEF EventInv, LogMatches
<1>5. \A w \in Writers : /\ txn'[w] # "aborted" => txn[w] # "aborted"
                         /\ IsPresent(w) => IsPresent(w)'
                         /\ txn[w] = "durable" => txn'[w] = "durable"
  BY <1>3 DEF IsPresent
<1>6. TakeTurns'
  BY <1>1, <1>3 DEF LossInv, TakeTurns, Busy
<1>7. vac' = vac \/ vac' = NoVac
  BY <1>1
<1> QED BY <1>1, <1>4, <1>5, <1>6, <1>7, TxnLoss
-----------------------------------------------------------------------------
(* Consumers.                                                              *)

\* A step of worker d, after which its consumer is as it should be, and has not
\* gone back.
LEMMA LoopLoss ==
  ASSUME EventInv, LossInv, Separate(load), NEW d \in Running,
         UNCHANGED <<load, txn, rows, index, vac, written>>,
         \A e \in Workers \ {d} : work'[e] = work[e],
         \A c \in Consumers \ {load.name[d]} :
            offset'[c] = offset[c] /\ owed'[c] = owed[c] /\ handled'[c] = handled[c],
         owed' \in [Consumers -> SUBSET Row],
         At(d)' \in Nat, load.kind[d] = "tail" \/ At(d) <= At(d)',
         ConsumerOK(d)'
  PROVE  LossInv'
<1>1. \A e \in Running : e \in Workers /\ load.name[e] \in Consumers /\ At(e) \in Nat
  BY LossFacts
<1>2. \A e \in Running \ {d} :
        /\ offset'[load.name[e]] = offset[load.name[e]] /\ owed'[load.name[e]] = owed[load.name[e]]
        /\ handled'[load.name[e]] = handled[load.name[e]] /\ work'[e] = work[e]
  BY <1>1 DEF Separate
<1>3. \A r : (Live(r)' <=> Live(r)) /\ (IsPresent(r.w)' <=> IsPresent(r.w))
  BY DEF Live, IsPresent
<1>4. \A e \in Acking : At(e) <= At(e)' /\ At(e)' \in Nat
  <2> SUFFICES ASSUME NEW e \in Acking PROVE At(e) <= At(e)' /\ At(e)' \in Nat
    OBVIOUS
  <2>1. e \in Running /\ load.kind[e] # "tail"
    BY DEF Acking
  <2>2. CASE e = d
    BY <2>1, <2>2
  <2>3. CASE e # d
    BY <1>1, <1>2, <2>1, <2>3 DEF At, Offset
  <2> QED BY <2>2, <2>3
<1>5. UniqueSeqs' /\ TakeTurns' /\ InTurn'
  BY <1>3 DEF LossInv, UniqueSeqs, TakeTurns, InTurn, Busy
<1>6. Kept'
  <2>1. Acking' = Acking /\ Acking \subseteq Running
    BY DEF Acking, Running
  <2>2. Kept /\ \A r \in written : r.seq \in Nat
    BY LossFacts DEF LossInv
  <2>3. ASSUME vac.pc = "open", NEW r \in vac.rows, NEW e \in Acking PROVE r.seq <= At(e)'
    <3>1. r.seq <= At(e) /\ r \in written
      BY <2>2, <2>3 DEF Kept
    <3> QED BY <1>1, <1>4, <2>1, <2>2, <3>1
  <2>4. ASSUME NEW r \in written, Live(r), ~load.vacuums \/ \E e \in Acking : r.seq > At(e)'
        PROVE  r \in rows \cap index
    <3>1. ASSUME NEW e \in Acking, r.seq > At(e)' PROVE r.seq > At(e)
      BY <1>1, <1>4, <2>1, <2>2, <3>1
    <3> QED BY <2>2, <2>4, <3>1 DEF Kept
  <2> QED BY <1>3, <2>1, <2>2, <2>3, <2>4 DEF Kept
<1>7. ASSUME NEW e \in Running \ {d} PROVE ConsumerOK(e)'
  <2>1. SameLoop(e)
    BY <1>2 DEF SameLoop
  <2>2. ConsumerOK(e)
    BY DEF LossInv
  <2> QED BY <1>2, <1>3, <2>1, <2>2, ConsumerStays
<1> QED BY <1>5, <1>6, <1>7 DEF LossInv, Running

\* A step after which the loop is where it was, or over.
LEMMA LoopRests ==
  ASSUME EventInv, LossInv, Separate(load), NEW d \in Running,
         UNCHANGED <<load, txn, rows, index, vac, written, offset, owed, handled>>,
         \A e \in Workers \ {d} : work'[e] = work[e],
         SameLoop(d) \/ (work'[d].pc = "idle" /\ work[d].pc # "acking")
  PROVE  LossInv'
<1>1. \A r : (Live(r)' <=> Live(r)) /\ (IsPresent(r.w)' <=> IsPresent(r.w))
  BY DEF Live, IsPresent
<1>2. ConsumerOK(d)
  BY DEF LossInv
<1>3. ConsumerOK(d)'
  BY <1>1, <1>2, ConsumerStays
<1>4. At(d) \in Nat /\ At(d)' = At(d) /\ owed' \in [Consumers -> SUBSET Row]
  BY LossFacts DEF At, Offset, LossInv
<1> QED BY <1>3, <1>4, LoopLoss

\* poll_events: what earlier polls have seen after the offset is seen again.
LEMMA PollLoss ==
  ASSUME EventInv, LossInv, Separate(load), NEW d \in Workers, Poll(d)
  PROVE  LossInv'
<1> DEFINE k == [Idle EXCEPT !.pc = "polled", !.snap = Visible, !.off = At(d)]
           seen == {r \in Visible : r.seq > At(d)}
<1>1. /\ d \in Running /\ work[d].pc = "idle" /\ work' = [work EXCEPT ![d] = k]
      /\ owed' = [owed EXCEPT ![load.name[d]] = @ \cup seen]
      /\ UNCHANGED <<load, txn, rows, index, offset, vac, written, handled>>
  BY DEF Poll, At
<1>2. /\ load.name[d] \in Consumers /\ At(d) \in Nat /\ work \in [Workers -> WorkOf(written)]
      /\ rows \subseteq written /\ \A r \in written : r.seq \in Nat /\ r.w \in Writers /\ txn[r.w] # "idle"
  BY <1>1, LossFacts DEF EventInv, TypeInv
<1>3. ConsumerOK(d) /\ Kept /\ TakeTurns /\ InTurn /\ owed \in [Consumers -> SUBSET Row]
  BY <1>1 DEF LossInv
<1>4. Visible \subseteq rows /\ \A r \in Visible : IsPresent(r.w) /\ Live(r)
  BY DEF Visible, IsPresent, Live
<1>5. ASSUME NEW r \in written, Live(r), r.seq > At(d) PROVE r \in rows /\ r \in index
  <2>1. load.vacuums => d \in Acking
    BY <1>1 DEF Separate, Acking, Running
  <2> QED BY <1>3, <1>5, <2>1 DEF Kept
<1>6. /\ k.pc = "polled" /\ k.snap = Visible /\ k.off = At(d) /\ k.batch = {} /\ k.todo = {}
  BY DEF Idle
<1> HIDE DEF k
<1>7. work'[d] = k /\ \A e \in Workers \ {d} : work'[e] = work[e]
  BY <1>1, <1>2
<1>8. /\ At(d)' = At(d) /\ Done(d)' = Done(d) /\ \A r : (Wants(d, r)' <=> Wants(d, r))
      /\ \A r : (Live(r)' <=> Live(r)) /\ (IsPresent(r.w)' <=> IsPresent(r.w))
  BY <1>1 DEF At, Offset, Done, Wants, Live, IsPresent
<1>9. seen \subseteq Row
  BY <1>2, <1>4 DEF EventInv, TypeInv
<1>10. /\ Owed(d)' = Owed(d) \cup seen /\ \A c \in Consumers \ {load.name[d]} : owed'[c] = owed[c]
       /\ owed' \in [Consumers -> SUBSET Row]
  <2> HIDE DEF seen
  <2> QED BY <1>1, <1>2, <1>3, <1>9 DEF Owed
<1> HIDE DEF seen
<1>11. \A r \in seen : r \in Visible /\ r \in written /\ r.seq \in Nat /\ r.seq > At(d)
  BY <1>2, <1>4 DEF seen
<1>12. GotTo(d, At(d))'
  <2>1. GotTo(d, At(d))
    BY <1>3 DEF ConsumerOK
  <2>2. \A r \in seen : ~(r.seq <= At(d))
    BY <1>2, <1>11
  <2> QED BY <1>1, <1>8, <1>10, <2>1, <2>2 DEF GotTo
<1>13. ASSUME NEW r \in Owed(d), Live(r), r.seq > At(d) PROVE r \in Visible
  <2>1. r \in written /\ IsPresent(r.w)
    BY <1>3, <1>13 DEF ConsumerOK
  <2> QED BY <1>5, <1>13, <2>1 DEF Visible
<1>14. ASSUME load.serial, NEW q \in Visible, NEW r \in written, Live(r), At(d) < r.seq, r.seq <= q.seq
       PROVE  r \in Visible
  <2>1. q \in written /\ Live(q) /\ r.w \in Writers /\ q.seq \in Nat /\ r.seq \in Nat
    BY <1>2, <1>4
  <2>2. r \in rows
    BY <1>2, <1>5, <1>14, <2>1
  <2>3. IsPresent(r.w)
    <3>1. CASE r.w = q.w
      BY <1>4, <3>1
    <3>2. CASE r.w # q.w
      <4>1. r.seq < q.seq
        <5>1. UniqueSeqs
          BY DEF LossInv
        <5> QED BY <1>14, <2>1, <3>2, <5>1 DEF UniqueSeqs
      <4>2. txn[r.w] = "durable"
        BY <1>3, <1>14, <2>1, <3>2, <4>1 DEF InTurn
      <4> QED BY <4>2 DEF IsPresent
    <3> QED BY <3>1, <3>2
  <2> QED BY <2>2, <2>3 DEF Visible
<1>15. PollOK(d)'
  <2>1. GotTo(d, work[d].off)'
    BY <1>6, <1>7, <1>8, <1>12 DEF GotTo
  <2>2. \A r \in Owed(d)' : Live(r) /\ r.seq > At(d) => r \in Visible
    BY <1>10, <1>11, <1>13
  <2>3. \A r \in Visible : r.seq > At(d) => r \in Owed(d)'
    BY <1>10 DEF seen
  <2> QED BY <1>1, <1>6, <1>7, <1>8, <1>14, <2>1, <2>2, <2>3 DEF PollOK
<1>16. PlaceOK(d)'
  BY <1>1, <1>3, <1>6, <1>7, <1>8 DEF ConsumerOK, PlaceOK
<1>17. BatchOK(d)'
  BY <1>1, <1>2, <1>4, <1>5, <1>6, <1>7 DEF BatchOK
<1>18. Owed(d)' \subseteq written' /\ \A r \in Owed(d)' : IsPresent(r.w)' \/ ~Live(r)'
  BY <1>1, <1>3, <1>4, <1>8, <1>10, <1>11 DEF ConsumerOK
<1>19. ConsumerOK(d)'
  BY <1>12, <1>15, <1>16, <1>17, <1>18 DEF ConsumerOK
<1> QED BY <1>1, <1>2, <1>7, <1>8, <1>10, <1>19, LoopLoss

\* search_range_limit leaves out nothing before an entry it returns.
LEMMA ResolveLoss ==
  ASSUME EventInv, LossInv, Separate(load), NEW d \in Workers, Resolve(d)
  PROVE  LossInv'
<1> DEFINE off == work[d].off
           batch == SearchRangeLimit(off) \cap work[d].snap
           k == [work[d] EXCEPT !.pc = "deliver", !.batch = batch, !.todo = batch]
<1>1. /\ work[d].pc = "polled"
      /\ work' = [work EXCEPT ![d] = IF batch = {} THEN Idle ELSE k]
      /\ UNCHANGED <<load, txn, rows, index, offset, vac, written, owed, handled>>
  BY DEF Resolve, histVars
<1>2. d \in Running /\ work \in [Workers -> WorkOf(written)]
  BY <1>1 DEF EventInv, SnapsOK, TypeInv
<1>3. /\ work[d].snap \subseteq written /\ off \in Nat
      /\ \A r \in work[d].snap : Live(r) /\ r.seq \in Nat
      /\ load \in Loads /\ \A r \in written : r.seq \in Nat /\ r.w \in Nat
      /\ At(d) \in Nat
  BY <1>2, RowFact, LossFacts
<1>4. ConsumerOK(d) /\ Kept /\ UniqueSeqs
  BY <1>2 DEF LossInv
<1>5. \A e \in Workers \ {d} : work'[e] = work[e]
  BY <1>1, <1>2
<1>6. CASE batch = {}
  <2>1. work'[d].pc = "idle"
    BY <1>1, <1>2, <1>6, IdleFact
  <2> QED BY <1>1, <1>2, <1>5, <2>1, LoopRests
<1>7. CASE batch # {}
  <2>1. \A q \in batch : q \in work[d].snap /\ q.seq > off
    BY DEF SearchRangeLimit
  <2>2. ASSUME NEW q \in batch, NEW r \in work[d].snap, off < r.seq, r.seq <= q.seq PROVE r \in batch
    <3> DEFINE Ahead(p) == {x \in index : x.seq > off /\ Before(x, p)}
    <3>1. r \in index
      BY <1>1, <1>3, <1>4, <2>2 DEF ConsumerOK, BatchOK
    <3>2. CASE r = q
      BY <3>2
    <3>3. CASE r # q
      <4>1. r.seq < q.seq /\ q \in written
        BY <1>3, <1>4, <2>1, <2>2, <3>3 DEF UniqueSeqs
      <4>2. Ahead(r) \subseteq Ahead(q)
        <5>1. \A x \in index : Before(x, r) => Before(x, q)
          BY <1>3, <1>4, <4>1 DEF Before, Kept
        <5> QED BY <5>1
      <4>3. IsFiniteSet(Ahead(q))
        BY <1>4, FS_Subset DEF Kept
      <4>4. Cardinality(Ahead(r)) <= Cardinality(Ahead(q)) /\ Cardinality(Ahead(r)) \in Nat
            /\ Cardinality(Ahead(q)) \in Nat
        <5>1. IsFiniteSet(Ahead(r))
          BY <4>2, <4>3, FS_Subset
        <5> HIDE DEF Ahead
        <5> QED BY <4>2, <4>3, <5>1, FS_Subset, FS_CardinalityType
      <4>5. Cardinality(Ahead(q)) < load.limit
        BY DEF SearchRangeLimit
      <4>6. load.limit \in Nat
        BY <1>3, LoadAssumption
      <4> HIDE DEF Ahead
      <4>7. Cardinality(Ahead(r)) < load.limit
        BY <4>4, <4>5, <4>6
      <4>8. r \in SearchRangeLimit(off)
        BY <1>3, <2>2, <3>1, <4>7 DEF SearchRangeLimit, Ahead
      <4> QED BY <4>8
    <3> QED BY <3>2, <3>3
  <2> HIDE DEF batch
  <2>3. work'[d] = k
    BY <1>1, <1>2, <1>7
  <2>4. /\ k.pc = "deliver" /\ k.snap = work[d].snap /\ k.off = work[d].off
        /\ k.batch = batch /\ k.todo = batch /\ k.before = work[d].before
    BY <1>2 DEF WorkOf
  <2> HIDE DEF k
  <2>5. /\ At(d)' = At(d) /\ Done(d)' = Done(d) /\ Owed(d)' = Owed(d)
        /\ \A r : Wants(d, r)' <=> Wants(d, r)
        /\ \A r : (Live(r)' <=> Live(r)) /\ (IsPresent(r.w)' <=> IsPresent(r.w))
    BY <1>1 DEF At, Offset, Done, Owed, Wants, Live, IsPresent
  <2>6. \A n : GotTo(d, n) => GotTo(d, n)'
    BY <1>1, <2>5 DEF GotTo
  <2>7. PlaceOK(d)'
    BY <1>1, <1>4, <2>3, <2>4, <2>5 DEF ConsumerOK, PlaceOK
  <2>8. PollOK(d)'
    BY <1>1, <1>4, <2>3, <2>4, <2>5, <2>6 DEF ConsumerOK, PollOK, GotTo
  <2>9. BatchOK(d)'
    BY <1>1, <1>7, <2>1, <2>2, <2>3, <2>4, <2>5 DEF BatchOK
  <2>10. GotTo(d, At(d))'
    BY <1>4, <2>5, <2>6 DEF ConsumerOK, GotTo
  <2>11. ConsumerOK(d)'
    BY <1>1, <1>4, <2>5, <2>7, <2>8, <2>9, <2>10 DEF ConsumerOK
  <2>12. owed' \in [Consumers -> SUBSET Row]
    BY <1>1 DEF LossInv
  <2> QED BY <1>1, <1>2, <1>3, <1>5, <2>5, <2>11, <2>12, LoopLoss
<1> QED BY <1>6, <1>7

\* Who has done a batch up to an event has done what is owed up to its number.
LEMMA BatchGot ==
  ASSUME EventInv, NEW d \in Running, ConsumerOK(d), work[d].pc \notin {"idle", "polled"},
         NEW b \in work[d].batch, NEW D, Done(d) \subseteq D,
         \A q \in work[d].batch : q.seq <= b.seq => q \in D
  PROVE  /\ \A r \in Owed(d) : Live(r) /\ r.seq <= b.seq /\ Wants(d, r) => r \in D
         /\ load.serial => \A r \in written : Live(r) /\ r.seq <= b.seq => r \in Owed(d)
<1>1. /\ work[d].off \in Nat /\ work[d].batch \subseteq work[d].snap
      /\ \A r \in written : r.seq \in Nat
  BY RowFact, LossFacts
<1>2. PollOK(d) /\ BatchOK(d) /\ GotTo(d, work[d].off) /\ Owed(d) \subseteq written
  BY DEF ConsumerOK, PollOK
<1>3. ASSUME NEW r \in Owed(d), Live(r), r.seq <= b.seq, Wants(d, r) PROVE r \in D
  <2>1. CASE r.seq <= work[d].off
    BY <1>2, <1>3, <2>1 DEF GotTo
  <2>2. CASE ~(r.seq <= work[d].off)
    <3>1. r.seq > work[d].off
      BY <1>1, <1>2, <2>2
    <3>2. r \in work[d].snap
      BY <1>2, <1>3, <3>1 DEF PollOK
    <3>3. r \in work[d].batch
      BY <1>2, <1>3, <3>1, <3>2 DEF BatchOK
    <3> QED BY <1>3, <3>3
  <2> QED BY <2>1, <2>2
<1>4. ASSUME load.serial, NEW r \in written, Live(r), r.seq <= b.seq PROVE r \in Owed(d)
  <2>1. CASE r.seq <= work[d].off
    BY <1>2, <1>4, <2>1 DEF GotTo
  <2>2. CASE ~(r.seq <= work[d].off)
    <3>1. r.seq > work[d].off
      BY <1>1, <2>2
    <3>2. r \in work[d].snap
      BY <1>1, <1>2, <1>4, <3>1 DEF PollOK
    <3> QED BY <1>2, <3>1, <3>2 DEF PollOK
  <2> QED BY <2>1, <2>2
<1> QED BY <1>3, <1>4

LEMMA HandleLoss ==
  ASSUME EventInv, LossInv, Separate(load), NEW d \in Workers, NEW r, Handle(d, r)
  PROVE  LossInv'
<1> DEFINE c == load.name[d]
           k == [work[d] EXCEPT !.todo = @ \ {r}, !.attempts = 0]
           moves == load.kind[d] = "tail" /\ Wants(d, r)
           n == Max({At(d), r.seq})
<1>1. /\ work[d].pc = "deliver" /\ r \in work[d].todo
      /\ load.kind[d] = "webhook" \/ \A q \in work[d].todo : ~Before(q, r)
      /\ work' = [work EXCEPT ![d].todo = @ \ {r}, ![d].attempts = 0]
      /\ handled' = [handled EXCEPT ![c] = @ \cup {r}]
      /\ offset' = IF moves THEN [offset EXCEPT ![c] = <<ConsumerRow(n)>>] ELSE offset
      /\ UNCHANGED <<load, txn, rows, index, vac, written, owed>>
  BY DEF Handle, At
<1>2. /\ d \in Running /\ work \in [Workers -> WorkOf(written)]
      /\ handled \in [Consumers -> SUBSET written] /\ offset \in [Consumers -> Seq(OffsetRow)]
  BY <1>1 DEF EventInv, SnapsOK, TypeInv
<1>3. /\ work[d].snap \subseteq written /\ work[d].batch \subseteq work[d].snap
      /\ work[d].todo \subseteq work[d].batch /\ c \in Consumers /\ At(d) \in Nat
      /\ \A q \in work[d].snap : Live(q) /\ q.seq \in Nat
      /\ \A q \in written : q.w \in Nat
  BY <1>2, RowFact, LossFacts
<1>4. ConsumerOK(d) /\ UniqueSeqs /\ owed \in [Consumers -> SUBSET Row]
  BY <1>2 DEF LossInv
<1>5. work' = [work EXCEPT ![d] = k]
  BY <1>1, <1>2
<1>6. /\ k.pc = "deliver" /\ k.snap = work[d].snap /\ k.off = work[d].off /\ k.batch = work[d].batch
      /\ k.todo = work[d].todo \ {r} /\ k.before = work[d].before
  BY <1>1, <1>2 DEF WorkOf
<1> HIDE DEF k, c, moves, n
<1>7. work'[d] = k /\ \A e \in Workers \ {d} : work'[e] = work[e]
  BY <1>2, <1>5
<1>8. /\ handled'[c] = handled[c] \cup {r} /\ \A b \in Consumers \ {c} : handled'[b] = handled[b]
      /\ \A b \in Consumers \ {c} : offset'[b] = offset[b]
      /\ offset'[c] = IF moves THEN <<ConsumerRow(n)>> ELSE offset[c]
  BY <1>1, <1>2, <1>3
<1>9. /\ Done(d)' = Done(d) \cup {r} /\ Owed(d)' = Owed(d)
      /\ \A q : Wants(d, q)' <=> Wants(d, q)
      /\ \A q : (Live(q)' <=> Live(q)) /\ (IsPresent(q.w)' <=> IsPresent(q.w))
  BY <1>1, <1>8 DEF Done, Owed, Wants, Live, IsPresent, c
<1>10. \A m : GotTo(d, m) => GotTo(d, m)'
  BY <1>1, <1>9 DEF GotTo
<1>11. PollOK(d)'
  BY <1>1, <1>4, <1>6, <1>7, <1>9, <1>10 DEF ConsumerOK, PollOK, GotTo
<1>12. BatchOK(d)'
  <2>1. BatchOK(d)
    BY <1>4 DEF ConsumerOK
  <2>2. work[d].batch \ (work[d].todo \ {r}) \subseteq Done(d) \cup {r}
    BY <1>1, <2>1 DEF BatchOK
  <2> QED BY <1>1, <1>6, <1>7, <1>9, <2>1, <2>2 DEF BatchOK
<1>13. CASE ~moves
  <2>1. At(d)' = At(d)
    BY <1>1, <1>8, <1>13 DEF At, Offset, c
  <2>2. PlaceOK(d)'
    BY <1>1, <1>4, <1>6, <1>7, <1>8, <1>13, <2>1 DEF ConsumerOK, PlaceOK, c
  <2>3. GotTo(d, At(d))'
    BY <1>4, <1>10, <2>1 DEF ConsumerOK, GotTo
  <2>4. ConsumerOK(d)'
    BY <1>1, <1>4, <1>9, <1>11, <1>12, <2>2, <2>3 DEF ConsumerOK
  <2>5. At(d)' \in Nat /\ At(d) <= At(d)' /\ owed' \in [Consumers -> SUBSET Row]
    BY <1>1, <1>3, <1>4, <2>1
  <2>6. \A b \in Consumers \ {load.name[d]} :
          offset'[b] = offset[b] /\ owed'[b] = owed[b] /\ handled'[b] = handled[b]
    BY <1>1, <1>8 DEF c
  <2> QED BY <1>1, <1>2, <1>7, <2>4, <2>5, <2>6, LoopLoss
<1>14. CASE moves
  <2>1. r \in work[d].batch /\ r.seq \in Nat /\ load.kind[d] = "tail"
    BY <1>1, <1>3, <1>14 DEF moves
  <2>2. n \in {At(d), r.seq} /\ n \in Nat
    BY <1>3, <2>1, LargerFact DEF n
  <2>3. offset'[c] = <<ConsumerRow(n)>> /\ Head(<<ConsumerRow(n)>>) = ConsumerRow(n)
        /\ Len(<<ConsumerRow(n)>>) = 1 /\ <<ConsumerRow(n)>>[1] = ConsumerRow(n)
        /\ <<ConsumerRow(n)>> # <<>>
    BY <1>8, <1>14
  <2>4. ConsumerRow(n).seq = n /\ ConsumerRow(n).xmax = {}
    BY DEF ConsumerRow
  <2>5. At(d)' = n
    BY <1>1, <2>3, <2>4 DEF At, Offset, c
  <2>6. PlaceOK(d)'
    BY <1>1, <1>6, <1>7, <2>1, <2>3, <2>4 DEF PlaceOK, One, c
  <2>7. GotTo(d, At(d))'
    <3>1. CASE n = At(d)
      BY <1>4, <1>10, <2>5, <3>1 DEF ConsumerOK, GotTo
    <3>2. CASE n = r.seq
      <4>1. \A q \in work[d].batch : q.seq <= r.seq => q \in Done(d) \cup {r}
        <5> SUFFICES ASSUME NEW q \in work[d].batch, q.seq <= r.seq, q \notin Done(d) PROVE q = r
          OBVIOUS
        <5>1. q \in work[d].todo
          BY <1>1, <1>4 DEF ConsumerOK, BatchOK
        <5>2. ~Before(q, r)
          BY <1>1, <2>1, <5>1
        <5>3. q.seq = r.seq /\ q \in written /\ r \in written /\ Live(q) /\ Live(r)
          BY <1>3, <2>1, <5>2 DEF Before
        <5> QED BY <1>4, <5>3 DEF UniqueSeqs
      <4>2. /\ \A q \in Owed(d) : Live(q) /\ q.seq <= r.seq /\ Wants(d, q) => q \in Done(d) \cup {r}
            /\ load.serial => \A q \in written : Live(q) /\ q.seq <= r.seq => q \in Owed(d)
        BY <1>1, <1>2, <1>4, <2>1, <4>1, BatchGot
      <4> QED BY <1>1, <1>9, <2>5, <3>2, <4>2 DEF GotTo
    <3> QED BY <2>2, <3>1, <3>2
  <2>8. ConsumerOK(d)'
    BY <1>1, <1>4, <1>9, <1>11, <1>12, <2>6, <2>7 DEF ConsumerOK
  <2> QED BY <1>1, <1>2, <1>3, <1>4, <1>7, <1>8, <2>1, <2>2, <2>5, <2>8, LoopLoss DEF c
<1> QED BY <1>13, <1>14

LEMMA DeliverFailsLoss ==
  ASSUME EventInv, LossInv, Separate(load), NEW d \in Workers, DeliverFails(d)
  PROVE  LossInv'
<1>1. CASE \E r : Handle(d, r)
  BY <1>1, HandleLoss
<1>2. CASE /\ work' = [work EXCEPT ![d].attempts = @ + 1]
           /\ UNCHANGED <<load, nextSeq, txn, rows, index, offset, log, vac, crashes, histVars>>
  <2>1. d \in Running /\ work \in [Workers -> WorkOf(written)]
    BY DEF DeliverFails, EventInv, SnapsOK, TypeInv
  <2>2. SameLoop(d) /\ \A e \in Workers \ {d} : work'[e] = work[e]
    BY <1>2, <2>1 DEF SameLoop, WorkOf
  <2>3. UNCHANGED <<load, txn, rows, index, vac, written, offset, owed, handled>>
    BY <1>2 DEF histVars
  <2> QED BY <2>1, <2>2, <2>3, LoopRests
<1> QED BY <1>1, <1>2 DEF DeliverFails

LEMMA TailDoneLoss ==
  ASSUME EventInv, LossInv, Separate(load), NEW d \in Workers, TailDone(d)
  PROVE  LossInv'
<1>1. /\ work[d].pc = "deliver" /\ work' = [work EXCEPT ![d] = Idle]
      /\ UNCHANGED <<load, txn, rows, index, vac, written, offset, owed, handled>>
  BY DEF TailDone, histVars
<1>2. d \in Running /\ work \in [Workers -> WorkOf(written)]
  BY <1>1 DEF EventInv, SnapsOK, TypeInv
<1>3. work'[d].pc = "idle" /\ \A e \in Workers \ {d} : work'[e] = work[e]
  BY <1>1, <1>2, IdleFact
<1> QED BY <1>1, <1>2, <1>3, LoopRests

LEMMA AckEventsLoss ==
  ASSUME EventInv, LossInv, Separate(load), NEW d \in Workers, AckEvents(d)
  PROVE  LossInv'
<1> DEFINE c == load.name[d]
           k == [work[d] EXCEPT !.pc = "acking", !.before = offset[c]]
<1>1. /\ load.kind[d] # "tail" /\ work[d].pc = "deliver" /\ work[d].todo = {}
      /\ UNCHANGED <<load, txn, rows, index, vac, written, owed, handled>>
      /\ \/ work' = [work EXCEPT ![d] = Idle] /\ UNCHANGED offset
         \/ /\ work' = [work EXCEPT ![d].pc = "acking", ![d].before = offset[c]]
            /\ offset' = IF offset[c] = <<>> THEN offset ELSE [offset EXCEPT ![c][1].xmax = {d}]
  BY DEF AckEvents, histVars
<1>2. /\ d \in Running /\ work \in [Workers -> WorkOf(written)]
      /\ offset \in [Consumers -> Seq(OffsetRow)]
  BY <1>1 DEF EventInv, SnapsOK, TypeInv
<1>3. c \in Consumers /\ At(d) \in Nat /\ offset[c] \in Seq(OffsetRow)
  BY <1>2, LossFacts
<1>4. ConsumerOK(d) /\ owed \in [Consumers -> SUBSET Row]
  BY <1>2 DEF LossInv
<1>5. CASE work' = [work EXCEPT ![d] = Idle] /\ UNCHANGED offset
  <2>1. work'[d].pc = "idle" /\ \A e \in Workers \ {d} : work'[e] = work[e]
    BY <1>2, <1>5, IdleFact
  <2> QED BY <1>1, <1>2, <1>5, <2>1, LoopRests
<1>6. CASE /\ work' = [work EXCEPT ![d].pc = "acking", ![d].before = offset[c]]
           /\ offset' = IF offset[c] = <<>> THEN offset ELSE [offset EXCEPT ![c][1].xmax = {d}]
  <2>1. work' = [work EXCEPT ![d] = k]
    BY <1>2, <1>6
  <2>2. /\ k.pc = "acking" /\ k.snap = work[d].snap /\ k.off = work[d].off /\ k.batch = work[d].batch
        /\ k.todo = work[d].todo /\ k.before = offset[c]
    BY <1>2 DEF WorkOf
  <2> HIDE DEF c, k
  <2>3. work'[d] = k /\ \A e \in Workers \ {d} : work'[e] = work[e]
    BY <1>2, <2>1
  <2>4. One(offset[c], {}) /\ At(d) = work[d].off
    BY <1>1, <1>4 DEF ConsumerOK, PlaceOK, c
  <2>5. /\ \A b \in Consumers \ {c} : offset'[b] = offset[b]
        /\ One(offset'[c], {d}) /\ (offset'[c] = <<>> <=> offset[c] = <<>>)
        /\ offset[c] # <<>> => Head(offset'[c]).seq = Head(offset[c]).seq
    <3>1. CASE offset[c] = <<>>
      BY <1>2, <1>6, <3>1 DEF One
    <3>2. CASE offset[c] # <<>>
      <4> DEFINE s == offset[c]
                 row == [s[1] EXCEPT !.xmax = {d}]
                 t == [s EXCEPT ![1] = row]
      <4>1. s \in Seq(OffsetRow) /\ Len(s) = 1 /\ s[1] \in OffsetRow /\ 1 \in 1 .. Len(s)
        BY <1>3, <2>4, <3>2 DEF One
      <4>2. row \in OffsetRow /\ row.seq = s[1].seq /\ row.xmax = {d}
        BY <1>2, <4>1 DEF OffsetRow
      <4>3. offset' = [offset EXCEPT ![c] = t]
        BY <1>2, <1>6, <3>2
      <4> HIDE DEF row, s
      <4>4. t \in Seq(OffsetRow) /\ Len(t) = 1 /\ t[1] = row
        <5>1. t \in Seq(OffsetRow)
          BY <4>1, <4>2, ExceptSeq
        <5>2. DOMAIN t = 1 .. Len(s) /\ DOMAIN s = 1 .. Len(s)
          BY <4>1, LenProperties
        <5> QED BY <4>1, <5>1, <5>2, LenProperties
      <4> HIDE DEF t
      <4>5. offset'[c] = t /\ \A b \in Consumers \ {c} : offset'[b] = offset[b]
        BY <1>2, <1>3, <4>3
      <4>6. t # <<>> /\ Head(t) = t[1] /\ Head(s) = s[1]
        BY <4>1, <4>4
      <4> QED BY <3>2, <4>2, <4>4, <4>5, <4>6 DEF One, s
    <3> QED BY <3>1, <3>2
  <2>6. At(d)' = At(d)
    BY <1>1, <2>5 DEF At, Offset, c
  <2>7. /\ Done(d)' = Done(d) /\ Owed(d)' = Owed(d)
        /\ \A r : Wants(d, r)' <=> Wants(d, r)
        /\ \A r : (Live(r)' <=> Live(r)) /\ (IsPresent(r.w)' <=> IsPresent(r.w))
    BY <1>1 DEF Done, Owed, Wants, Live, IsPresent
  <2>8. \A n : GotTo(d, n) => GotTo(d, n)'
    BY <1>1, <2>7 DEF GotTo
  <2>9. PlaceOK(d)'
    <3>1. First(offset[c]) = At(d)
      BY DEF First, At, Offset, c
    <3> QED BY <1>1, <2>2, <2>3, <2>4, <2>5, <2>6, <3>1 DEF PlaceOK, c
  <2>10. PollOK(d)'
    BY <1>1, <1>4, <2>2, <2>3, <2>7, <2>8 DEF ConsumerOK, PollOK, GotTo
  <2>11. BatchOK(d)'
    BY <1>1, <1>4, <2>2, <2>3, <2>7 DEF ConsumerOK, BatchOK
  <2>12. GotTo(d, At(d))'
    BY <1>4, <2>6, <2>8 DEF ConsumerOK, GotTo
  <2>13. ConsumerOK(d)'
    BY <1>1, <1>4, <2>7, <2>9, <2>10, <2>11, <2>12 DEF ConsumerOK
  <2>14. At(d)' \in Nat /\ At(d) <= At(d)' /\ owed' \in [Consumers -> SUBSET Row]
    BY <1>1, <1>3, <1>4, <2>6
  <2>15. \A b \in Consumers \ {load.name[d]} :
           offset'[b] = offset[b] /\ owed'[b] = owed[b] /\ handled'[b] = handled[b]
    BY <1>1, <2>5 DEF c
  <2> QED BY <1>1, <1>2, <2>3, <2>13, <2>14, <2>15, LoopLoss
<1> QED BY <1>1, <1>5, <1>6

\* The one row a consumer has is the one its worker has stamped.
LEMMA UnstampedNone ==
  ASSUME NEW s \in Seq(OffsetRow), NEW d, One(s, {d})
  PROVE  Unstamped(s, d) = <<>>
<1> DEFINE I == {i \in 1 .. Len(s) : d \in s[i].xmax}
<1>1. CASE s = <<>>
  <2>1. I = {}
    BY <1>1
  <2> QED BY <1>1, <2>1 DEF Unstamped, RemoveFirstMatch
<1>2. CASE s # <<>>
  <2>1. Len(s) = 1 /\ s[1].xmax = {d}
    BY <1>2 DEF One
  <2>2. I = {1}
    BY <2>1
  <2>3. Unstamped(s, d) = RemoveAt(s, Min(I))
    BY <2>2 DEF Unstamped, RemoveFirstMatch, SelectInSeq
  <2> HIDE DEF I
  <2>4. Min(I) = 1
    <3>1. I \in SUBSET Nat /\ I # {}
      BY <2>2
    <3>2. Min(I) \in I
      BY ONLY <3>1, MinFact
    <3> QED BY ONLY <2>2, <3>2
  <2>5. RemoveAt(s, 1) = SubSeq(s, 1, 0) \o SubSeq(s, 2, 1)
    BY <2>1 DEF RemoveAt
  <2>6. SubSeq(s, 1, 0) = <<>> /\ SubSeq(s, 2, 1) = <<>>
    BY SubSeqEmpty
  <2> QED BY <2>3, <2>4, <2>5, <2>6
<1> QED BY <1>1, <1>2

LEMMA InsertOnly ==
  ASSUME NEW e
  PROVE  InsertAt(<<>>, 1, e) = <<e>>
<1>1. InsertAt(<<>>, 1, e) = SubSeq(<<>>, 1, 0) \o <<e>> \o SubSeq(<<>>, 1, 0)
  BY DEF InsertAt
<1>2. SubSeq(<<>>, 1, 0) = <<>>
  BY SubSeqEmpty
<1> QED BY <1>1, <1>2

LEMMA AckCommitLoss ==
  ASSUME EventInv, LossInv, Separate(load), NEW d \in Workers, AckCommit(d)
  PROVE  LossInv'
<1> DEFINE c == load.name[d]
           n == Largest(work[d].batch)
           k == [work[d] EXCEPT !.pc = "acked"]
<1>1. /\ work[d].pc = "acking" /\ work' = [work EXCEPT ![d].pc = "acked"]
      /\ UNCHANGED <<load, txn, rows, index, vac, written, owed, handled>>
      /\ \E i \in 1 .. Len(Unstamped(offset[c], d)) + 1 :
           offset' = [offset EXCEPT ![c] = InsertAt(Unstamped(offset[c], d), i, ConsumerRow(n))]
  BY DEF AckCommit, histVars
<1>2. /\ d \in Running /\ work \in [Workers -> WorkOf(written)]
      /\ offset \in [Consumers -> Seq(OffsetRow)]
  BY <1>1 DEF EventInv, SnapsOK, TypeInv
<1>3. /\ c \in Consumers /\ At(d) \in Nat /\ offset[c] \in Seq(OffsetRow) /\ work[d].off \in Nat
      /\ work[d].batch \subseteq written /\ written \subseteq Row
  BY <1>2, LossFacts, RowFact
<1>4. ConsumerOK(d) /\ owed \in [Consumers -> SUBSET Row]
  BY <1>2 DEF LossInv
<1>5. /\ One(offset[c], {d}) /\ At(d) = work[d].off /\ load.kind[d] # "tail"
      /\ work[d].todo = {} /\ work[d].batch # {} /\ work[d].batch \subseteq Done(d)
      /\ \A q \in work[d].batch : q.seq > work[d].off
  BY <1>1, <1>4 DEF ConsumerOK, PlaceOK, BatchOK
<1>6. /\ n \in Nat /\ (\A r \in work[d].batch : r.seq <= n)
      /\ n = 0 \/ \E r \in work[d].batch : r.seq = n
  BY <1>3, LargestFact
<1>7. work' = [work EXCEPT ![d] = k]
  BY <1>1, <1>2
<1>8. /\ k.pc = "acked" /\ k.snap = work[d].snap /\ k.off = work[d].off /\ k.batch = work[d].batch
      /\ k.todo = work[d].todo /\ k.before = work[d].before
  BY <1>2 DEF WorkOf
<1> HIDE DEF c, n, k
<1>9. work'[d] = k /\ \A e \in Workers \ {d} : work'[e] = work[e]
  BY <1>2, <1>7
<1>10. offset' = [offset EXCEPT ![c] = <<ConsumerRow(n)>>]
  <2>1. Unstamped(offset[c], d) = <<>>
    BY <1>3, <1>5, UnstampedNone
  <2>2. PICK i \in 1 .. Len(<<>>) + 1 : offset' = [offset EXCEPT ![c] = InsertAt(<<>>, i, ConsumerRow(n))]
    BY <1>1, <2>1
  <2>3. i = 1
    OBVIOUS
  <2> QED BY <2>2, <2>3, InsertOnly
<1>11. offset'[c] = <<ConsumerRow(n)>> /\ \A b \in Consumers \ {c} : offset'[b] = offset[b]
  BY <1>2, <1>3, <1>10
<1>12. PICK b \in work[d].batch : b.seq = n /\ n > work[d].off
  <2>1. PICK q \in work[d].batch : q.seq > work[d].off
    BY <1>5
  <2>2. q.seq <= n /\ q.seq \in Nat
    BY <1>3, <1>6 DEF Row, Seqs
  <2>3. n > work[d].off
    BY <1>3, <1>6, <2>1, <2>2
  <2> QED BY <1>3, <1>6, <2>3
<1>13. At(d)' = n
  <2>1. Head(<<ConsumerRow(n)>>) = ConsumerRow(n) /\ ConsumerRow(n).seq = n /\ <<ConsumerRow(n)>> # <<>>
    BY DEF ConsumerRow
  <2> QED BY <1>1, <1>11, <2>1 DEF At, Offset, c
<1>14. /\ Done(d)' = Done(d) /\ Owed(d)' = Owed(d)
       /\ \A r : Wants(d, r)' <=> Wants(d, r)
       /\ \A r : (Live(r)' <=> Live(r)) /\ (IsPresent(r.w)' <=> IsPresent(r.w))
  BY <1>1 DEF Done, Owed, Wants, Live, IsPresent
<1>15. \A m : GotTo(d, m) => GotTo(d, m)'
  BY <1>1, <1>14 DEF GotTo
<1>16. PlaceOK(d)'
  <2>1. One(offset'[c], {})
    BY <1>11 DEF One, ConsumerRow
  <2> QED BY <1>1, <1>4, <1>8, <1>9, <2>1 DEF ConsumerOK, PlaceOK, c
<1>17. PollOK(d)'
  BY <1>1, <1>4, <1>8, <1>9, <1>14, <1>15 DEF ConsumerOK, PollOK, GotTo
<1>18. BatchOK(d)'
  BY <1>1, <1>4, <1>8, <1>9, <1>14 DEF ConsumerOK, BatchOK
<1>19. GotTo(d, At(d))'
  <2>1. \A q \in work[d].batch : q.seq <= b.seq => q \in Done(d)
    BY <1>5
  <2>2. /\ \A r \in Owed(d) : Live(r) /\ r.seq <= b.seq /\ Wants(d, r) => r \in Done(d)
        /\ load.serial => \A r \in written : Live(r) /\ r.seq <= b.seq => r \in Owed(d)
    BY <1>1, <1>2, <1>4, <2>1, BatchGot
  <2> QED BY <1>1, <1>12, <1>13, <1>14, <2>2 DEF GotTo
<1>20. ConsumerOK(d)'
  BY <1>1, <1>4, <1>14, <1>16, <1>17, <1>18, <1>19 DEF ConsumerOK
<1>21. At(d)' \in Nat /\ At(d) <= At(d)' /\ owed' \in [Consumers -> SUBSET Row]
  BY <1>1, <1>3, <1>4, <1>5, <1>6, <1>12, <1>13
<1>22. \A e \in Consumers \ {load.name[d]} :
         offset'[e] = offset[e] /\ owed'[e] = owed[e] /\ handled'[e] = handled[e]
  BY <1>1, <1>11 DEF c
<1> QED BY <1>1, <1>2, <1>9, <1>20, <1>21, <1>22, LoopLoss

LEMMA WorkerLoss ==
  ASSUME EventInv, LossInv, Separate(load), NEW d \in Workers, WorkerStep(d)
  PROVE  LossInv'
<1>1. CASE Deliver(d)
  BY <1>1, HandleLoss DEF Deliver
<1>2. CASE AckLog(d)
  <2>1. /\ work[d].pc = "acked" /\ work' = [work EXCEPT ![d].pc = "logged"]
        /\ UNCHANGED <<load, txn, rows, index, vac, written, offset, owed, handled>>
    BY <1>2 DEF AckLog, histVars
  <2>2. d \in Running /\ work \in [Workers -> WorkOf(written)]
    BY <2>1 DEF EventInv, SnapsOK, TypeInv
  <2>3. SameLoop(d) /\ \A e \in Workers \ {d} : work'[e] = work[e]
    BY <2>1, <2>2 DEF SameLoop, WorkOf
  <2> QED BY <2>1, <2>2, <2>3, LoopRests
<1> QED BY <1>1, <1>2, PollLoss, ResolveLoss, DeliverFailsLoss, TailDoneLoss, AckEventsLoss,
           AckCommitLoss DEF WorkerStep
-----------------------------------------------------------------------------
(* Vacuum.                                                                 *)

\* vacuum_events stays below the offset of every consumer.
LEMMA MinOffsetFact ==
  ASSUME EventInv, NEW d \in Acking, \A e \in Acking : offset[load.name[e]] # <<>>
  PROVE  MinOffset \in Nat /\ MinOffset <= At(d)
<1> DEFINE S == ConsumerRows
<1>1. \A e \in Acking : e \in Running /\ offset[load.name[e]] \in Seq(OffsetRow)
  BY LossFacts DEF Acking
<1>2. ASSUME NEW e \in Acking, NEW q \in ToSet(offset[load.name[e]]) PROVE q.seq \in Nat
  <2>1. PICK i \in DOMAIN offset[load.name[e]] : q = offset[load.name[e]][i]
    BY DEF ToSet
  <2>2. q \in OffsetRow
    BY <1>1, <2>1
  <2> QED BY <2>2 DEF OffsetRow
<1>3. S \in SUBSET Nat
  BY <1>2 DEF ConsumerRows
<1>4. At(d) \in S
  <2> DEFINE s == offset[load.name[d]]
  <2>1. s # <<>> /\ s \in Seq(OffsetRow)
    BY <1>1
  <2>2. Head(s) = s[1] /\ 1 \in DOMAIN s
    BY <2>1
  <2>3. Head(s) \in ToSet(s)
    BY <2>2 DEF ToSet
  <2>4. At(d) = Head(s).seq
    BY <2>1 DEF At, Offset
  <2> HIDE DEF s
  <2> QED BY <2>3, <2>4 DEF ConsumerRows, s
<1> HIDE DEF S
<1>5. Min(S) \in S /\ Min(S) <= At(d)
  BY <1>3, <1>4, MinFact
<1> QED BY <1>3, <1>5 DEF MinOffset, S

LEMMA VacLoss ==
  ASSUME EventInv, LossInv, UNCHANGED <<load, txn, written, offset, work, owed, handled>>, Kept',
         \A d \in Running : work[d].pc = "polled" =>
            \A r \in work[d].snap : r.seq > work[d].off /\ r \in index => r \in index'
  PROVE  LossInv'
<1>1. \A r : (Live(r)' <=> Live(r)) /\ (IsPresent(r.w)' <=> IsPresent(r.w))
  BY DEF Live, IsPresent
<1>2. UniqueSeqs' /\ TakeTurns' /\ InTurn'
  BY <1>1 DEF LossInv, UniqueSeqs, TakeTurns, InTurn, Busy
<1>3. ASSUME NEW d \in Running PROVE ConsumerOK(d)'
  <2>1. SameLoop(d) /\ ConsumerOK(d)
    BY DEF SameLoop, LossInv
  <2> QED BY <1>1, <2>1, ConsumerStays
<1> QED BY <1>2, <1>3 DEF LossInv, Running

LEMMA VacuumLoss ==
  ASSUME EventInv, LossInv, Separate(load), VacuumEvents \/ VacuumStep \/ VacuumTable
  PROVE  LossInv'
<1>1. /\ Kept /\ \A r \in written : r.seq \in Nat
      /\ \A d \in Running : d \in Workers /\ At(d) \in Nat
  BY LossFacts DEF LossInv
<1>2. UNCHANGED <<load, txn, written, offset, work, owed, handled>>
  BY DEF VacuumEvents, VacuumStep, VacuumCommit, VacuumLog, VacuumAbort, VacuumTable, histVars
<1>3. /\ Acking' = Acking /\ Acking \subseteq Running /\ \A d : At(d)' = At(d)
      /\ \A r : Live(r)' <=> Live(r)
  BY <1>2 DEF Acking, Running, At, Offset, Live
<1>4. CASE VacuumEvents
  <2> DEFINE reclaim == {r \in Visible : r.seq <= MinOffset}
  <2>1. /\ load.vacuums /\ rows' = rows
        /\ \A d \in Acking : offset[load.name[d]] # <<>>
        /\ vac' = [pc |-> "open", rows |-> reclaim] /\ index' = index \ reclaim
    BY <1>4 DEF VacuumEvents
  <2>2. vac'.pc = "open" /\ vac'.rows = reclaim
    BY <2>1
  <2>3. ASSUME NEW r \in reclaim, NEW d \in Acking PROVE r \in written /\ r.seq <= At(d)
    <3>1. MinOffset \in Nat /\ MinOffset <= At(d) /\ At(d) \in Nat
      BY <1>1, <1>3, <2>1, MinOffsetFact
    <3>2. r \in written /\ r.seq <= MinOffset
      BY DEF Visible, EventInv, TypeInv
    <3> QED BY <1>1, <3>1, <3>2
  <2>4. reclaim \subseteq written
    BY DEF Visible, EventInv, TypeInv
  <2> HIDE DEF reclaim
  <2>5. IsFiniteSet(index')
    BY <1>1, <2>1, FS_Subset DEF Kept
  <2>6. \A r \in written, d \in Acking : r.seq > At(d) => r \notin reclaim
    BY <1>1, <1>3, <2>3
  <2>7. Kept'
    BY <1>1, <1>2, <1>3, <2>1, <2>2, <2>3, <2>4, <2>5, <2>6 DEF Kept
  <2>8. ASSUME NEW d \in Running, work[d].pc = "polled", NEW r \in work[d].snap, r.seq > work[d].off,
               r \in index
        PROVE  r \in index'
    <3>1. d \in Acking
      BY <1>1, <2>1 DEF Acking, Separate
    <3>2. At(d) = work[d].off
      BY <2>8 DEF LossInv, ConsumerOK, PlaceOK
    <3>3. r \in written
      BY RowFact
    <3> QED BY <2>1, <2>6, <2>8, <3>1, <3>2, <3>3
  <2> QED BY <1>2, <2>7, <2>8, VacLoss
<1>5. CASE VacuumCommit
  <2>1. vac.pc = "open" /\ vac' = [vac EXCEPT !.pc = "visible"] /\ rows' = rows \ vac.rows /\ index' = index
    BY <1>5 DEF VacuumCommit
  <2>2. load.vacuums
    BY <1>1, <2>1 DEF Kept, NoVac
  <2>3. vac'.pc # "open" /\ vac'.rows \subseteq written
    BY <1>1, <2>1 DEF Kept
  <2>4. ASSUME NEW r \in written, Live(r), NEW d \in Acking, r.seq > At(d) PROVE r \in rows' \cap index
    <3>1. r \notin vac.rows
      BY <1>1, <1>3, <2>1, <2>4 DEF Kept
    <3> QED BY <1>1, <2>1, <2>4, <3>1 DEF Kept
  <2>5. Kept'
    BY <1>1, <1>2, <1>3, <2>1, <2>2, <2>3, <2>4 DEF Kept
  <2> QED BY <1>2, <2>1, <2>5, VacLoss
<1>6. CASE VacuumLog
  <2>1. vac.pc = "visible" /\ vac' = [vac EXCEPT !.pc = "logged"] /\ UNCHANGED <<rows, index>>
    BY <1>6 DEF VacuumLog
  <2>2. load.vacuums
    BY <1>1, <2>1 DEF Kept, NoVac
  <2>3. vac'.pc # "open" /\ vac'.rows \subseteq written
    BY <1>1, <2>1 DEF Kept
  <2>4. Kept'
    BY <1>1, <1>2, <1>3, <2>1, <2>2, <2>3 DEF Kept
  <2> QED BY <1>2, <2>1, <2>4, VacLoss
<1>7. CASE VacuumAbort
  <2>1. vac' = NoVac /\ UNCHANGED <<rows, index>>
    BY <1>7 DEF VacuumAbort
  <2>2. vac'.pc # "open" /\ vac'.rows \subseteq written
    BY <2>1 DEF NoVac
  <2>3. Kept'
    BY <1>1, <1>2, <1>3, <2>1, <2>2 DEF Kept
  <2> QED BY <1>2, <2>1, <2>3, VacLoss
<1>8. CASE VacuumTable
  <2> DEFINE gone == {r \in index : r \notin rows}
  <2>1. /\ index' = index \ gone /\ UNCHANGED <<rows, vac>>
        /\ \A d \in Workers : gone \cap work[d].snap = {}
    BY <1>8 DEF VacuumTable
  <2>2. \A r \in rows : r \notin gone
    OBVIOUS
  <2> HIDE DEF gone
  <2>3. IsFiniteSet(index')
    BY <1>1, <2>1, FS_Subset DEF Kept
  <2>4. Kept'
    BY <1>1, <1>2, <1>3, <2>1, <2>2, <2>3 DEF Kept
  <2>5. \A d \in Running : \A r \in work[d].snap : r \in index => r \in index'
    BY <1>1, <2>1
  <2> QED BY <1>2, <2>4, <2>5, VacLoss
<1> QED BY <1>4, <1>5, <1>6, <1>7, <1>8 DEF VacuumStep
-----------------------------------------------------------------------------
(* Crash, and the theorem.                                                 *)

\* A consumer comes back where it was, or where its last poll began.
LEMMA CrashLoss ==
  ASSUME EventInv, LossInv, RestartSafe(load), Separate(load), Crash
  PROVE  LossInv'
<1>1. PICK n \in 0 .. Len(log) :
        LET lost    == Lost(n)
            back    == IF VacLost(n) THEN vac.rows ELSE {}
        IN
        /\ txn' = [w \in Writers |-> IF w \in lost THEN "aborted"
                                     ELSE IF IsPresent(w) THEN "durable" ELSE txn[w]]
        /\ \E kept \in SUBSET {r \in index : r.w \in lost}, again \in SUBSET back :
             index' = {r \in index : r.w \notin lost} \cup kept \cup again
        /\ offset' = [c \in Consumers |->
                        IF AckLost(c, n) = {} THEN offset[c]
                        ELSE work[CHOOSE d \in AckLost(c, n) : TRUE].before]
  BY DEF Crash
<1>2. /\ work' = [d \in Workers |-> Idle] /\ vac' = NoVac /\ crashes < load.crashes
      /\ UNCHANGED <<load, written, owed, handled>>
  BY DEF Crash, histVars
<1>3. /\ load.crashes > 0 /\ ~load.vacuums /\ \A d \in Workers : load.kind[d] # "tail"
  BY <1>2, LoadFact DEF RestartSafe, EventInv, TypeInv
<1>4. EventInv'
  BY CrashInv
<1>5. /\ \A r \in written : r.w \in Writers /\ r.seq \in Nat
      /\ \A d \in Running : d \in Workers /\ load.name[d] \in Consumers
  BY LossFacts
<1>6. /\ \A w \in Writers : txn'[w] = IF w \in Lost(n) THEN "aborted"
                                      ELSE IF IsPresent(w) THEN "durable" ELSE txn[w]
  BY <1>1
<1>7. \A w \in Writers : /\ txn'[w] # "aborted" => txn[w] # "aborted" /\ w \notin Lost(n)
                         /\ IsPresent(w) => IsPresent(w)' \/ txn'[w] = "aborted"
                         /\ txn[w] = "durable" => txn'[w] = "durable"
                         /\ Busy(w)' => Busy(w)
  BY <1>6 DEF IsPresent, Busy, Lost
<1>8. \A r \in written : (Live(r)' => Live(r)) /\ (IsPresent(r.w) => IsPresent(r.w)' \/ ~Live(r)')
  BY <1>5, <1>7 DEF Live
<1>9. UniqueSeqs' /\ TakeTurns' /\ InTurn'
  <2>1. UniqueSeqs'
    BY <1>2, <1>8 DEF LossInv, UniqueSeqs
  <2>2. TakeTurns'
    BY <1>2, <1>7 DEF LossInv, TakeTurns
  <2>3. InTurn'
    BY <1>2, <1>5, <1>7, <1>8 DEF LossInv, InTurn
  <2> QED BY <2>1, <2>2, <2>3
<1>10. Kept'
  <2>1. Kept /\ vac = NoVac
    BY <1>3 DEF LossInv, Kept
  <2>2. (IF VacLost(n) THEN vac.rows ELSE {}) = {}
    BY <2>1 DEF NoVac
  <2>3. index' \subseteq index /\ \A r \in index : r.w \notin Lost(n) => r \in index'
    BY <1>1, <2>2
  <2>4. IsFiniteSet(index')
    BY <2>1, <2>3, FS_Subset DEF Kept
  <2>5. ASSUME NEW r \in written, Live(r)' PROVE r \in rows' /\ r \in index'
    <3>1. r \in rows'
      BY <1>2, <1>3, <1>4, <2>5 DEF EventInv, RestartOK, Live
    <3>2. r \in index /\ r.w \notin Lost(n)
      BY <1>3, <1>5, <1>7, <1>8, <2>1, <2>5 DEF Kept, Live
    <3> QED BY <2>3, <3>1, <3>2
  <2>6. vac'.pc # "open" /\ vac'.rows \subseteq written
    BY <1>2 DEF NoVac
  <2> QED BY <1>2, <2>1, <2>3, <2>4, <2>5, <2>6 DEF Kept
<1>11. ASSUME NEW d \in Running PROVE ConsumerOK(d)'
  <2> DEFINE c == load.name[d]
  <2>1. d \in Workers /\ c \in Consumers /\ d \in Acking /\ ConsumerOK(d)
    BY <1>3, <1>5 DEF Acking, LossInv
  <2>2. work'[d].pc = "idle"
    BY <1>2, <2>1, IdleFact
  <2>3. /\ Done(d)' = Done(d) /\ Owed(d)' = Owed(d) /\ Owed(d) \subseteq written
        /\ \A r : Wants(d, r)' <=> Wants(d, r)
    BY <1>2, <2>1 DEF Done, Owed, Wants, ConsumerOK
  <2>4. \A m : GotTo(d, m) => GotTo(d, m)'
    BY <1>2, <1>8, <2>3 DEF GotTo
  <2>5. \A e \in AckLost(c, n) : e = d
    BY <2>1 DEF AckLost, Acking, Running, Separate
  <2>6. One(offset'[c], {}) /\ \E m : GotTo(d, m) /\ First(offset'[c]) = m
    <3>1. CASE AckLost(c, n) # {}
      <4>1. (CHOOSE e \in AckLost(c, n) : TRUE) = d /\ d \in AckLost(c, n)
        BY <2>5, <3>1
      <4>2. offset'[c] = work[d].before
        BY <1>1, <2>1, <3>1, <4>1
      <4>3. work[d].pc \in {"acking", "acked", "logged"}
        BY <4>1 DEF AckLost
      <4> QED BY <2>1, <4>2, <4>3 DEF ConsumerOK, PlaceOK, PollOK
    <3>2. CASE AckLost(c, n) = {}
      <4>1. offset'[c] = offset[c]
        BY <1>1, <2>1, <3>2
      <4>2. work[d].pc # "acking"
        <5> SUFFICES ASSUME work[d].pc = "acking" PROVE FALSE
          OBVIOUS
        <5>1. ~OnLog(<<"ack", d>>)
          BY <2>1 DEF EventInv, LogMatches
        <5>2. \A i \in 1 .. n : log[i] # <<"ack", d>>
          BY <5>1 DEF OnLog, EventInv, TypeInv
        <5> QED BY <2>1, <3>2, <5>2 DEF AckLost
      <4>3. First(offset[c]) = At(d)
        BY DEF First, At, Offset
      <4> QED BY <2>1, <4>1, <4>2, <4>3 DEF ConsumerOK, PlaceOK
    <3> QED BY <3>1, <3>2
  <2>7. GotTo(d, At(d))'
    <3>1. At(d)' = First(offset'[c])
      BY <1>2 DEF First, At, Offset
    <3>2. PICK m : GotTo(d, m) /\ First(offset'[c]) = m
      BY <2>6
    <3>3. GotTo(d, m)' /\ At(d)' = m
      BY <2>4, <3>1, <3>2
    <3> QED BY <3>3 DEF GotTo
  <2>8. PlaceOK(d)'
    BY <1>2, <2>2, <2>6 DEF PlaceOK
  <2>9. \A r \in Owed(d) : IsPresent(r.w)' \/ ~Live(r)'
    BY <1>8, <2>1, <2>3 DEF ConsumerOK
  <2> QED BY <1>2, <2>2, <2>3, <2>7, <2>8, <2>9 DEF ConsumerOK, PollOK, BatchOK
<1>12. owed' \in [Consumers -> SUBSET Row]
  BY <1>2 DEF LossInv
<1> QED BY <1>2, <1>9, <1>10, <1>11, <1>12 DEF LossInv, Running

LEMMA NextLoss ==
  EventInv /\ LossInv /\ RestartSafe(load) /\ Separate(load) /\ [Next]_vars => LossInv'
<1> SUFFICES ASSUME EventInv, LossInv, RestartSafe(load), Separate(load), [Next]_vars PROVE LossInv'
  OBVIOUS
<1>1. CASE UNCHANGED vars
  <2>1. UNCHANGED <<load, txn, rows, index, written, offset, work, owed, handled, vac>>
    BY <1>1 DEF vars, histVars
  <2>2. Kept'
    BY <2>1 DEF LossInv, Kept, Live, Acking, Running, At, Offset
  <2> QED BY <2>1, <2>2, VacLoss
<1>2. CASE Sync
  BY <1>2, SyncLoss DEF Sync
<1> QED BY <1>1, <1>2, WriterLoss, WorkerLoss, VacuumLoss, CrashLoss DEF Next

LEMMA InvNoLoss == EventInv /\ LossInv => NoLoss
<1> SUFFICES ASSUME EventInv, LossInv PROVE NoLoss
  OBVIOUS
<1>1. NothingSkipped
  <2> SUFFICES ASSUME NEW d \in Running, NEW r \in written, txn[r.w] = "durable",
                      r.seq <= Offset(load.name[d]), Wants(d, r),
                      load.serial \/ r \in owed[load.name[d]]
               PROVE  r \in handled[load.name[d]]
    BY DEF NothingSkipped
  <2>1. GotTo(d, At(d)) /\ Live(r) /\ r.seq <= At(d)
    BY DEF LossInv, ConsumerOK, Live, At
  <2> QED BY <2>1 DEF GotTo, Owed, Done
<1>2. UnackedRetained
  BY DEF UnackedRetained, LossInv, Kept, Live, At
<1> QED BY <1>1, <1>2 DEF NoLoss

\* No consumer skips an event that one of its polls could see, or any event when
\* writers take turns, although the polls are bounded, deliveries fail and are
\* repeated, and crashes take acknowledgements back; and neither vacuum_events,
\* committed or rolled back, nor vacuum of the heap takes away, or hides from the
\* seq index, what some consumer has not acknowledged.
THEOREM EventsAreNotLost == Spec => [](RestartSafe(load) /\ Separate(load) => NoLoss)
<1>1. Init => LossInv
  BY InitLoss
<1>2. /\ RestartSafe(load) => EventInv
      /\ RestartSafe(load) /\ Separate(load) => LossInv
      /\ [Next]_vars
      => (RestartSafe(load) /\ Separate(load) => LossInv)'
  BY LoadFixed, NextLoss DEF RestartSafe, Separate
<1>3. EventInv /\ LossInv => NoLoss
  BY InvNoLoss
<1> QED BY <1>1, <1>2, <1>3, InvHolds, PTL DEF Spec
=============================================================================
