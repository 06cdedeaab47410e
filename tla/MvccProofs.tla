----------------------------- MODULE MvccProofs -----------------------------
(***************************************************************************)
(* Theorems about Mvcc for every set of rows, every bound on xids, slots   *)
(* and undo steps and every orderly workload: what a rollback can rely on  *)
(* (UndoIsSafe, AbortsLeaveNothing), and what snapshots promise            *)
(* (ReadsAreExact, VersionsImplementSnapshots).                            *)
(*                                                                         *)
(* The first two rest on the inductive invariant MvccInv.  One lemma per   *)
(* action shows that it is preserved; the write paths share WriteOthers    *)
(* (what a stamp or a new version does to the others) and FinishInv (how   *)
(* the undo steps of a statement account for its marks), the other actions *)
(* SameStatement and SameUndo.                                             *)
(*                                                                         *)
(* The others rest on MvccInv and on SnapInv, which speaks of one row at a *)
(* time.  Of each row at most one version is unstamped, but for the moment *)
(* in which a cross-page HOT update has inserted the new one and not yet   *)
(* stamped the old; at most one open transaction has stamps on the row,    *)
(* and the unstamped version is then its own.  Hence what a transaction    *)
(* sees of a row changes only by its own statements, the committed rows    *)
(* change only when a transaction leaves `active` by committing, and no    *)
(* two open transactions have writes on one row.                           *)
(***************************************************************************)
EXTENDS Mvcc, FiniteSetTheorems, SequenceTheorems, WellFoundedInduction, TLAPS

Many   == {"deleteMany", "updateMany"}
Locked == {"update", "hot", "hotXpage", "delete"}

\* The workloads the theorems are about: those in which nothing runs beside
\* something the code does not protect it from.  Vacuum may reclaim what a
\* transaction that began alone has stamped (txn.rs:423), so it starts only when
\* none is open; a batch that fails on its second page leaves the first stamped
\* and not logged (heap.rs:953), and takes no row lock, so it may come between
\* the check and the stamp of a cross-page HOT update (heap.rs:832); and
\* Heap::delete marks its row's inserter committed, whoever that is (heap.rs:896).
Orderly(l) ==
  /\ l.vacuums # "always"
  /\ l.paths \cap Many # {} => l.batch = 1 /\ "hotXpage" \notin l.paths
  /\ "delete" \in l.paths => l.paths \subseteq {"delete", "deleteMany"}

Kills(x, i)   == \E k \in DOMAIN undo[x] : i \in undo[x][k].kill
Revives(x, i) == \E k \in DOMAIN undo[x] : i \in undo[x][k].revive

\* The version a cross-page HOT update has inserted and not yet linked; the old
\* version an update has stamped, whose new one is still missing.
Unlinked(x, i)   == op[x].stage = "link" /\ op[x].new = <<i>>
Superseded(x, i) == /\ op[x].path \in {"update", "updateMany"}
                    /\ op[x].stage = "insert" /\ op[x].old = <<i>>

----------------------------------------------------------------------------
Step1 == [kill : SUBSET Slots, revive : SUBSET Slots]

TypeInv ==
  /\ load \in Loads
  /\ nextXid \in 2 .. MaxXid + 1
  /\ state \in [Xids -> {"unborn", "active", "aborting", "committed", "aborted"}]
  /\ \A x \in Xids : state[x] = "unborn" <=> x >= nextXid
  /\ state[1] = "committed"
  /\ iso \in [Xids -> Isolations]
  /\ snap \in [Xids -> [xmin : Nat, xmax : Nat, active : SUBSET Xids]]
  /\ undo \in [Xids -> Seq(Step1)]
  /\ op \in [Xids -> [path : Paths \cup {"idle"},
                      stage : {"none", "lock", "check", "stamp", "insert", "link"},
                      todo : Seq(Slots), old : Seq(Slots), new : Seq(Slots)]]
  /\ ver \in [Slots -> [row : Rows, xmin : Xids \cup {NoXid},
                        xmax : Xids \cup {NoXid}, hint : BOOLEAN,
                        slot : {"live", "dead", "unused"}]]
  /\ lock \in [Slots -> Xids \cup {NoXid}]
  /\ reader.snap.xmin \in Nat /\ reader.snap.xmin <= nextXid
  /\ vacuum \in [pc : {"idle", "collect", "mark", "compact"}, horizon : Nat,
                 cand : SUBSET Slots]
  /\ intent \in [Xids -> [Rows -> {"keep", "put", "delete"}]]

\* A transaction that is not open has no statement and nothing to undo.
ClosedOK ==
  \A x \in Xids \ Active : op[x] = Idle /\ undo[x] = <<>>

\* No version bears an xid that was not issued, and a hint is set only where
\* every version is older than every transaction.
VersionXids ==
  \A i \in Slots :
    /\ ver[i].xmin < nextXid /\ ver[i].xmax < nextXid
    /\ ver[i].hint => "delete" \in load.paths
    /\ "delete" \in load.paths => ver[i].xmin \in {NoXid, 1}

\* A snapshot takes no open transaction but its own for committed, and every
\* xid below a running vacuum's horizon for committed.
SnapsOK ==
  \A x \in Active :
    /\ snap[x].xmax <= nextXid
    /\ \A y \in Active \ {x} : ~IsCommittedAt(snap[x], y)
    /\ vacuum.pc # "idle" => \A z \in Xids : z < vacuum.horizon => IsCommittedAt(snap[x], z)

\* Vacuum's candidates were stamped by transactions that ended before it began.
VacuumOK ==
  /\ vacuum.pc # "idle" =>
       /\ vacuum.horizon <= nextXid
       /\ \A x \in Active : x >= vacuum.horizon
  /\ vacuum.pc = "idle" => vacuum.cand = {}
  /\ \A i \in vacuum.cand :
       ver[i].slot = "live" /\ ver[i].xmax # NoXid /\ ver[i].xmax < vacuum.horizon

Stages(path) ==
  CASE path = "insert"     -> {"insert"}
    [] path = "update"     -> {"lock", "stamp", "insert"}
    [] path = "hotXpage"   -> {"lock", "check", "insert", "link"}
    [] path = "deleteMany" -> {"stamp"}
    [] path = "updateMany" -> {"stamp", "insert"}
    [] OTHER               -> {"lock", "stamp"}

\* What a statement may rely on about its target.
TargetOK(x, i) ==
  /\ ver[i].slot = "live"
  /\ ver[i].xmin \notin Active \ {x}
  /\ vacuum.pc # "idle" => ver[i].xmax = NoXid \/ ver[i].xmax >= vacuum.horizon
  /\ op[x].path \in Locked /\ op[x].stage # "lock" => lock[i] = x
  /\ Superseded(x, i) => ver[i].xmax = x /\ ~Revives(x, i)
  /\ op[x].path = "hotXpage" /\ op[x].stage \in {"insert", "link"} => ver[i].xmax = NoXid
  /\ op[x].stage = "link" =>
       \E n \in Slots \ {i} : op[x].new = <<n>> /\ ver[n].slot = "live" /\ ver[n].xmin = x

StatementOf(x) ==
  op[x] # Idle =>
    /\ state[x] = "active" /\ op[x].path \in load.paths
    /\ op[x].stage \in Stages(op[x].path)
    /\ op[x].path # "insert" =>
         \E i \in Slots :
           /\ op[x].old = <<i>>
           /\ op[x].stage # "link" => op[x].todo = <<i>> /\ op[x].new = <<>>
           /\ TargetOK(x, i)

StatementOK == \A x \in Xids : StatementOf(x)

\* UndoTargetsIntact, of one transaction.
TargetsOf(x) ==
  \A k \in DOMAIN undo[x] :
    /\ \A i \in undo[x][k].revive : ver[i].slot = "live" /\ ver[i].xmax = x
    /\ \A i \in undo[x][k].kill : ver[i].slot = "live" /\ ver[i].xmin = x

\* A slot is revived at most once, and what its own transaction wrote is killed
\* after that.
OrderOf(x) ==
  \A k \in DOMAIN undo[x] : \A i \in undo[x][k].revive :
    /\ \A l \in DOMAIN undo[x] : l # k => i \notin undo[x][l].revive
    /\ ver[i].xmin = x => \E l \in DOMAIN undo[x] : l < k /\ i \in undo[x][l].kill

\* Every mark an open transaction has left on a version is in its undo log, or
\* will be when its statement is done, or is the kill its rollback has set.
MarksOf(x) ==
  \A i \in Slots : ver[i].slot = "live" =>
    /\ ver[i].xmin = x =>
         /\ ver[i].xmax \in {NoXid, x}
         /\ \/ Kills(x, i) \/ Unlinked(x, i)
            \/ state[x] = "aborting" /\ ver[i].xmax = x
    /\ ver[i].xmax = x =>
         \/ Revives(x, i) \/ Superseded(x, i)
         \/ state[x] = "aborting" /\ ver[i].xmin = x

UndoOK == \A x \in Active : TargetsOf(x) /\ OrderOf(x) /\ MarksOf(x)

MvccInv ==
  /\ TypeInv /\ ClosedOK /\ VersionXids /\ SnapsOK /\ VacuumOK /\ StatementOK
  /\ UndoOK /\ AbortLeavesNothing
----------------------------------------------------------------------------
(* Facts about the helpers *)

\* Every nonempty set of naturals has a least element.
LEMMA LeastNat ==
  ASSUME NEW S \in SUBSET Nat, S # {}
  PROVE  \E m \in S : \A k \in S : m <= k
<1> DEFINE R == OpToRel(<, Nat)
<1>1. IsWellFoundedOn(R, Nat)
  BY NatLessThanWellFounded
<1>2. \A y, z \in Nat : <<y, z>> \in R <=> y < z
  BY DEF OpToRel
<1> HIDE DEF R
<1>3. PICK x \in S : \A y \in S : ~(<<y, x>> \in R)
  BY <1>1, WFMin
<1>4. \A y \in S : ~(y < x)
  BY <1>2, <1>3
<1> QED BY <1>4

\* Least picks it, and the default of an empty set.
LEMMA LeastFact ==
  ASSUME NEW S \in SUBSET Nat, NEW d \in Nat
  PROVE  /\ S = {} => Least(S, d) = d
         /\ S # {} => Least(S, d) \in S /\ \A n \in S : Least(S, d) <= n
         /\ Least(S, d) \in Nat
<1>1. CASE S = {}
  BY <1>1 DEF Least
<1>2. CASE S # {}
  <2>1. \E m \in S : \A n \in S : m <= n
    BY <1>2, LeastNat
  <2>2. Least(S, d) \in S /\ \A n \in S : Least(S, d) <= n
    BY <1>2, <2>1 DEF Least
  <2> QED BY <1>2, <2>2
<1> QED BY <1>1, <1>2

\* compute_snapshot: an issued xid counts as committed exactly when its
\* transaction is over.
LEMMA SnapshotFact ==
  ASSUME NEW next \in Nat
  PROVE  /\ ComputeSnapshot(next) \in [xmin : Nat, xmax : Nat, active : SUBSET Xids]
         /\ ComputeSnapshot(next).xmax = next
         /\ ComputeSnapshot(next).xmin <= next \/ Active # {}
         /\ \A z \in Active : ~IsCommittedAt(ComputeSnapshot(next), z)
         /\ \A z \in Xids \ Active : z < next => IsCommittedAt(ComputeSnapshot(next), z)
<1>1. Active \in SUBSET Nat /\ Active \subseteq Xids
  BY BoundAssumption DEF Active, Xids
<1> DEFINE least == Least(Active, next)
<1>2. least \in Nat /\ (Active = {} => least = next) /\ \A n \in Active : least <= n
  BY <1>1, LeastFact
<1>3. ComputeSnapshot(next) = [xmin |-> least, xmax |-> next, active |-> Active]
  BY DEF ComputeSnapshot
<1> HIDE DEF least
<1>4. \A z \in Xids : z \in Nat /\ z # NoXid
  BY BoundAssumption DEF Xids, NoXid
<1> QED BY <1>1, <1>2, <1>3, <1>4 DEF IsCommittedAt

\* The order of no target and of one target.
LEMMA PageOrderFact ==
  /\ PageOrder({}) = <<>>
  /\ \A i \in Slots : PageOrder({i}) = <<i>>
<1>1. PageOrder({}) = <<>>
  <2>1. Cardinality({}) = 0
    BY FS_EmptySet
  <2>2. [1 .. 0 -> {}] = {<<>>}
    <3>1. <<>> \in [1 .. 0 -> {}]
      OBVIOUS
    <3>2. \A f \in [1 .. 0 -> {}] : f = <<>>
      OBVIOUS
    <3> QED BY <3>1, <3>2
  <2>3. PageOrder({}) = CHOOSE s \in {<<>>} : \A a, b \in DOMAIN s : a < b => s[a] < s[b]
    BY <2>1, <2>2 DEF PageOrder
  <2> QED BY <2>3
<1>2. ASSUME NEW i \in Slots PROVE PageOrder({i}) = <<i>>
  <2>1. Cardinality({i}) = 1
    BY FS_Singleton
  <2>2. [1 .. 1 -> {i}] = {<<i>>}
    <3>1. <<i>> \in [1 .. 1 -> {i}]
      OBVIOUS
    <3>2. \A f \in [1 .. 1 -> {i}] : f = <<i>>
      OBVIOUS
    <3> QED BY <3>1, <3>2
  <2>3. PageOrder({i}) = CHOOSE s \in {<<i>>} : \A a, b \in DOMAIN s : a < b => s[a] < s[b]
    BY <2>1, <2>2 DEF PageOrder
  <2>4. \A a, b \in DOMAIN <<i>> : a < b => <<i>>[a] < <<i>>[b]
    OBVIOUS
  <2> QED BY <2>3, <2>4
<1> QED BY <1>1, <1>2

\* The rows of the initial heap.
LEMMA OldRows ==
  ASSUME NEW l \in Loads
  PROVE  /\ SetToSeq(l.old) \in [1 .. Cardinality(l.old) -> Rows]
         /\ Cardinality(l.old) \in Nat
<1>1. l.old \subseteq Rows /\ IsFiniteSet(l.old)
  BY RowAssumption, LoadAssumption, FS_Subset
<1>2. Cardinality(l.old) \in Nat /\ ExistsBijection(1 .. Cardinality(l.old), l.old)
  BY <1>1, FS_CardinalityType
<1>3. \E f \in [1 .. Cardinality(l.old) -> l.old] : IsInjective(f)
  BY <1>2 DEF ExistsBijection, Bijection, Injection, IsInjective
<1>4. SetToSeq(l.old) \in [1 .. Cardinality(l.old) -> l.old]
  BY <1>3 DEF SetToSeq
<1> QED BY <1>1, <1>2, <1>4
----------------------------------------------------------------------------
(* The initial states *)

LEMMA FreeFact == Free.row \in Rows /\ Free.xmin = NoXid /\ Free.xmax = NoXid
                  /\ Free.hint = FALSE /\ Free.slot = "unused"
                  /\ Free \in [row : Rows, xmin : Xids \cup {NoXid},
                               xmax : Xids \cup {NoXid}, hint : BOOLEAN,
                               slot : {"live", "dead", "unused"}]
BY RowAssumption DEF Free, NoXid

LEMMA InitInv == Init => MvccInv
<1> SUFFICES ASSUME Init PROVE MvccInv
  OBVIOUS
<1>1. MaxXid \in Nat \ {0} /\ 1 \in Xids /\ Xids \subseteq Nat /\ NoXid \notin Xids
  BY BoundAssumption DEF Xids, NoXid
<1>2. Active = {}
  BY DEF Init, Active
<1> DEFINE old == SetToSeq(load.old)
<1>3. /\ load \in Loads /\ old \in [1 .. Cardinality(load.old) -> Rows]
      /\ Cardinality(load.old) \in Nat /\ Len(old) = Cardinality(load.old)
  BY OldRows DEF Init
<1>4. ver = [i \in Slots |->
              IF i > Len(old) THEN Free
              ELSE [row |-> old[i], xmin |-> 1, xmax |-> NoXid, hint |-> FALSE,
                    slot |-> "live"]]
  BY Zenon DEF Init
<1> HIDE DEF old
<1>5. /\ ver \in [Slots -> [row : Rows, xmin : Xids \cup {NoXid},
                            xmax : Xids \cup {NoXid}, hint : BOOLEAN,
                            slot : {"live", "dead", "unused"}]]
      /\ \A i \in Slots : ver[i].xmin \in {NoXid, 1} /\ ver[i].xmax = NoXid /\ ~ver[i].hint
  <2> SUFFICES ASSUME NEW i \in Slots
               PROVE  /\ ver[i] \in [row : Rows, xmin : Xids \cup {NoXid},
                                     xmax : Xids \cup {NoXid}, hint : BOOLEAN,
                                     slot : {"live", "dead", "unused"}]
                      /\ ver[i].xmin \in {NoXid, 1} /\ ver[i].xmax = NoXid /\ ~ver[i].hint
    BY <1>4
  <2>1. i \in Nat \ {0}
    BY BoundAssumption DEF Slots
  <2>2. CASE i > Len(old)
    BY <1>4, <2>2, FreeFact
  <2>3. CASE ~(i > Len(old))
    <3>1. old[i] \in Rows
      BY <1>3, <2>1, <2>3
    <3>2. ver[i] = [row |-> old[i], xmin |-> 1, xmax |-> NoXid, hint |-> FALSE,
                    slot |-> "live"]
      BY <1>4, <2>3
    <3> QED BY <1>1, <3>1, <3>2
  <2> QED BY <2>2, <2>3
<1>6. TypeInv
  <2>1. /\ nextXid = 2 /\ state = [x \in Xids |-> IF x = 1 THEN "committed" ELSE "unborn"]
        /\ nextXid \in 2 .. MaxXid + 1 /\ load \in Loads
        /\ state \in [Xids -> {"unborn", "active", "aborting", "committed", "aborted"}]
        /\ \A x \in Xids : state[x] = "unborn" <=> x >= nextXid
        /\ state[1] = "committed"
    BY <1>1, <1>3 DEF Init, Xids
  <2>2. iso \in [Xids -> Isolations]
    BY DEF Init, Isolations
  <2>3. snap \in [Xids -> [xmin : Nat, xmax : Nat, active : SUBSET Xids]]
    BY DEF Init, NoSnap
  <2>4. undo \in [Xids -> Seq(Step1)]
    BY DEF Init
  <2>5. op \in [Xids -> [path : Paths \cup {"idle"},
                      stage : {"none", "lock", "check", "stamp", "insert", "link"},
                      todo : Seq(Slots), old : Seq(Slots), new : Seq(Slots)]]
    BY DEF Init, Idle
  <2>6. lock \in [Slots -> Xids \cup {NoXid}]
    BY DEF Init
  <2>7. reader.snap.xmin \in Nat /\ reader.snap.xmin <= nextXid
    BY <2>1 DEF Init, NoReader, NoSnap
  <2>8. vacuum \in [pc : {"idle", "collect", "mark", "compact"}, horizon : Nat,
                 cand : SUBSET Slots]
    BY DEF Init, NoVacuum
  <2>9. intent \in [Xids -> [Rows -> {"keep", "put", "delete"}]]
    BY DEF Init, NoWrites
  <2> QED BY <1>5, <2>1, <2>2, <2>3, <2>4, <2>5, <2>6, <2>7, <2>8, <2>9 DEF TypeInv
<1>7. ClosedOK /\ StatementOK
  BY DEF Init, ClosedOK, StatementOK, StatementOf
<1>8. VersionXids
  BY <1>1, <1>5 DEF Init, VersionXids, NoXid
<1>9. SnapsOK /\ UndoOK
  BY <1>2 DEF SnapsOK, UndoOK
<1>10. VacuumOK
  BY <1>2 DEF Init, VacuumOK, NoVacuum
<1>11. AbortLeavesNothing
  BY DEF Init, AbortLeavesNothing
<1> QED BY <1>6, <1>7, <1>8, <1>9, <1>10, <1>11 DEF MvccInv
----------------------------------------------------------------------------
(* A write: x stamps the slots of S and fills those of N. *)

LEMMA XidFacts ==
  /\ Xids \subseteq Nat /\ NoXid \notin Xids /\ NoXid = 0 /\ 1 \in Xids
  /\ Slots \subseteq Nat \ {0} /\ MaxXid \in Nat \ {0}
BY BoundAssumption DEF Xids, NoXid, Slots

\* TypeInv, point by point.
LEMMA TypeFacts ==
  ASSUME TypeInv
  PROVE  /\ nextXid \in Nat /\ nextXid >= 2 /\ load \in Loads
         /\ \A x \in Xids : x < nextXid <=> state[x] # "unborn"
         /\ \A x \in Active : x \in Xids /\ x < nextXid /\ x # NoXid /\ x \in Nat /\ x # 1
         /\ \A i \in Slots : /\ ver[i].xmin \in Nat /\ ver[i].xmin \in Xids \cup {NoXid}
                             /\ ver[i].xmax \in Nat /\ ver[i].xmax \in Xids \cup {NoXid}
                             /\ ver[i].row \in Rows /\ ver[i].hint \in BOOLEAN
         /\ \A x \in Xids : \A k \in DOMAIN undo[x] :
              undo[x][k].kill \subseteq Slots /\ undo[x][k].revive \subseteq Slots
         /\ vacuum.horizon \in Nat /\ vacuum.cand \subseteq Slots
<1>1. nextXid \in Nat /\ nextXid >= 2 /\ load \in Loads
  BY XidFacts DEF TypeInv
<1>2. \A x \in Xids : x < nextXid <=> state[x] # "unborn"
  <2>1. \A x \in Xids : state[x] = "unborn" <=> x >= nextXid
    BY DEF TypeInv
  <2>2. \A x \in Xids : x \in Nat
    BY XidFacts
  <2> QED BY <1>1, <2>1, <2>2
<1>3. \A x \in Active : x \in Xids /\ x < nextXid /\ x # NoXid /\ x \in Nat /\ x # 1
  <2>1. state[1] = "committed"
    BY DEF TypeInv
  <2> QED BY <1>2, <2>1, XidFacts DEF Active
<1>4. \A i \in Slots : /\ ver[i].xmin \in Nat /\ ver[i].xmin \in Xids \cup {NoXid}
                       /\ ver[i].xmax \in Nat /\ ver[i].xmax \in Xids \cup {NoXid}
                       /\ ver[i].row \in Rows /\ ver[i].hint \in BOOLEAN
  <2>1. ver \in [Slots -> [row : Rows, xmin : Xids \cup {NoXid},
                          xmax : Xids \cup {NoXid}, hint : BOOLEAN,
                          slot : {"live", "dead", "unused"}]]
    BY DEF TypeInv
  <2>2. \A i \in Slots : /\ ver[i].xmin \in Xids \cup {NoXid} /\ ver[i].hint \in BOOLEAN
                         /\ ver[i].xmax \in Xids \cup {NoXid} /\ ver[i].row \in Rows
    BY <2>1
  <2>3. \A z \in Xids \cup {NoXid} : z \in Nat
    BY XidFacts
  <2> QED BY <2>2, <2>3
<1>5. \A x \in Xids : \A k \in DOMAIN undo[x] :
        undo[x][k].kill \subseteq Slots /\ undo[x][k].revive \subseteq Slots
  <2>1. undo \in [Xids -> Seq(Step1)]
    BY DEF TypeInv
  <2>2. \A x \in Xids : \A k \in DOMAIN undo[x] : undo[x][k] \in Step1
    BY <2>1
  <2> QED BY <2>2 DEF Step1
<1>6. vacuum.horizon \in Nat /\ vacuum.cand \subseteq Slots
  BY DEF TypeInv
<1> QED BY <1>1, <1>2, <1>3, <1>4, <1>5, <1>6

Wrote(x, S, N) ==
  /\ \A j \in Slots \ (S \cup N) : ver'[j] = ver[j]
  /\ \A j \in S : /\ ver'[j].slot = "live" /\ ver'[j].xmax = x
                  /\ ver'[j].xmin = ver[j].xmin /\ ver'[j].row = ver[j].row
  /\ \A n \in N : /\ ver'[n].slot = "live" /\ ver'[n].xmin = x
                  /\ ver'[n].xmax = NoXid

\* What the latch has let through, whatever the path: the stamped slots were
\* unstamped versions of nobody else's open transaction and no other cross-page
\* update is between its check and its link there; the filled ones were unused.
MayWrite(x, S, N) ==
  /\ state[x] = "active"
  /\ \A j \in S : /\ Unstamped(j) /\ ver[j].xmin \notin Active \ {x}
                  /\ \A y \in Xids \ {x} :
                       op[y].path = "hotXpage" /\ op[y].stage \in {"insert", "link"}
                         => op[y].old # <<j>>
  /\ \A n \in N : ver[n].slot = "unused"

Writes(x, S, N) ==
  /\ MayWrite(x, S, N) /\ Wrote(x, S, N)
  /\ \A j \in Slots : ver'[j].hint => "delete" \in load.paths
  /\ N # {} => "delete" \notin load.paths
  /\ \A y \in Xids \ {x} : undo'[y] = undo[y] /\ op'[y] = op[y]
  /\ UNCHANGED <<load, txnVars, lock, reader, vacuum>>

\* It leaves the other transactions, and what is true of all, as they were.
LEMMA WriteOthers ==
  ASSUME MvccInv, TypeInv', NEW x \in Xids, NEW S \in SUBSET Slots, NEW N \in SUBSET Slots,
         Writes(x, S, N)
  PROVE  /\ ClosedOK' /\ VersionXids' /\ SnapsOK' /\ VacuumOK' /\ AbortLeavesNothing'
         /\ \A y \in Xids \ {x} : StatementOf(y)'
         /\ \A y \in Active \ {x} : TargetsOf(y)' /\ OrderOf(y)' /\ MarksOf(y)'
         /\ Active' = Active /\ x \in Active
<1> USE XidFacts
<1>a. TypeInv /\ ClosedOK /\ VersionXids /\ SnapsOK /\ VacuumOK /\ StatementOK /\ UndoOK
      /\ AbortLeavesNothing
  BY DEF MvccInv
<1>b. /\ nextXid \in Nat
      /\ \A z \in Active : z \in Xids /\ z < nextXid /\ z # NoXid /\ z \in Nat /\ z # 1
      /\ \A i \in Slots : ver[i].xmin \in Nat /\ ver[i].xmax \in Nat
      /\ \A z \in Xids : \A k \in DOMAIN undo[z] :
           undo[z][k].kill \subseteq Slots /\ undo[z][k].revive \subseteq Slots
      /\ vacuum.horizon \in Nat /\ vacuum.cand \subseteq Slots
  BY <1>a, TypeFacts
<1>1. /\ Active' = Active /\ x \in Active
      /\ state' = state /\ nextXid' = nextXid /\ vacuum' = vacuum /\ snap' = snap
      /\ lock' = lock /\ load' = load
  BY DEF Writes, MayWrite, txnVars, Active
<1>2. \A y \in Xids \ {x} : undo'[y] = undo[y] /\ op'[y] = op[y]
  BY DEF Writes
<1>3. \A j \in S : ver[j].slot = "live" /\ ver[j].xmax = NoXid /\ ver[j].xmin \notin Active \ {x}
  BY DEF Writes, MayWrite, Unstamped
<1>4. \A n \in N : ver[n].slot = "unused"
  BY DEF Writes, MayWrite
<1>5. Wrote(x, S, N)
  BY DEF Writes
<1>6. ClosedOK'
  BY <1>a, <1>1, <1>2 DEF ClosedOK
<1>7. VersionXids'
  <2>1. x < nextXid /\ NoXid < nextXid
    BY <1>b, <1>1
  <2> SUFFICES ASSUME NEW i \in Slots
               PROVE  /\ ver'[i].xmin < nextXid /\ ver'[i].xmax < nextXid
                      /\ ver'[i].hint => "delete" \in load.paths
                      /\ "delete" \in load.paths => ver'[i].xmin \in {NoXid, 1}
    BY <1>1 DEF VersionXids
  <2>2. i \in S \/ i \in N \/ i \in Slots \ (S \cup N)
    OBVIOUS
  <2>3. /\ ver[i].xmin < nextXid /\ ver[i].xmax < nextXid
        /\ "delete" \in load.paths => ver[i].xmin \in {NoXid, 1}
    BY <1>a DEF VersionXids
  <2>4. ver'[i].hint => "delete" \in load.paths
    BY DEF Writes
  <2>5. i \in N => "delete" \notin load.paths
    BY DEF Writes
  <2> QED BY <1>5, <2>1, <2>2, <2>3, <2>4, <2>5 DEF Wrote
<1>8. SnapsOK'
  BY <1>a, <1>1 DEF SnapsOK, IsCommittedAt
<1>9. VacuumOK'
  <2>1. \A i \in vacuum.cand : i \in Slots \ (S \cup N)
    BY <1>a, <1>b, <1>3, <1>4 DEF VacuumOK
  <2>2. \A i \in vacuum.cand : ver'[i] = ver[i]
    BY <1>5, <2>1 DEF Wrote
  <2> QED BY <1>a, <1>1, <2>2 DEF VacuumOK
<1>10. AbortLeavesNothing'
  <2> SUFFICES ASSUME NEW z \in Xids, NEW i \in Slots,
                      state[z] = "aborted", ver'[i].slot = "live"
               PROVE  ver'[i].xmin = z <=> ver'[i].xmax = z
    BY <1>1 DEF AbortLeavesNothing
  <2>1. z # x
    BY <1>1 DEF Active
  <2>2. i \in S \/ i \in N \/ i \in Slots \ (S \cup N)
    OBVIOUS
  <2>3. ver[i].slot = "live" => (ver[i].xmin = z <=> ver[i].xmax = z)
    BY <1>a DEF AbortLeavesNothing
  <2> QED BY <1>3, <1>5, <2>1, <2>2, <2>3 DEF Wrote
<1>11. ASSUME NEW y \in Xids \ {x} PROVE StatementOf(y)'
  <2> SUFFICES ASSUME op[y] # Idle PROVE StatementOf(y)'
    BY <1>2 DEF StatementOf
  <2>1. StatementOf(y)
    BY <1>a DEF StatementOK
  <2>2. CASE op[y].path = "insert"
    BY <1>1, <1>2, <2>1, <2>2 DEF StatementOf
  <2>3. CASE op[y].path # "insert"
    <3>1. PICK i \in Slots :
            /\ op[y].old = <<i>>
            /\ op[y].stage # "link" => op[y].todo = <<i>> /\ op[y].new = <<>>
            /\ TargetOK(y, i)
      BY <2>1, <2>3 DEF StatementOf
    <3>2. y \in Active
      BY <1>a DEF ClosedOK
    <3>a. /\ ver[i].slot = "live"
          /\ ver[i].xmin \notin Active \ {y}
          /\ vacuum.pc # "idle" => ver[i].xmax = NoXid \/ ver[i].xmax >= vacuum.horizon
          /\ op[y].path \in Locked /\ op[y].stage # "lock" => lock[i] = y
          /\ Superseded(y, i) => ver[i].xmax = y /\ ~Revives(y, i)
          /\ op[y].path = "hotXpage" /\ op[y].stage \in {"insert", "link"} => ver[i].xmax = NoXid
      <4>1. TargetOK(y, i)
        BY <3>1
      <4> QED BY <4>1, Zenon DEF TargetOK
    <3>b. i \notin N /\ (i \in S \/ ver'[i] = ver[i])
      BY <1>4, <1>5, <3>a DEF Wrote
    <3>3. ver'[i].slot = "live" /\ ver'[i].xmin = ver[i].xmin
      BY <1>5, <3>a, <3>b DEF Wrote
    <3>4. vacuum.pc # "idle" => ver'[i].xmax = NoXid \/ ver'[i].xmax >= vacuum.horizon
      BY <1>a, <1>1, <1>5, <3>a, <3>b DEF Wrote, VacuumOK
    <3>5. Superseded(y, i) => ver'[i].xmax = y /\ ~Revives(y, i)
      BY <1>3, <3>a, <3>b
    <3>6. op[y].path = "hotXpage" /\ op[y].stage \in {"insert", "link"} => ver'[i].xmax = NoXid
      <4>1. i \in S /\ op[y].path = "hotXpage" => op[y].stage \notin {"insert", "link"}
        BY <3>1 DEF Writes, MayWrite
      <4> QED BY <3>a, <3>b, <4>1
    <3>7. op[y].stage = "link" =>
       \E n \in Slots \ {i} : op[y].new = <<n>> /\ ver'[n].slot = "live" /\ ver'[n].xmin = y
      <4>1. ASSUME NEW n \in Slots \ {i}, ver[n].slot = "live", ver[n].xmin = y
            PROVE  ver'[n].slot = "live" /\ ver'[n].xmin = y
        BY <1>4, <1>5, <4>1 DEF Wrote
      <4>2. op[y].stage = "link" =>
       \E n \in Slots \ {i} : op[y].new = <<n>> /\ ver[n].slot = "live" /\ ver[n].xmin = y
        BY <3>1, Zenon DEF TargetOK
      <4> QED BY <4>1, <4>2
    <3>8. TargetOK(y, i)'
      BY <1>1, <1>2, <3>a, <3>3, <3>4, <3>5, <3>6, <3>7
         DEF TargetOK, Superseded, Revives
    <3>9. op'[y] = op[y] /\ load' = load /\ state' = state
      BY <1>1, <1>2
    <3>10. state[y] = "active" /\ op[y].path \in load.paths /\ op[y].stage \in Stages(op[y].path)
      BY <2>1, Zenon DEF StatementOf
    <3> QED BY <3>1, <3>8, <3>9, <3>10, Zenon DEF StatementOf, Stages
  <2> QED BY <2>2, <2>3
<1>12. ASSUME NEW y \in Active \ {x} PROVE TargetsOf(y)' /\ OrderOf(y)' /\ MarksOf(y)'
  <2>1. y \in Xids /\ y # NoXid /\ TargetsOf(y) /\ OrderOf(y) /\ MarksOf(y)
    BY <1>a, <1>b DEF UndoOK
  <2>2. \A k \in DOMAIN undo[y] : undo[y][k].kill \subseteq Slots /\ undo[y][k].revive \subseteq Slots
    BY <1>b, <2>1
  <2>3. TargetsOf(y)'
    <3>1. ASSUME NEW i \in Slots, ver[i].slot = "live"
          PROVE  /\ ver'[i].slot = "live" /\ ver'[i].xmin = ver[i].xmin
                 /\ ver[i].xmax = y => ver'[i].xmax = y
      BY <1>3, <1>4, <1>5, <2>1, <3>1 DEF Wrote
    <3> QED BY <1>2, <2>1, <2>2, <3>1 DEF TargetsOf
  <2>4. OrderOf(y)'
    <3>1. ASSUME NEW i \in Slots, ver[i].slot = "live"
          PROVE  ver'[i].xmin = ver[i].xmin
      BY <1>4, <1>5, <3>1 DEF Wrote
    <3>2. \A k \in DOMAIN undo[y] : \A i \in undo[y][k].revive : ver'[i].xmin = ver[i].xmin
      BY <2>1, <2>2, <3>1 DEF TargetsOf
    <3>3. undo'[y] = undo[y]
      BY <1>2, <2>1
    <3> QED BY <2>1, <3>2, <3>3 DEF OrderOf
  <2>5. MarksOf(y)'
    <3> SUFFICES ASSUME NEW i \in Slots, ver'[i].slot = "live"
                 PROVE  /\ ver'[i].xmin = y =>
                             /\ ver'[i].xmax \in {NoXid, y}
                             /\ \/ Kills(y, i) \/ Unlinked(y, i)
                                \/ state[y] = "aborting" /\ ver'[i].xmax = y
                        /\ ver'[i].xmax = y =>
                             \/ Revives(y, i) \/ Superseded(y, i)
                             \/ state[y] = "aborting" /\ ver'[i].xmin = y
      BY <1>1, <1>2, <2>1 DEF MarksOf, Kills, Revives, Unlinked, Superseded
    <3>1. CASE i \in S
      <4>1. ver'[i].xmin # y /\ ver'[i].xmax # y
        BY <1>3, <1>5, <3>1 DEF Wrote
      <4> QED BY <4>1
    <3>2. CASE i \in N
      <4>1. ver'[i].xmin # y /\ ver'[i].xmax # y
        BY <1>5, <2>1, <3>2 DEF Wrote
      <4> QED BY <4>1
    <3>3. CASE i \in Slots \ (S \cup N)
      <4>1. ver'[i] = ver[i]
        BY <1>5, <3>3 DEF Wrote
      <4> QED BY <2>1, <4>1 DEF MarksOf
    <3> QED BY <3>1, <3>2, <3>3
  <2> QED BY <2>3, <2>4, <2>5
<1> QED BY <1>1, <1>6, <1>7, <1>8, <1>9, <1>10, <1>11, <1>12

\* The steps of a concatenation.
LEMMA ConcatFact ==
  ASSUME NEW u \in Seq(Step1), NEW s \in Seq(Step1)
  PROVE  /\ u \o s \in Seq(Step1)
         /\ \A k \in DOMAIN (u \o s) :
              \/ k \in DOMAIN u /\ (u \o s)[k] = u[k]
              \/ \E l \in DOMAIN s : k = Len(u) + l /\ (u \o s)[k] = s[l]
         /\ \A k \in DOMAIN u : k \in DOMAIN (u \o s) /\ (u \o s)[k] = u[k] /\ k <= Len(u)
         /\ \A l \in DOMAIN s : /\ Len(u) + l \in DOMAIN (u \o s) /\ (u \o s)[Len(u) + l] = s[l]
                                /\ l \in Nat \ {0}
         /\ Len(u) \in Nat /\ DOMAIN u \subseteq Nat
<1> HIDE DEF Step1
<1>1. Len(u) \in Nat /\ Len(s) \in Nat /\ DOMAIN u = 1 .. Len(u) /\ DOMAIN s = 1 .. Len(s)
  OBVIOUS
<1>2. u \o s \in Seq(Step1) /\ DOMAIN (u \o s) = 1 .. Len(u) + Len(s)
  OBVIOUS
<1>3. \A k \in 1 .. Len(u) : (u \o s)[k] = u[k]
  OBVIOUS
<1>4. \A l \in 1 .. Len(s) : (u \o s)[Len(u) + l] = s[l]
  OBVIOUS
<1>5. \A k \in 1 .. Len(u) + Len(s) : k > Len(u) => k - Len(u) \in 1 .. Len(s) /\ k = Len(u) + (k - Len(u))
  BY <1>1
<1>6. ASSUME NEW k \in DOMAIN (u \o s)
      PROVE  \/ k \in DOMAIN u /\ (u \o s)[k] = u[k]
             \/ \E l \in DOMAIN s : k = Len(u) + l /\ (u \o s)[k] = s[l]
  <2>1. CASE k \in 1 .. Len(u)
    BY <1>1, <1>3, <2>1
  <2>2. CASE k > Len(u)
    <3>1. k - Len(u) \in 1 .. Len(s) /\ k = Len(u) + (k - Len(u))
      BY <1>2, <1>5, <2>2
    <3> QED BY <1>1, <1>4, <3>1
  <2> QED BY <1>1, <1>2, <2>1, <2>2
<1> QED BY <1>1, <1>2, <1>3, <1>4, <1>6

\* A statement is done: it has stamped or filled S and N, and its undo steps
\* revive R and kill K, which are all the marks that were not recorded.
Finishes(x, S, N, R, K, steps) ==
  /\ Writes(x, S, N) /\ undo'[x] = undo[x] \o steps /\ op'[x] = Idle
  /\ \A k \in DOMAIN steps : steps[k].revive \subseteq R /\ steps[k].kill \subseteq K
  /\ \A k, l \in DOMAIN steps : k # l => steps[k].revive \cap steps[l].revive = {}
  /\ \A i \in R : \E k \in DOMAIN steps : i \in steps[k].revive
  /\ \A i \in K : \E k \in DOMAIN steps : i \in steps[k].kill
  /\ \A i \in R : /\ ver'[i].slot = "live" /\ ver'[i].xmax = x /\ ~Revives(x, i)
                  /\ ver'[i].xmin = x => Kills(x, i)
  /\ \A i \in K : ver'[i].slot = "live" /\ ver'[i].xmin = x
  /\ \A i \in Slots : ver'[i].slot = "live" =>
       /\ ver'[i].xmin = x => ver'[i].xmax \in {NoXid, x} /\ (Kills(x, i) \/ i \in K)
       /\ ver'[i].xmax = x => Revives(x, i) \/ i \in R

\* All of it is on row r, and the statement counts as `write`.
Ends(x, r, S, N, R, K, steps, write) ==
  /\ Finishes(x, S, N, R, K, steps) /\ seen' = seen
  /\ \A k, l \in DOMAIN steps : k < l => steps[l].revive = {}
  /\ \A j \in S : ver[j].row = r
  /\ \A j \in N : ver'[j].row = r
  /\ intent'[x] = [q \in Rows |-> IF q = r THEN write ELSE intent[x][q]]
  /\ \A y \in Xids \ {x} : intent'[y] = intent[y]

\* A statement on row r has stamped or filled S and N, and is not done.
GoesOn(x, r, S, N) ==
  /\ Writes(x, S, N) /\ UNCHANGED <<undo, intent, seen>>
  /\ \A j \in S : ver[j].row = r
  /\ \A j \in N : ver'[j].row = r
  /\ op'[x].path = op[x].path /\ op'[x].old = op[x].old

LEMMA FinishInv ==
  ASSUME MvccInv, TypeInv', NEW x \in Xids, NEW S \in SUBSET Slots, NEW N \in SUBSET Slots,
         NEW R \in SUBSET Slots, NEW K \in SUBSET Slots, NEW steps \in Seq(Step1),
         Finishes(x, S, N, R, K, steps)
  PROVE  MvccInv'
<1> USE XidFacts
<1>f. /\ Writes(x, S, N) /\ undo'[x] = undo[x] \o steps /\ op'[x] = Idle
      /\ \A k \in DOMAIN steps : steps[k].revive \subseteq R /\ steps[k].kill \subseteq K
      /\ \A k, l \in DOMAIN steps : k # l => steps[k].revive \cap steps[l].revive = {}
      /\ \A i \in R : \E k \in DOMAIN steps : i \in steps[k].revive
      /\ \A i \in K : \E k \in DOMAIN steps : i \in steps[k].kill
      /\ \A i \in R : /\ ver'[i].slot = "live" /\ ver'[i].xmax = x /\ ~Revives(x, i)
                      /\ ver'[i].xmin = x => Kills(x, i)
      /\ \A i \in K : ver'[i].slot = "live" /\ ver'[i].xmin = x
      /\ \A i \in Slots : ver'[i].slot = "live" =>
           /\ ver'[i].xmin = x => ver'[i].xmax \in {NoXid, x} /\ (Kills(x, i) \/ i \in K)
           /\ ver'[i].xmax = x => Revives(x, i) \/ i \in R
  BY DEF Finishes
<1> USE <1>f
<1>a. TypeInv /\ UndoOK
  BY DEF MvccInv
<1>1. /\ ClosedOK' /\ VersionXids' /\ SnapsOK' /\ VacuumOK' /\ AbortLeavesNothing'
      /\ \A y \in Xids \ {x} : StatementOf(y)'
      /\ \A y \in Active \ {x} : TargetsOf(y)' /\ OrderOf(y)' /\ MarksOf(y)'
      /\ Active' = Active /\ x \in Active
  BY WriteOthers
<1>2. StatementOf(x)'
  BY DEF StatementOf
<1> DEFINE u == undo[x]
<1>3. TargetsOf(x) /\ OrderOf(x) /\ MarksOf(x)
  BY <1>a, <1>1 DEF UndoOK
<1>4. u \in Seq(Step1) /\ undo'[x] = u \o steps
  BY <1>a DEF TypeInv
<1>5. /\ \A k \in DOMAIN (u \o steps) :
              \/ k \in DOMAIN u /\ (u \o steps)[k] = u[k]
              \/ \E l \in DOMAIN steps : k = Len(u) + l /\ (u \o steps)[k] = steps[l]
      /\ \A k \in DOMAIN u : /\ k \in DOMAIN (u \o steps) /\ (u \o steps)[k] = u[k]
                             /\ k <= Len(u)
      /\ \A l \in DOMAIN steps : /\ Len(u) + l \in DOMAIN (u \o steps)
                                 /\ (u \o steps)[Len(u) + l] = steps[l] /\ l \in Nat \ {0}
      /\ Len(u) \in Nat /\ DOMAIN u \subseteq Nat
  <2> HIDE DEF u
  <2>1. u \in Seq(Step1) /\ steps \in Seq(Step1)
    BY <1>4
  <2> QED BY ONLY <2>1, ConcatFact
<1>6. \A k \in DOMAIN u : u[k].kill \subseteq Slots /\ u[k].revive \subseteq Slots
  BY <1>a, TypeFacts
<1>7. \A i \in Slots : /\ Kills(x, i) <=> \E k \in DOMAIN u : i \in u[k].kill
                       /\ Revives(x, i) <=> \E k \in DOMAIN u : i \in u[k].revive
  BY DEF Kills, Revives
<1> DEFINE v == undo'[x]
<1>8. /\ \A i \in Slots : Kills(x, i)' <=> \E k \in DOMAIN v : i \in v[k].kill
      /\ \A i \in Slots : Revives(x, i)' <=> \E k \in DOMAIN v : i \in v[k].revive
  BY DEF Kills, Revives
<1>9. /\ \A k \in DOMAIN v : \/ k \in DOMAIN u /\ v[k] = u[k]
                             \/ \E l \in DOMAIN steps : k = Len(u) + l /\ v[k] = steps[l]
      /\ \A k \in DOMAIN u : k \in DOMAIN v /\ v[k] = u[k] /\ k <= Len(u)
      /\ \A l \in DOMAIN steps : Len(u) + l \in DOMAIN v /\ v[Len(u) + l] = steps[l]
  BY <1>4, <1>5
<1> HIDE DEF u, v
<1>10. \A i \in Slots : /\ Kills(x, i) \/ i \in K => Kills(x, i)'
                        /\ Revives(x, i) \/ i \in R => Revives(x, i)'
  <2> SUFFICES ASSUME NEW i \in Slots
               PROVE  /\ Kills(x, i) \/ i \in K => Kills(x, i)'
                      /\ Revives(x, i) \/ i \in R => Revives(x, i)'
    OBVIOUS
  <2>1. Kills(x, i) => Kills(x, i)'
    BY <1>7, <1>8, <1>9
  <2>2. Revives(x, i) => Revives(x, i)'
    BY <1>7, <1>8, <1>9
  <2>3. ASSUME i \in K PROVE Kills(x, i)'
    <3>1. PICK l \in DOMAIN steps : i \in steps[l].kill
      BY <2>3
    <3>2. Len(u) + l \in DOMAIN v /\ i \in v[Len(u) + l].kill
      BY <1>9, <3>1
    <3> QED BY <1>8, <3>2
  <2>4. ASSUME i \in R PROVE Revives(x, i)'
    <3>1. PICK l \in DOMAIN steps : i \in steps[l].revive
      BY <2>4
    <3>2. Len(u) + l \in DOMAIN v /\ i \in v[Len(u) + l].revive
      BY <1>9, <3>1
    <3> QED BY <1>8, <3>2
  <2> QED BY <2>1, <2>2, <2>3, <2>4
<1>11. MarksOf(x)'
  BY <1>10 DEF MarksOf
<1>12. \A i \in Slots : ver[i].slot = "live" => /\ ver'[i].slot = "live"
                                                /\ ver'[i].xmin = ver[i].xmin
                                                /\ ver[i].xmax = x => ver'[i].xmax = x
  BY DEF Writes, MayWrite, Unstamped, Wrote
<1>13. \A k \in DOMAIN u : /\ \A i \in u[k].revive : ver[i].slot = "live" /\ ver[i].xmax = x
                           /\ \A i \in u[k].kill : ver[i].slot = "live" /\ ver[i].xmin = x
  BY <1>3 DEF TargetsOf, u
<1>14. \A k \in DOMAIN u : /\ \A i \in u[k].revive : ver'[i].slot = "live" /\ ver'[i].xmax = x
                           /\ \A i \in u[k].kill : ver'[i].slot = "live" /\ ver'[i].xmin = x
  BY <1>6, <1>12, <1>13
<1>15. \A k \in DOMAIN v : /\ \A i \in v[k].revive : ver'[i].slot = "live" /\ ver'[i].xmax = x
                           /\ \A i \in v[k].kill : ver'[i].slot = "live" /\ ver'[i].xmin = x
  <2> SUFFICES ASSUME NEW k \in DOMAIN v
               PROVE  /\ \A i \in v[k].revive : ver'[i].slot = "live" /\ ver'[i].xmax = x
                      /\ \A i \in v[k].kill : ver'[i].slot = "live" /\ ver'[i].xmin = x
    OBVIOUS
  <2>1. CASE k \in DOMAIN u /\ v[k] = u[k]
    BY <1>14, <2>1
  <2>2. CASE \E l \in DOMAIN steps : k = Len(u) + l /\ v[k] = steps[l]
    <3>1. PICK l \in DOMAIN steps : v[k] = steps[l]
      BY <2>2
    <3>2. v[k].revive \subseteq R /\ v[k].kill \subseteq K
      BY <3>1
    <3> QED BY <3>2
  <2> QED BY <1>9, <2>1, <2>2
<1>16. TargetsOf(x)'
  BY <1>15 DEF TargetsOf, v
<1>17. ASSUME NEW k \in DOMAIN v, NEW i \in v[k].revive
       PROVE  /\ \A l \in DOMAIN v : l # k => i \notin v[l].revive
              /\ ver'[i].xmin = x => \E l \in DOMAIN v : l < k /\ i \in v[l].kill
  <2>1. CASE k \in DOMAIN u /\ v[k] = u[k]
    <3>1. /\ \A l \in DOMAIN u : l # k => i \notin u[l].revive
          /\ ver[i].xmin = x => \E l \in DOMAIN u : l < k /\ i \in u[l].kill
      BY <1>3, <2>1 DEF OrderOf, u
    <3>2. i \in Slots /\ Revives(x, i)
      BY <1>6, <1>7, <2>1
    <3>3. i \notin R
      BY <3>2
    <3>4. ver'[i].xmin = x => ver[i].xmin = x
      BY <1>12, <1>13, <2>1, <3>2
    <3>5. \A l \in DOMAIN steps : i \notin steps[l].revive
      BY <3>3
    <3>6. \A l \in DOMAIN v : l # k => i \notin v[l].revive
      BY <1>9, <3>1, <3>5
    <3>7. ver'[i].xmin = x => \E l \in DOMAIN v : l < k /\ i \in v[l].kill
      BY <1>9, <3>1, <3>4
    <3> QED BY <3>6, <3>7
  <2>2. CASE \E l \in DOMAIN steps : k = Len(u) + l /\ v[k] = steps[l]
    <3>1. PICK l \in DOMAIN steps : k = Len(u) + l /\ v[k] = steps[l]
      BY <2>2
    <3>2. i \in R /\ ~Revives(x, i)
      BY <3>1
    <3>3. \A m \in DOMAIN u : i \notin u[m].revive /\ m < k
      BY <1>5, <1>7, <1>9, <3>1, <3>2
    <3>4. \A m \in DOMAIN v : m # k => i \notin v[m].revive
      <4> SUFFICES ASSUME NEW m \in DOMAIN v, m # k, i \in v[m].revive PROVE FALSE
        OBVIOUS
      <4>1. PICK p \in DOMAIN steps : m = Len(u) + p /\ v[m] = steps[p]
        BY <1>9, <3>3
      <4>2. p # l /\ i \in steps[p].revive /\ i \in steps[l].revive
        BY <3>1, <4>1
      <4> QED BY <4>2
    <3>5. ver'[i].xmin = x => \E m \in DOMAIN u : i \in u[m].kill
      BY <1>7, <3>2
    <3> QED BY <1>9, <3>3, <3>4, <3>5
  <2> QED BY <1>9, <2>1, <2>2
<1>18. OrderOf(x)'
  BY <1>17 DEF OrderOf, v
<1>19. UndoOK'
  BY <1>1, <1>11, <1>16, <1>18 DEF UndoOK
<1>20. StatementOK'
  BY <1>1, <1>2 DEF StatementOK
<1> QED BY <1>1, <1>19, <1>20 DEF MvccInv

\* A statement goes on: its undo steps are still to come.
LEMMA GoOnInv ==
  ASSUME MvccInv, TypeInv', NEW x \in Xids, NEW S \in SUBSET Slots, NEW N \in SUBSET Slots,
         Writes(x, S, N), undo' = undo, StatementOf(x)', MarksOf(x)'
  PROVE  MvccInv'
<1> USE XidFacts
<1>a. TypeInv /\ UndoOK
  BY DEF MvccInv
<1>1. /\ ClosedOK' /\ VersionXids' /\ SnapsOK' /\ VacuumOK' /\ AbortLeavesNothing'
      /\ \A y \in Xids \ {x} : StatementOf(y)'
      /\ \A y \in Active \ {x} : TargetsOf(y)' /\ OrderOf(y)' /\ MarksOf(y)'
      /\ Active' = Active /\ x \in Active
  BY WriteOthers
<1>2. TargetsOf(x) /\ OrderOf(x)
  BY <1>a, <1>1 DEF UndoOK
<1>3. \A k \in DOMAIN undo[x] : undo[x][k].kill \subseteq Slots /\ undo[x][k].revive \subseteq Slots
  BY <1>a, TypeFacts
<1>4. \A i \in Slots : ver[i].slot = "live" => /\ ver'[i].slot = "live"
                                               /\ ver'[i].xmin = ver[i].xmin
                                               /\ ver[i].xmax = x => ver'[i].xmax = x
  BY DEF Writes, MayWrite, Unstamped, Wrote
<1>5. TargetsOf(x)'
  BY <1>2, <1>3, <1>4 DEF TargetsOf
<1>6. \A k \in DOMAIN undo[x] : \A i \in undo[x][k].revive : ver'[i].xmin = ver[i].xmin
  BY <1>2, <1>3, <1>4 DEF TargetsOf
<1>7. OrderOf(x)'
  BY <1>2, <1>6 DEF OrderOf
<1> QED BY <1>1, <1>5, <1>7 DEF MvccInv, UndoOK, StatementOK

----------------------------------------------------------------------------
(* The write paths *)

LEMMA FreeSlotsFact == \A n \in FreeSlots : n \in Slots /\ ver[n].slot = "unused"
<1> SUFFICES ASSUME NEW n \in FreeSlots PROVE n \in Slots /\ ver[n].slot = "unused"
  OBVIOUS
<1> DEFINE free == {i \in Slots : ver[i].slot = "unused"}
<1>1. free # {} /\ n = Least(free, NoXid)
  BY DEF FreeSlots
<1>2. free \in SUBSET Nat /\ NoXid \in Nat
  BY XidFacts
<1> HIDE DEF free
<1>3. n \in free
  BY <1>1, <1>2, LeastFact
<1> QED BY <1>3 DEF free

VerType == [row : Rows, xmin : Xids \cup {NoXid}, xmax : Xids \cup {NoXid},
            hint : BOOLEAN, slot : {"live", "dead", "unused"}]
OpType  == [path : Paths \cup {"idle"},
            stage : {"none", "lock", "check", "stamp", "insert", "link"},
            todo : Seq(Slots), old : Seq(Slots), new : Seq(Slots)]

\* Types, of what a write changes.
LEMMA WriteType ==
  ASSUME TypeInv, ver' \in [Slots -> VerType], undo' \in [Xids -> Seq(Step1)],
         op' \in [Xids -> OpType], intent' \in [Xids -> [Rows -> {"keep", "put", "delete"}]],
         UNCHANGED <<load, txnVars, lock, reader, vacuum>>
  PROVE  TypeInv'
BY Zenon DEF TypeInv, VerType, OpType, txnVars

LEMMA FinishFact ==
  ASSUME TypeInv, NEW x \in Xids, NEW steps \in Seq(Step1), NEW rows,
         NEW write \in {"put", "delete"}, Finish(x, steps, rows, write)
  PROVE  /\ undo' \in [Xids -> Seq(Step1)] /\ op' \in [Xids -> OpType]
         /\ intent' \in [Xids -> [Rows -> {"keep", "put", "delete"}]]
         /\ undo'[x] = undo[x] \o steps /\ op'[x] = Idle
         /\ \A y \in Xids \ {x} : undo'[y] = undo[y] /\ op'[y] = op[y]
         /\ intent'[x] = [q \in Rows |-> IF q \in rows THEN write ELSE intent[x][q]]
         /\ \A y \in Xids \ {x} : intent'[y] = intent[y]
<1>1. undo \in [Xids -> Seq(Step1)] /\ op \in [Xids -> OpType]
      /\ intent \in [Xids -> [Rows -> {"keep", "put", "delete"}]]
  BY DEF TypeInv, OpType
<1>2. undo' = [undo EXCEPT ![x] = undo[x] \o steps] /\ op' = [op EXCEPT ![x] = Idle]
  BY DEF Finish
<1>3. intent' = [intent EXCEPT ![x] = [r \in Rows |-> IF r \in rows THEN write ELSE intent[x][r]]]
  BY DEF Finish
<1>4. undo[x] \o steps \in Seq(Step1)
  BY <1>1
<1>5. Idle \in OpType
  BY DEF Idle, OpType
<1>6. [r \in Rows |-> IF r \in rows THEN write ELSE intent[x][r]] \in [Rows -> {"keep", "put", "delete"}]
  BY <1>1
<1> QED BY <1>1, <1>2, <1>3, <1>4, <1>5, <1>6

LEMMA GoToFact ==
  ASSUME TypeInv, NEW x \in Xids, NEW stage \in {"lock", "check", "stamp", "insert", "link"},
         NEW todo \in Seq(Slots), NEW new \in Seq(Slots), GoTo(x, stage, todo, new)
  PROVE  /\ op' \in [Xids -> OpType]
         /\ op'[x].path = op[x].path /\ op'[x].stage = stage /\ op'[x].todo = todo
         /\ op'[x].old = op[x].old /\ op'[x].new = new
         /\ \A y \in Xids \ {x} : op'[y] = op[y]
<1>1. op \in [Xids -> OpType]
  BY DEF TypeInv, OpType
<1>2. op' = [op EXCEPT ![x] = [[[op[x] EXCEPT !.stage = stage] EXCEPT !.todo = todo]
                                 EXCEPT !.new = new]]
  BY <1>1 DEF GoTo
<1>3. op[x] \in OpType
  BY <1>1
<1> DEFINE o == [[[op[x] EXCEPT !.stage = stage] EXCEPT !.todo = todo] EXCEPT !.new = new]
<1>4. /\ o \in OpType /\ o.path = op[x].path /\ o.stage = stage /\ o.todo = todo
      /\ o.old = op[x].old /\ o.new = new
  BY <1>3 DEF OpType
<1> HIDE DEF o
<1>5. op' = [op EXCEPT ![x] = o]
  BY <1>2 DEF o
<1> QED BY <1>1, <1>4, <1>5

\* The row of one target.
LEMMA RowsOfFact ==
  ASSUME NEW x, NEW i, op[x].old = <<i>>
  PROVE  RowsOf(op[x].old) = {ver[i].row}
<1>1. DOMAIN <<i>> = {1} /\ <<i>>[1] = i
  OBVIOUS
<1> QED BY <1>1 DEF RowsOf

\* The statement in progress and its target.
LEMMA TargetFact ==
  ASSUME MvccInv, NEW x \in Xids, op[x].path # "idle", op[x].path # "insert"
  PROVE  /\ state[x] = "active" /\ x \in Active /\ op[x].path \in load.paths
         /\ op[x].stage \in Stages(op[x].path)
         /\ \E i \in Slots :
              /\ op[x].old = <<i>>
              /\ op[x].stage # "link" => op[x].todo = <<i>> /\ op[x].new = <<>>
              /\ TargetOK(x, i)
<1>1. op[x] # Idle
  BY DEF Idle
<1>2. StatementOf(x)
  BY DEF MvccInv, StatementOK
<1> QED BY <1>1, <1>2 DEF StatementOf, Active

\* Row locks keep two cross-page updates, and a cross-page update and any other
\* path that may run beside it, off one slot.
LEMMA NoCrossing ==
  ASSUME MvccInv, Orderly(load), NEW x \in Xids, NEW i \in Slots,
         op[x].path \in load.paths, op[x].path # "insert", op[x].path \in Paths,
         op[x].stage # "lock", TargetOK(x, i), NEW y \in Xids \ {x},
         op[y].path = "hotXpage", op[y].stage \in {"insert", "link"}
  PROVE  op[y].old # <<i>>
<1> SUFFICES ASSUME op[y].old = <<i>> PROVE FALSE
  OBVIOUS
<1>1. /\ op[y].path \in load.paths
      /\ \E j \in Slots : op[y].old = <<j>> /\ TargetOK(y, j)
  BY TargetFact
<1>2. TargetOK(y, i)
  BY <1>1
<1>3. lock[i] = y
  BY <1>2 DEF TargetOK, Locked
<1>4. load.paths \cap Many = {}
  BY <1>1 DEF Orderly
<1>5. op[x].path \in Locked
  BY <1>4 DEF Many, Locked, Paths
<1>6. lock[i] = x
  BY <1>5 DEF TargetOK
<1> QED BY <1>3, <1>6

\* One stamp and one new version, field by field.
LEMMA StampFact ==
  ASSUME TypeInv, NEW x \in Xids, NEW i \in Slots
  PROVE  /\ Stamped(ver, i, x) \in [Slots -> VerType]
         /\ \A j \in Slots \ {i} : Stamped(ver, i, x)[j] = ver[j]
         /\ Stamped(ver, i, x)[i].slot = ver[i].slot /\ Stamped(ver, i, x)[i].xmax = x
         /\ Stamped(ver, i, x)[i].xmin = ver[i].xmin /\ Stamped(ver, i, x)[i].row = ver[i].row
         /\ Stamped(ver, i, x)[i].hint = ver[i].hint
<1>1. ver \in [Slots -> VerType]
  BY DEF TypeInv, VerType
<1>2. Stamped(ver, i, x) = [ver EXCEPT ![i] = [ver[i] EXCEPT !.xmax = x]]
  BY <1>1 DEF Stamped
<1>3. ver[i] \in VerType
  BY <1>1
<1> DEFINE v == [ver[i] EXCEPT !.xmax = x]
<1>4. /\ v \in VerType /\ v.slot = ver[i].slot /\ v.xmax = x /\ v.xmin = ver[i].xmin
      /\ v.row = ver[i].row /\ v.hint = ver[i].hint
  BY <1>3 DEF VerType
<1> HIDE DEF v
<1> QED BY <1>1, <1>2, <1>4 DEF v

LEMMA NewFact ==
  ASSUME NEW vs \in [Slots -> VerType], NEW x \in Xids, NEW n \in Slots, NEW r \in Rows
  PROVE  /\ NewVersion(vs, n, r, x) \in [Slots -> VerType]
         /\ \A j \in Slots \ {n} : NewVersion(vs, n, r, x)[j] = vs[j]
         /\ NewVersion(vs, n, r, x)[n] = [row |-> r, xmin |-> x, xmax |-> NoXid,
                                          hint |-> FALSE, slot |-> "live"]
<1> DEFINE v == [row |-> r, xmin |-> x, xmax |-> NoXid, hint |-> FALSE, slot |-> "live"]
<1>1. v \in VerType
  BY DEF VerType
<1>2. NewVersion(vs, n, r, x) = [vs EXCEPT ![n] = v]
  BY DEF NewVersion
<1> HIDE DEF v
<1>3. NewVersion(vs, n, r, x)[n] = v
  BY <1>2
<1>4. /\ NewVersion(vs, n, r, x) \in [Slots -> VerType]
      /\ \A j \in Slots \ {n} : NewVersion(vs, n, r, x)[j] = vs[j]
  BY <1>1, <1>2
<1> QED BY <1>3, <1>4 DEF v

LEMMA InsertRowInv ==
  ASSUME MvccInv, Orderly(load), NEW x \in Xids, InsertRow(x), UNCHANGED load
  PROVE  /\ MvccInv'
         /\ \E r \in Rows, n \in Slots :
              /\ \A i \in Slots : ver[i].slot = "live" => ver[i].row # r
              /\ Ends(x, r, {}, {n}, {}, {n}, <<KillStep(n)>>, "put")
<1> USE XidFacts
<1>a. TypeInv /\ UndoOK /\ ClosedOK /\ VersionXids
  BY DEF MvccInv
<1>b. ver \in [Slots -> VerType]
  BY <1>a DEF TypeInv, VerType
<1>1. op[x].path = "insert" /\ op[x].stage = "insert" /\ op[x] # Idle
  BY DEF InsertRow, At, Idle
<1>2. state[x] = "active" /\ x \in Active /\ "insert" \in load.paths
  <2>1. StatementOf(x)
    BY DEF MvccInv, StatementOK
  <2> QED BY <1>1, <2>1 DEF StatementOf, Active
<1>3. PICK r \in Rows, n \in FreeSlots :
        /\ ver' = NewVersion(ver, n, r, x) /\ Finish(x, <<KillStep(n)>>, {r}, "put")
        /\ \A i \in Slots : ver[i].slot = "live" => ver[i].row # r
  BY DEF InsertRow
<1>4. n \in Slots /\ ver[n].slot = "unused"
  BY FreeSlotsFact
<1> DEFINE steps == <<KillStep(n)>>
<1>5. /\ steps \in Seq(Step1) /\ DOMAIN steps = {1}
      /\ steps[1].kill = {n} /\ steps[1].revive = {}
  BY <1>4 DEF KillStep, Step1
<1>6. Finish(x, steps, {r}, "put")
  BY <1>3
<1> HIDE DEF steps
<1>7. /\ undo' \in [Xids -> Seq(Step1)] /\ op' \in [Xids -> OpType]
      /\ intent' \in [Xids -> [Rows -> {"keep", "put", "delete"}]]
      /\ undo'[x] = undo[x] \o steps /\ op'[x] = Idle
      /\ \A y \in Xids \ {x} : undo'[y] = undo[y] /\ op'[y] = op[y]
      /\ intent'[x] = [q \in Rows |-> IF q \in {r} THEN "put" ELSE intent[x][q]]
      /\ \A y \in Xids \ {x} : intent'[y] = intent[y]
  BY <1>a, <1>5, <1>6, FinishFact
<1>8. /\ ver' \in [Slots -> VerType] /\ \A j \in Slots \ {n} : ver'[j] = ver[j]
      /\ ver'[n] = [row |-> r, xmin |-> x, xmax |-> NoXid, hint |-> FALSE, slot |-> "live"]
  BY <1>b, <1>3, <1>4, NewFact
<1>9. UNCHANGED <<load, txnVars, lock, reader, vacuum>>
  BY DEF InsertRow
<1>10. TypeInv'
  BY <1>a, <1>7, <1>8, <1>9, WriteType
<1>11. "delete" \notin load.paths
  BY <1>2 DEF Orderly
<1>12. Writes(x, {}, {n})
  <2>1. MayWrite(x, {}, {n})
    BY <1>2, <1>4 DEF MayWrite
  <2>2. Wrote(x, {}, {n})
    BY <1>8 DEF Wrote
  <2>3. \A j \in Slots : ver'[j].hint => "delete" \in load.paths
    BY <1>a, <1>8 DEF VersionXids
  <2> QED BY <1>7, <1>9, <1>11, <2>1, <2>2, <2>3 DEF Writes
<1>13. MarksOf(x)
  BY <1>a, <1>2 DEF UndoOK
<1>14. \A j \in Slots : ~Unlinked(x, j) /\ ~Superseded(x, j)
  BY <1>1 DEF Unlinked, Superseded
<1>15. \A i \in Slots : ver'[i].slot = "live" =>
           /\ ver'[i].xmin = x => ver'[i].xmax \in {NoXid, x} /\ (Kills(x, i) \/ i \in {n})
           /\ ver'[i].xmax = x => Revives(x, i) \/ i \in {}
  BY <1>2, <1>8, <1>13, <1>14 DEF MarksOf
<1>16. ver'[n].slot = "live" /\ ver'[n].xmin = x
  BY <1>8
<1>17. Finishes(x, {}, {n}, {}, {n}, steps)
  BY <1>5, <1>7, <1>12, <1>15, <1>16 DEF Finishes
<1>18. Ends(x, r, {}, {n}, {}, {n}, steps, "put")
  BY <1>5, <1>7, <1>8, <1>17 DEF Ends, InsertRow
<1>19. MvccInv'
  BY <1>4, <1>5, <1>10, <1>17, FinishInv
<1> QED BY <1>3, <1>4, <1>18, <1>19 DEF steps

\* What the undo log of a transaction that is not rolling back says of the
\* versions.
LEMMA OwnMarks ==
  ASSUME MvccInv, NEW x \in Xids, state[x] = "active"
  PROVE  /\ \A i \in Slots : ver[i].xmax = NoXid => ~Revives(x, i)
         /\ \A i \in Slots : ver[i].slot = "live" =>
              /\ ver[i].xmin = x => /\ ver[i].xmax \in {NoXid, x}
                                    /\ Kills(x, i) \/ Unlinked(x, i)
              /\ ver[i].xmax = x => Revives(x, i) \/ Superseded(x, i)
<1>1. x \in Active
  BY DEF Active
<1>2. TargetsOf(x) /\ MarksOf(x)
  BY <1>1 DEF MvccInv, UndoOK
<1>3. \A i \in Slots : ver[i].xmax = NoXid => ~Revives(x, i)
  BY <1>2, XidFacts DEF TargetsOf, Revives
<1> QED BY <1>2, <1>3 DEF MarksOf

LEMMA StepFact ==
  ASSUME NEW i \in Slots, NEW n \in Slots
  PROVE  /\ <<ReviveStep(i)>> \in Seq(Step1) /\ DOMAIN <<ReviveStep(i)>> = {1}
         /\ <<ReviveStep(i)>>[1].revive = {i} /\ <<ReviveStep(i)>>[1].kill = {}
         /\ <<[kill |-> {n}, revive |-> {i}]>> \in Seq(Step1)
         /\ <<ReviveStep(i), KillStep(n)>> \in Seq(Step1)
         /\ DOMAIN <<ReviveStep(i), KillStep(n)>> = {1, 2}
         /\ <<ReviveStep(i), KillStep(n)>>[1].revive = {i}
         /\ <<ReviveStep(i), KillStep(n)>>[1].kill = {}
         /\ <<ReviveStep(i), KillStep(n)>>[2].revive = {}
         /\ <<ReviveStep(i), KillStep(n)>>[2].kill = {n}
<1>1. ReviveStep(i) \in Step1 /\ KillStep(n) \in Step1 /\ [kill |-> {n}, revive |-> {i}] \in Step1
  BY DEF ReviveStep, KillStep, Step1
<1>2. /\ ReviveStep(i).revive = {i} /\ ReviveStep(i).kill = {}
      /\ KillStep(n).revive = {} /\ KillStep(n).kill = {n}
  BY DEF ReviveStep, KillStep
<1> HIDE DEF ReviveStep, KillStep
<1> QED BY <1>1, <1>2

\* x stamps its target, which is there and unstamped.
LEMMA StampWrites ==
  ASSUME MvccInv, Orderly(load), NEW x \in Xids, NEW i \in Slots, NEW N \in SUBSET Slots,
         op[x].path \in load.paths \cap Paths, op[x].path # "insert", op[x].stage # "lock",
         state[x] = "active", TargetOK(x, i), Unstamped(i),
         N \subseteq FreeSlots, Wrote(x, {i}, N),
         \A j \in Slots : ver'[j].hint => "delete" \in load.paths,
         N # {} => "delete" \notin load.paths,
         \A y \in Xids \ {x} : undo'[y] = undo[y] /\ op'[y] = op[y],
         UNCHANGED <<load, txnVars, lock, reader, vacuum>>
  PROVE  Writes(x, {i}, N)
<1>1. \A y \in Xids \ {x} : op[y].path = "hotXpage" /\ op[y].stage \in {"insert", "link"}
                              => op[y].old # <<i>>
  BY NoCrossing
<1>2. ver[i].xmin \notin Active \ {x}
  BY DEF TargetOK
<1>3. MayWrite(x, {i}, N)
  BY <1>1, <1>2, FreeSlotsFact DEF MayWrite
<1> QED BY <1>3 DEF Writes

LEMMA DeleteStampInv ==
  ASSUME MvccInv, Orderly(load), NEW x \in Xids, DeleteStamp(x), UNCHANGED load
  PROVE  /\ MvccInv'
         /\ \E i \in Slots : /\ op[x].old = <<i>> /\ Unstamped(i)
                            /\ Ends(x, ver[i].row, {i}, {}, {i}, {}, <<ReviveStep(i)>>, "delete")
<1> USE XidFacts
<1>a. TypeInv /\ VersionXids
  BY DEF MvccInv
<1>1. op[x].path = "delete" /\ op[x].stage = "stamp"
  BY DEF DeleteStamp, At
<1>2. PICK i \in Slots : /\ op[x].old = <<i>> /\ op[x].todo = <<i>> /\ TargetOK(x, i)
                         /\ state[x] = "active" /\ "delete" \in load.paths
  BY <1>1, TargetFact
<1>3. Head(op[x].todo) = i
  BY <1>2
<1>4. /\ Unstamped(i) /\ ver' = [Stamped(ver, i, x) EXCEPT ![i].hint = TRUE]
      /\ Finish(x, <<ReviveStep(i)>>, RowsOf(op[x].old), "delete")
      /\ UNCHANGED <<load, txnVars, lock, reader, vacuum>>
  BY <1>3 DEF DeleteStamp
<1> DEFINE steps == <<ReviveStep(i)>>
<1>5. /\ steps \in Seq(Step1) /\ DOMAIN steps = {1}
      /\ steps[1].revive = {i} /\ steps[1].kill = {}
  BY StepFact
<1>6. Finish(x, steps, RowsOf(op[x].old), "delete")
  BY <1>4
<1> HIDE DEF steps
<1>7. /\ undo' \in [Xids -> Seq(Step1)] /\ op' \in [Xids -> OpType]
      /\ intent' \in [Xids -> [Rows -> {"keep", "put", "delete"}]]
      /\ undo'[x] = undo[x] \o steps /\ op'[x] = Idle
      /\ \A y \in Xids \ {x} : undo'[y] = undo[y] /\ op'[y] = op[y]
      /\ intent'[x] = [q \in Rows |-> IF q \in RowsOf(op[x].old) THEN "delete" ELSE intent[x][q]]
      /\ \A y \in Xids \ {x} : intent'[y] = intent[y]
  BY <1>a, <1>5, <1>6, FinishFact
<1>8. /\ ver' \in [Slots -> VerType] /\ \A j \in Slots \ {i} : ver'[j] = ver[j]
      /\ ver'[i].slot = ver[i].slot /\ ver'[i].xmax = x
      /\ ver'[i].xmin = ver[i].xmin /\ ver'[i].row = ver[i].row
  <2> DEFINE v == Stamped(ver, i, x)
  <2>1. /\ v \in [Slots -> VerType] /\ \A j \in Slots \ {i} : v[j] = ver[j]
        /\ v[i].slot = ver[i].slot /\ v[i].xmax = x
        /\ v[i].xmin = ver[i].xmin /\ v[i].row = ver[i].row
    BY <1>a, StampFact
  <2>2. ver' = [v EXCEPT ![i].hint = TRUE]
    BY <1>4
  <2> HIDE DEF v
  <2> DEFINE w == [v[i] EXCEPT !.hint = TRUE]
  <2>3. ver' = [v EXCEPT ![i] = w]
    BY <2>1, <2>2
  <2>4. v[i] \in VerType
    BY <2>1
  <2>5. /\ w \in VerType /\ w.slot = v[i].slot /\ w.xmax = v[i].xmax
        /\ w.xmin = v[i].xmin /\ w.row = v[i].row
    BY <2>4 DEF VerType
  <2> HIDE DEF w
  <2> QED BY <2>1, <2>3, <2>5
<1>9. TypeInv'
  BY <1>a, <1>4, <1>7, <1>8, WriteType
<1>10. Writes(x, {i}, {})
  <2>1. Wrote(x, {i}, {})
    BY <1>4, <1>8 DEF Wrote, Unstamped
  <2>2. \A j \in Slots : ver'[j].hint => "delete" \in load.paths
    BY <1>2
  <2>3. op[x].path \in load.paths \cap Paths /\ op[x].path # "insert" /\ op[x].stage # "lock"
    BY <1>1, <1>2 DEF Paths
  <2> QED BY <1>2, <1>4, <1>7, <2>1, <2>2, <2>3, StampWrites
<1>11. \A j \in Slots : ~Unlinked(x, j) /\ ~Superseded(x, j)
  BY <1>1 DEF Unlinked, Superseded
<1>12. ver[i].slot = "live" /\ ver[i].xmax = NoXid
  BY <1>4 DEF Unstamped
<1>13. Finishes(x, {i}, {}, {i}, {}, steps)
  <2>1. \A j \in Slots : ver'[j].slot = "live" =>
           /\ ver'[j].xmin = x => ver'[j].xmax \in {NoXid, x} /\ Kills(x, j)
           /\ ver'[j].xmax = x => Revives(x, j) \/ j \in {i}
    BY <1>2, <1>8, <1>11, <1>12, OwnMarks
  <2>2. ~Revives(x, i)
    BY <1>2, <1>12, OwnMarks
  <2> QED BY <1>5, <1>7, <1>8, <1>10, <1>12, <2>1, <2>2 DEF Finishes
<1>14. Ends(x, ver[i].row, {i}, {}, {i}, {}, steps, "delete")
  <2>1. seen' = seen /\ RowsOf(op[x].old) = {ver[i].row}
    BY <1>2, RowsOfFact DEF DeleteStamp
  <2> QED BY <1>5, <1>7, <1>13, <2>1 DEF Ends
<1>15. MvccInv'
  BY <1>5, <1>9, <1>13, FinishInv
<1> QED BY <1>2, <1>4, <1>14, <1>15 DEF steps

LEMMA HotUpdateInv ==
  ASSUME MvccInv, Orderly(load), NEW x \in Xids, HotUpdate(x), UNCHANGED load
  PROVE  /\ MvccInv'
         /\ \E i, n \in Slots :
              /\ op[x].old = <<i>> /\ Unstamped(i)
              /\ Ends(x, ver[i].row, {i}, {n}, {i}, {n}, <<[kill |-> {n}, revive |-> {i}]>>, "put")
<1> USE XidFacts
<1>a. TypeInv /\ VersionXids
  BY DEF MvccInv
<1>1. op[x].path = "hot" /\ op[x].stage = "stamp"
  BY DEF HotUpdate, At
<1>2. PICK i \in Slots : /\ op[x].old = <<i>> /\ op[x].todo = <<i>> /\ TargetOK(x, i)
                         /\ state[x] = "active" /\ "hot" \in load.paths
  BY <1>1, TargetFact
<1>3. Head(op[x].todo) = i
  BY <1>2
<1>4. PICK n \in FreeSlots :
        /\ ver' = NewVersion(Stamped(ver, i, x), n, ver[i].row, x)
        /\ Finish(x, <<[kill |-> {n}, revive |-> {i}]>>, RowsOf(op[x].old), "put")
  BY <1>3 DEF HotUpdate
<1>5. Unstamped(i) /\ UNCHANGED <<load, txnVars, lock, reader, vacuum>>
  BY <1>3 DEF HotUpdate
<1>6. /\ n \in Slots /\ ver[n].slot = "unused" /\ n # i
      /\ ver[i].slot = "live" /\ ver[i].xmax = NoXid
  BY <1>5, FreeSlotsFact DEF Unstamped
<1> DEFINE steps == <<[kill |-> {n}, revive |-> {i}]>>
<1>7. /\ steps \in Seq(Step1) /\ DOMAIN steps = {1}
      /\ steps[1].revive = {i} /\ steps[1].kill = {n}
  BY <1>6, StepFact
<1>8. Finish(x, steps, RowsOf(op[x].old), "put")
  BY <1>4
<1> HIDE DEF steps
<1>9. /\ undo' \in [Xids -> Seq(Step1)] /\ op' \in [Xids -> OpType]
      /\ intent' \in [Xids -> [Rows -> {"keep", "put", "delete"}]]
      /\ undo'[x] = undo[x] \o steps /\ op'[x] = Idle
      /\ \A y \in Xids \ {x} : undo'[y] = undo[y] /\ op'[y] = op[y]
      /\ intent'[x] = [q \in Rows |-> IF q \in RowsOf(op[x].old) THEN "put" ELSE intent[x][q]]
      /\ \A y \in Xids \ {x} : intent'[y] = intent[y]
  BY <1>a, <1>7, <1>8, FinishFact
<1>10. /\ ver' \in [Slots -> VerType] /\ \A j \in Slots \ {i, n} : ver'[j] = ver[j]
       /\ ver'[i].slot = ver[i].slot /\ ver'[i].xmax = x /\ ver'[i].hint = ver[i].hint
       /\ ver'[i].xmin = ver[i].xmin /\ ver'[i].row = ver[i].row
       /\ ver'[n].slot = "live" /\ ver'[n].xmin = x /\ ver'[n].xmax = NoXid /\ ~ver'[n].hint
       /\ ver'[n].row = ver[i].row
  <2> DEFINE v == Stamped(ver, i, x)
  <2>1. /\ v \in [Slots -> VerType] /\ \A j \in Slots \ {i} : v[j] = ver[j]
        /\ v[i].slot = ver[i].slot /\ v[i].xmax = x /\ v[i].hint = ver[i].hint
        /\ v[i].xmin = ver[i].xmin /\ v[i].row = ver[i].row
    BY <1>a, StampFact
  <2>2. ver' = NewVersion(v, n, ver[i].row, x) /\ ver[i].row \in Rows
    BY <1>a, <1>4, TypeFacts
  <2> HIDE DEF v
  <2>3. /\ ver' \in [Slots -> VerType] /\ \A j \in Slots \ {n} : ver'[j] = v[j]
        /\ ver'[n] = [row |-> ver[i].row, xmin |-> x, xmax |-> NoXid, hint |-> FALSE,
                      slot |-> "live"]
    BY <1>6, <2>1, <2>2, NewFact
  <2> QED BY <1>6, <2>1, <2>3
<1>11. TypeInv'
  BY <1>a, <1>5, <1>9, <1>10, WriteType
<1>12. Writes(x, {i}, {n})
  <2>1. Wrote(x, {i}, {n})
    BY <1>6, <1>10 DEF Wrote
  <2>2. \A j \in Slots : ver'[j].hint => "delete" \in load.paths
    BY <1>a, <1>10 DEF VersionXids
  <2>3. op[x].path \in load.paths \cap Paths /\ op[x].path # "insert" /\ op[x].stage # "lock"
    BY <1>1, <1>2 DEF Paths
  <2>4. "delete" \notin load.paths
    BY <1>2 DEF Orderly
  <2> QED BY <1>2, <1>5, <1>6, <1>9, <2>1, <2>2, <2>3, <2>4, StampWrites
<1>13. \A j \in Slots : ~Unlinked(x, j) /\ ~Superseded(x, j)
  BY <1>1 DEF Unlinked, Superseded
<1>14. Finishes(x, {i}, {n}, {i}, {n}, steps)
  <2>1. \A j \in Slots : ver'[j].slot = "live" =>
           /\ ver'[j].xmin = x => ver'[j].xmax \in {NoXid, x} /\ (Kills(x, j) \/ j \in {n})
           /\ ver'[j].xmax = x => Revives(x, j) \/ j \in {i}
    <3> SUFFICES ASSUME NEW j \in Slots, ver'[j].slot = "live"
          PROVE  /\ ver'[j].xmin = x => ver'[j].xmax \in {NoXid, x} /\ (Kills(x, j) \/ j \in {n})
                 /\ ver'[j].xmax = x => Revives(x, j) \/ j \in {i}
      OBVIOUS
    <3>1. ver[j].slot = "live" =>
              /\ ver[j].xmin = x => ver[j].xmax \in {NoXid, x} /\ Kills(x, j)
              /\ ver[j].xmax = x => Revives(x, j)
      BY <1>2, <1>13, OwnMarks
    <3> QED BY <1>6, <1>10, <3>1
  <2>2. ~Revives(x, i) /\ (ver'[i].xmin = x => Kills(x, i))
    BY <1>2, <1>6, <1>10, <1>13, OwnMarks
  <2> QED BY <1>6, <1>7, <1>9, <1>10, <1>12, <2>1, <2>2 DEF Finishes
<1>15. Ends(x, ver[i].row, {i}, {n}, {i}, {n}, steps, "put")
  <2>1. seen' = seen /\ RowsOf(op[x].old) = {ver[i].row}
    BY <1>2, RowsOfFact DEF HotUpdate
  <2> QED BY <1>7, <1>9, <1>10, <1>14, <2>1 DEF Ends
<1>16. MvccInv'
  BY <1>6, <1>7, <1>11, <1>14, FinishInv
<1> QED BY <1>2, <1>5, <1>6, <1>15, <1>16 DEF steps

LEMMA StampNextInv ==
  ASSUME MvccInv, Orderly(load), NEW x \in Xids, StampNext(x), UNCHANGED load
  PROVE  /\ MvccInv'
         /\ \E i \in Slots :
              /\ op[x].old = <<i>> /\ Unstamped(i)
              /\ \/ Ends(x, ver[i].row, {i}, {}, {i}, {}, <<ReviveStep(i)>>, "delete")
                 \/ /\ GoesOn(x, ver[i].row, {i}, {}) /\ op[x].path \in {"update", "updateMany"}
                    /\ op'[x].stage = "insert"
<1> USE XidFacts
<1>a. TypeInv /\ VersionXids
  BY DEF MvccInv
<1>1. op[x].path \in {"update", "deleteMany", "updateMany"} /\ op[x].stage = "stamp"
  BY DEF StampNext, At
<1>2. PICK i \in Slots : /\ op[x].old = <<i>> /\ op[x].todo = <<i>> /\ TargetOK(x, i)
                         /\ state[x] = "active" /\ op[x].path \in load.paths
  BY <1>1, TargetFact
<1>3. Head(op[x].todo) = i /\ Tail(op[x].todo) = <<>>
  BY <1>2
<1>4. /\ Unstamped(i) /\ ver' = Stamped(ver, i, x)
      /\ UNCHANGED <<load, txnVars, lock, reader, vacuum>>
  BY <1>3 DEF StampNext
<1>5. ver[i].slot = "live" /\ ver[i].xmax = NoXid
  BY <1>4 DEF Unstamped
<1>6. /\ ver' \in [Slots -> VerType] /\ \A j \in Slots \ {i} : ver'[j] = ver[j]
      /\ ver'[i].slot = ver[i].slot /\ ver'[i].xmax = x /\ ver'[i].hint = ver[i].hint
      /\ ver'[i].xmin = ver[i].xmin /\ ver'[i].row = ver[i].row
  BY <1>a, <1>4, StampFact
<1>7. Wrote(x, {i}, {})
  BY <1>5, <1>6 DEF Wrote
<1>8. \A j \in Slots : ver'[j].hint => "delete" \in load.paths
  BY <1>a, <1>6 DEF VersionXids
<1>9. op[x].path \in load.paths \cap Paths /\ op[x].path # "insert" /\ op[x].stage # "lock"
  BY <1>1, <1>2 DEF Paths
<1>10. \A j \in Slots : ~Unlinked(x, j) /\ ~Superseded(x, j)
  BY <1>1 DEF Unlinked, Superseded
<1>11. ~Revives(x, i)
  BY <1>2, <1>5, OwnMarks
<1>12. \A j \in Slots : ver'[j].slot = "live" =>
         /\ ver'[j].xmin = x => ver'[j].xmax \in {NoXid, x} /\ Kills(x, j)
         /\ ver'[j].xmax = x => Revives(x, j) \/ j = i
  BY <1>2, <1>5, <1>6, <1>10, OwnMarks
<1>b. seen' = seen /\ RowsOf(op[x].old) = {ver[i].row}
  BY <1>2, RowsOfFact DEF StampNext
<1>13. CASE op[x].path = "deleteMany"
  <2> DEFINE steps == <<ReviveStep(i)>>
  <2>1. /\ steps \in Seq(Step1) /\ DOMAIN steps = {1}
        /\ steps[1].revive = {i} /\ steps[1].kill = {}
    BY StepFact
  <2>2. [k \in DOMAIN op[x].old |-> ReviveStep(op[x].old[k])] = steps
    <3>1. DOMAIN <<i>> = {1} /\ <<i>>[1] = i
      OBVIOUS
    <3>2. [k \in DOMAIN <<i>> |-> ReviveStep(<<i>>[k])] = [k \in {1} |-> ReviveStep(i)]
      BY <3>1
    <3>3. [k \in {1} |-> ReviveStep(i)] = <<ReviveStep(i)>>
      OBVIOUS
    <3> QED BY <1>2, <3>2, <3>3
  <2>3. Finish(x, steps, RowsOf(op[x].old), "delete")
    BY <1>3, <1>13, <2>2 DEF StampNext
  <2> HIDE DEF steps
  <2>4. /\ undo' \in [Xids -> Seq(Step1)] /\ op' \in [Xids -> OpType]
        /\ intent' \in [Xids -> [Rows -> {"keep", "put", "delete"}]]
        /\ undo'[x] = undo[x] \o steps /\ op'[x] = Idle
        /\ \A y \in Xids \ {x} : undo'[y] = undo[y] /\ op'[y] = op[y]
        /\ intent'[x] = [q \in Rows |-> IF q \in RowsOf(op[x].old) THEN "delete" ELSE intent[x][q]]
        /\ \A y \in Xids \ {x} : intent'[y] = intent[y]
    BY <1>a, <2>1, <2>3, FinishFact
  <2>5. TypeInv'
    BY <1>a, <1>4, <1>6, <2>4, WriteType
  <2>6. Writes(x, {i}, {})
    BY <1>2, <1>4, <1>7, <1>8, <1>9, <2>4, StampWrites
  <2>7. Finishes(x, {i}, {}, {i}, {}, steps)
    BY <1>5, <1>6, <1>11, <1>12, <2>1, <2>4, <2>6 DEF Finishes
  <2>8. Ends(x, ver[i].row, {i}, {}, {i}, {}, steps, "delete")
    BY <1>b, <2>1, <2>4, <2>7 DEF Ends
  <2>9. MvccInv'
    BY <2>1, <2>5, <2>7, FinishInv
  <2> QED BY <1>2, <1>4, <2>8, <2>9 DEF steps
<1>14. CASE op[x].path \in {"update", "updateMany"}
  <2>1. GoTo(x, "insert", <<i>>, <<>>) /\ UNCHANGED <<undo, intent>>
    BY <1>2, <1>3, <1>14 DEF StampNext
  <2>2. /\ op' \in [Xids -> OpType]
        /\ op'[x].path = op[x].path /\ op'[x].stage = "insert" /\ op'[x].todo = <<i>>
        /\ op'[x].old = <<i>> /\ op'[x].new = <<>>
        /\ \A y \in Xids \ {x} : op'[y] = op[y]
    <3>1. <<i>> \in Seq(Slots) /\ <<>> \in Seq(Slots)
      OBVIOUS
    <3>2. /\ op' \in [Xids -> OpType]
          /\ op'[x].path = op[x].path /\ op'[x].stage = "insert" /\ op'[x].todo = <<i>>
          /\ op'[x].old = op[x].old /\ op'[x].new = <<>>
          /\ \A y \in Xids \ {x} : op'[y] = op[y]
      BY ONLY <1>a, <2>1, <3>1, x \in Xids, GoToFact
    <3> QED BY <1>2, <3>2
  <2>3. TypeInv'
    <3>1. undo' \in [Xids -> Seq(Step1)] /\ intent' \in [Xids -> [Rows -> {"keep", "put", "delete"}]]
      BY <1>a, <2>1 DEF TypeInv
    <3> QED BY <1>a, <1>4, <1>6, <2>2, <3>1, WriteType
  <2>4. Writes(x, {i}, {})
    BY <1>2, <1>4, <1>7, <1>8, <1>9, <2>1, <2>2, StampWrites
  <2>5. state' = state /\ Active' = Active /\ load' = load /\ vacuum' = vacuum /\ lock' = lock
        /\ undo' = undo /\ x \in Active
    BY <1>2, <1>4, <2>1 DEF txnVars, Active
  <2>6. MarksOf(x)'
    <3>1. Superseded(x, i)'
      BY <1>14, <2>2 DEF Superseded
    <3>2. \A j \in Slots : (Kills(x, j) => Kills(x, j)') /\ (Revives(x, j) => Revives(x, j)')
      BY <2>5 DEF Kills, Revives
    <3> QED BY <1>12, <3>1, <3>2 DEF MarksOf
  <2>7. TargetOK(x, i)'
    <3>1. /\ ver[i].xmin \notin Active \ {x}
          /\ op[x].path \in Locked /\ op[x].stage # "lock" => lock[i] = x
      BY <1>2 DEF TargetOK
    <3>2. vacuum.pc # "idle" => x >= vacuum.horizon
      BY <2>5 DEF MvccInv, VacuumOK
    <3>3. ~Revives(x, i)'
      BY <1>11, <2>5 DEF Revives
    <3> QED BY <1>1, <1>5, <1>6, <1>14, <2>2, <2>5, <3>1, <3>2, <3>3 DEF TargetOK
  <2>8. StatementOf(x)'
    <3>1. op'[x].stage \in Stages(op'[x].path) /\ op'[x].path # "insert"
      BY <1>14, <2>2 DEF Stages
    <3> QED BY <1>2, <2>2, <2>5, <2>7, <3>1 DEF StatementOf, Stages
  <2>9. GoesOn(x, ver[i].row, {i}, {})
    BY <1>2, <1>b, <2>1, <2>2, <2>4 DEF GoesOn
  <2>10. MvccInv'
    BY <2>3, <2>4, <2>5, <2>6, <2>8, GoOnInv
  <2> QED BY <1>2, <1>4, <1>14, <2>2, <2>9, <2>10
<1> QED BY <1>1, <1>13, <1>14

LEMMA HotXpageCheckInv ==
  ASSUME MvccInv, Orderly(load), NEW x \in Xids, HotXpageCheck(x), UNCHANGED load
  PROVE  MvccInv'
<1> USE XidFacts
<1>a. TypeInv /\ VersionXids
  BY DEF MvccInv
<1>1. op[x].path = "hotXpage" /\ op[x].stage = "check"
  BY DEF HotXpageCheck, At
<1>2. PICK i \in Slots : /\ op[x].old = <<i>> /\ op[x].todo = <<i>> /\ TargetOK(x, i)
                         /\ state[x] = "active" /\ op[x].path \in load.paths
  BY <1>1, TargetFact
<1>3. /\ Unstamped(i) /\ GoTo(x, "insert", <<i>>, <<>>)
      /\ UNCHANGED <<load, txnVars, undo, ver, lock, reader, vacuum, histVars>>
  BY <1>2 DEF HotXpageCheck
<1>4. /\ op' \in [Xids -> OpType]
      /\ op'[x].path = "hotXpage" /\ op'[x].stage = "insert" /\ op'[x].todo = <<i>>
      /\ op'[x].old = <<i>> /\ op'[x].new = <<>>
      /\ \A y \in Xids \ {x} : op'[y] = op[y]
  <2>1. <<i>> \in Seq(Slots) /\ <<>> \in Seq(Slots)
    OBVIOUS
  <2>2. /\ op' \in [Xids -> OpType]
        /\ op'[x].path = op[x].path /\ op'[x].stage = "insert" /\ op'[x].todo = <<i>>
        /\ op'[x].old = op[x].old /\ op'[x].new = <<>>
        /\ \A y \in Xids \ {x} : op'[y] = op[y]
    BY <1>a, <1>3, <2>1, GoToFact
  <2> QED BY <1>1, <1>2, <2>2
<1>5. TypeInv'
  <2>1. /\ undo' \in [Xids -> Seq(Step1)] /\ ver' \in [Slots -> VerType]
        /\ intent' \in [Xids -> [Rows -> {"keep", "put", "delete"}]]
    BY <1>a, <1>3 DEF TypeInv, VerType, histVars
  <2> QED BY <1>a, <1>3, <1>4, <2>1, WriteType
<1>6. state' = state /\ Active' = Active /\ load' = load /\ vacuum' = vacuum /\ lock' = lock
      /\ undo' = undo /\ ver' = ver /\ x \in Active
  BY <1>2, <1>3 DEF txnVars, Active
<1>7. Writes(x, {}, {})
  <2>1. MayWrite(x, {}, {}) /\ Wrote(x, {}, {})
    BY <1>2, <1>6 DEF MayWrite, Wrote
  <2>2. \A j \in Slots : ver'[j].hint => "delete" \in load.paths
    BY <1>a, <1>6 DEF VersionXids
  <2> QED BY <1>3, <1>4, <1>6, <2>1, <2>2 DEF Writes
<1>8. MarksOf(x)'
  <2>1. \A j \in Slots : ~Unlinked(x, j) /\ ~Superseded(x, j)
    BY <1>1 DEF Unlinked, Superseded
  <2>2. \A j \in Slots : (Kills(x, j) => Kills(x, j)') /\ (Revives(x, j) => Revives(x, j)')
    BY <1>6 DEF Kills, Revives
  <2> QED BY <1>2, <1>6, <2>1, <2>2, OwnMarks DEF MarksOf
<1>9. TargetOK(x, i)'
  <2>1. /\ ver[i].slot = "live" /\ ver[i].xmin \notin Active \ {x}
        /\ vacuum.pc # "idle" => ver[i].xmax = NoXid \/ ver[i].xmax >= vacuum.horizon
        /\ lock[i] = x
    BY <1>1, <1>2 DEF TargetOK, Locked
  <2>2. ~Superseded(x, i)'
    BY <1>4 DEF Superseded
  <2>3. ver[i].xmax = NoXid
    BY <1>3 DEF Unstamped
  <2> QED BY <1>4, <1>6, <2>1, <2>2, <2>3 DEF TargetOK
<1>10. StatementOf(x)'
  <2>1. op'[x].stage \in Stages(op'[x].path) /\ op'[x].path # "insert"
    BY <1>4 DEF Stages
  <2> QED BY <1>1, <1>2, <1>4, <1>6, <1>9, <2>1 DEF StatementOf, Stages
<1> QED BY <1>5, <1>6, <1>7, <1>8, <1>10, GoOnInv

LEMMA InsertNextInv ==
  ASSUME MvccInv, Orderly(load), NEW x \in Xids, InsertNext(x), UNCHANGED load
  PROVE  /\ MvccInv'
         /\ \E i, n \in Slots :
              /\ op[x].old = <<i>>
              /\ \/ /\ op[x].path = "hotXpage" /\ GoesOn(x, ver[i].row, {}, {n})
                    /\ op'[x].stage = "link" /\ op'[x].new = <<n>>
                 \/ /\ Superseded(x, i)
                    /\ Ends(x, ver[i].row, {}, {n}, {i}, {n}, <<ReviveStep(i), KillStep(n)>>, "put")
<1> USE XidFacts
<1>a. TypeInv /\ VersionXids
  BY DEF MvccInv
<1>1. op[x].path \in {"update", "hotXpage", "updateMany"} /\ op[x].stage = "insert"
  BY DEF InsertNext, At
<1>2. PICK i \in Slots : /\ op[x].old = <<i>> /\ op[x].todo = <<i>> /\ op[x].new = <<>>
                         /\ TargetOK(x, i)
                         /\ state[x] = "active" /\ op[x].path \in load.paths
  BY <1>1, TargetFact
<1>3. /\ Head(op[x].todo) = i /\ Tail(op[x].todo) = <<>>
      /\ \A n : Append(op[x].new, n) = <<n>>
  BY <1>2
<1>4. UNCHANGED <<load, txnVars, lock, reader, vacuum>>
  BY DEF InsertNext
<1>5. PICK n \in FreeSlots :
        /\ ver' = NewVersion(ver, n, ver[i].row, x)
        /\ IF op[x].path = "hotXpage"
             THEN GoTo(x, "link", <<>>, <<n>>) /\ UNCHANGED <<undo, intent>>
             ELSE Finish(x, [k \in DOMAIN op[x].old |-> ReviveStep(op[x].old[k])] \o
                            [k \in DOMAIN <<n>> |-> KillStep(<<n>>[k])], RowsOf(op[x].old), "put")
  BY <1>3 DEF InsertNext
<1>6. /\ ver[i].slot = "live" /\ n \in Slots /\ ver[n].slot = "unused" /\ n # i
      /\ ver[i].row \in Rows /\ ver[i].xmin \notin Active \ {x}
  BY <1>a, <1>2, FreeSlotsFact, TypeFacts DEF TargetOK
<1>7. /\ ver' \in [Slots -> VerType] /\ \A j \in Slots \ {n} : ver'[j] = ver[j]
      /\ ver'[n] = [row |-> ver[i].row, xmin |-> x, xmax |-> NoXid, hint |-> FALSE,
                    slot |-> "live"]
  <2>1. ver \in [Slots -> VerType]
    BY <1>a DEF TypeInv, VerType
  <2> DEFINE nv == NewVersion(ver, n, ver[i].row, x)
  <2>2. /\ nv \in [Slots -> VerType] /\ \A j \in Slots \ {n} : nv[j] = ver[j]
        /\ nv[n] = [row |-> ver[i].row, xmin |-> x, xmax |-> NoXid, hint |-> FALSE,
                    slot |-> "live"]
    BY ONLY <1>6, <2>1, x \in Xids, NewFact
  <2> HIDE DEF nv
  <2>3. ver' = nv
    BY <1>5 DEF nv
  <2> QED BY <2>2, <2>3
<1>8. /\ ver'[n].slot = "live" /\ ver'[n].xmin = x /\ ver'[n].xmax = NoXid /\ ~ver'[n].hint
      /\ ver'[n].row = ver[i].row /\ ver'[i] = ver[i]
  BY <1>6, <1>7
<1>b. seen' = seen /\ RowsOf(op[x].old) = {ver[i].row}
  BY <1>2, RowsOfFact DEF InsertNext
<1>9. Wrote(x, {}, {n}) /\ MayWrite(x, {}, {n})
  BY <1>2, <1>6, <1>7, <1>8 DEF Wrote, MayWrite
<1>10. \A j \in Slots : ver'[j].hint => "delete" \in load.paths
  BY <1>a, <1>7, <1>8 DEF VersionXids
<1>11. "delete" \notin load.paths
  BY <1>1, <1>2 DEF Orderly
<1>12. \A j \in Slots : ~Unlinked(x, j)
  BY <1>1 DEF Unlinked
<1>13. \A j \in Slots : ver'[j].slot = "live" =>
         /\ ver'[j].xmin = x => ver'[j].xmax \in {NoXid, x} /\ (Kills(x, j) \/ j = n)
         /\ ver'[j].xmax = x => Revives(x, j) \/ Superseded(x, j)
  <2> SUFFICES ASSUME NEW j \in Slots, ver'[j].slot = "live"
               PROVE  /\ ver'[j].xmin = x => ver'[j].xmax \in {NoXid, x} /\ (Kills(x, j) \/ j = n)
                      /\ ver'[j].xmax = x => Revives(x, j) \/ Superseded(x, j)
    OBVIOUS
  <2>1. CASE j = n
    BY <1>8, <2>1
  <2>2. CASE j # n
    BY <1>2, <1>7, <1>12, <2>2, OwnMarks
  <2> QED BY <2>1, <2>2
<1>14. CASE op[x].path = "hotXpage"
  <2>1. GoTo(x, "link", <<>>, <<n>>) /\ UNCHANGED <<undo, intent>>
    BY <1>5, <1>14
  <2>2. /\ op' \in [Xids -> OpType]
        /\ op'[x].path = "hotXpage" /\ op'[x].stage = "link"
        /\ op'[x].old = <<i>> /\ op'[x].new = <<n>>
        /\ \A y \in Xids \ {x} : op'[y] = op[y]
    <3>1. <<n>> \in Seq(Slots) /\ <<>> \in Seq(Slots)
      BY <1>6
    <3>2. /\ op' \in [Xids -> OpType]
          /\ op'[x].path = op[x].path /\ op'[x].stage = "link" /\ op'[x].todo = <<>>
          /\ op'[x].old = op[x].old /\ op'[x].new = <<n>>
          /\ \A y \in Xids \ {x} : op'[y] = op[y]
      BY ONLY <1>a, <2>1, <3>1, x \in Xids, GoToFact
    <3> QED BY <1>2, <1>14, <3>2
  <2>3. TypeInv'
    <3>1. undo' \in [Xids -> Seq(Step1)] /\ intent' \in [Xids -> [Rows -> {"keep", "put", "delete"}]]
      BY <1>a, <2>1 DEF TypeInv
    <3> QED BY <1>a, <1>4, <1>7, <2>2, <3>1, WriteType
  <2>4. Writes(x, {}, {n})
    BY <1>4, <1>9, <1>10, <1>11, <2>1, <2>2 DEF Writes
  <2>5. state' = state /\ Active' = Active /\ load' = load /\ vacuum' = vacuum /\ lock' = lock
        /\ undo' = undo /\ x \in Active
    BY <1>2, <1>4, <2>1 DEF txnVars, Active
  <2>6. MarksOf(x)'
    <3>1. Unlinked(x, n)' /\ \A j \in Slots : ~Superseded(x, j)
      BY <1>14, <2>2 DEF Unlinked, Superseded
    <3>2. \A j \in Slots : (Kills(x, j) => Kills(x, j)') /\ (Revives(x, j) => Revives(x, j)')
      BY <2>5 DEF Kills, Revives
    <3> QED BY <1>13, <3>1, <3>2 DEF MarksOf
  <2>7. TargetOK(x, i)'
    <3>1. /\ vacuum.pc # "idle" => ver[i].xmax = NoXid \/ ver[i].xmax >= vacuum.horizon
          /\ lock[i] = x /\ ver[i].xmax = NoXid
      BY <1>1, <1>2, <1>14 DEF TargetOK, Locked
    <3>2. ~Superseded(x, i)'
      BY <2>2 DEF Superseded
    <3>3. \E m \in Slots \ {i} : op'[x].new = <<m>> /\ ver'[m].slot = "live" /\ ver'[m].xmin = x
      BY <1>6, <1>8, <2>2
    <3> QED BY <1>6, <1>8, <2>2, <2>5, <3>1, <3>2, <3>3 DEF TargetOK
  <2>8. StatementOf(x)'
    <3>1. op'[x].stage \in Stages(op'[x].path) /\ op'[x].path # "insert"
      BY <2>2 DEF Stages
    <3> QED BY <1>2, <1>14, <2>2, <2>5, <2>7, <3>1 DEF StatementOf, Stages
  <2>9. GoesOn(x, ver[i].row, {}, {n})
    BY <1>2, <1>8, <1>14, <1>b, <2>1, <2>2, <2>4 DEF GoesOn
  <2>10. MvccInv'
    BY <1>6, <2>3, <2>4, <2>5, <2>6, <2>8, GoOnInv
  <2> QED BY <1>2, <1>6, <1>14, <2>2, <2>9, <2>10
<1>15. CASE op[x].path # "hotXpage"
  <2> DEFINE steps == <<ReviveStep(i), KillStep(n)>>
  <2>1. /\ steps \in Seq(Step1) /\ DOMAIN steps = {1, 2}
        /\ steps[1].revive = {i} /\ steps[1].kill = {}
        /\ steps[2].revive = {} /\ steps[2].kill = {n}
    BY <1>6, StepFact
  <2>2. [k \in DOMAIN op[x].old |-> ReviveStep(op[x].old[k])] \o
        [k \in DOMAIN <<n>> |-> KillStep(<<n>>[k])] = steps
    <3>1. [k \in DOMAIN <<i>> |-> ReviveStep(<<i>>[k])] = <<ReviveStep(i)>>
      <4>1. DOMAIN <<i>> = {1} /\ <<i>>[1] = i
        OBVIOUS
      <4>2. [k \in DOMAIN <<i>> |-> ReviveStep(<<i>>[k])] = [k \in {1} |-> ReviveStep(i)]
        BY <4>1
      <4>3. [k \in {1} |-> ReviveStep(i)] = <<ReviveStep(i)>>
        OBVIOUS
      <4> QED BY <4>2, <4>3
    <3>2. [k \in DOMAIN <<n>> |-> KillStep(<<n>>[k])] = <<KillStep(n)>>
      <4>1. DOMAIN <<n>> = {1} /\ <<n>>[1] = n
        OBVIOUS
      <4>2. [k \in DOMAIN <<n>> |-> KillStep(<<n>>[k])] = [k \in {1} |-> KillStep(n)]
        BY <4>1
      <4>3. [k \in {1} |-> KillStep(n)] = <<KillStep(n)>>
        OBVIOUS
      <4> QED BY <4>2, <4>3
    <3>3. <<ReviveStep(i)>> \o <<KillStep(n)>> = steps
      <4>1. ASSUME NEW a \in Step1, NEW b \in Step1 PROVE <<a>> \o <<b>> = <<a, b>>
        <5>1. <<a>> \in Seq(Step1) /\ <<b>> \in Seq(Step1) /\ Len(<<a>>) = 1 /\ Len(<<b>>) = 1
          OBVIOUS
        <5>2. <<a>> \o <<b>> \in Seq(Step1) /\ Len(<<a>> \o <<b>>) = 2
          BY <5>1
        <5>3. (<<a>> \o <<b>>)[1] = a /\ (<<a>> \o <<b>>)[2] = b
          BY <5>1
        <5>4. <<a, b>> \in Seq(Step1) /\ Len(<<a, b>>) = 2 /\ <<a, b>>[1] = a /\ <<a, b>>[2] = b
          OBVIOUS
        <5>5. \A k \in 1 .. Len(<<a>> \o <<b>>) : (<<a>> \o <<b>>)[k] = <<a, b>>[k]
          BY <5>2, <5>3, <5>4
        <5>6. Len(<<a>> \o <<b>>) = Len(<<a, b>>)
          BY <5>2, <5>4
        <5> HIDE DEF Step1
        <5> QED BY ONLY <5>2, <5>4, <5>5, <5>6, SeqEqual
      <4>2. ReviveStep(i) \in Step1 /\ KillStep(n) \in Step1
        BY <1>6 DEF ReviveStep, KillStep, Step1
      <4> QED BY <4>1, <4>2
    <3> QED BY <1>2, <3>1, <3>2, <3>3
  <2>3. Finish(x, steps, RowsOf(op[x].old), "put")
    BY <1>5, <1>15, <2>2
  <2> HIDE DEF steps
  <2>4. /\ undo' \in [Xids -> Seq(Step1)] /\ op' \in [Xids -> OpType]
        /\ intent' \in [Xids -> [Rows -> {"keep", "put", "delete"}]]
        /\ undo'[x] = undo[x] \o steps /\ op'[x] = Idle
        /\ \A y \in Xids \ {x} : undo'[y] = undo[y] /\ op'[y] = op[y]
        /\ intent'[x] = [q \in Rows |-> IF q \in RowsOf(op[x].old) THEN "put" ELSE intent[x][q]]
        /\ \A y \in Xids \ {x} : intent'[y] = intent[y]
    BY <1>a, <2>1, <2>3, FinishFact
  <2>5. TypeInv'
    BY <1>a, <1>4, <1>7, <2>4, WriteType
  <2>6. Writes(x, {}, {n})
    BY <1>4, <1>9, <1>10, <1>11, <2>4 DEF Writes
  <2>7. Superseded(x, i) /\ \A j \in Slots : Superseded(x, j) => j = i
    BY <1>1, <1>2, <1>15 DEF Superseded
  <2>8. ver[i].xmax = x /\ ~Revives(x, i)
    BY <1>2, <2>7 DEF TargetOK
  <2>9. ver'[i].xmin = x => Kills(x, i)
    BY <1>6, <1>8, <1>13
  <2>10. Finishes(x, {}, {n}, {i}, {n}, steps)
    <3>1. ver'[i].slot = "live" /\ ver'[i].xmax = x
      BY <1>6, <1>8, <2>8
    <3>2. ver'[n].slot = "live" /\ ver'[n].xmin = x
      BY <1>8
    <3>3. /\ \A k \in DOMAIN steps : steps[k].revive \subseteq {i} /\ steps[k].kill \subseteq {n}
          /\ \A k, l \in DOMAIN steps : k # l => steps[k].revive \cap steps[l].revive = {}
          /\ \A j \in {i} : \E k \in DOMAIN steps : j \in steps[k].revive
          /\ \A j \in {n} : \E k \in DOMAIN steps : j \in steps[k].kill
      BY <2>1
    <3>4. \A j \in Slots : ver'[j].slot = "live" =>
            /\ ver'[j].xmin = x => ver'[j].xmax \in {NoXid, x} /\ (Kills(x, j) \/ j \in {n})
            /\ ver'[j].xmax = x => Revives(x, j) \/ j \in {i}
      BY <1>13, <2>7
    <3> QED BY <2>4, <2>6, <2>8, <2>9, <3>1, <3>2, <3>3, <3>4 DEF Finishes
  <2>11. Ends(x, ver[i].row, {}, {n}, {i}, {n}, steps, "put")
    BY <1>8, <1>b, <2>1, <2>4, <2>10 DEF Ends
  <2>12. MvccInv'
    BY <1>6, <2>1, <2>5, <2>10, FinishInv
  <2> QED BY <1>2, <1>6, <2>7, <2>11, <2>12 DEF steps
<1> QED BY <1>14, <1>15

LEMMA HotXpageLinkInv ==
  ASSUME MvccInv, Orderly(load), NEW x \in Xids, HotXpageLink(x), UNCHANGED load
  PROVE  /\ MvccInv'
         /\ \E i, n \in Slots :
              /\ op[x].old = <<i>> /\ Unlinked(x, n) /\ Unstamped(i)
              /\ Ends(x, ver[i].row, {i}, {}, {i}, {n}, <<ReviveStep(i), KillStep(n)>>, "put")
<1> USE XidFacts
<1>a. TypeInv /\ VersionXids
  BY DEF MvccInv
<1>1. op[x].path = "hotXpage" /\ op[x].stage = "link"
  BY DEF HotXpageLink, At
<1>2. PICK i \in Slots : /\ op[x].old = <<i>> /\ TargetOK(x, i)
                         /\ state[x] = "active" /\ op[x].path \in load.paths
  BY <1>1, TargetFact
<1>3. PICK n \in Slots \ {i} : op[x].new = <<n>> /\ ver[n].slot = "live" /\ ver[n].xmin = x
  BY <1>1, <1>2, Zenon DEF TargetOK
<1>4. Head(op[x].old) = i /\ op[x].new[1] = n
  BY <1>2, <1>3
<1>5. /\ ver' = Stamped(ver, i, x) /\ UNCHANGED <<load, txnVars, lock, reader, vacuum>>
      /\ Finish(x, <<ReviveStep(i), KillStep(n)>>, RowsOf(op[x].old), "put")
  BY <1>4 DEF HotXpageLink
<1>6. ver[i].slot = "live" /\ ver[i].xmax = NoXid /\ Unstamped(i)
  BY <1>1, <1>2 DEF TargetOK, Unstamped
<1>7. /\ ver' \in [Slots -> VerType] /\ \A j \in Slots \ {i} : ver'[j] = ver[j]
      /\ ver'[i].slot = ver[i].slot /\ ver'[i].xmax = x /\ ver'[i].hint = ver[i].hint
      /\ ver'[i].xmin = ver[i].xmin /\ ver'[i].row = ver[i].row
  BY <1>a, <1>5, StampFact
<1> DEFINE steps == <<ReviveStep(i), KillStep(n)>>
<1>8. /\ steps \in Seq(Step1) /\ DOMAIN steps = {1, 2}
      /\ steps[1].revive = {i} /\ steps[1].kill = {}
      /\ steps[2].revive = {} /\ steps[2].kill = {n}
  BY StepFact
<1>9. Finish(x, steps, RowsOf(op[x].old), "put")
  BY <1>5
<1> HIDE DEF steps
<1>10. /\ undo' \in [Xids -> Seq(Step1)] /\ op' \in [Xids -> OpType]
       /\ intent' \in [Xids -> [Rows -> {"keep", "put", "delete"}]]
       /\ undo'[x] = undo[x] \o steps /\ op'[x] = Idle
       /\ \A y \in Xids \ {x} : undo'[y] = undo[y] /\ op'[y] = op[y]
       /\ intent'[x] = [q \in Rows |-> IF q \in RowsOf(op[x].old) THEN "put" ELSE intent[x][q]]
       /\ \A y \in Xids \ {x} : intent'[y] = intent[y]
  BY <1>a, <1>8, <1>9, FinishFact
<1>11. TypeInv'
  BY <1>a, <1>5, <1>7, <1>10, WriteType
<1>12. Writes(x, {i}, {})
  <2>1. Wrote(x, {i}, {})
    BY <1>6, <1>7 DEF Wrote
  <2>2. \A j \in Slots : ver'[j].hint => "delete" \in load.paths
    BY <1>a, <1>7 DEF VersionXids
  <2>3. op[x].path \in load.paths \cap Paths /\ op[x].path # "insert" /\ op[x].stage # "lock"
    BY <1>1, <1>2 DEF Paths
  <2> QED BY <1>2, <1>5, <1>6, <1>10, <2>1, <2>2, <2>3, StampWrites
<1>13. \A j \in Slots : ~Superseded(x, j) /\ (Unlinked(x, j) => j = n)
  BY <1>1, <1>3 DEF Unlinked, Superseded
<1>14. \A j \in Slots : ver'[j].slot = "live" =>
         /\ ver'[j].xmin = x => ver'[j].xmax \in {NoXid, x} /\ (Kills(x, j) \/ j = n)
         /\ ver'[j].xmax = x => Revives(x, j) \/ j = i
  <2> SUFFICES ASSUME NEW j \in Slots, ver'[j].slot = "live"
               PROVE  /\ ver'[j].xmin = x => ver'[j].xmax \in {NoXid, x} /\ (Kills(x, j) \/ j = n)
                      /\ ver'[j].xmax = x => Revives(x, j) \/ j = i
    OBVIOUS
  <2>1. ver[j].slot = "live" =>
              /\ ver[j].xmin = x => ver[j].xmax \in {NoXid, x} /\ (Kills(x, j) \/ j = n)
              /\ ver[j].xmax = x => Revives(x, j)
    BY <1>2, <1>13, OwnMarks
  <2> QED BY <1>6, <1>7, <2>1
<1>15. ~Revives(x, i)
  BY <1>2, <1>6, OwnMarks
<1>16. Finishes(x, {i}, {}, {i}, {n}, steps)
  <2>1. ver'[i].slot = "live" /\ ver'[i].xmax = x /\ (ver'[i].xmin = x => Kills(x, i))
    BY <1>3, <1>6, <1>7, <1>14
  <2>2. ver'[n].slot = "live" /\ ver'[n].xmin = x
    BY <1>3, <1>7
  <2>3. /\ \A k \in DOMAIN steps : steps[k].revive \subseteq {i} /\ steps[k].kill \subseteq {n}
        /\ \A k, l \in DOMAIN steps : k # l => steps[k].revive \cap steps[l].revive = {}
        /\ \A j \in {i} : \E k \in DOMAIN steps : j \in steps[k].revive
        /\ \A j \in {n} : \E k \in DOMAIN steps : j \in steps[k].kill
    BY <1>8
  <2> QED BY <1>10, <1>12, <1>14, <1>15, <2>1, <2>2, <2>3 DEF Finishes
<1>17. Ends(x, ver[i].row, {i}, {}, {i}, {n}, steps, "put")
  <2>1. seen' = seen /\ RowsOf(op[x].old) = {ver[i].row}
    BY <1>2, RowsOfFact DEF HotXpageLink
  <2> QED BY <1>8, <1>10, <1>16, <2>1 DEF Ends
<1>18. MvccInv'
  BY <1>8, <1>11, <1>16, FinishInv
<1>19. Unlinked(x, n)
  BY <1>1, <1>3 DEF Unlinked
<1> QED BY <1>2, <1>6, <1>17, <1>18, <1>19 DEF steps

----------------------------------------------------------------------------
(* Steps that change no version *)

\* The parts that speak only of versions, undo logs and transactions.
LEMMA SameVersions ==
  ASSUME MvccInv, UNCHANGED <<load, nextXid, state, undo, ver>>
  PROVE  /\ VersionXids' /\ AbortLeavesNothing' /\ Active' = Active
         /\ \A x \in Active : TargetsOf(x)' /\ OrderOf(x)'
         /\ \A x \in Active : op'[x] = op[x] => MarksOf(x)'
<1>1. VersionXids' /\ AbortLeavesNothing' /\ Active' = Active
  BY DEF MvccInv, VersionXids, AbortLeavesNothing, Active
<1>2. \A x \in Active : TargetsOf(x) /\ OrderOf(x) /\ MarksOf(x)
  BY DEF MvccInv, UndoOK
<1>3. \A x \in Active : TargetsOf(x)' /\ OrderOf(x)'
  BY <1>2 DEF TargetsOf, OrderOf
<1>4. ASSUME NEW x \in Active, op'[x] = op[x] PROVE MarksOf(x)'
  <2>1. \A i \in Slots : /\ Kills(x, i)' <=> Kills(x, i)
                         /\ Revives(x, i)' <=> Revives(x, i)
                         /\ Unlinked(x, i)' <=> Unlinked(x, i)
                         /\ Superseded(x, i)' <=> Superseded(x, i)
    BY <1>4 DEF Kills, Revives, Unlinked, Superseded
  <2>2. MarksOf(x)
    BY <1>2
  <2> QED BY <2>1, <2>2 DEF MarksOf
<1> QED BY <1>1, <1>3, <1>4

\* What a step must leave alone for the statement of y to go on.
StatementKept(y) ==
  /\ op'[y] = op[y] /\ state'[y] = state[y] /\ undo'[y] = undo[y] /\ load' = load
  /\ \A i \in Slots : lock[i] = y => lock'[i] = y
  /\ vacuum'.pc # "idle" => vacuum.pc # "idle" /\ vacuum'.horizon = vacuum.horizon
  /\ \A i \in Slots :
       /\ ver[i].slot = "live" /\ ver[i].xmin \notin Active \ {y}
       /\ vacuum.pc # "idle" => ver[i].xmax = NoXid \/ ver[i].xmax >= vacuum.horizon
       => /\ ver'[i].slot = "live" /\ ver'[i].xmin = ver[i].xmin
          /\ ver[i].xmin \notin Active' \ {y}
          /\ ver'[i].xmax \in {NoXid, ver[i].xmax}
          /\ ver[i].xmax = y => ver'[i].xmax = y

\* A statement whose target, lock and transaction are as before.
LEMMA SameStatement ==
  ASSUME MvccInv, NEW y \in Xids, StatementKept(y)
  PROVE  StatementOf(y)'
<1>a. TypeInv /\ ClosedOK /\ VacuumOK /\ StatementOK /\ UndoOK
  BY DEF MvccInv
<1>b. /\ op'[y] = op[y] /\ state'[y] = state[y] /\ undo'[y] = undo[y] /\ load' = load
      /\ \A i \in Slots : lock[i] = y => lock'[i] = y
      /\ vacuum'.pc # "idle" => vacuum.pc # "idle" /\ vacuum'.horizon = vacuum.horizon
  BY Zenon DEF StatementKept
<1>c. ASSUME NEW i \in Slots, ver[i].slot = "live", ver[i].xmin \notin Active \ {y},
             vacuum.pc # "idle" => ver[i].xmax = NoXid \/ ver[i].xmax >= vacuum.horizon
      PROVE  /\ ver'[i].slot = "live" /\ ver'[i].xmin = ver[i].xmin
             /\ ver[i].xmin \notin Active' \ {y}
             /\ ver'[i].xmax \in {NoXid, ver[i].xmax}
             /\ ver[i].xmax = y => ver'[i].xmax = y
  BY <1>c, Zenon DEF StatementKept
<1>1. StatementOf(y)
  BY <1>a DEF StatementOK
<1> SUFFICES ASSUME op[y] # Idle PROVE StatementOf(y)'
  BY <1>b DEF StatementOf
<1>2. CASE op[y].path = "insert"
  BY <1>1, <1>2, <1>b DEF StatementOf, Stages
<1>3. CASE op[y].path # "insert"
  <2>1. PICK i \in Slots :
          /\ op[y].old = <<i>>
          /\ op[y].stage # "link" => op[y].todo = <<i>> /\ op[y].new = <<>>
          /\ TargetOK(y, i)
    BY <1>1, <1>3 DEF StatementOf
  <2>a. /\ ver[i].slot = "live"
        /\ ver[i].xmin \notin Active \ {y}
        /\ vacuum.pc # "idle" => ver[i].xmax = NoXid \/ ver[i].xmax >= vacuum.horizon
        /\ op[y].path \in Locked /\ op[y].stage # "lock" => lock[i] = y
        /\ Superseded(y, i) => ver[i].xmax = y /\ ~Revives(y, i)
        /\ op[y].path = "hotXpage" /\ op[y].stage \in {"insert", "link"} => ver[i].xmax = NoXid
        /\ op[y].stage = "link" =>
            \E n \in Slots \ {i} : op[y].new = <<n>> /\ ver[n].slot = "live" /\ ver[n].xmin = y
    <3>1. TargetOK(y, i)
      BY <2>1
    <3> QED BY <3>1, Zenon DEF TargetOK
  <2>b. /\ ver'[i].slot = "live" /\ ver'[i].xmin = ver[i].xmin
        /\ ver[i].xmin \notin Active' \ {y}
        /\ ver'[i].xmax \in {NoXid, ver[i].xmax}
        /\ ver[i].xmax = y => ver'[i].xmax = y
    BY <1>c, <2>a
  <2>c. op[y].stage = "link" =>
          \E n \in Slots \ {i} : op[y].new = <<n>> /\ ver'[n].slot = "live" /\ ver'[n].xmin = y
    <3>1. y \in Active
      BY <1>a DEF ClosedOK
    <3>2. MarksOf(y) /\ (vacuum.pc # "idle" => y >= vacuum.horizon)
      BY <1>a, <3>1 DEF UndoOK, VacuumOK
    <3>3. ASSUME NEW n \in Slots \ {i}, ver[n].slot = "live", ver[n].xmin = y
          PROVE  ver'[n].slot = "live" /\ ver'[n].xmin = y
      <4>1. ver[n].xmax \in {NoXid, y}
        BY <3>2, <3>3 DEF MarksOf
      <4>2. vacuum.pc # "idle" => ver[n].xmax = NoXid \/ ver[n].xmax >= vacuum.horizon
        BY <3>2, <4>1
      <4> QED BY <1>c, <3>3, <4>2
    <3> QED BY <2>a, <3>3
  <2>2. TargetOK(y, i)'
    <3>1. (Superseded(y, i)' <=> Superseded(y, i)) /\ (Revives(y, i)' <=> Revives(y, i))
      BY <1>b DEF Superseded, Revives
    <3>2. vacuum'.pc # "idle" => ver'[i].xmax = NoXid \/ ver'[i].xmax >= vacuum'.horizon
      BY <1>b, <2>a, <2>b
    <3> QED BY <1>b, <2>a, <2>b, <2>c, <3>1, <3>2 DEF TargetOK
  <2>3. /\ state[y] = "active" /\ op[y].path \in load.paths
        /\ op[y].stage \in Stages(op[y].path)
    BY <1>1, Zenon DEF StatementOf
  <2> QED BY <1>3, <1>b, <2>1, <2>2, <2>3 DEF StatementOf, Stages
<1> QED BY <1>2, <1>3

\* What it must leave alone for the undo log of y to stay right.
UndoKept(y) ==
  /\ op'[y] = op[y] /\ state'[y] = state[y] /\ undo'[y] = undo[y]
  /\ \A i \in Slots :
       \/ ver[i].slot = "live" /\ y \in {ver[i].xmin, ver[i].xmax}
       \/ ver'[i].slot = "live" /\ y \in {ver'[i].xmin, ver'[i].xmax}
       => ver'[i] = ver[i]

LEMMA SameUndo ==
  ASSUME MvccInv, NEW y \in Active, UndoKept(y)
  PROVE  TargetsOf(y)' /\ OrderOf(y)' /\ MarksOf(y)'
<1>a. TypeInv /\ TargetsOf(y) /\ OrderOf(y) /\ MarksOf(y)
  BY DEF MvccInv, UndoOK
<1>b. /\ op'[y] = op[y] /\ state'[y] = state[y] /\ undo'[y] = undo[y]
      /\ \A i \in Slots :
           \/ ver[i].slot = "live" /\ y \in {ver[i].xmin, ver[i].xmax}
           \/ ver'[i].slot = "live" /\ y \in {ver'[i].xmin, ver'[i].xmax}
           => ver'[i] = ver[i]
  BY Zenon DEF UndoKept
<1>c. /\ y \in Xids
      /\ \A k \in DOMAIN undo[y] : undo[y][k].kill \subseteq Slots /\ undo[y][k].revive \subseteq Slots
  BY <1>a, TypeFacts
<1>1. TargetsOf(y)'
  BY <1>a, <1>b, <1>c DEF TargetsOf
<1>2. OrderOf(y)'
  <2>1. \A k \in DOMAIN undo[y] : \A i \in undo[y][k].revive : ver'[i] = ver[i]
    BY <1>a, <1>b, <1>c DEF TargetsOf
  <2> QED BY <1>a, <1>b, <2>1 DEF OrderOf
<1>3. MarksOf(y)'
  <2>1. \A i \in Slots : /\ Kills(y, i)' <=> Kills(y, i)
                         /\ Revives(y, i)' <=> Revives(y, i)
                         /\ Unlinked(y, i)' <=> Unlinked(y, i)
                         /\ Superseded(y, i)' <=> Superseded(y, i)
    BY <1>b DEF Kills, Revives, Unlinked, Superseded
  <2> SUFFICES ASSUME NEW i \in Slots, ver'[i].slot = "live", y \in {ver'[i].xmin, ver'[i].xmax}
               PROVE  /\ ver'[i].xmin = y =>
                           /\ ver'[i].xmax \in {NoXid, y}
                           /\ \/ Kills(y, i)' \/ Unlinked(y, i)'
                              \/ state'[y] = "aborting" /\ ver'[i].xmax = y
                      /\ ver'[i].xmax = y =>
                           \/ Revives(y, i)' \/ Superseded(y, i)'
                           \/ state'[y] = "aborting" /\ ver'[i].xmin = y
    BY DEF MarksOf
  <2>2. ver'[i] = ver[i]
    BY <1>b
  <2> QED BY <1>a, <1>b, <2>1, <2>2 DEF MarksOf
<1> QED BY <1>1, <1>2, <1>3

LEMMA ReaderInv ==
  ASSUME MvccInv, ReaderOpen \/ ReaderClose, UNCHANGED load
  PROVE  MvccInv'
<1>a. TypeInv /\ ClosedOK /\ VersionXids /\ SnapsOK /\ VacuumOK /\ StatementOK /\ UndoOK
      /\ AbortLeavesNothing
  BY DEF MvccInv
<1>b. nextXid \in Nat /\ \A x \in Active : x \in Nat /\ x < nextXid
  BY <1>a, TypeFacts
<1>1. UNCHANGED <<load, txnVars, undo, op, ver, lock, vacuum, intent>>
  BY DEF ReaderOpen, ReaderClose, histVars
<1>2. reader'.snap.xmin \in Nat /\ reader'.snap.xmin <= nextXid
  <2>1. CASE ReaderOpen
    <3>1. reader'.snap = ComputeSnapshot(nextXid)
      BY <2>1 DEF ReaderOpen
    <3>2. reader'.snap.xmin = Least(Active, nextXid)
      BY <3>1 DEF ComputeSnapshot
    <3>3. Active \in SUBSET Nat
      BY <1>b
    <3> QED BY <1>b, <3>2, <3>3, LeastFact
  <2>2. CASE ReaderClose
    BY <1>b, <2>2 DEF ReaderClose, NoReader, NoSnap
  <2> QED BY <2>1, <2>2
<1>3. TypeInv'
  BY <1>a, <1>1, <1>2 DEF TypeInv, txnVars
<1>4. /\ VersionXids' /\ AbortLeavesNothing' /\ Active' = Active
      /\ \A x \in Active : TargetsOf(x)' /\ OrderOf(x)' /\ MarksOf(x)'
  BY <1>1, <1>b, <1>a, TypeFacts, SameVersions DEF txnVars
<1>5. StatementOK'
  <2> SUFFICES ASSUME NEW y \in Xids PROVE StatementOf(y)'
    BY DEF StatementOK
  <2>1. StatementKept(y)
    BY <1>1, <1>4 DEF StatementKept, txnVars
  <2> QED BY <2>1, SameStatement
<1>6. ClosedOK' /\ SnapsOK' /\ VacuumOK'
  BY <1>a, <1>1, <1>4 DEF ClosedOK, SnapsOK, VacuumOK, txnVars, IsCommittedAt
<1> QED BY <1>3, <1>4, <1>5, <1>6 DEF MvccInv, UndoOK

LEMMA ReleaseLocksInv ==
  ASSUME MvccInv, NEW x \in Xids, ReleaseLocks(x), UNCHANGED load
  PROVE  MvccInv'
<1>a. TypeInv /\ ClosedOK /\ VersionXids /\ SnapsOK /\ VacuumOK /\ StatementOK /\ UndoOK
      /\ AbortLeavesNothing
  BY DEF MvccInv
<1>1. UNCHANGED <<load, txnVars, undo, op, ver, reader, vacuum, intent>>
  BY DEF ReleaseLocks, histVars
<1>2. lock' = [i \in Slots |-> IF lock[i] = x THEN NoXid ELSE lock[i]]
      /\ state[x] \in {"committed", "aborted"}
  BY DEF ReleaseLocks
<1>3. TypeInv'
  <2>1. lock' \in [Slots -> Xids \cup {NoXid}]
    BY <1>a, <1>2 DEF TypeInv
  <2> QED BY <1>a, <1>1, <2>1 DEF TypeInv, txnVars
<1>4. /\ VersionXids' /\ AbortLeavesNothing' /\ Active' = Active
      /\ \A y \in Active : TargetsOf(y)' /\ OrderOf(y)' /\ MarksOf(y)'
  BY <1>1, SameVersions DEF txnVars
<1>5. \A y \in Xids : StatementOf(y)'
  <2> SUFFICES ASSUME NEW y \in Xids PROVE StatementOf(y)'
    OBVIOUS
  <2>1. CASE y = x
    <3>1. op[x] = Idle
      BY <1>a, <1>2 DEF ClosedOK, Active
    <3> QED BY <1>1, <2>1, <3>1 DEF StatementOf
  <2>2. CASE y # x
    <3>1. StatementKept(y)
      BY <1>1, <1>2, <1>4, <2>2 DEF StatementKept, txnVars
    <3> QED BY <3>1, SameStatement
  <2> QED BY <2>1, <2>2
<1>6. ClosedOK' /\ SnapsOK' /\ VacuumOK'
  BY <1>a, <1>1, <1>4 DEF ClosedOK, SnapsOK, VacuumOK, txnVars, IsCommittedAt
<1> QED BY <1>3, <1>4, <1>5, <1>6 DEF MvccInv, UndoOK, StatementOK

\* A statement stops before it has changed anything, or the client gives up.
LEMMA StartAbortInv ==
  ASSUME MvccInv, NEW x \in Xids, StartAbort(x), UNCHANGED load, state[x] = "active",
         op[x] = Idle \/ op[x].stage \in {"lock", "stamp", "check"}
  PROVE  MvccInv'
<1>a. TypeInv /\ ClosedOK /\ VersionXids /\ SnapsOK /\ VacuumOK /\ StatementOK /\ UndoOK
      /\ AbortLeavesNothing
  BY DEF MvccInv
<1>1. /\ state' = [state EXCEPT ![x] = "aborting"] /\ op' = [op EXCEPT ![x] = Idle]
      /\ intent' = [intent EXCEPT ![x] = NoWrites]
      /\ UNCHANGED <<load, nextXid, iso, snap, undo, ver, lock, reader, vacuum>>
  BY DEF StartAbort
<1>2. TypeInv'
  <2>1. /\ state' \in [Xids -> {"unborn", "active", "aborting", "committed", "aborted"}]
        /\ \A y \in Xids : state'[y] = "unborn" <=> y >= nextXid
        /\ state'[1] = "committed"
    BY <1>a, <1>1, XidFacts DEF TypeInv
  <2>2. op' \in [Xids -> OpType]
    <3>1. op \in [Xids -> OpType] /\ Idle \in OpType
      BY <1>a DEF TypeInv, OpType, Idle
    <3> QED BY <1>1, <3>1
  <2>3. intent' \in [Xids -> [Rows -> {"keep", "put", "delete"}]]
    BY <1>a, <1>1 DEF TypeInv, NoWrites
  <2> QED BY <1>a, <1>1, <2>1, <2>2, <2>3 DEF TypeInv, OpType
<1>3. /\ Active' = Active /\ x \in Active
      /\ \A y \in Xids \ {x} : state'[y] = state[y] /\ op'[y] = op[y]
      /\ state'[x] = "aborting" /\ op'[x] = Idle
  <2>1. state \in [Xids -> {"unborn", "active", "aborting", "committed", "aborted"}]
        /\ op \in [Xids -> OpType]
    BY <1>a DEF TypeInv, OpType
  <2> QED BY <1>1, <2>1 DEF Active
<1>4. VersionXids'
  BY <1>a, <1>1 DEF VersionXids
<1>5. AbortLeavesNothing'
  BY <1>a, <1>1, <1>3 DEF AbortLeavesNothing
<1>6. ClosedOK' /\ SnapsOK' /\ VacuumOK'
  BY <1>a, <1>1, <1>3 DEF ClosedOK, SnapsOK, VacuumOK, IsCommittedAt
<1>7. StatementOK'
  <2> SUFFICES ASSUME NEW y \in Xids PROVE StatementOf(y)'
    BY DEF StatementOK
  <2>1. CASE y = x
    BY <1>3, <2>1 DEF StatementOf
  <2>2. CASE y # x
    <3>1. StatementKept(y)
      BY <1>1, <1>3, <2>2 DEF StatementKept
    <3> QED BY <3>1, SameStatement
  <2> QED BY <2>1, <2>2
<1>8. ASSUME NEW y \in Active PROVE TargetsOf(y)' /\ OrderOf(y)' /\ MarksOf(y)'
  <2>1. y \in Xids /\ TargetsOf(y) /\ OrderOf(y) /\ MarksOf(y)
    BY <1>a DEF UndoOK, Active
  <2>2. TargetsOf(y)' /\ OrderOf(y)'
    BY <1>1, <2>1 DEF TargetsOf, OrderOf
  <2>3. \A i \in Slots : /\ Kills(y, i)' <=> Kills(y, i)
                         /\ Revives(y, i)' <=> Revives(y, i)
    BY <1>1 DEF Kills, Revives
  <2>4. CASE y = x
    <3>1. \A i \in Slots : ~Unlinked(x, i) /\ ~Superseded(x, i)
      BY DEF Unlinked, Superseded, Idle
    <3> QED BY <1>1, <1>3, <2>1, <2>2, <2>3, <2>4, <3>1 DEF MarksOf
  <2>5. CASE y # x
    <3>1. \A i \in Slots : /\ Unlinked(y, i)' <=> Unlinked(y, i)
                           /\ Superseded(y, i)' <=> Superseded(y, i)
      BY <1>3, <2>1, <2>5 DEF Unlinked, Superseded
    <3> QED BY <1>1, <1>3, <2>1, <2>2, <2>3, <2>5, <3>1 DEF MarksOf
  <2> QED BY <2>4, <2>5
<1> QED BY <1>2, <1>3, <1>4, <1>5, <1>6, <1>7, <1>8 DEF MvccInv, UndoOK

\* A statement at any stage but "none" has a path of the workload.
LEMMA StageFact ==
  ASSUME MvccInv, NEW x \in Xids, op[x].stage # "none"
  PROVE  /\ op[x].path \in Paths /\ op[x].path # "idle" /\ state[x] = "active"
         /\ op[x].stage \in Stages(op[x].path) /\ op[x].path \in load.paths
<1>1. op[x] # Idle
  BY DEF Idle
<1>2. StatementOf(x)
  BY DEF MvccInv, StatementOK
<1>3. op[x].path \in load.paths /\ op[x].stage \in Stages(op[x].path) /\ state[x] = "active"
  BY <1>1, <1>2, Zenon DEF StatementOf
<1>4. load.paths \subseteq Paths /\ "idle" \notin Paths
  BY LoadAssumption DEF MvccInv, TypeInv, Paths
<1> QED BY <1>3, <1>4

LEMMA LockRowInv ==
  ASSUME MvccInv, Orderly(load), NEW x \in Xids, LockRow(x), UNCHANGED load
  PROVE  MvccInv'
<1> USE XidFacts
<1>a. TypeInv /\ ClosedOK /\ VersionXids /\ SnapsOK /\ VacuumOK /\ StatementOK /\ UndoOK
      /\ AbortLeavesNothing
  BY DEF MvccInv
<1>1. op[x].stage = "lock"
  BY DEF LockRow
<1>2. op[x].path \in Paths /\ op[x].path # "idle" /\ op[x].stage \in Stages(op[x].path)
  BY <1>1, StageFact
<1>3. op[x].path \in Locked
  BY <1>1, <1>2 DEF Paths, Stages, Locked
<1>4. PICK i \in Slots : /\ op[x].old = <<i>> /\ op[x].todo = <<i>> /\ TargetOK(x, i)
                         /\ state[x] = "active" /\ op[x].path \in load.paths /\ x \in Active
  BY <1>1, <1>2, <1>3, TargetFact DEF Locked
<1>5. Head(op[x].todo) = i
  BY <1>4
<1>6. CASE lock[i] \notin {NoXid, x}
  <2>1. StartAbort(x)
    BY <1>5, <1>6 DEF LockRow
  <2> QED BY <1>1, <1>4, <2>1, StartAbortInv
<1>7. CASE lock[i] \in {NoXid, x}
  <2> DEFINE stage == IF op[x].path = "hotXpage" THEN "check" ELSE "stamp"
  <2>1. /\ lock' = [lock EXCEPT ![i] = x] /\ GoTo(x, stage, <<i>>, <<>>)
        /\ UNCHANGED <<load, txnVars, undo, ver, reader, vacuum, histVars>>
    BY <1>4, <1>5, <1>7 DEF LockRow
  <2>2. /\ op' \in [Xids -> OpType]
        /\ op'[x].path = op[x].path /\ op'[x].stage = stage /\ op'[x].todo = <<i>>
        /\ op'[x].old = <<i>> /\ op'[x].new = <<>>
        /\ \A y \in Xids \ {x} : op'[y] = op[y]
    <3>1. <<i>> \in Seq(Slots) /\ <<>> \in Seq(Slots) /\ stage \in {"lock", "check", "stamp", "insert", "link"}
      OBVIOUS
    <3>2. GoTo(x, stage, <<i>>, <<>>)
      BY <2>1
    <3> HIDE DEF stage
    <3>3. /\ op' \in [Xids -> OpType]
          /\ op'[x].path = op[x].path /\ op'[x].stage = stage /\ op'[x].todo = <<i>>
          /\ op'[x].old = op[x].old /\ op'[x].new = <<>>
          /\ \A y \in Xids \ {x} : op'[y] = op[y]
      BY <1>a, <3>1, <3>2, GoToFact
    <3> QED BY <1>4, <3>3
  <2>3. stage \in {"check", "stamp"} /\ stage \in Stages(op[x].path)
    BY <1>3 DEF Stages, Locked
  <2> HIDE DEF stage
  <2>4. lock \in [Slots -> Xids \cup {NoXid}]
    BY <1>a DEF TypeInv
  <2>5. lock' \in [Slots -> Xids \cup {NoXid}] /\ lock'[i] = x
        /\ \A y \in Xids \ {x} : \A j \in Slots : lock[j] = y => lock'[j] = y
    BY <1>7, <2>1, <2>4
  <2>6. TypeInv'
    <3>1. UNCHANGED <<load, nextXid, state, iso, snap, undo, ver, reader, vacuum, intent>>
      BY <2>1 DEF txnVars, histVars
    <3> QED BY ONLY <1>a, <2>2, <2>5, <3>1, ZenonT(40) DEF TypeInv, OpType
  <2>7. /\ state' = state /\ Active' = Active /\ load' = load /\ vacuum' = vacuum
        /\ undo' = undo /\ ver' = ver /\ snap' = snap /\ nextXid' = nextXid
    BY <2>1 DEF txnVars, Active
  <2>8. VersionXids' /\ AbortLeavesNothing' /\ SnapsOK' /\ VacuumOK'
    BY <1>a, <2>7 DEF VersionXids, AbortLeavesNothing, SnapsOK, VacuumOK, IsCommittedAt
  <2>9. ClosedOK'
    BY <1>a, <1>4, <2>2, <2>7 DEF ClosedOK
  <2>10. StatementOK'
    <3> SUFFICES ASSUME NEW y \in Xids PROVE StatementOf(y)'
      BY DEF StatementOK
    <3>1. CASE y # x
      <4>1. StatementKept(y)
        BY <2>2, <2>5, <2>7, <3>1 DEF StatementKept
      <4> QED BY <4>1, SameStatement
    <3>2. CASE y = x
      <4>1. TargetOK(x, i)'
        <5>1. /\ ver[i].slot = "live" /\ ver[i].xmin \notin Active \ {x}
              /\ vacuum.pc # "idle" => ver[i].xmax = NoXid \/ ver[i].xmax >= vacuum.horizon
          BY <1>4, Zenon DEF TargetOK
        <5>2. ~Superseded(x, i)'
          BY <2>2, <2>3 DEF Superseded
        <5>3. op'[x].stage \notin {"insert", "link"}
          BY <2>2, <2>3
        <5> QED BY <2>5, <2>7, <5>1, <5>2, <5>3 DEF TargetOK
      <4>2. op'[x].stage \in Stages(op'[x].path) /\ state'[x] = "active"
            /\ op'[x].path \in load'.paths
        BY <1>4, <2>2, <2>3, <2>7 DEF Stages
      <4> QED BY <2>2, <3>2, <4>1, <4>2 DEF StatementOf, Stages
    <3> QED BY <3>1, <3>2
  <2>11. UndoOK'
    <3> SUFFICES ASSUME NEW y \in Active PROVE TargetsOf(y)' /\ OrderOf(y)' /\ MarksOf(y)'
      BY <2>7 DEF UndoOK
    <3>1. CASE y # x
      <4>1. UndoKept(y)
        BY <2>2, <2>7, <3>1 DEF UndoKept, Active
      <4> QED BY <4>1, SameUndo
    <3>2. CASE y = x
      <4>1. TargetsOf(x)' /\ OrderOf(x)'
        BY <1>a, <2>7, <3>2 DEF UndoOK, TargetsOf, OrderOf
      <4>2. \A j \in Slots : ~Unlinked(x, j) /\ ~Superseded(x, j)
        BY <1>1 DEF Unlinked, Superseded
      <4>3. \A j \in Slots : (Kills(x, j) => Kills(x, j)') /\ (Revives(x, j) => Revives(x, j)')
        BY <2>7 DEF Kills, Revives
      <4>4. MarksOf(x)'
        BY <1>4, <2>7, <4>2, <4>3, OwnMarks DEF MarksOf
      <4> QED BY <3>2, <4>1, <4>4
    <3> QED BY <3>1, <3>2
  <2> QED BY <2>6, <2>8, <2>9, <2>10, <2>11 DEF MvccInv
<1> QED BY <1>6, <1>7

LEMMA ConflictInv ==
  ASSUME MvccInv, NEW x \in Xids, Conflict(x) \/ Rollback(x), UNCHANGED load
  PROVE  MvccInv'
<1>1. CASE Conflict(x)
  <2>1. op[x].stage \in {"stamp", "check"} /\ StartAbort(x)
    BY <1>1 DEF Conflict
  <2>2. state[x] = "active"
    BY <2>1, StageFact
  <2> QED BY <2>1, <2>2, StartAbortInv
<1>2. CASE Rollback(x)
  BY <1>2, StartAbortInv DEF Rollback
<1> QED BY <1>1, <1>2

----------------------------------------------------------------------------
(* Vacuum *)

\* Vacuum starts while nobody is open, so nobody has a statement or an undo log.
LEMMA VacuumStartInv ==
  ASSUME MvccInv, Orderly(load), VacuumStart, UNCHANGED load
  PROVE  MvccInv'
<1> USE XidFacts
<1>a. TypeInv /\ ClosedOK /\ VersionXids /\ AbortLeavesNothing
  BY DEF MvccInv
<1>b. nextXid \in Nat /\ reader.snap.xmin \in Nat /\ reader.snap.xmin <= nextXid
  BY <1>a, TypeFacts DEF TypeInv
<1>1. /\ Active = {} /\ UNCHANGED <<load, txnVars, undo, op, ver, lock, reader, intent>>
      /\ vacuum' = [pc |-> "collect", horizon |-> VacuumHorizon, cand |-> {}]
  BY DEF VacuumStart, Orderly, histVars
<1>2. VacuumHorizon \in Nat /\ VacuumHorizon <= nextXid
  <2> DEFINE S == {snap[x].xmin : x \in Active} \cup
                  (IF reader = NoReader THEN {} ELSE {reader.snap.xmin})
  <2>1. S \in SUBSET {reader.snap.xmin}
    BY <1>1
  <2>2. VacuumHorizon = Least(S, nextXid)
    BY DEF VacuumHorizon
  <2> HIDE DEF S
  <2>3. S \in SUBSET Nat
    BY <1>b, <2>1
  <2>4. S # {} => Least(S, nextXid) \in S
    BY <1>b, <2>3, LeastFact
  <2>5. S = {} => Least(S, nextXid) = nextXid
    BY <1>b, <2>3, LeastFact
  <2> QED BY <1>b, <2>1, <2>2, <2>4, <2>5
<1>3. TypeInv'
  <2>1. vacuum' \in [pc : {"idle", "collect", "mark", "compact"}, horizon : Nat,
                     cand : SUBSET Slots]
    BY <1>1, <1>2
  <2> QED BY <1>a, <1>1, <2>1 DEF TypeInv, txnVars
<1>4. Active' = {} /\ nextXid' = nextXid /\ state' = state
  BY <1>1 DEF txnVars, Active
<1>5. VersionXids' /\ AbortLeavesNothing'
  BY <1>a, <1>1, <1>4 DEF VersionXids, AbortLeavesNothing
<1>6. SnapsOK' /\ UndoOK'
  BY <1>4 DEF SnapsOK, UndoOK
<1>7. VacuumOK'
  BY <1>1, <1>2, <1>4 DEF VacuumOK
<1>8. ClosedOK' /\ StatementOK'
  BY <1>a, <1>1, <1>4 DEF ClosedOK, StatementOK, StatementOf
<1> QED BY <1>3, <1>5, <1>6, <1>7, <1>8 DEF MvccInv

\* The later steps of a pass: candidates die, and what is dead is freed.
Sweeps ==
  /\ UNCHANGED <<load, txnVars, undo, op, lock, reader, intent>>
  /\ vacuum.pc # "idle"
  /\ \A j \in Slots : \/ ver'[j] = ver[j]
                      \/ /\ j \in vacuum.cand /\ ver'[j].slot = "dead"
                         /\ ver'[j].xmin = ver[j].xmin /\ ver'[j].xmax = ver[j].xmax
                         /\ ver'[j].hint = ver[j].hint
                      \/ ver[j].slot = "dead" /\ ver'[j] = Free

LEMMA SweepInv ==
  ASSUME MvccInv, TypeInv', Sweeps, VacuumOK',
         vacuum'.pc # "idle" => vacuum'.horizon = vacuum.horizon
  PROVE  MvccInv'
<1> USE XidFacts
<1>a. TypeInv /\ ClosedOK /\ VersionXids /\ SnapsOK /\ VacuumOK /\ StatementOK /\ UndoOK
      /\ AbortLeavesNothing
  BY DEF MvccInv
<1>b. /\ nextXid \in Nat /\ nextXid >= 2
      /\ \A z \in Active : z \in Xids /\ z < nextXid /\ z # NoXid /\ z \in Nat /\ z # 1
      /\ \A i \in Slots : ver[i].xmin \in Nat /\ ver[i].xmax \in Nat
      /\ vacuum.horizon \in Nat /\ vacuum.cand \subseteq Slots
  BY <1>a, TypeFacts
<1>1. /\ state' = state /\ Active' = Active /\ load' = load /\ undo' = undo /\ op' = op
      /\ snap' = snap /\ nextXid' = nextXid /\ lock' = lock /\ vacuum.pc # "idle"
  BY DEF Sweeps, txnVars, Active
<1>2. \A j \in Slots : \/ ver'[j] = ver[j]
                       \/ /\ j \in vacuum.cand /\ ver'[j].slot = "dead"
                          /\ ver'[j].xmin = ver[j].xmin /\ ver'[j].xmax = ver[j].xmax
                          /\ ver'[j].hint = ver[j].hint
                       \/ ver[j].slot = "dead" /\ ver'[j] = Free
  BY Zenon DEF Sweeps
<1>3. VersionXids'
  BY <1>a, <1>b, <1>1, <1>2, FreeFact DEF VersionXids
<1>4. \A j \in Slots : ver'[j].slot = "live" => ver'[j] = ver[j]
  BY <1>2, FreeFact
<1>5. AbortLeavesNothing'
  BY <1>a, <1>1, <1>4 DEF AbortLeavesNothing
<1>6. ClosedOK' /\ SnapsOK'
  BY <1>a, <1>1 DEF ClosedOK, SnapsOK, IsCommittedAt
<1>7. \A i \in vacuum.cand : ver[i].xmax # NoXid /\ ver[i].xmax < vacuum.horizon
  BY <1>a DEF VacuumOK
<1>8. ASSUME NEW y \in Xids PROVE StatementOf(y)'
  <2>1. ASSUME NEW i \in Slots, ver[i].slot = "live",
               ver[i].xmax = NoXid \/ ver[i].xmax >= vacuum.horizon
        PROVE  ver'[i] = ver[i]
    BY <1>b, <1>2, <1>7, <2>1
  <2>2. StatementKept(y)
    BY <1>1, <2>1 DEF StatementKept
  <2> QED BY <2>2, SameStatement
<1>9. ASSUME NEW y \in Active PROVE TargetsOf(y)' /\ OrderOf(y)' /\ MarksOf(y)'
  <2>1. MarksOf(y) /\ y >= vacuum.horizon
    BY <1>a, <1>1 DEF UndoOK, VacuumOK
  <2>2. ASSUME NEW i \in Slots, ver[i].slot = "live", y \in {ver[i].xmin, ver[i].xmax}
        PROVE  ver'[i] = ver[i]
    <3>1. ver[i].xmax = NoXid \/ ver[i].xmax = y
      BY <2>1, <2>2 DEF MarksOf
    <3>2. i \notin vacuum.cand
      BY <1>b, <1>7, <2>1, <3>1
    <3> QED BY <1>2, <2>2, <3>2
  <2>3. UndoKept(y)
    BY <1>1, <1>4, <2>2 DEF UndoKept
  <2> QED BY <2>3, SameUndo
<1> QED BY <1>1, <1>3, <1>5, <1>6, <1>8, <1>9 DEF MvccInv, StatementOK, UndoOK

LEMMA VacuumStepInv ==
  ASSUME MvccInv, VacuumCollect \/ VacuumMark \/ VacuumCompact, UNCHANGED load
  PROVE  MvccInv'
<1> USE XidFacts
<1>a. TypeInv /\ VacuumOK
  BY DEF MvccInv
<1>b. /\ vacuum \in [pc : {"idle", "collect", "mark", "compact"}, horizon : Nat,
                     cand : SUBSET Slots]
      /\ ver \in [Slots -> VerType]
  BY <1>a DEF TypeInv, VerType
<1>c. ASSUME ver' \in [Slots -> VerType],
             vacuum' \in [pc : {"idle", "collect", "mark", "compact"}, horizon : Nat,
                          cand : SUBSET Slots],
             UNCHANGED <<load, txnVars, undo, op, lock, reader, intent>>
      PROVE  TypeInv'
  BY <1>a, <1>c, Zenon DEF TypeInv, VerType, txnVars
<1>1. CASE VacuumCollect
  <2> DEFINE cand == {i \in Slots : /\ ver[i].slot = "live"
                                    /\ IsReclaimable(ver[i], vacuum.horizon)}
  <2>1. /\ vacuum.pc = "collect" /\ ver' = ver
        /\ vacuum' = IF cand = {} THEN NoVacuum
                     ELSE [vacuum EXCEPT !.pc = "mark", !.cand = cand]
        /\ UNCHANGED <<load, txnVars, undo, op, lock, reader, intent>>
    BY <1>1 DEF VacuumCollect, histVars
  <2>2. cand \subseteq Slots /\ \A i \in cand : /\ ver[i].slot = "live" /\ ver[i].xmax # NoXid
                                                /\ ver[i].xmax < vacuum.horizon
    BY DEF IsReclaimable
  <2> HIDE DEF cand
  <2>3. /\ vacuum' \in [pc : {"idle", "collect", "mark", "compact"}, horizon : Nat,
                        cand : SUBSET Slots]
        /\ vacuum'.pc # "idle" => vacuum'.horizon = vacuum.horizon /\ vacuum'.cand = cand
        /\ vacuum'.pc = "idle" => vacuum'.cand = {}
    BY <1>b, <2>1, <2>2 DEF NoVacuum
  <2>4. TypeInv'
    BY <1>b, <1>c, <2>1, <2>3
  <2>5. Active' = Active /\ nextXid' = nextXid
    BY <2>1 DEF txnVars, Active
  <2>6. VacuumOK'
    BY <1>a, <2>1, <2>2, <2>3, <2>5 DEF VacuumOK
  <2>7. Sweeps
    BY <2>1 DEF Sweeps
  <2> QED BY <2>3, <2>4, <2>6, <2>7, SweepInv
<1>2. CASE VacuumMark
  <2> DEFINE i == Least(vacuum.cand, NoXid)
  <2> DEFINE c == vacuum.cand \ {i}
  <2>1. /\ vacuum.pc = "mark"
        /\ ver' = [ver EXCEPT ![i].slot = IF @ = "live" THEN "dead" ELSE @]
        /\ vacuum' = [vacuum EXCEPT !.pc = IF c = {} THEN "compact" ELSE "mark", !.cand = c]
        /\ UNCHANGED <<load, txnVars, undo, op, lock, reader, intent>>
    BY <1>2 DEF VacuumMark, histVars
  <2>2. \/ vacuum.cand = {} /\ i \notin Slots
        \/ i \in vacuum.cand /\ i \in Slots
    <3>1. vacuum.cand \in SUBSET Nat /\ vacuum.cand \subseteq Slots
      BY <1>b
    <3>2. NoXid \in Nat
      OBVIOUS
    <3>3. vacuum.cand # {} => i \in vacuum.cand
      BY <3>1, <3>2, LeastFact
    <3>4. vacuum.cand = {} => i = NoXid
      BY <3>1, <3>2, LeastFact
    <3>5. NoXid \notin Slots
      OBVIOUS
    <3> HIDE DEF i
    <3> QED BY ONLY <3>1, <3>3, <3>4, <3>5
  <2> HIDE DEF i
  <2>3. /\ vacuum' \in [pc : {"idle", "collect", "mark", "compact"}, horizon : Nat,
                        cand : SUBSET Slots]
        /\ vacuum'.horizon = vacuum.horizon /\ vacuum'.cand = c /\ vacuum'.pc # "idle"
    BY <1>b, <2>1
  <2>4. /\ ver' \in [Slots -> VerType]
        /\ \A j \in Slots \ {i} : ver'[j] = ver[j]
        /\ i \in Slots => \/ ver'[i] = ver[i]
                          \/ /\ ver'[i].slot = "dead" /\ ver'[i].xmin = ver[i].xmin
                             /\ ver'[i].xmax = ver[i].xmax /\ ver'[i].hint = ver[i].hint
    <3>1. CASE i \notin Slots
      BY <1>b, <2>1, <3>1
    <3>2. CASE i \in Slots
      <4> DEFINE v == [ver[i] EXCEPT !.slot = IF ver[i].slot = "live" THEN "dead" ELSE ver[i].slot]
      <4>1. ver' = [ver EXCEPT ![i] = v]
        BY <1>b, <2>1, <3>2
      <4>2. ver[i] \in VerType
        BY <1>b, <3>2
      <4>3. /\ v \in VerType
            /\ \/ v = ver[i]
               \/ /\ v.slot = "dead" /\ v.xmin = ver[i].xmin
                  /\ v.xmax = ver[i].xmax /\ v.hint = ver[i].hint
        BY <4>2 DEF VerType
      <4> HIDE DEF v
      <4> QED BY <1>b, <3>2, <4>1, <4>3
    <3> QED BY <3>1, <3>2
  <2>5. TypeInv'
    BY <1>c, <2>1, <2>3, <2>4
  <2>6. Active' = Active /\ nextXid' = nextXid
    BY <2>1 DEF txnVars, Active
  <2>7. VacuumOK'
    <3>1. \A j \in c : ver'[j] = ver[j] /\ j \in vacuum.cand
      BY <1>b, <2>4
    <3> QED BY <1>a, <2>1, <2>3, <2>6, <3>1 DEF VacuumOK
  <2>8. Sweeps
    BY <2>1, <2>2, <2>4 DEF Sweeps
  <2> QED BY <2>3, <2>5, <2>7, <2>8, SweepInv
<1>3. CASE VacuumCompact
  <2>1. /\ vacuum.pc = "compact" /\ vacuum' = NoVacuum
        /\ ver' = [j \in Slots |-> IF ver[j].slot = "dead" THEN Free ELSE ver[j]]
        /\ UNCHANGED <<load, txnVars, undo, op, lock, reader, intent>>
    BY <1>3 DEF VacuumCompact, histVars
  <2>2. vacuum' \in [pc : {"idle", "collect", "mark", "compact"}, horizon : Nat,
                     cand : SUBSET Slots] /\ vacuum'.pc = "idle" /\ vacuum'.cand = {}
    BY <2>1 DEF NoVacuum
  <2>3. ver' \in [Slots -> VerType]
    BY <1>b, <2>1, FreeFact DEF VerType
  <2>4. TypeInv'
    BY <1>c, <2>1, <2>2, <2>3
  <2>5. VacuumOK'
    BY <2>2 DEF VacuumOK
  <2>6. Sweeps
    BY <2>1 DEF Sweeps
  <2> QED BY <2>2, <2>4, <2>5, <2>6, SweepInv
<1> QED BY <1>1, <1>2, <1>3

----------------------------------------------------------------------------
(* The end of a transaction *)

\* What active.remove needs: the transaction has no statement, and if it is
\* aborted its xid is left only on versions it both wrote and stamped.
LEMMA ForgetInv ==
  ASSUME MvccInv, NEW x \in Active, op[x] = Idle, NEW outcome \in {"committed", "aborted"},
         Forget(x, outcome), UNCHANGED <<load, nextXid, iso, op, ver, lock, reader, vacuum>>,
         intent' \in [Xids -> [Rows -> {"keep", "put", "delete"}]],
         outcome = "aborted" => \A i \in Slots : ver[i].slot = "live" =>
                                  (ver[i].xmin = x <=> ver[i].xmax = x)
  PROVE  MvccInv'
<1> USE XidFacts
<1>a. TypeInv /\ ClosedOK /\ VersionXids /\ SnapsOK /\ VacuumOK /\ StatementOK /\ UndoOK
      /\ AbortLeavesNothing
  BY DEF MvccInv
<1>b. x \in Xids /\ x < nextXid /\ x # 1 /\ nextXid \in Nat /\ x \in Nat
  BY <1>a, TypeFacts
<1>c. /\ state \in [Xids -> {"unborn", "active", "aborting", "committed", "aborted"}]
      /\ snap \in [Xids -> [xmin : Nat, xmax : Nat, active : SUBSET Xids]]
      /\ undo \in [Xids -> Seq(Step1)]
      /\ \A z \in Xids : state[z] = "unborn" <=> z >= nextXid
      /\ state[1] = "committed"
  BY <1>a DEF TypeInv
<1>1. /\ state' = [state EXCEPT ![x] = outcome] /\ snap' = [snap EXCEPT ![x] = NoSnap]
      /\ undo' = [undo EXCEPT ![x] = <<>>]
  BY DEF Forget
<1>2. /\ state' \in [Xids -> {"unborn", "active", "aborting", "committed", "aborted"}]
      /\ state'[x] = outcome /\ \A y \in Xids \ {x} : state'[y] = state[y]
      /\ \A z \in Xids : state'[z] = "unborn" <=> z >= nextXid
      /\ state'[1] = "committed"
  BY <1>b, <1>c, <1>1
<1>3. /\ snap' \in [Xids -> [xmin : Nat, xmax : Nat, active : SUBSET Xids]]
      /\ \A y \in Xids \ {x} : snap'[y] = snap[y]
  BY <1>b, <1>c, <1>1 DEF NoSnap
<1>4. /\ undo' \in [Xids -> Seq(Step1)] /\ undo'[x] = <<>>
      /\ \A y \in Xids \ {x} : undo'[y] = undo[y]
  <2>1. <<>> \in Seq(Step1)
    OBVIOUS
  <2> HIDE DEF Step1
  <2> QED BY <1>b, <1>c, <1>1, <2>1
<1>5. TypeInv'
  BY <1>a, <1>2, <1>3, <1>4, Zenon DEF TypeInv
<1>6. Active' = Active \ {x}
  BY <1>2 DEF Active
<1>7. ClosedOK'
  BY <1>a, <1>4, <1>6 DEF ClosedOK
<1>8. VersionXids'
  BY <1>a DEF VersionXids
<1>9. SnapsOK'
  <2>1. \A y \in Active \ {x} : snap'[y] = snap[y]
    BY <1>3 DEF Active
  <2> QED BY <1>a, <1>6, <2>1 DEF SnapsOK, IsCommittedAt
<1>10. VacuumOK'
  BY <1>a, <1>6 DEF VacuumOK
<1>11. AbortLeavesNothing'
  BY <1>a, <1>2 DEF AbortLeavesNothing
<1>12. ASSUME NEW y \in Xids PROVE StatementOf(y)'
  <2>1. CASE y = x
    BY <2>1 DEF StatementOf
  <2>2. CASE y # x
    <3>1. StatementKept(y)
      BY <1>2, <1>4, <1>6, <2>2 DEF StatementKept
    <3> QED BY <3>1, SameStatement
  <2> QED BY <2>1, <2>2
<1>13. ASSUME NEW y \in Active \ {x} PROVE TargetsOf(y)' /\ OrderOf(y)' /\ MarksOf(y)'
  <2>1. UndoKept(y)
    BY <1>2, <1>4 DEF UndoKept, Active
  <2> QED BY <2>1, SameUndo
<1> QED BY <1>5, <1>6, <1>7, <1>8, <1>9, <1>10, <1>11, <1>12, <1>13
        DEF MvccInv, StatementOK, UndoOK

LEMMA CommitInv ==
  ASSUME MvccInv, NEW x \in Xids, Commit(x), UNCHANGED load
  PROVE  MvccInv'
<1>1. x \in Active /\ op[x] = Idle /\ Forget(x, "committed")
  BY DEF Commit, Active
<1>2. intent' \in [Xids -> [Rows -> {"keep", "put", "delete"}]]
  <2>1. intent \in [Xids -> [Rows -> {"keep", "put", "delete"}]]
    BY DEF MvccInv, TypeInv
  <2> QED BY <2>1 DEF Commit, NoWrites
<1>3. UNCHANGED <<load, nextXid, iso, op, ver, lock, reader, vacuum>>
  BY DEF Commit
<1>4. "committed" \in {"committed", "aborted"} /\ "committed" # "aborted"
  OBVIOUS
<1> QED BY <1>1, <1>2, <1>3, <1>4, ForgetInv

\* abort, when the log is empty: every mark is gone or doubled.
LEMMA AbortDoneInv ==
  ASSUME MvccInv, NEW x \in Xids, AbortDone(x), UNCHANGED load
  PROVE  MvccInv'
<1>1. /\ x \in Active /\ state[x] = "aborting" /\ undo[x] = <<>> /\ Forget(x, "aborted")
      /\ UNCHANGED <<load, nextXid, iso, op, ver, lock, reader, vacuum, intent>>
  BY DEF AbortDone, Active, histVars
<1>2. op[x] = Idle
  <2>1. StatementOf(x)
    BY DEF MvccInv, StatementOK
  <2> QED BY <1>1, <2>1 DEF StatementOf
<1>3. intent' \in [Xids -> [Rows -> {"keep", "put", "delete"}]]
  BY <1>1 DEF MvccInv, TypeInv
<1>4. \A i \in Slots : ver[i].slot = "live" => (ver[i].xmin = x <=> ver[i].xmax = x)
  <2>1. MarksOf(x)
    BY <1>1 DEF MvccInv, UndoOK
  <2>2. \A i \in Slots : ~Kills(x, i) /\ ~Revives(x, i) /\ ~Unlinked(x, i) /\ ~Superseded(x, i)
    BY <1>1, <1>2 DEF Kills, Revives, Unlinked, Superseded, Idle
  <2> QED BY <2>1, <2>2 DEF MarksOf
<1>5. "aborted" \in {"committed", "aborted"}
  OBVIOUS
<1> QED BY <1>1, <1>2, <1>3, <1>4, <1>5, ForgetInv

\* One undo step: what it names is what the log says, so it touches nobody
\* else's mark, and each of its own it clears or doubles.
LEMMA UndoInv ==
  ASSUME MvccInv, NEW x \in Xids, Undo(x), UNCHANGED load
  PROVE  MvccInv'
<1> USE XidFacts
<1>a. TypeInv /\ ClosedOK /\ VersionXids /\ SnapsOK /\ VacuumOK /\ StatementOK /\ UndoOK
      /\ AbortLeavesNothing
  BY DEF MvccInv
<1>b. /\ nextXid \in Nat /\ nextXid >= 2
      /\ \A z \in Active : z \in Xids /\ z < nextXid /\ z # NoXid /\ z \in Nat /\ z # 1
      /\ \A i \in Slots : ver[i].xmin \in Nat /\ ver[i].xmax \in Nat
      /\ vacuum.horizon \in Nat /\ vacuum.cand \subseteq Slots
      /\ \A k \in DOMAIN undo[x] : undo[x][k].kill \subseteq Slots /\ undo[x][k].revive \subseteq Slots
  BY <1>a, TypeFacts
<1>c. undo \in [Xids -> Seq(Step1)] /\ ver \in [Slots -> VerType]
  BY <1>a DEF TypeInv, VerType
<1> DEFINE m == Len(undo[x])
           K == undo[x][m].kill
           R == undo[x][m].revive
<1>1. /\ state[x] = "aborting" /\ undo[x] # <<>>
      /\ ver' = [i \in Slots |-> IF i \in K THEN [ver[i] EXCEPT !.xmax = x]
                                 ELSE IF i \in R THEN [ver[i] EXCEPT !.xmax = NoXid]
                                 ELSE ver[i]]
      /\ undo' = [undo EXCEPT ![x] = SubSeq(undo[x], 1, m - 1)]
      /\ UNCHANGED <<load, txnVars, op, lock, reader, vacuum, intent>>
  BY DEF Undo, histVars
<1>2. /\ m \in DOMAIN undo[x] /\ DOMAIN undo[x] = 1 .. m /\ m \in Nat
      /\ undo'[x] \in Seq(Step1) /\ DOMAIN undo'[x] = 1 .. m - 1
      /\ \A k \in 1 .. m - 1 : undo'[x][k] = undo[x][k]
      /\ \A y \in Xids \ {x} : undo'[y] = undo[y]
      /\ undo' \in [Xids -> Seq(Step1)]
  <2> DEFINE u == SubSeq(undo[x], 1, m - 1)
  <2>1. undo[x] \in Seq(Step1)
    BY <1>c
  <2> HIDE DEF Step1
  <2>2. m \in Nat \ {0} /\ DOMAIN undo[x] = 1 .. m
    BY <1>1, <2>1, EmptySeq, LenProperties
  <2>3. u \in Seq(Step1) /\ DOMAIN u = 1 .. m - 1 /\ \A k \in 1 .. m - 1 : u[k] = undo[x][k]
    BY <2>1, <2>2
  <2>4. undo' = [undo EXCEPT ![x] = u]
    BY <1>1
  <2> HIDE DEF u
  <2> QED BY <1>c, <2>2, <2>3, <2>4
<1>3. K \subseteq Slots /\ R \subseteq Slots
  BY <1>b, <1>2
<1>4. /\ state' = state /\ Active' = Active /\ load' = load /\ op' = op /\ x \in Active
      /\ snap' = snap /\ nextXid' = nextXid /\ lock' = lock /\ vacuum' = vacuum
  BY <1>1 DEF txnVars, Active
<1>5. TargetsOf(x) /\ OrderOf(x) /\ MarksOf(x)
  BY <1>a, <1>4 DEF UndoOK
<1>6. /\ \A i \in K : ver[i].slot = "live" /\ ver[i].xmin = x
      /\ \A i \in R : ver[i].slot = "live" /\ ver[i].xmax = x
  BY <1>2, <1>5 DEF TargetsOf
<1> HIDE DEF K, R, m
<1>7. /\ ver' \in [Slots -> VerType]
      /\ \A i \in Slots : /\ ver'[i].slot = ver[i].slot /\ ver'[i].xmin = ver[i].xmin
                          /\ ver'[i].hint = ver[i].hint
      /\ \A i \in K : ver'[i].xmax = x
      /\ \A i \in R \ K : ver'[i].xmax = NoXid
      /\ \A i \in Slots \ (K \cup R) : ver'[i] = ver[i]
  <2>2. \A i \in K : ver'[i] = [ver[i] EXCEPT !.xmax = x]
    BY <1>1, <1>3
  <2>3. \A i \in R \ K : ver'[i] = [ver[i] EXCEPT !.xmax = NoXid]
    BY <1>1, <1>3
  <2>4. \A i \in Slots \ (K \cup R) : ver'[i] = ver[i]
    BY <1>1
  <2>5. DOMAIN ver' = Slots /\ ver' = [i \in Slots |-> ver'[i]]
    BY <1>1
  <2>6. ASSUME NEW i \in Slots
        PROVE  /\ ver'[i] \in VerType /\ ver'[i].slot = ver[i].slot
               /\ ver'[i].xmin = ver[i].xmin /\ ver'[i].hint = ver[i].hint
               /\ i \in K => ver'[i].xmax = x
               /\ i \in R \ K => ver'[i].xmax = NoXid
    <3>a. ver[i] \in VerType
      BY <1>c
    <3>1. CASE i \in K
      <4>1. ver'[i] = [ver[i] EXCEPT !.xmax = x]
        BY <2>2, <3>1
      <4> QED BY <3>a, <3>1, <4>1 DEF VerType
    <3>2. CASE i \in R \ K
      <4>1. ver'[i] = [ver[i] EXCEPT !.xmax = NoXid]
        BY <2>3, <3>2
      <4> QED BY <3>a, <3>2, <4>1 DEF VerType
    <3>3. CASE i \in Slots \ (K \cup R)
      BY <1>c, <2>4, <3>3
    <3> QED BY <3>1, <3>2, <3>3
  <2> HIDE DEF VerType
  <2> QED BY <1>3, <2>4, <2>5, <2>6
<1>8. op[x] = Idle
  BY <1>a, <1>1 DEF StatementOK, StatementOf
<1>9. TypeInv'
  BY <1>a, <1>1, <1>2, <1>7, Zenon DEF TypeInv, VerType, txnVars
<1>10. ClosedOK'
  BY <1>a, <1>2, <1>4 DEF ClosedOK
<1>11. \A i \in Slots : i \in K \/ i \in R \ K \/ i \in Slots \ (K \cup R)
  OBVIOUS
<1>12. VersionXids'
  BY <1>a, <1>b, <1>4, <1>7, <1>11 DEF VersionXids
<1>13. SnapsOK'
  BY <1>a, <1>4 DEF SnapsOK, IsCommittedAt
<1>14. \A i \in K : ver[i].xmax \in {NoXid, x}
  BY <1>3, <1>5, <1>6 DEF MarksOf
<1>15. VacuumOK'
  <2>1. \A i \in vacuum.cand : i \notin K \cup R
    <3>1. \A i \in vacuum.cand : /\ ver[i].xmax # NoXid /\ ver[i].xmax < vacuum.horizon
                                 /\ x >= vacuum.horizon
      BY <1>a, <1>4 DEF VacuumOK
    <3> QED BY <1>b, <1>4, <1>6, <1>14, <3>1
  <2> QED BY <1>a, <1>b, <1>4, <1>7, <2>1 DEF VacuumOK
<1>16. AbortLeavesNothing'
  <2> SUFFICES ASSUME NEW z \in Xids, NEW i \in Slots, state'[z] = "aborted",
                      ver'[i].slot = "live"
               PROVE  ver'[i].xmin = z <=> ver'[i].xmax = z
    BY DEF AbortLeavesNothing
  <2>a. state[z] = "aborted" /\ ver[i].slot = "live"
    BY <1>4, <1>7
  <2>1. ver[i].xmin = z <=> ver[i].xmax = z
    BY <1>a, <2>a DEF AbortLeavesNothing
  <2>2. z # x /\ z # NoXid
    BY <1>1, <2>a
  <2> QED BY <1>6, <1>7, <1>11, <2>1, <2>2
<1>17. ASSUME NEW y \in Xids PROVE StatementOf(y)'
  <2>1. CASE y = x
    BY <1>4, <1>8, <2>1 DEF StatementOf
  <2>2. CASE y # x
    <3>1. ASSUME NEW i \in Slots, ver[i].xmin \notin Active \ {y}
          PROVE  /\ ver'[i].slot = ver[i].slot /\ ver'[i].xmin = ver[i].xmin
                 /\ ver'[i].xmax \in {NoXid, ver[i].xmax}
                 /\ ver[i].xmax = y => ver'[i].xmax = y
      <4>1. i \notin K
        BY <1>4, <1>6, <2>2, <3>1
      <4> QED BY <1>6, <1>7, <1>11, <2>2, <4>1
    <3>2. StatementKept(y)
      BY <1>2, <1>4, <2>2, <3>1 DEF StatementKept
    <3> QED BY <3>2, SameStatement
  <2> QED BY <2>1, <2>2
<1>18. ASSUME NEW y \in Active \ {x} PROVE TargetsOf(y)' /\ OrderOf(y)' /\ MarksOf(y)'
  <2>1. y \in Xids /\ y # NoXid /\ MarksOf(y)
    BY <1>a, <1>b DEF UndoOK
  <2>2. ASSUME NEW i \in Slots, ver[i].slot = "live", y \in {ver[i].xmin, ver[i].xmax}
        PROVE  i \notin K \cup R
    <3>1. i \notin K
      BY <1>6, <1>14, <2>1, <2>2
    <3>2. i \in R => ver[i].xmin = y /\ ver[i].xmax = x
      BY <1>6, <2>2
    <3>3. ver[i].xmin = y => ver[i].xmax \in {NoXid, y}
      BY <2>1, <2>2 DEF MarksOf
    <3> QED BY <1>b, <1>4, <3>1, <3>2, <3>3
  <2>3. ASSUME NEW i \in Slots, ver'[i].slot = "live", y \in {ver'[i].xmin, ver'[i].xmax}
        PROVE  ver[i].slot = "live" /\ y \in {ver[i].xmin, ver[i].xmax}
    BY <1>7, <1>11, <2>1, <2>3
  <2>4. UndoKept(y)
    BY <1>2, <1>4, <1>7, <2>1, <2>2, <2>3 DEF UndoKept
  <2> QED BY <2>4, SameUndo
<1>19. \A k \in DOMAIN undo'[x] : /\ k \in DOMAIN undo[x] /\ k # m /\ k < m
                                  /\ undo'[x][k] = undo[x][k]
  BY <1>2
<1>20. \A k \in DOMAIN undo[x] : k # m => k \in DOMAIN undo'[x] /\ undo'[x][k] = undo[x][k]
  BY <1>2
<1>21. TargetsOf(x)'
  <2> SUFFICES ASSUME NEW k \in DOMAIN undo'[x]
               PROVE  /\ \A i \in undo[x][k].revive : ver'[i].slot = "live" /\ ver'[i].xmax = x
                      /\ \A i \in undo[x][k].kill : ver'[i].slot = "live" /\ ver'[i].xmin = x
    BY <1>19 DEF TargetsOf
  <2>1. k \in DOMAIN undo[x] /\ k # m
    BY <1>19
  <2>2. \A i \in undo[x][k].revive : i \notin R
    BY <1>2, <1>5, <2>1 DEF OrderOf, R
  <2>3. undo[x][k].revive \subseteq Slots /\ undo[x][k].kill \subseteq Slots
    BY <1>b, <2>1
  <2>4. /\ \A i \in undo[x][k].revive : ver[i].slot = "live" /\ ver[i].xmax = x
        /\ \A i \in undo[x][k].kill : ver[i].slot = "live" /\ ver[i].xmin = x
    BY <1>5, <2>1 DEF TargetsOf
  <2>5. ASSUME NEW i \in undo[x][k].revive PROVE ver'[i].slot = "live" /\ ver'[i].xmax = x
    <3>1. i \in Slots /\ i \notin R /\ ver[i].slot = "live" /\ ver[i].xmax = x
      BY <2>2, <2>3, <2>4
    <3> QED BY <1>7, <3>1
  <2>6. ASSUME NEW i \in undo[x][k].kill PROVE ver'[i].slot = "live" /\ ver'[i].xmin = x
    <3>1. i \in Slots /\ ver[i].slot = "live" /\ ver[i].xmin = x
      BY <2>3, <2>4
    <3> QED BY <1>7, <3>1
  <2> QED BY <2>5, <2>6
<1>22. OrderOf(x)'
  <2> SUFFICES ASSUME NEW k \in DOMAIN undo'[x], NEW i \in undo[x][k].revive
               PROVE  /\ \A l \in DOMAIN undo'[x] : l # k => i \notin undo'[x][l].revive
                      /\ ver'[i].xmin = x => \E l \in DOMAIN undo'[x] : l < k /\ i \in undo'[x][l].kill
    BY <1>19 DEF OrderOf
  <2>1. k \in DOMAIN undo[x] /\ k < m /\ i \in Slots
    BY <1>b, <1>19
  <2>2. /\ \A l \in DOMAIN undo[x] : l # k => i \notin undo[x][l].revive
        /\ ver[i].xmin = x => \E l \in DOMAIN undo[x] : l < k /\ i \in undo[x][l].kill
    BY <1>5, <2>1 DEF OrderOf
  <2>3. \A l \in DOMAIN undo[x] : l < k => l # m
    BY <1>2, <2>1
  <2> QED BY <1>7, <1>19, <1>20, <2>1, <2>2, <2>3
<1>23. MarksOf(x)'
  <2> SUFFICES ASSUME NEW i \in Slots, ver[i].slot = "live"
               PROVE  /\ ver[i].xmin = x =>
                           /\ ver'[i].xmax \in {NoXid, x}
                           /\ Kills(x, i)' \/ ver'[i].xmax = x
                      /\ ver'[i].xmax = x => Revives(x, i)' \/ ver[i].xmin = x
    BY <1>1, <1>4, <1>7 DEF MarksOf
  <2>1. /\ ver[i].xmin = x => ver[i].xmax \in {NoXid, x} /\ (Kills(x, i) \/ ver[i].xmax = x)
        /\ ver[i].xmax = x => Revives(x, i) \/ ver[i].xmin = x
    <3>1. ~Unlinked(x, i) /\ ~Superseded(x, i)
      BY <1>8 DEF Unlinked, Superseded, Idle
    <3> QED BY <1>5, <3>1 DEF MarksOf
  <2>2. Kills(x, i) => i \in K \/ Kills(x, i)'
    BY <1>20 DEF Kills, K
  <2>3. Revives(x, i) => i \in R \/ Revives(x, i)'
    BY <1>20 DEF Revives, R
  <2>4. i \in R /\ ver[i].xmin = x => Kills(x, i)'
    <3>1. i \in R /\ ver[i].xmin = x => \E l \in DOMAIN undo[x] : l < m /\ i \in undo[x][l].kill
      BY <1>2, <1>5 DEF OrderOf, R
    <3>2. \A l \in DOMAIN undo[x] : l < m => l # m
      BY <1>2
    <3> QED BY <1>20, <3>1, <3>2 DEF Kills
  <2> QED BY <1>6, <1>7, <1>11, <2>1, <2>2, <2>3, <2>4
<1> QED BY <1>4, <1>9, <1>10, <1>12, <1>13, <1>15, <1>16, <1>17, <1>18, <1>21, <1>22, <1>23
        DEF MvccInv, StatementOK, UndoOK

----------------------------------------------------------------------------
(* The start of a transaction and of a statement *)

\* begin: no version bears the new xid, no snapshot reaches it, and every xid
\* below a running vacuum's horizon is over.
LEMMA BeginInv ==
  ASSUME MvccInv, NEW x \in Xids, NEW lvl \in load.isolations, Begin(x, lvl), UNCHANGED load
  PROVE  MvccInv'
<1> USE XidFacts
<1>a. TypeInv /\ ClosedOK /\ VersionXids /\ SnapsOK /\ VacuumOK /\ StatementOK /\ UndoOK
      /\ AbortLeavesNothing
  BY DEF MvccInv
<1>b. /\ nextXid \in Nat /\ nextXid >= 2 /\ load \in Loads
      /\ \A z \in Xids : z < nextXid <=> state[z] # "unborn"
      /\ \A z \in Active : z \in Xids /\ z < nextXid /\ z # NoXid /\ z \in Nat /\ z # 1
      /\ \A i \in Slots : ver[i].xmin \in Nat /\ ver[i].xmax \in Nat
      /\ vacuum.horizon \in Nat
  BY <1>a, TypeFacts
<1>c. /\ state \in [Xids -> {"unborn", "active", "aborting", "committed", "aborted"}]
      /\ snap \in [Xids -> [xmin : Nat, xmax : Nat, active : SUBSET Xids]]
      /\ iso \in [Xids -> Isolations] /\ state[1] = "committed"
      /\ reader.snap.xmin \in Nat /\ reader.snap.xmin <= nextXid
      /\ \A z \in Xids : state[z] = "unborn" <=> z >= nextXid
  BY <1>a DEF TypeInv
<1> DEFINE s == ComputeSnapshot(nextXid + 1)
<1>1. /\ x = nextXid /\ nextXid' = nextXid + 1
      /\ state' = [state EXCEPT ![x] = "active"] /\ iso' = [iso EXCEPT ![x] = lvl]
      /\ snap' = [snap EXCEPT ![x] = s]
      /\ UNCHANGED <<load, undo, op, ver, lock, reader, vacuum, intent>>
  BY DEF Begin
<1>2. /\ s \in [xmin : Nat, xmax : Nat, active : SUBSET Xids]
      /\ s.xmax = nextXid + 1
      /\ \A z \in Active : ~IsCommittedAt(s, z)
      /\ \A z \in Xids \ Active : z < nextXid + 1 => IsCommittedAt(s, z)
  <2>1. nextXid + 1 \in Nat
    BY <1>b
  <2> QED BY <2>1, SnapshotFact
<1> HIDE DEF s
<1>3. lvl \in Isolations
  BY <1>b, LoadAssumption
<1>4. /\ state' \in [Xids -> {"unborn", "active", "aborting", "committed", "aborted"}]
      /\ state'[x] = "active" /\ \A y \in Xids \ {x} : state'[y] = state[y]
      /\ x # 1 /\ state'[1] = "committed"
      /\ \A z \in Xids : state'[z] = "unborn" <=> z >= nextXid'
      /\ nextXid' \in 2 .. MaxXid + 1
  <2>1. x <= MaxXid
    BY DEF Xids
  <2> QED BY <1>b, <1>c, <1>1, <2>1
<1>5. /\ snap' \in [Xids -> [xmin : Nat, xmax : Nat, active : SUBSET Xids]]
      /\ snap'[x] = s /\ \A y \in Xids \ {x} : snap'[y] = snap[y]
      /\ iso' \in [Xids -> Isolations]
  BY <1>c, <1>1, <1>2, <1>3
<1>6. TypeInv'
  <2>1. reader'.snap.xmin \in Nat /\ reader'.snap.xmin <= nextXid'
    BY <1>b, <1>c, <1>1
  <2>2. UNCHANGED <<load, undo, op, ver, lock, vacuum, intent>>
    BY <1>1
  <2> QED BY <1>a, <1>4, <1>5, <2>1, <2>2, Zenon DEF TypeInv
<1>7. Active' = Active \cup {x} /\ x \notin Active
  BY <1>b, <1>1, <1>4 DEF Active
<1>8. ClosedOK' /\ op[x] = Idle /\ undo[x] = <<>>
  BY <1>a, <1>1, <1>7 DEF ClosedOK
<1>9. \A i \in Slots : ver[i].xmin < nextXid /\ ver[i].xmax < nextXid
  BY <1>a DEF VersionXids
<1>10. VersionXids'
  BY <1>a, <1>b, <1>1, <1>9 DEF VersionXids
<1>11. vacuum.pc # "idle" => vacuum.horizon <= nextXid /\ \A z \in Active : z >= vacuum.horizon
  BY <1>a DEF VacuumOK
<1>12. SnapsOK'
  <2> SUFFICES ASSUME NEW y \in Active \cup {x}
               PROVE  /\ snap'[y].xmax <= nextXid + 1
                      /\ \A z \in (Active \cup {x}) \ {y} : ~IsCommittedAt(snap'[y], z)
                      /\ vacuum.pc # "idle" =>
                           \A z \in Xids : z < vacuum.horizon => IsCommittedAt(snap'[y], z)
    BY <1>1, <1>7 DEF SnapsOK, IsCommittedAt
  <2>1. CASE y = x
    <3>1. ASSUME vacuum.pc # "idle", NEW z \in Xids, z < vacuum.horizon
          PROVE  IsCommittedAt(s, z)
      <4>1. z \notin Active
        BY <1>b, <1>11, <3>1
      <4>2. z < nextXid + 1
        BY <1>b, <1>11, <3>1
      <4> QED BY <1>2, <4>1, <4>2
    <3>2. \A z \in Active : ~IsCommittedAt(s, z)
      BY <1>2
    <3>3. snap'[y] = s /\ s.xmax <= nextXid + 1
      BY <1>b, <1>2, <1>5, <2>1
    <3> QED BY <2>1, <3>1, <3>2, <3>3
  <2>2. CASE y \in Active
    <3>1. snap'[y] = snap[y] /\ y \in Xids
      BY <1>5, <1>7, <2>2 DEF Active
    <3>2. /\ snap[y].xmax <= nextXid
          /\ \A z \in Active \ {y} : ~IsCommittedAt(snap[y], z)
          /\ vacuum.pc # "idle" => \A z \in Xids : z < vacuum.horizon => IsCommittedAt(snap[y], z)
      BY <1>a, <2>2 DEF SnapsOK
    <3>3. snap[y].xmax \in Nat
      BY <1>c, <3>1
    <3>4. ~IsCommittedAt(snap[y], x)
      BY <1>b, <1>1, <3>2, <3>3 DEF IsCommittedAt
    <3> QED BY <1>b, <3>1, <3>2, <3>3, <3>4
  <2> QED BY <2>1, <2>2
<1>13. VacuumOK'
  BY <1>a, <1>b, <1>1, <1>7 DEF VacuumOK
<1>14. AbortLeavesNothing'
  BY <1>a, <1>1, <1>4 DEF AbortLeavesNothing
<1>15. ASSUME NEW y \in Xids PROVE StatementOf(y)'
  <2>1. CASE y = x
    BY <1>1, <1>8, <2>1 DEF StatementOf
  <2>2. CASE y # x
    <3>1. \A i \in Slots : ver[i].xmin # x
      BY <1>b, <1>1, <1>9
    <3>2. StatementKept(y)
      BY <1>1, <1>4, <1>7, <2>2, <3>1 DEF StatementKept
    <3> QED BY <3>2, SameStatement
  <2> QED BY <2>1, <2>2
<1>16. ASSUME NEW y \in Active PROVE TargetsOf(y)' /\ OrderOf(y)' /\ MarksOf(y)'
  <2>1. UndoKept(y)
    BY <1>1, <1>4, <1>7 DEF UndoKept, Active
  <2> QED BY <2>1, SameUndo
<1>17. TargetsOf(x)' /\ OrderOf(x)' /\ MarksOf(x)'
  <2>1. undo'[x] = <<>> /\ ver' = ver
    BY <1>1, <1>8
  <2>2. \A i \in Slots : ver[i].xmin # x /\ ver[i].xmax # x
    BY <1>b, <1>1, <1>9
  <2> QED BY <2>1, <2>2 DEF TargetsOf, OrderOf, MarksOf
<1> QED BY <1>6, <1>7, <1>8, <1>10, <1>12, <1>13, <1>14, <1>15, <1>16, <1>17
        DEF MvccInv, StatementOK, UndoOK

\* A scan finds one target at a time.
LEMMA OneTarget ==
  ASSUME MvccInv, Orderly(load), NEW path \in load.paths, path # "insert",
         NEW x, NEW s, NEW ts \in Targets(x, s, path)
  PROVE  \E i \in Slots : ts = {i} /\ IsVisible(ver[i], s, x)
<1>1. /\ ts \subseteq Slots /\ ts # {}
      /\ \A i \in ts : IsVisible(ver[i], s, x)
      /\ Cardinality(ts) <= IF path \in Many THEN load.batch ELSE 1
  BY DEF Targets, VisibleSlots, Many
<1>2. Cardinality(ts) <= 1
  BY <1>1 DEF Orderly
<1>3. IsFiniteSet(Slots)
  BY BoundAssumption, FS_Interval DEF Slots
<1>4. IsFiniteSet(ts) /\ Cardinality(ts) \in Nat
  BY <1>1, <1>3, FS_Subset, FS_CardinalityType
<1>5. Cardinality(ts) # 0
  BY <1>1, <1>4, FS_EmptySet
<1>6. Cardinality(ts) = 1
  BY <1>2, <1>4, <1>5
<1>7. \E i : ts = {i}
  BY <1>4, <1>6, FS_Singleton
<1> QED BY <1>1, <1>7

\* What the visibility rules say of a version that a snapshot sees.
LEMMA VisibleFact ==
  ASSUME MvccInv, NEW x \in Active, NEW s,
         \A y \in Active \ {x} : ~IsCommittedAt(s, y),
         vacuum.pc # "idle" => \A z \in Xids : z < vacuum.horizon => IsCommittedAt(s, z),
         NEW i \in Slots, IsVisible(ver[i], s, x)
  PROVE  /\ ver[i].slot = "live" /\ ver[i].xmin \notin Active \ {x}
         /\ vacuum.pc # "idle" => ver[i].xmax = NoXid \/ ver[i].xmax >= vacuum.horizon
<1>a. TypeInv /\ VersionXids
  BY DEF MvccInv
<1>b. /\ \A z \in Active : z # NoXid /\ z # 1
      /\ ver[i].xmin \in Xids \cup {NoXid} /\ ver[i].xmax \in Xids \cup {NoXid}
      /\ ver[i].xmax \in Nat /\ vacuum.horizon \in Nat
  BY <1>a, TypeFacts
<1>1. ver[i].slot = "live"
  BY DEF IsVisible
<1>2. ver[i].hint => ver[i].xmin \in {NoXid, 1}
  BY <1>a DEF VersionXids
<1>3. ver[i].xmin \notin Active \ {x}
  BY <1>b, <1>2 DEF IsVisible
<1>4. ver[i].xmax = NoXid \/ ~IsCommittedAt(s, ver[i].xmax)
  BY DEF IsVisible
<1> QED BY <1>b, <1>1, <1>3, <1>4

LEMMA StatementInv ==
  ASSUME MvccInv, Orderly(load), NEW x \in Xids, NEW path \in load.paths, Statement(x, path),
         UNCHANGED load
  PROVE  MvccInv'
<1> USE XidFacts
<1>a. TypeInv /\ ClosedOK /\ VersionXids /\ SnapsOK /\ VacuumOK /\ StatementOK /\ UndoOK
      /\ AbortLeavesNothing
  BY DEF MvccInv
<1>b. /\ nextXid \in Nat /\ load \in Loads /\ vacuum.horizon \in Nat
      /\ \A z \in Active : z \in Xids
  BY <1>a, TypeFacts
<1>c. /\ snap \in [Xids -> [xmin : Nat, xmax : Nat, active : SUBSET Xids]]
      /\ op \in [Xids -> OpType]
  BY <1>a DEF TypeInv, OpType
<1> DEFINE s == IF iso[x] = "ReadCommitted" THEN ComputeSnapshot(nextXid) ELSE snap[x]
<1>1. /\ state[x] = "active" /\ op[x] = Idle /\ snap' = [snap EXCEPT ![x] = s]
      /\ UNCHANGED <<load, nextXid, state, iso, undo, ver, lock, reader, vacuum, intent>>
  BY DEF Statement
<1>2. PICK ts \in Targets(x, s, path) :
        op' = [op EXCEPT ![x] = [path |-> path, stage |-> FirstStage(path),
                                 todo |-> PageOrder(ts), old |-> PageOrder(ts), new |-> <<>>]]
  BY DEF Statement
<1>3. Active' = Active /\ x \in Active
  BY <1>1 DEF Active
<1>4. /\ s \in [xmin : Nat, xmax : Nat, active : SUBSET Xids]
      /\ s.xmax <= nextXid
      /\ \A y \in Active \ {x} : ~IsCommittedAt(s, y)
      /\ vacuum.pc # "idle" => \A z \in Xids : z < vacuum.horizon => IsCommittedAt(s, z)
  <2>1. CASE iso[x] = "ReadCommitted"
    <3>1. s = ComputeSnapshot(nextXid)
      BY <2>1
    <3>2. /\ ComputeSnapshot(nextXid) \in [xmin : Nat, xmax : Nat, active : SUBSET Xids]
          /\ ComputeSnapshot(nextXid).xmax = nextXid
          /\ \A z \in Active : ~IsCommittedAt(ComputeSnapshot(nextXid), z)
          /\ \A z \in Xids \ Active : z < nextXid => IsCommittedAt(ComputeSnapshot(nextXid), z)
      BY <1>b, SnapshotFact
    <3>3. vacuum.pc # "idle" => \A z \in Xids : z < vacuum.horizon => z \notin Active /\ z < nextXid
      BY <1>a, <1>b DEF VacuumOK
    <3> HIDE DEF s
    <3> QED BY <1>b, <3>1, <3>2, <3>3
  <2>2. CASE iso[x] # "ReadCommitted"
    <3>1. s = snap[x]
      BY <2>2
    <3> HIDE DEF s
    <3> QED BY <1>a, <1>c, <1>3, <3>1 DEF SnapsOK
  <2> QED BY <2>1, <2>2
<1> HIDE DEF s
<1>5. /\ snap' \in [Xids -> [xmin : Nat, xmax : Nat, active : SUBSET Xids]]
      /\ snap'[x] = s /\ \A y \in Xids \ {x} : snap'[y] = snap[y]
  BY <1>c, <1>1, <1>4
<1>6. /\ path \in Paths /\ FirstStage(path) \in {"lock", "stamp", "insert"}
      /\ FirstStage(path) \in Stages(path)
      /\ path \in Locked => FirstStage(path) = "lock"
      /\ path # "insert" => FirstStage(path) # "insert"
  <2>1. path \in Paths
    BY <1>b, LoadAssumption
  <2> QED BY <2>1 DEF Paths, FirstStage, Stages, Locked
<1>7. \/ path = "insert" /\ PageOrder(ts) = <<>>
      \/ /\ path # "insert"
         /\ \E i \in Slots : PageOrder(ts) = <<i>> /\ IsVisible(ver[i], s, x)
  <2>1. CASE path = "insert"
    <3>1. ts = {}
      BY <1>2, <2>1 DEF Targets
    <3> QED BY <2>1, <3>1, PageOrderFact
  <2>2. CASE path # "insert"
    <3>1. \E i \in Slots : ts = {i} /\ IsVisible(ver[i], s, x)
      BY <1>2, <2>2, OneTarget
    <3> QED BY <2>2, <3>1, PageOrderFact
  <2> QED BY <2>1, <2>2
<1>8. PageOrder(ts) \in Seq(Slots)
  <2>1. <<>> \in Seq(Slots) /\ \A i \in Slots : <<i>> \in Seq(Slots)
    OBVIOUS
  <2> QED BY <1>7, <2>1
<1>9. /\ op' \in [Xids -> OpType] /\ \A y \in Xids \ {x} : op'[y] = op[y]
      /\ op'[x].path = path /\ op'[x].stage = FirstStage(path)
      /\ op'[x].todo = PageOrder(ts) /\ op'[x].old = PageOrder(ts) /\ op'[x].new = <<>>
  <2> DEFINE o == [path |-> path, stage |-> FirstStage(path), todo |-> PageOrder(ts),
                   old |-> PageOrder(ts), new |-> <<>>]
  <2>1. <<>> \in Seq(Slots)
    OBVIOUS
  <2>2. /\ o \in OpType /\ o.path = path /\ o.stage = FirstStage(path)
        /\ o.todo = PageOrder(ts) /\ o.old = PageOrder(ts) /\ o.new = <<>>
    BY <1>6, <1>8, <2>1 DEF OpType
  <2>3. op' = [op EXCEPT ![x] = o]
    BY <1>2
  <2> HIDE DEF o
  <2> QED BY <1>c, <2>2, <2>3
<1>10. TypeInv'
  BY <1>a, <1>1, <1>5, <1>9, Zenon DEF TypeInv, OpType
<1>11. ClosedOK' /\ VersionXids' /\ VacuumOK' /\ AbortLeavesNothing'
  <2>1. ClosedOK'
    BY <1>a, <1>1, <1>3, <1>9 DEF ClosedOK, Active
  <2>2. VersionXids' /\ VacuumOK' /\ AbortLeavesNothing'
    BY <1>a, <1>1, <1>3 DEF VersionXids, VacuumOK, AbortLeavesNothing
  <2> QED BY <2>1, <2>2
<1>12. SnapsOK'
  <2> SUFFICES ASSUME NEW y \in Active
               PROVE  /\ snap'[y].xmax <= nextXid
                      /\ \A z \in Active \ {y} : ~IsCommittedAt(snap'[y], z)
                      /\ vacuum.pc # "idle" =>
                           \A z \in Xids : z < vacuum.horizon => IsCommittedAt(snap'[y], z)
    BY <1>1, <1>3 DEF SnapsOK, IsCommittedAt
  <2>1. CASE y = x
    BY <1>4, <1>5, <2>1
  <2>2. CASE y # x
    BY <1>a, <1>b, <1>5, <2>2 DEF SnapsOK
  <2> QED BY <2>1, <2>2
<1>13. StatementOf(x)'
  <2>1. state'[x] = "active" /\ op'[x].path \in load'.paths /\ op'[x].stage \in Stages(op'[x].path)
    BY <1>1, <1>6, <1>9
  <2>2. CASE path = "insert"
    BY <1>9, <2>1, <2>2 DEF StatementOf, Stages
  <2>3. CASE path # "insert"
    <3>1. PICK i \in Slots : PageOrder(ts) = <<i>> /\ IsVisible(ver[i], s, x)
      BY <1>7, <2>3
    <3>2. /\ ver[i].slot = "live" /\ ver[i].xmin \notin Active \ {x}
          /\ vacuum.pc # "idle" => ver[i].xmax = NoXid \/ ver[i].xmax >= vacuum.horizon
      BY <1>3, <1>4, <3>1, VisibleFact
    <3>3. op'[x].stage \in {"lock", "stamp"} /\ (op'[x].path \in Locked => op'[x].stage = "lock")
      BY <1>6, <1>9, <2>3
    <3>4. TargetOK(x, i)'
      <4>1. ~Superseded(x, i)'
        BY <3>3 DEF Superseded
      <4> QED BY <1>1, <1>3, <3>2, <3>3, <4>1 DEF TargetOK
    <3> QED BY <1>9, <2>1, <2>3, <3>1, <3>3, <3>4 DEF StatementOf, Stages
  <2> QED BY <2>2, <2>3
<1>14. ASSUME NEW y \in Xids \ {x} PROVE StatementOf(y)'
  <2>1. StatementKept(y)
    BY <1>1, <1>3, <1>9 DEF StatementKept
  <2> QED BY <2>1, SameStatement
<1>15. ASSUME NEW y \in Active \ {x} PROVE TargetsOf(y)' /\ OrderOf(y)' /\ MarksOf(y)'
  <2>1. UndoKept(y)
    BY <1>1, <1>9 DEF UndoKept, Active
  <2> QED BY <2>1, SameUndo
<1>16. TargetsOf(x)' /\ OrderOf(x)' /\ MarksOf(x)'
  <2>1. TargetsOf(x)' /\ OrderOf(x)'
    BY <1>a, <1>1, <1>3 DEF UndoOK, TargetsOf, OrderOf
  <2>2. \A j \in Slots : ~Unlinked(x, j) /\ ~Superseded(x, j)
    BY <1>1 DEF Unlinked, Superseded, Idle
  <2>3. \A j \in Slots : (Kills(x, j) => Kills(x, j)') /\ (Revives(x, j) => Revives(x, j)')
    BY <1>1 DEF Kills, Revives
  <2>4. MarksOf(x)'
    BY <1>1, <2>2, <2>3, OwnMarks DEF MarksOf
  <2> QED BY <2>1, <2>4
<1> QED BY <1>3, <1>10, <1>11, <1>12, <1>13, <1>14, <1>15, <1>16
        DEF MvccInv, StatementOK, UndoOK

----------------------------------------------------------------------------
(* Every step *)

LEMMA StutterInv ==
  ASSUME MvccInv, UNCHANGED vars
  PROVE  MvccInv'
<1>a. TypeInv /\ ClosedOK /\ VersionXids /\ SnapsOK /\ VacuumOK /\ StatementOK /\ UndoOK
      /\ AbortLeavesNothing
  BY DEF MvccInv
<1>1. UNCHANGED <<load, nextXid, state, iso, snap, undo, op, ver, lock, reader, vacuum, intent>>
  BY DEF vars, txnVars, histVars
<1>2. TypeInv'
  BY <1>a, <1>1, Zenon DEF TypeInv
<1>3. /\ VersionXids' /\ AbortLeavesNothing' /\ Active' = Active
      /\ \A y \in Active : TargetsOf(y)' /\ OrderOf(y)' /\ MarksOf(y)'
  BY <1>1, SameVersions
<1>4. StatementOK'
  <2> SUFFICES ASSUME NEW y \in Xids PROVE StatementOf(y)'
    BY DEF StatementOK
  <2>1. StatementKept(y)
    BY <1>1, <1>3 DEF StatementKept
  <2> QED BY <2>1, SameStatement
<1>5. ClosedOK' /\ SnapsOK' /\ VacuumOK'
  BY <1>a, <1>1, <1>3 DEF ClosedOK, SnapsOK, VacuumOK, IsCommittedAt
<1> QED BY <1>2, <1>3, <1>4, <1>5 DEF MvccInv, UndoOK

LEMMA NextInv ==
  ASSUME MvccInv, Orderly(load), [Next]_vars
  PROVE  MvccInv'
<1>1. CASE UNCHANGED vars
  BY <1>1, StutterInv
<1>2. CASE Next
  <2>a. Step /\ UNCHANGED load
    BY <1>2 DEF Next
  <2>1. ASSUME NEW x \in Xids, NEW lvl \in load.isolations, Begin(x, lvl) PROVE MvccInv'
    BY <2>a, <2>1, BeginInv
  <2>2. ASSUME NEW x \in Xids, NEW path \in load.paths, Statement(x, path) PROVE MvccInv'
    BY <2>a, <2>2, StatementInv
  <2>3. ASSUME NEW x \in Xids, InsertRow(x) PROVE MvccInv'
    BY <2>a, <2>3, InsertRowInv
  <2>4. ASSUME NEW x \in Xids, LockRow(x) PROVE MvccInv'
    BY <2>a, <2>4, LockRowInv
  <2>5. ASSUME NEW x \in Xids, DeleteStamp(x) PROVE MvccInv'
    BY <2>a, <2>5, DeleteStampInv
  <2>6. ASSUME NEW x \in Xids, HotUpdate(x) PROVE MvccInv'
    BY <2>a, <2>6, HotUpdateInv
  <2>7. ASSUME NEW x \in Xids, HotXpageCheck(x) PROVE MvccInv'
    BY <2>a, <2>7, HotXpageCheckInv
  <2>8. ASSUME NEW x \in Xids, HotXpageLink(x) PROVE MvccInv'
    BY <2>a, <2>8, HotXpageLinkInv
  <2>9. ASSUME NEW x \in Xids, StampNext(x) PROVE MvccInv'
    BY <2>a, <2>9, StampNextInv
  <2>10. ASSUME NEW x \in Xids, InsertNext(x) PROVE MvccInv'
    BY <2>a, <2>10, InsertNextInv
  <2>11. ASSUME NEW x \in Xids, Conflict(x) \/ Rollback(x) PROVE MvccInv'
    BY <2>a, <2>11, ConflictInv
  <2>12. ASSUME NEW x \in Xids, Commit(x) PROVE MvccInv'
    BY <2>a, <2>12, CommitInv
  <2>13. ASSUME NEW x \in Xids, Undo(x) PROVE MvccInv'
    BY <2>a, <2>13, UndoInv
  <2>14. ASSUME NEW x \in Xids, AbortDone(x) PROVE MvccInv'
    BY <2>a, <2>14, AbortDoneInv
  <2>15. ASSUME NEW x \in Xids, ReleaseLocks(x) PROVE MvccInv'
    BY <2>a, <2>15, ReleaseLocksInv
  <2>16. CASE ReaderOpen \/ ReaderClose
    BY <2>a, <2>16, ReaderInv
  <2>17. CASE VacuumStart
    BY <2>a, <2>17, VacuumStartInv
  <2>18. CASE VacuumCollect \/ VacuumMark \/ VacuumCompact
    BY <2>a, <2>18, VacuumStepInv
  <2> QED BY <2>a, <2>1, <2>2, <2>3, <2>4, <2>5, <2>6, <2>7, <2>8, <2>9, <2>10, <2>11, <2>12,
             <2>13, <2>14, <2>15, <2>16, <2>17, <2>18, Zenon DEF Step
<1> QED BY <1>1, <1>2

LEMMA InvHolds == Spec => [](Orderly(load) => MvccInv)
<1>1. Init => (Orderly(load) => MvccInv)
  BY InitInv
<1>2. (Orderly(load) => MvccInv) /\ [Next]_vars => (Orderly(load) => MvccInv)'
  <2> SUFFICES ASSUME Orderly(load) => MvccInv, [Next]_vars, Orderly(load)' PROVE MvccInv'
    OBVIOUS
  <2>1. load' = load
    BY DEF Next, vars
  <2>2. Orderly(load)
    BY <2>1 DEF Orderly
  <2> QED BY <2>2, NextInv
<1> QED BY <1>1, <1>2, PTL DEF Spec

\* txn.rs, abort: whatever the other transactions, readers and vacuum do, every
\* slot an open transaction's undo log names holds the stamp or the version the
\* log says, up to the moment it is undone.  For every number of rows, xids,
\* slots and undo steps, under every orderly workload.
THEOREM UndoIsSafe == Spec => [](Orderly(load) => UndoTargetsIntact)
<1>1. MvccInv => UndoTargetsIntact
  BY DEF MvccInv, UndoOK, TargetsOf, UndoTargetsIntact
<1> QED BY <1>1, InvHolds, PTL

\* txn.rs, abort, "no live tuple bears this xid any longer": when a rollback is
\* over its xid is left only on versions that it both wrote and stamped, so the
\* readers who will take it for a committed one see nothing of it.  For every
\* number of rows, xids, slots and undo steps, under every orderly workload.
THEOREM AbortsLeaveNothing == Spec => [](Orderly(load) => AbortLeavesNothing)
<1>1. MvccInv => AbortLeavesNothing
  BY DEF MvccInv
<1> QED BY <1>1, InvHolds, PTL
-----------------------------------------------------------------------------
(* Snapshots: one row at a time.                                           *)

\* Version i is part of what a reader that starts now sees.
Cur(i) == /\ ver[i].slot = "live" /\ ver[i].xmin \notin Active
          /\ ver[i].xmax = NoXid \/ ver[i].xmax \in Active

Tip(i, r) == ver[i].slot = "live" /\ ver[i].xmax = NoXid /\ ver[i].row = r

\* x has stamped version i of row r and may still take the stamp back.
Stamps(x, i, r) == (Revives(x, i) \/ Superseded(x, i)) /\ ver[i].row = r

\* A cross-page HOT update has inserted j and not yet stamped i.
Pair(i, j) == \E x \in Active : Unlinked(x, j) /\ op[x].old = <<i>>

\* One unstamped version, one transaction with stamps, and the former is its.
RowOf(r) ==
  /\ \A i, j \in Slots : Tip(i, r) /\ Tip(j, r) => i = j \/ Pair(i, j) \/ Pair(j, i)
  /\ \A x \in Active, i, j \in Slots : Stamps(x, i, r) /\ Tip(j, r) => ver[j].xmin = x
  /\ \A x, y \in Active, i, j \in Slots : Stamps(x, i, r) /\ Stamps(y, j, r) => x = y
  /\ \A x \in Active, i, j \in Slots : Superseded(x, i) /\ ver[i].row = r => ~Tip(j, r)

SameRow(i, j) == ver[i].row = ver[j].row

\* The undo log of a transaction goes back along the versions of each row: when
\* a version is revived, the ones put in its place have been killed.
ChainOf(x) ==
  /\ \A k, l \in DOMAIN undo[x] : \A n \in undo[x][k].kill, i \in undo[x][l].revive :
       k < l /\ n # i /\ SameRow(n, i)
         => \E m \in DOMAIN undo[x] : m < l /\ n \in undo[x][m].revive
  /\ \A k, l \in DOMAIN undo[x] : \A j \in undo[x][k].revive, i \in undo[x][l].revive :
       k <= l /\ j # i /\ SameRow(j, i) => k < l /\ ver[i].xmin = x
  /\ \A i, j \in Slots :
       Superseded(x, i) /\ Revives(x, j) /\ SameRow(i, j) => ver[i].xmin = x

\* The marks of an open transaction are those of its finished writes, and of the
\* statement in progress.
IntentAt(x, r) ==
  /\ intent[x][r] = "keep" => \A i \in Slots :
       /\ ver[i].slot = "live" /\ ver[i].row = r
       /\ ver[i].xmin = x \/ ver[i].xmax = x
       => Unlinked(x, i) \/ Superseded(x, i)
  /\ intent[x][r] = "put" => \E i \in Slots :
       \/ Tip(i, r) /\ ver[i].xmin = x /\ ~Unlinked(x, i)
       \/ Superseded(x, i) /\ ver[i].row = r
  /\ intent[x][r] = "delete" =>
       /\ \E i \in Slots : Revives(x, i) /\ ver[i].row = r
       /\ \A i \in Slots : ~Tip(i, r)

Sees(x, i) == IsVisible(ver[i], snap[x], x)

\* The rows of `base` with the finished writes of x.
Overlay(x, base, r) ==
  CASE intent[x][r] = "put"    -> {x}
    [] intent[x][r] = "delete" -> {}
    [] OTHER                   -> base[r]

\* SnapshotReads of one row, in the middle of a statement too: an old version
\* already stamped is gone, a new one not yet linked does not count.
Read(x, r) == {ver[i].xmin : i \in {j \in Slots : ver[j].row = r /\ Sees(x, j) /\ ~Unlinked(x, j)}}

Replacing(x, r) == \E i \in Slots : Superseded(x, i) /\ ver[i].row = r

ReadsAt(x, r) ==
  /\ \A i, j \in Slots : Sees(x, i) /\ Sees(x, j) /\ ver[i].row = r /\ ver[j].row = r
       => i = j \/ Unlinked(x, i) \/ Unlinked(x, j)
  /\ Replacing(x, r) => \A i \in Slots : ver[i].row = r => ~Sees(x, i)
  /\ ~Replacing(x, r) => Read(x, r) = Overlay(x, seen[x], r)

\* Nobody has committed to a row since the snapshot of a transaction that has
\* written it.
BaseAt(x, r) ==
  intent[x][r] # "keep" \/ Replacing(x, r) => Committed[r] = seen[x][r]

\* A statement sees its target up to the stamp; a new version not yet linked is
\* an unstamped one of the target's row, and nothing would undo it.
TargetSeen(x) ==
  \A i \in Slots : op[x].path \notin {"idle", "insert"} /\ op[x].old = <<i>>
                   /\ ~Superseded(x, i) =>
    /\ Sees(x, i)
    /\ \A n \in Slots : Unlinked(x, n) =>
         Tip(n, ver[i].row) /\ ver[n].xmin = x /\ ~Kills(x, n)

ActiveOf(x) == TargetSeen(x) /\ \A r \in Rows : IntentAt(x, r) /\ ReadsAt(x, r) /\ BaseAt(x, r)

\* Live versions have an inserter, xid 1 is committed for everyone, and the
\* history of a transaction that is not open is empty.
HistoryOK ==
  /\ \A i \in Slots : ver[i].slot = "live" => ver[i].xmin # NoXid
  /\ \A x \in Active : IsCommittedAt(snap[x], 1)
  /\ seen \in [Xids -> [Rows -> SUBSET Xids]]
  /\ \A x \in Xids : state[x] # "active" => intent[x] = NoWrites /\ seen[x] = NoRows

\* The reader's snapshot takes no open transaction for committed, and the
\* versions it saw are there, not stamped by anybody it takes for committed.
ReaderOK ==
  reader # NoReader =>
    /\ reader.snap.xmax \in reader.snap.xmin .. nextXid
    /\ \A x \in Active : ~IsCommittedAt(reader.snap, x)
    /\ vacuum.pc # "idle" => \A z \in Xids : z < vacuum.horizon => IsCommittedAt(reader.snap, z)
    /\ \A r \in Rows, y \in Xids : y \in reader.seen[r] =>
         \E i \in Slots : /\ ver[i].slot = "live" /\ ver[i].row = r /\ ver[i].xmin = y
                          /\ ~IsCommittedAt(reader.snap, ver[i].xmax)

RowsOK   == \A r \in Rows : RowOf(r)
ChainsOK == \A x \in Active : ChainOf(x)
OpenOK   == \A x \in Xids : state[x] = "active" => ActiveOf(x)

SnapInv == HistoryOK /\ RowsOK /\ ChainsOK /\ OpenOK /\ ReaderOK
----------------------------------------------------------------------------
(* What is visible to whom *)

\* x takes z for over: committed before its snapshot, or x itself.
Over(x, z) == z = x \/ IsCommittedAt(snap[x], z)

\* is_visible_hinted, when no hint is wrong.
LEMMA VisibleIff ==
  ASSUME NEW v, NEW s, NEW x, x # NoXid,
         v.slot = "live" /\ v.hint => IsCommittedAt(s, v.xmin)
  PROVE  IsVisible(v, s, x) <=> /\ v.slot = "live"
                                /\ v.xmin = x \/ IsCommittedAt(s, v.xmin)
                                /\ ~(v.xmax = x \/ IsCommittedAt(s, v.xmax))
BY DEF IsVisible, IsCommittedAt

LEMMA HintFact ==
  MvccInv /\ HistoryOK =>
    \A i \in Slots : ver[i].slot = "live" /\ ver[i].hint => ver[i].xmin = 1
BY DEF MvccInv, HistoryOK, VersionXids

LEMMA SeesFact ==
  MvccInv /\ HistoryOK => \A x \in Active, i \in Slots :
    Sees(x, i) <=> ver[i].slot = "live" /\ Over(x, ver[i].xmin) /\ ~Over(x, ver[i].xmax)
<1> SUFFICES ASSUME MvccInv, HistoryOK, NEW x \in Active, NEW i \in Slots
             PROVE  Sees(x, i) <=> ver[i].slot = "live" /\ Over(x, ver[i].xmin)
                                   /\ ~Over(x, ver[i].xmax)
  OBVIOUS
<1>1. x # NoXid
  BY TypeFacts DEF MvccInv
<1>2. ver[i].slot = "live" /\ ver[i].hint => IsCommittedAt(snap[x], ver[i].xmin)
  BY HintFact DEF HistoryOK
<1> QED BY <1>1, <1>2, VisibleIff DEF Sees, Over

LEMMA SeesFactNext ==
  (MvccInv /\ HistoryOK => \A x \in Active, i \in Slots :
    Sees(x, i) <=> ver[i].slot = "live" /\ Over(x, ver[i].xmin) /\ ~Over(x, ver[i].xmax))'
BY SeesFact, PTL

LEMMA OverFact ==
  MvccInv /\ HistoryOK => \A x \in Active :
    /\ Over(x, x) /\ ~Over(x, NoXid) /\ Over(x, 1)
    /\ \A y \in Active \ {x} : ~Over(x, y)
    /\ vacuum.pc # "idle" => \A z \in Xids : z < vacuum.horizon => Over(x, z)
<1> SUFFICES ASSUME MvccInv, HistoryOK, NEW x \in Active
             PROVE  /\ Over(x, x) /\ ~Over(x, NoXid) /\ Over(x, 1)
                    /\ \A y \in Active \ {x} : ~Over(x, y)
                    /\ vacuum.pc # "idle" =>
                         \A z \in Xids : z < vacuum.horizon => Over(x, z)
  OBVIOUS
<1>1. x # NoXid
  BY TypeFacts DEF MvccInv
<1>2. ~IsCommittedAt(snap[x], NoXid)
  BY DEF IsCommittedAt
<1> QED BY <1>1, <1>2 DEF MvccInv, SnapsOK, HistoryOK, Over

\* What a statement of x that starts now would see.
FreshSees(x, i) == /\ ver[i].slot = "live" /\ ver[i].xmin \notin Active \ {x}
                   /\ ver[i].xmax = NoXid \/ ver[i].xmax \in Active \ {x}

LEMMA FreshFact ==
  MvccInv /\ HistoryOK => \A x \in Active, i \in Slots :
    IsVisible(ver[i], ComputeSnapshot(nextXid), x) <=> FreshSees(x, i)
<1> SUFFICES ASSUME MvccInv, HistoryOK, NEW x \in Active, NEW i \in Slots
             PROVE  IsVisible(ver[i], ComputeSnapshot(nextXid), x) <=> FreshSees(x, i)
  OBVIOUS
<1> DEFINE s == ComputeSnapshot(nextXid)
<1>1. /\ nextXid \in Nat /\ nextXid >= 2 /\ x # NoXid /\ x \in Active
      /\ \A z \in Active : z \in Xids /\ z # 1
      /\ ver[i].xmin \in Xids \cup {NoXid} /\ ver[i].xmax \in Xids \cup {NoXid}
  BY TypeFacts DEF MvccInv
<1>2. ver[i].xmin < nextXid /\ ver[i].xmax < nextXid
  BY DEF MvccInv, VersionXids
<1>3. /\ \A z \in Active : ~IsCommittedAt(s, z)
      /\ \A z \in Xids \ Active : z < nextXid => IsCommittedAt(s, z)
  BY <1>1, SnapshotFact
<1>4. ~IsCommittedAt(s, NoXid)
  BY DEF IsCommittedAt
<1> HIDE DEF s
<1>5. ver[i].slot = "live" => ver[i].xmin \in Xids
  BY <1>1 DEF HistoryOK
<1>6. ver[i].slot = "live" /\ ver[i].hint => IsCommittedAt(s, ver[i].xmin)
  BY <1>1, <1>2, <1>3, HintFact, XidFacts
<1>7. IsVisible(ver[i], s, x) <=> /\ ver[i].slot = "live"
                                  /\ ver[i].xmin = x \/ IsCommittedAt(s, ver[i].xmin)
                                  /\ ~(ver[i].xmax = x \/ IsCommittedAt(s, ver[i].xmax))
  BY <1>1, <1>6, VisibleIff
<1> QED BY <1>1, <1>2, <1>3, <1>4, <1>5, <1>7 DEF FreshSees, s

\* The committed rows, version by version.
LEMMA CommittedFact ==
  MvccInv /\ HistoryOK =>
    Committed = [r \in Rows |-> {ver[i].xmin : i \in {j \in Slots : ver[j].row = r /\ Cur(j)}}]
<1> SUFFICES ASSUME MvccInv, HistoryOK
             PROVE  Committed = [r \in Rows |->
                      {ver[i].xmin : i \in {j \in Slots : ver[j].row = r /\ Cur(j)}}]
  OBVIOUS
<1> DEFINE s == ComputeSnapshot(nextXid)
<1>1. /\ nextXid \in Nat /\ nextXid >= 2 /\ nextXid # NoXid
      /\ \A z \in Active : z \in Xids /\ z # 1
      /\ \A i \in Slots : /\ ver[i].xmin \in Xids \cup {NoXid} /\ ver[i].xmin \in Nat
                          /\ ver[i].xmax \in Xids \cup {NoXid} /\ ver[i].xmax \in Nat
  BY TypeFacts DEF MvccInv, NoXid
<1>2. \A i \in Slots : ver[i].xmin < nextXid /\ ver[i].xmax < nextXid
  BY DEF MvccInv, VersionXids
<1>3. /\ \A z \in Active : ~IsCommittedAt(s, z)
      /\ \A z \in Xids \ Active : z < nextXid => IsCommittedAt(s, z)
  BY <1>1, SnapshotFact
<1>4. ~IsCommittedAt(s, NoXid)
  BY DEF IsCommittedAt
<1>5. Committed = [r \in Rows |-> {ver[i].xmin : i \in
                    {j \in Slots : ver[j].row = r /\ IsVisible(ver[j], s, nextXid)}}]
  BY DEF Committed, View, VisibleSlots
<1> HIDE DEF s
<1>6. ASSUME NEW i \in Slots PROVE IsVisible(ver[i], s, nextXid) <=> Cur(i)
  <2>1. ver[i].slot = "live" => ver[i].xmin \in Xids
    BY <1>1 DEF HistoryOK
  <2>2. ver[i].slot = "live" /\ ver[i].hint => IsCommittedAt(s, ver[i].xmin)
    BY <1>1, <1>2, <1>3, HintFact, XidFacts
  <2>3. IsVisible(ver[i], s, nextXid) <=>
          /\ ver[i].slot = "live"
          /\ ver[i].xmin = nextXid \/ IsCommittedAt(s, ver[i].xmin)
          /\ ~(ver[i].xmax = nextXid \/ IsCommittedAt(s, ver[i].xmax))
    BY <1>1, <2>2, VisibleIff
  <2>4. ver[i].xmin # nextXid /\ ver[i].xmax # nextXid
    BY <1>1, <1>2
  <2> QED BY <1>1, <1>2, <1>3, <1>4, <2>1, <2>3, <2>4 DEF Cur
<1>7. \A r \in Rows : {j \in Slots : ver[j].row = r /\ IsVisible(ver[j], s, nextXid)}
                        = {j \in Slots : ver[j].row = r /\ Cur(j)}
  BY <1>6
<1> QED BY <1>5, <1>7

LEMMA CommittedFactNext ==
  (MvccInv /\ HistoryOK =>
    Committed = [r \in Rows |-> {ver[i].xmin : i \in {j \in Slots : ver[j].row = r /\ Cur(j)}}])'
BY CommittedFact, PTL
----------------------------------------------------------------------------
(* What a step must leave alone *)

\* The committed rows are the same.
LEMMA CommittedKept ==
  ASSUME MvccInv, HistoryOK, MvccInv', HistoryOK',
         \A i \in Slots : /\ Cur(i)' <=> Cur(i)
                          /\ Cur(i) => ver'[i].row = ver[i].row /\ ver'[i].xmin = ver[i].xmin
  PROVE  Committed' = Committed
<1> DEFINE C(r) == {j \in Slots : ver[j].row = r /\ Cur(j)}
<1>1. Committed = [r \in Rows |-> {ver[i].xmin : i \in C(r)}]
  BY CommittedFact
<1>2. Committed' = [r \in Rows |-> {ver'[i].xmin : i \in C(r)'}]
  BY CommittedFactNext
<1>3. ASSUME NEW r \in Rows PROVE {ver'[i].xmin : i \in C(r)'} = {ver[i].xmin : i \in C(r)}
  <2>1. C(r)' = C(r)
    OBVIOUS
  <2>2. \A i \in C(r) : ver'[i].xmin = ver[i].xmin
    OBVIOUS
  <2> HIDE DEF C
  <2> QED BY <2>1, <2>2
<1> HIDE DEF C
<1> QED BY <1>1, <1>2, <1>3

\* A row: its unstamped versions, and who has stamps on it.
RowKept(r) ==
  /\ \A i \in Slots : Tip(i, r)' => Tip(i, r) /\ ver'[i].xmin = ver[i].xmin
  /\ \A y \in Active', i \in Slots :
       /\ Stamps(y, i, r)' => y \in Active /\ Stamps(y, i, r)
       /\ Superseded(y, i)' /\ ver'[i].row = r => Superseded(y, i) /\ ver[i].row = r
  /\ \A i, j \in Slots : Tip(i, r)' /\ Tip(j, r)' /\ Pair(i, j) => Pair(i, j)'

LEMMA RowStays ==
  ASSUME NEW r \in Rows, RowOf(r), RowKept(r)
  PROVE  RowOf(r)'
<1>1. (\A i, j \in Slots : Tip(i, r) /\ Tip(j, r) => i = j \/ Pair(i, j) \/ Pair(j, i))'
  BY DEF RowOf, RowKept
<1>2. (\A x \in Active, i, j \in Slots : Stamps(x, i, r) /\ Tip(j, r) => ver[j].xmin = x)'
  BY DEF RowOf, RowKept
<1>3. (\A x, y \in Active, i, j \in Slots : Stamps(x, i, r) /\ Stamps(y, j, r) => x = y)'
  BY DEF RowOf, RowKept
<1>4. (\A x \in Active, i, j \in Slots : Superseded(x, i) /\ ver[i].row = r => ~Tip(j, r))'
  <2> SUFFICES ASSUME NEW x \in Active', NEW i \in Slots, NEW j \in Slots,
                      Superseded(x, i)', ver'[i].row = r, Tip(j, r)'
               PROVE  FALSE
    OBVIOUS
  <2>1. Stamps(x, i, r)'
    BY DEF Stamps
  <2>2. x \in Active /\ Superseded(x, i) /\ ver[i].row = r /\ Tip(j, r)
    BY <2>1 DEF RowKept
  <2> QED BY <2>2 DEF RowOf
<1> QED BY <1>1, <1>2, <1>3, <1>4 DEF RowOf

\* The statement and the undo log of y.
LogKept(y) ==
  /\ undo'[y] = undo[y] /\ op'[y].path = op[y].path /\ op'[y].old = op[y].old
  /\ \A i \in Slots : Unlinked(y, i)' <=> Unlinked(y, i)
  /\ \A i \in Slots : Superseded(y, i)' <=> Superseded(y, i)

Marks(y, i) == Kills(y, i) \/ Revives(y, i) \/ Superseded(y, i)

LEMMA ChainStays ==
  ASSUME NEW y \in Active, TypeInv, ChainOf(y), LogKept(y),
         \A i \in Slots : Marks(y, i) => ver'[i].row = ver[i].row /\ ver'[i].xmin = ver[i].xmin
  PROVE  ChainOf(y)'
<1>a. /\ \A k \in DOMAIN undo[y] : undo[y][k].kill \subseteq Slots /\ undo[y][k].revive \subseteq Slots
      /\ y \in Xids
  BY TypeFacts
<1>1. /\ \A k \in DOMAIN undo[y] : \A i \in undo[y][k].kill : Kills(y, i) /\ i \in Slots
      /\ \A k \in DOMAIN undo[y] : \A i \in undo[y][k].revive : Revives(y, i) /\ i \in Slots
  BY <1>a DEF Kills, Revives
<1>2. undo'[y] = undo[y] /\ \A i \in Slots : Revives(y, i)' <=> Revives(y, i)
  BY DEF LogKept, Revives
<1>3. (\A k, l \in DOMAIN undo[y] : \A n \in undo[y][k].kill, i \in undo[y][l].revive :
        k < l /\ n # i /\ SameRow(n, i)
          => \E m \in DOMAIN undo[y] : m < l /\ n \in undo[y][m].revive)'
  BY <1>1, <1>2 DEF ChainOf, SameRow, Marks
<1>4. (\A k, l \in DOMAIN undo[y] : \A j \in undo[y][k].revive, i \in undo[y][l].revive :
        k <= l /\ j # i /\ SameRow(j, i) => k < l /\ ver[i].xmin = y)'
  BY <1>1, <1>2 DEF ChainOf, SameRow, Marks
<1>5. (\A i, j \in Slots :
        Superseded(y, i) /\ Revives(y, j) /\ SameRow(i, j) => ver[i].xmin = y)'
  BY <1>2 DEF ChainOf, SameRow, Marks, LogKept
<1> QED BY <1>3, <1>4, <1>5 DEF ChainOf

\* What y sees.
SightKept(y) ==
  \A i \in Slots : /\ Sees(y, i)' <=> Sees(y, i)
                   /\ Sees(y, i) => ver'[i].row = ver[i].row /\ ver'[i].xmin = ver[i].xmin

\* The marks of y, and the rows it has deleted.
MarksKept(y) ==
  /\ \A i \in Slots : ver'[i].slot = "live" /\ (ver'[i].xmin = y \/ ver'[i].xmax = y) =>
       /\ ver[i].slot = "live" /\ (ver[i].xmin = y \/ ver[i].xmax = y)
       /\ ver'[i].row = ver[i].row
  /\ \A i \in Slots : ver[i].slot = "live" /\ ver[i].xmax = NoXid /\ ver[i].xmin = y =>
       /\ ver'[i].slot = "live" /\ ver'[i].xmax = NoXid /\ ver'[i].xmin = y
       /\ ver'[i].row = ver[i].row
  /\ \A i \in Slots : Revives(y, i) \/ Superseded(y, i) => ver'[i].row = ver[i].row
  /\ \A i \in Slots, r \in Rows : Tip(i, r)' /\ intent[y][r] = "delete" => Tip(i, r)

LEMMA IntentStays ==
  ASSUME NEW y \in Xids, NEW r \in Rows, IntentAt(y, r), LogKept(y), MarksKept(y),
         intent'[y][r] = intent[y][r]
  PROVE  IntentAt(y, r)'
<1>1. \A i \in Slots : Revives(y, i)' <=> Revives(y, i)
  BY DEF LogKept, Revives
<1>2. CASE intent[y][r] = "keep"
  <2> SUFFICES ASSUME NEW i \in Slots, ver'[i].slot = "live", ver'[i].row = r,
                      ver'[i].xmin = y \/ ver'[i].xmax = y
               PROVE  Unlinked(y, i)' \/ Superseded(y, i)'
    BY <1>2 DEF IntentAt
  <2>1. ver[i].slot = "live" /\ ver[i].row = r /\ (ver[i].xmin = y \/ ver[i].xmax = y)
    BY DEF MarksKept
  <2> QED BY <1>2, <2>1 DEF IntentAt, LogKept
<1>3. CASE intent[y][r] = "put"
  <2>1. PICK i \in Slots : \/ Tip(i, r) /\ ver[i].xmin = y /\ ~Unlinked(y, i)
                           \/ Superseded(y, i) /\ ver[i].row = r
    BY <1>3 DEF IntentAt
  <2>2. \/ Tip(i, r)' /\ ver'[i].xmin = y /\ ~Unlinked(y, i)'
        \/ Superseded(y, i)' /\ ver'[i].row = r
    BY <2>1 DEF Tip, MarksKept, LogKept
  <2> QED BY <1>3, <2>2 DEF IntentAt
<1>4. CASE intent[y][r] = "delete"
  <2>1. PICK i \in Slots : Revives(y, i) /\ ver[i].row = r
    BY <1>4 DEF IntentAt
  <2>2. Revives(y, i)' /\ ver'[i].row = r
    BY <1>1, <2>1 DEF MarksKept
  <2>3. \A j \in Slots : ~Tip(j, r)'
    BY <1>4 DEF IntentAt, MarksKept
  <2> QED BY <1>4, <2>2, <2>3 DEF IntentAt
<1> QED BY <1>2, <1>3, <1>4 DEF IntentAt

LEMMA ReplacingStays ==
  ASSUME NEW y \in Xids, NEW r \in Rows, LogKept(y),
         \A i \in Slots : Superseded(y, i) => ver'[i].row = ver[i].row
  PROVE  Replacing(y, r)' <=> Replacing(y, r)
BY DEF Replacing, LogKept

LEMMA ReadsStay ==
  ASSUME NEW y \in Xids, NEW r \in Rows, ReadsAt(y, r), LogKept(y), SightKept(y),
         \A i \in Slots : Superseded(y, i) => ver'[i].row = ver[i].row,
         intent'[y][r] = intent[y][r], seen'[y] = seen[y]
  PROVE  ReadsAt(y, r)'
<1>1. Replacing(y, r)' <=> Replacing(y, r)
  BY ReplacingStays
<1>2. Overlay(y, seen[y], r)' = Overlay(y, seen[y], r)
  BY DEF Overlay
<1>3. Read(y, r)' = Read(y, r)
  <2> DEFINE V == {j \in Slots : ver[j].row = r /\ Sees(y, j) /\ ~Unlinked(y, j)}
  <2>1. V' = V
    BY DEF SightKept, LogKept
  <2>2. \A j \in V : ver'[j].xmin = ver[j].xmin
    BY DEF SightKept
  <2> HIDE DEF V
  <2>3. {ver'[i].xmin : i \in V'} = {ver[i].xmin : i \in V}
    BY <2>1, <2>2
  <2> QED BY <2>3 DEF Read, V
<1>4. (\A i, j \in Slots : Sees(y, i) /\ Sees(y, j) /\ ver[i].row = r /\ ver[j].row = r
        => i = j \/ Unlinked(y, i) \/ Unlinked(y, j))'
  BY DEF ReadsAt, SightKept, LogKept
<1>5. Replacing(y, r) => \A i \in Slots : ver'[i].row = r => ~Sees(y, i)'
  BY DEF ReadsAt, SightKept
<1> QED BY <1>1, <1>2, <1>3, <1>4, <1>5 DEF ReadsAt

LEMMA BaseStays ==
  ASSUME NEW y \in Xids, NEW r \in Rows, BaseAt(y, r), LogKept(y),
         \A i \in Slots : Superseded(y, i) => ver'[i].row = ver[i].row,
         intent'[y][r] = intent[y][r], seen'[y] = seen[y],
         intent[y][r] # "keep" \/ Replacing(y, r) => Committed'[r] = Committed[r]
  PROVE  BaseAt(y, r)'
<1>1. Replacing(y, r)' <=> Replacing(y, r)
  BY ReplacingStays
<1> QED BY <1>1 DEF BaseAt

\* An open transaction that the step does not concern.
OpenKept(y) ==
  /\ LogKept(y) /\ SightKept(y) /\ MarksKept(y)
  /\ intent'[y] = intent[y] /\ seen'[y] = seen[y]
  /\ \A r \in Rows : intent[y][r] # "keep" \/ Replacing(y, r) => Committed'[r] = Committed[r]

LEMMA OpenStays ==
  ASSUME NEW y \in Xids, ActiveOf(y), OpenKept(y)
  PROVE  ActiveOf(y)'
<1>1. TargetSeen(y)'
  <2>1. \A i \in Slots : Kills(y, i)' <=> Kills(y, i)
    BY DEF OpenKept, LogKept, Kills
  <2>2. ASSUME NEW i \in Slots, op[y].path \notin {"idle", "insert"}, op[y].old = <<i>>,
               ~Superseded(y, i)
        PROVE  /\ Sees(y, i)' /\ ver'[i].row = ver[i].row
               /\ \A n \in Slots : Unlinked(y, n) =>
                    Tip(n, ver[i].row)' /\ ver'[n].xmin = y /\ ~Kills(y, n)
    BY <2>2 DEF ActiveOf, OpenKept, TargetSeen, SightKept, MarksKept, Tip
  <2> QED BY <2>1, <2>2 DEF OpenKept, TargetSeen, LogKept
<1>2. \A i \in Slots : Superseded(y, i) => ver'[i].row = ver[i].row
  BY DEF OpenKept, MarksKept
<1>3. ASSUME NEW r \in Rows PROVE IntentAt(y, r)' /\ ReadsAt(y, r)' /\ BaseAt(y, r)'
  <2>1. IntentAt(y, r) /\ ReadsAt(y, r) /\ BaseAt(y, r) /\ intent'[y][r] = intent[y][r]
    BY DEF ActiveOf, OpenKept
  <2>2. IntentAt(y, r)'
    BY <2>1, IntentStays DEF OpenKept
  <2>3. ReadsAt(y, r)'
    BY <1>2, <2>1, ReadsStay DEF OpenKept
  <2>4. BaseAt(y, r)'
    BY <1>2, <2>1, BaseStays DEF OpenKept
  <2> QED BY <2>2, <2>3, <2>4
<1> QED BY <1>1, <1>3 DEF ActiveOf
----------------------------------------------------------------------------
(* How a transaction's step moves versions: it stamps, revives or kills      *)
(* versions nobody else has marked, or fills free slots.                     *)

Unmoved(i) == /\ ver'[i].slot = ver[i].slot /\ ver'[i].row = ver[i].row
              /\ ver'[i].xmin = ver[i].xmin /\ ver'[i].xmax = ver[i].xmax

Restamped(x, i) == /\ ver[i].slot = "live" /\ ver'[i].slot = "live"
                   /\ ver'[i].row = ver[i].row /\ ver'[i].xmin = ver[i].xmin
                   /\ ver[i].xmin \notin Active \ {x}
                   /\ ver[i].xmax \in {NoXid, x} /\ ver'[i].xmax \in {NoXid, x}

Filled(x, i) == /\ ver[i].slot # "live" /\ ver'[i].slot = "live"
                /\ ver'[i].xmin = x /\ ver'[i].xmax = NoXid

Moves(x) ==
  /\ \A i \in Slots : Unmoved(i) \/ Restamped(x, i) \/ Filled(x, i)
  /\ UNCHANGED <<load, nextXid, state, snap, reader, vacuum>>

\* A mark in an undo log or of a statement is on a live version.
LEMMA MarksLive ==
  MvccInv => \A y \in Active, i \in Slots :
    /\ Marks(y, i) => ver[i].slot = "live"
    /\ Kills(y, i) => ver[i].xmin = y
    /\ Revives(y, i) \/ Superseded(y, i) => ver[i].xmax = y
    /\ Superseded(y, i) => ~Revives(y, i) /\ state[y] = "active"
    /\ Unlinked(y, i) => /\ Tip(i, ver[i].row) \/ ver[i].xmax # NoXid
                         /\ ver[i].slot = "live" /\ ver[i].xmin = y /\ state[y] = "active"
                         /\ op[y].path = "hotXpage"
<1> SUFFICES ASSUME MvccInv, NEW y \in Active, NEW i \in Slots
             PROVE  /\ Marks(y, i) => ver[i].slot = "live"
                    /\ Kills(y, i) => ver[i].xmin = y
                    /\ Revives(y, i) \/ Superseded(y, i) => ver[i].xmax = y
                    /\ Superseded(y, i) => ~Revives(y, i) /\ state[y] = "active"
                    /\ Unlinked(y, i) => /\ Tip(i, ver[i].row) \/ ver[i].xmax # NoXid
                                         /\ ver[i].slot = "live" /\ ver[i].xmin = y
                                         /\ state[y] = "active" /\ op[y].path = "hotXpage"
  OBVIOUS
<1>1. y \in Xids
  BY TypeFacts DEF MvccInv
<1>2. Kills(y, i) => ver[i].slot = "live" /\ ver[i].xmin = y
  BY DEF MvccInv, UndoOK, TargetsOf, Kills
<1>3. Revives(y, i) => ver[i].slot = "live" /\ ver[i].xmax = y
  BY DEF MvccInv, UndoOK, TargetsOf, Revives
<1>4. Superseded(y, i) => /\ ver[i].slot = "live" /\ ver[i].xmax = y
                          /\ ~Revives(y, i) /\ state[y] = "active"
  <2> SUFFICES ASSUME Superseded(y, i)
               PROVE  /\ ver[i].slot = "live" /\ ver[i].xmax = y
                      /\ ~Revives(y, i) /\ state[y] = "active"
    OBVIOUS
  <2>1. op[y].path # "idle" /\ op[y].path # "insert" /\ op[y].old = <<i>>
    BY DEF Superseded
  <2>2. PICK j \in Slots : op[y].old = <<j>> /\ TargetOK(y, j) /\ state[y] = "active"
    BY <1>1, <2>1, TargetFact
  <2>3. j = i
    BY <2>1, <2>2
  <2> QED BY <2>2, <2>3 DEF TargetOK
<1>5. Unlinked(y, i) => /\ ver[i].slot = "live" /\ ver[i].xmin = y /\ state[y] = "active"
                        /\ op[y].path = "hotXpage"
  <2> SUFFICES ASSUME Unlinked(y, i)
               PROVE  /\ ver[i].slot = "live" /\ ver[i].xmin = y /\ state[y] = "active"
                      /\ op[y].path = "hotXpage"
    OBVIOUS
  <2>1. op[y].stage = "link" /\ op[y].new = <<i>>
    BY DEF Unlinked
  <2>2. op[y].path \in Paths /\ op[y].path # "idle" /\ op[y].stage \in Stages(op[y].path)
    BY <1>1, <2>1, StageFact
  <2>3. op[y].path = "hotXpage"
    BY <2>1, <2>2 DEF Stages, Paths
  <2>4. PICK j \in Slots : op[y].old = <<j>> /\ TargetOK(y, j) /\ state[y] = "active"
    BY <1>1, <2>3, TargetFact
  <2>5. PICK n \in Slots \ {j} : op[y].new = <<n>> /\ ver[n].slot = "live" /\ ver[n].xmin = y
    BY <2>1, <2>4 DEF TargetOK
  <2>6. n = i
    BY <2>1, <2>5
  <2> QED BY <2>3, <2>4, <2>5, <2>6
<1> QED BY <1>2, <1>3, <1>4, <1>5 DEF Marks, Tip

\* It changes nothing for the others, and nothing that is committed.
LEMMA MoveOthers ==
  ASSUME MvccInv, HistoryOK, MvccInv', HistoryOK', NEW x \in Active, Moves(x)
  PROVE  /\ Committed' = Committed
         /\ \A y \in Active \ {x} : SightKept(y)
         /\ \A y \in Active \ {x}, i \in Slots :
              /\ ver'[i].slot = "live" /\ (ver'[i].xmin = y \/ ver'[i].xmax = y) =>
                   /\ ver[i].slot = "live" /\ (ver[i].xmin = y \/ ver[i].xmax = y)
                   /\ ver'[i].row = ver[i].row
              /\ ver[i].slot = "live" /\ ver[i].xmax = NoXid /\ ver[i].xmin = y =>
                   /\ ver'[i].slot = "live" /\ ver'[i].xmax = NoXid /\ ver'[i].xmin = y
                   /\ ver'[i].row = ver[i].row
         /\ \A y \in Active, i \in Slots : ver[i].slot = "live" \/ Marks(y, i) =>
              ver'[i].row = ver[i].row /\ ver'[i].xmin = ver[i].xmin
<1>a. /\ \A z \in Active : z \in Xids /\ z # NoXid
      /\ Active' = Active
  BY TypeFacts DEF MvccInv, Moves, Active
<1>b. \A i \in Slots : Unmoved(i) \/ Restamped(x, i) \/ Filled(x, i)
  BY DEF Moves
<1>1. \A i \in Slots : /\ Cur(i)' <=> Cur(i)
                       /\ Cur(i) => ver'[i].row = ver[i].row /\ ver'[i].xmin = ver[i].xmin
  BY <1>a, <1>b DEF Cur, Unmoved, Restamped, Filled
<1>2. Committed' = Committed
  BY <1>1, CommittedKept
<1>3. ASSUME NEW y \in Active \ {x} PROVE SightKept(y)
  <2>1. /\ ~Over(y, NoXid) /\ ~Over(y, x)
        /\ \A i \in Slots : Sees(y, i) <=>
             ver[i].slot = "live" /\ Over(y, ver[i].xmin) /\ ~Over(y, ver[i].xmax)
    BY SeesFact, OverFact
  <2>2. \A i \in Slots : Sees(y, i)' <=>
             ver'[i].slot = "live" /\ Over(y, ver[i].xmin)' /\ ~Over(y, ver[i].xmax)'
    BY <1>a, SeesFactNext
  <2>3. \A i \in Slots : /\ Over(y, ver[i].xmin)' <=> Over(y, ver'[i].xmin)
                         /\ Over(y, ver[i].xmax)' <=> Over(y, ver'[i].xmax)
    BY DEF Over, Moves
  <2> SUFFICES ASSUME NEW i \in Slots
               PROVE  /\ Sees(y, i)' <=> Sees(y, i)
                      /\ Sees(y, i) => ver'[i].row = ver[i].row /\ ver'[i].xmin = ver[i].xmin
    BY DEF SightKept
  <2>4. CASE Unmoved(i)
    BY <2>1, <2>2, <2>3, <2>4 DEF Unmoved
  <2>5. CASE Restamped(x, i)
    BY <2>1, <2>2, <2>3, <2>5 DEF Restamped
  <2>6. CASE Filled(x, i)
    BY <2>1, <2>2, <2>3, <2>6 DEF Filled
  <2> QED BY <1>b, <2>4, <2>5, <2>6
<1>4. ASSUME NEW y \in Active \ {x}, NEW i \in Slots
      PROVE  /\ ver'[i].slot = "live" /\ (ver'[i].xmin = y \/ ver'[i].xmax = y) =>
                   /\ ver[i].slot = "live" /\ (ver[i].xmin = y \/ ver[i].xmax = y)
                   /\ ver'[i].row = ver[i].row
             /\ ver[i].slot = "live" /\ ver[i].xmax = NoXid /\ ver[i].xmin = y =>
                   /\ ver'[i].slot = "live" /\ ver'[i].xmax = NoXid /\ ver'[i].xmin = y
                   /\ ver'[i].row = ver[i].row
  BY <1>a, <1>b DEF Unmoved, Restamped, Filled
<1>5. ASSUME NEW y \in Active, NEW i \in Slots, ver[i].slot = "live" \/ Marks(y, i)
      PROVE  ver'[i].row = ver[i].row /\ ver'[i].xmin = ver[i].xmin
  BY <1>b, <1>5, MarksLive DEF Unmoved, Restamped, Filled
<1> QED BY <1>2, <1>3, <1>4, <1>5

\* Nor for the reader.
LEMMA MoveReader ==
  ASSUME MvccInv, ReaderOK, NEW x \in Active, Moves(x)
  PROVE  ReaderOK'
<1> SUFFICES ASSUME reader # NoReader
             PROVE  /\ reader.snap.xmax \in reader.snap.xmin .. nextXid
                    /\ \A z \in Active : ~IsCommittedAt(reader.snap, z)
                    /\ vacuum.pc # "idle" =>
                         \A z \in Xids : z < vacuum.horizon => IsCommittedAt(reader.snap, z)
                    /\ \A r \in Rows, y \in Xids : y \in reader.seen[r] =>
                         \E i \in Slots :
                           /\ ver'[i].slot = "live" /\ ver'[i].row = r /\ ver'[i].xmin = y
                           /\ ~IsCommittedAt(reader.snap, ver'[i].xmax)
  BY DEF ReaderOK, Moves, Active
<1>1. ~IsCommittedAt(reader.snap, x) /\ ~IsCommittedAt(reader.snap, NoXid)
  BY DEF ReaderOK, IsCommittedAt
<1>2. ASSUME NEW r \in Rows, NEW y \in Xids, y \in reader.seen[r]
      PROVE  \E i \in Slots : /\ ver'[i].slot = "live" /\ ver'[i].row = r /\ ver'[i].xmin = y
                              /\ ~IsCommittedAt(reader.snap, ver'[i].xmax)
  <2>1. PICK i \in Slots : /\ ver[i].slot = "live" /\ ver[i].row = r /\ ver[i].xmin = y
                           /\ ~IsCommittedAt(reader.snap, ver[i].xmax)
    BY <1>2 DEF ReaderOK
  <2>2. Unmoved(i) \/ Restamped(x, i)
    BY <2>1 DEF Moves, Filled
  <2>3. /\ ver'[i].slot = "live" /\ ver'[i].row = r /\ ver'[i].xmin = y
        /\ ~IsCommittedAt(reader.snap, ver'[i].xmax)
    BY <1>1, <2>1, <2>2 DEF Unmoved, Restamped
  <2> QED BY <2>3
<1> QED BY <1>2 DEF ReaderOK
----------------------------------------------------------------------------
(* Rolling back *)

\* A transaction that is rolling back has no statement.
LEMMA AbortingFact ==
  ASSUME MvccInv, NEW x \in Xids, state[x] # "active"
  PROVE  /\ op[x] = Idle
         /\ \A i \in Slots : ~Unlinked(x, i) /\ ~Superseded(x, i)
<1>1. op[x] = Idle
  BY DEF MvccInv, StatementOK, StatementOf
<1> QED BY <1>1 DEF Unlinked, Superseded, Idle

\* One undo step, version by version and step by step.
LEMMA UndoFact ==
  ASSUME MvccInv, NEW x \in Xids, Undo(x), UNCHANGED load
  PROVE  /\ x \in Active /\ Len(undo[x]) \in DOMAIN undo[x]
         /\ \A i \in Slots :
              LET last == undo[x][Len(undo[x])] IN
              \/ i \in last.kill /\ Restamped(x, i) /\ ver'[i].xmax = x /\ ver[i].xmin = x
              \/ /\ i \in last.revive /\ i \notin last.kill /\ Restamped(x, i)
                 /\ ver[i].xmax = x /\ ver'[i].xmax = NoXid
              \/ i \notin last.kill /\ i \notin last.revive /\ Unmoved(i)
         /\ DOMAIN undo'[x] = {k \in DOMAIN undo[x] : k # Len(undo[x])}
         /\ \A k \in DOMAIN undo'[x] : undo'[x][k] = undo[x][k] /\ k < Len(undo[x])
         /\ \A k \in DOMAIN undo[x] : k \in Nat /\ k <= Len(undo[x])
         /\ \A y \in Xids \ {x} : undo'[y] = undo[y]
         /\ Moves(x) /\ op' = op /\ intent' = intent /\ seen' = seen
<1> DEFINE L == Len(undo[x])
           last == undo[x][L]
<1>a. TypeInv /\ UndoOK /\ undo \in [Xids -> Seq(Step1)] /\ undo[x] \in Seq(Step1)
  BY DEF MvccInv, TypeInv
<1>b. state[x] = "aborting" /\ undo[x] # <<>> /\ x \in Active
  BY DEF Undo, Active
<1>c. L \in Nat \ {0} /\ DOMAIN undo[x] = 1 .. L /\ L \in DOMAIN undo[x]
  BY <1>a, <1>b
<1>d. /\ last.kill \subseteq Slots /\ last.revive \subseteq Slots
      /\ \A z \in Active : z \in Xids /\ z # NoXid
      /\ \A i \in Slots : ver[i].slot = "live" => TRUE
  BY <1>a, <1>c, TypeFacts
<1>1. ver' = [i \in Slots |-> IF i \in last.kill THEN [ver[i] EXCEPT !.xmax = x]
                             ELSE IF i \in last.revive THEN [ver[i] EXCEPT !.xmax = NoXid]
                             ELSE ver[i]]
  BY DEF Undo
<1>2. /\ \A i \in last.kill : ver[i].slot = "live" /\ ver[i].xmin = x
      /\ \A i \in last.revive : ver[i].slot = "live" /\ ver[i].xmax = x
  BY <1>a, <1>b, <1>c DEF UndoOK, TargetsOf
<1>3. \A i \in Slots, z \in Active : ver[i].slot = "live" /\ ver[i].xmin = z => ver[i].xmax \in {NoXid, z}
  BY <1>a DEF UndoOK, MarksOf
<1>4. \A i \in Slots : /\ ver[i] \in VerType
  BY <1>a DEF TypeInv, VerType
<1> HIDE DEF last, L
<1>5. ASSUME NEW i \in Slots
      PROVE  \/ i \in last.kill /\ Restamped(x, i) /\ ver'[i].xmax = x /\ ver[i].xmin = x
             \/ /\ i \in last.revive /\ i \notin last.kill /\ Restamped(x, i)
                /\ ver[i].xmax = x /\ ver'[i].xmax = NoXid
             \/ i \notin last.kill /\ i \notin last.revive /\ Unmoved(i)
  <2>1. CASE i \in last.kill
    <3>1. ver'[i] = [ver[i] EXCEPT !.xmax = x]
      BY <1>1, <2>1
    <3>2. /\ ver'[i].slot = ver[i].slot /\ ver'[i].row = ver[i].row
          /\ ver'[i].xmin = ver[i].xmin /\ ver'[i].xmax = x
      BY <1>4, <3>1 DEF VerType
    <3>3. ver[i].slot = "live" /\ ver[i].xmin = x /\ ver[i].xmax \in {NoXid, x}
      BY <1>b, <1>2, <1>3, <2>1
    <3> QED BY <2>1, <3>2, <3>3 DEF Restamped
  <2>2. CASE i \in last.revive /\ i \notin last.kill
    <3>1. ver'[i] = [ver[i] EXCEPT !.xmax = NoXid]
      BY <1>1, <2>2
    <3>2. /\ ver'[i].slot = ver[i].slot /\ ver'[i].row = ver[i].row
          /\ ver'[i].xmin = ver[i].xmin /\ ver'[i].xmax = NoXid
      BY <1>4, <3>1 DEF VerType
    <3>3. ver[i].slot = "live" /\ ver[i].xmax = x
      BY <1>2, <2>2
    <3>4. ver[i].xmin \notin Active \ {x}
      BY <1>b, <1>d, <1>3, <3>3
    <3> QED BY <2>2, <3>2, <3>3, <3>4 DEF Restamped
  <2>3. CASE i \notin last.kill /\ i \notin last.revive
    BY <1>1, <2>3 DEF Unmoved
  <2> QED BY <2>1, <2>2, <2>3
<1>6. undo' = [undo EXCEPT ![x] = SubSeq(undo[x], 1, L - 1)]
  BY DEF Undo, L
<1>7. undo'[x] = SubSeq(undo[x], 1, L - 1) /\ \A y \in Xids \ {x} : undo'[y] = undo[y]
  BY <1>a, <1>6
<1>8. /\ DOMAIN undo'[x] = 1 .. (L - 1)
      /\ \A k \in 1 .. (L - 1) : undo'[x][k] = undo[x][k]
  BY <1>a, <1>c, <1>7
<1>9. /\ DOMAIN undo'[x] = {k \in DOMAIN undo[x] : k # L}
      /\ \A k \in DOMAIN undo'[x] : undo'[x][k] = undo[x][k] /\ k < L
      /\ \A k \in DOMAIN undo[x] : k \in Nat /\ k <= L
  BY <1>c, <1>8
<1>10. Moves(x) /\ op' = op /\ intent' = intent /\ seen' = seen
  BY <1>5 DEF Moves, Undo, txnVars, histVars
<1> QED BY <1>b, <1>c, <1>5, <1>7, <1>9, <1>10 DEF L, last

\* The versions a step of x leaves bear xids, and nothing else in HistoryOK moves.
LEMMA MoveHistory ==
  ASSUME MvccInv, HistoryOK, NEW x \in Active, Moves(x),
         seen' = seen, \A y \in Xids : state[y] # "active" => intent'[y] = intent[y]
  PROVE  HistoryOK'
<1>1. x # NoXid
  BY TypeFacts DEF MvccInv
<1>2. \A i \in Slots : ver'[i].slot = "live" => ver'[i].xmin # NoXid
  BY <1>1 DEF HistoryOK, Moves, Unmoved, Restamped, Filled
<1>3. Active' = Active
  BY DEF Moves, Active
<1> QED BY <1>2, <1>3 DEF HistoryOK, Moves

LEMMA UndoRows ==
  ASSUME MvccInv, SnapInv, NEW x \in Xids, Undo(x), UNCHANGED load
  PROVE  RowsOK' /\ ChainOf(x)'
         /\ \A y \in Active \ {x}, i \in Slots, r \in Rows :
              Tip(i, r)' /\ intent[y][r] = "delete" /\ IntentAt(y, r) => Tip(i, r)
<1> DEFINE L == Len(undo[x])
           last == undo[x][L]
<1>a. /\ x \in Active /\ L \in DOMAIN undo[x] /\ state[x] = "aborting"
      /\ \A i \in Slots :
              \/ i \in last.kill /\ Restamped(x, i) /\ ver'[i].xmax = x /\ ver[i].xmin = x
              \/ /\ i \in last.revive /\ i \notin last.kill /\ Restamped(x, i)
                 /\ ver[i].xmax = x /\ ver'[i].xmax = NoXid
              \/ i \notin last.kill /\ i \notin last.revive /\ Unmoved(i)
      /\ DOMAIN undo'[x] = {k \in DOMAIN undo[x] : k # L}
      /\ \A k \in DOMAIN undo'[x] : undo'[x][k] = undo[x][k] /\ k < L
      /\ \A k \in DOMAIN undo[x] : k \in Nat /\ k <= L
      /\ \A y \in Xids \ {x} : undo'[y] = undo[y]
      /\ Moves(x) /\ op' = op
  <2>1. state[x] = "aborting"
    BY DEF Undo
  <2> QED BY <2>1, UndoFact DEF L, last
<1>b. /\ \A z \in Active : z \in Xids /\ z # NoXid
      /\ Active' = Active /\ \A i, j : Pair(i, j)' <=> Pair(i, j)
      /\ \A y \in Active, i \in Slots : Superseded(y, i)' <=> Superseded(y, i)
      /\ \A i \in Slots : ~Superseded(x, i) /\ ~Unlinked(x, i)
  <2>1. Active' = Active /\ op' = op
    BY <1>a DEF Moves, Active
  <2> QED BY <1>a, <2>1, TypeFacts, AbortingFact DEF MvccInv, Pair, Unlinked, Superseded
<1>c. RowsOK /\ ChainOf(x) /\ MarksOf(x) /\ OrderOf(x)
  BY <1>a DEF SnapInv, ChainsOK, MvccInv, UndoOK
<1>d. \A y \in Active, i \in Slots :
        /\ Marks(y, i) => ver[i].slot = "live" /\ ver'[i].row = ver[i].row /\ ver'[i].xmin = ver[i].xmin
        /\ Revives(y, i) => ver[i].xmax = y
  BY <1>a, MarksLive DEF Restamped, Unmoved
<1>k. \A k \in DOMAIN undo[x] : undo[x][k].kill \subseteq Slots /\ undo[x][k].revive \subseteq Slots
  BY <1>b, TypeFacts DEF MvccInv
<1> HIDE DEF L, last
<1>e. /\ \A i \in Slots : Revives(x, i)' => Revives(x, i) /\ i \notin last.revive
      /\ \A i \in last.revive : Revives(x, i) /\ i \in Slots
      /\ \A i \in Slots : Revives(x, i)' => \E k \in DOMAIN undo[x] : k < L /\ i \in undo[x][k].revive
  BY <1>a, <1>c, <1>k DEF Revives, OrderOf, last
<1>f. \A y \in Active, i \in Slots, r \in Rows : Stamps(y, i, r)' => Stamps(y, i, r)
  <2> SUFFICES ASSUME NEW y \in Active, NEW i \in Slots, NEW r \in Rows, Stamps(y, i, r)'
               PROVE  Stamps(y, i, r)
    OBVIOUS
  <2>1. Revives(y, i) \/ Superseded(y, i)
    <3>1. CASE y = x
      BY <1>b, <1>e, <3>1 DEF Stamps
    <3>2. CASE y # x
      BY <1>a, <1>b, <3>2 DEF Stamps, Revives
    <3> QED BY <3>1, <3>2
  <2> QED BY <1>d, <2>1 DEF Stamps, Marks
<1>g. \A i \in Slots, r \in Rows : Tip(i, r)' =>
        \/ Tip(i, r) /\ i \notin last.kill /\ ver'[i].xmin = ver[i].xmin
        \/ i \in last.revive /\ i \notin last.kill /\ Stamps(x, i, r) /\ ver'[i].xmin = ver[i].xmin
  BY <1>a, <1>b, <1>e DEF Tip, Stamps, Restamped, Unmoved
\* An unstamped version of x that stays, of a row whose version the step revives.
<1>h. ASSUME NEW r \in Rows, NEW i \in Slots, NEW j \in Slots, i \in last.revive,
             Stamps(x, i, r), Tip(j, r), j \notin last.kill
      PROVE  FALSE
  <2>1. ver[j].xmin = x
    BY <1>a, <1>c, <1>h DEF RowsOK, RowOf
  <2>2. Kills(x, j)
    BY <1>a, <1>b, <1>c, <1>h, <2>1 DEF MarksOf, Tip
  <2>3. PICK k \in DOMAIN undo[x] : j \in undo[x][k].kill
    BY <2>2 DEF Kills
  <2>4. k < L
    BY <1>a, <1>h, <2>3 DEF last
  <2>5. ver[i].xmax = x /\ j # i /\ SameRow(j, i)
    BY <1>a, <1>b, <1>d, <1>e, <1>h DEF Tip, Stamps, SameRow
  <2>6. PICK m \in DOMAIN undo[x] : m < L /\ j \in undo[x][m].revive
    BY <1>a, <1>c, <1>h, <2>3, <2>4, <2>5 DEF ChainOf, last
  <2>7. ver[j].xmax = x
    BY <1>a, <1>d, <2>6 DEF Revives
  <2> QED BY <1>a, <1>b, <1>h, <2>7 DEF Tip
<1>1. ASSUME NEW r \in Rows PROVE RowOf(r)'
  <2>a. RowOf(r)
    BY <1>c DEF RowsOK
  <2>1. (\A i, j \in Slots : Tip(i, r) /\ Tip(j, r) => i = j \/ Pair(i, j) \/ Pair(j, i))'
    <3> SUFFICES ASSUME NEW i \in Slots, NEW j \in Slots, Tip(i, r)', Tip(j, r)', i # j
                 PROVE  Pair(i, j) \/ Pair(j, i)
      BY <1>b
    <3>1. CASE Tip(i, r) /\ Tip(j, r)
      BY <2>a, <3>1 DEF RowOf
    <3>2. ~(i \in last.revive /\ Stamps(x, i, r) /\ j \in last.revive /\ Stamps(x, j, r))
      BY <1>a, <1>c DEF ChainOf, SameRow, Stamps, last
    <3> QED BY <1>g, <1>h, <3>1, <3>2
  <2>2. (\A y \in Active, i, j \in Slots : Stamps(y, i, r) /\ Tip(j, r) => ver[j].xmin = y)'
    <3> SUFFICES ASSUME NEW y \in Active, NEW i \in Slots, NEW j \in Slots,
                        Stamps(y, i, r)', Tip(j, r)'
                 PROVE  ver'[j].xmin = y
      BY <1>b
    <3>1. Stamps(y, i, r)
      BY <1>f
    <3>2. CASE Tip(j, r) /\ ver'[j].xmin = ver[j].xmin
      BY <2>a, <3>1, <3>2 DEF RowOf
    <3>3. CASE j \in last.revive /\ Stamps(x, j, r) /\ ver'[j].xmin = ver[j].xmin
      <4>1. y = x
        BY <1>a, <2>a, <3>1, <3>3 DEF RowOf
      <4>2. PICK k \in DOMAIN undo[x] : k < L /\ i \in undo[x][k].revive /\ i # j
        BY <1>b, <1>e, <3>3, <4>1 DEF Stamps
      <4>3. SameRow(i, j) /\ k <= L
        BY <1>a, <3>1, <3>3, <4>2 DEF Stamps, SameRow
      <4>4. ver[j].xmin = x
        BY <1>a, <1>c, <3>3, <4>2, <4>3 DEF ChainOf, last
      <4> QED BY <3>3, <4>1, <4>4
    <3> QED BY <1>g, <3>2, <3>3
  <2>3. (\A y, z \in Active, i, j \in Slots : Stamps(y, i, r) /\ Stamps(z, j, r) => y = z)'
    BY <1>b, <1>f, <2>a DEF RowOf
  <2>4. (\A y \in Active, i, j \in Slots : Superseded(y, i) /\ ver[i].row = r => ~Tip(j, r))'
    <3> SUFFICES ASSUME NEW y \in Active, NEW i \in Slots, NEW j \in Slots,
                        Superseded(y, i)', ver'[i].row = r, Tip(j, r)'
                 PROVE  FALSE
      BY <1>b
    <3>1. Superseded(y, i) /\ Stamps(y, i, r)' /\ Stamps(y, i, r) /\ ver[i].row = r /\ y # x
      BY <1>b, <1>f DEF Stamps
    <3>2. ~Tip(j, r)
      BY <2>a, <3>1 DEF RowOf
    <3>3. Stamps(x, j, r)
      BY <1>g, <3>2
    <3> QED BY <1>a, <2>a, <3>1, <3>3 DEF RowOf
  <2> QED BY <2>1, <2>2, <2>3, <2>4 DEF RowOf
<1>2. ChainOf(x)'
  <2>1. \A i, j \in Slots : Marks(x, i) /\ Marks(x, j) => (SameRow(i, j)' <=> SameRow(i, j))
    BY <1>a, <1>d DEF SameRow
  <2>2. /\ \A k \in DOMAIN undo[x] : \A i \in undo[x][k].kill : Marks(x, i) /\ i \in Slots
        /\ \A k \in DOMAIN undo[x] : \A i \in undo[x][k].revive : Marks(x, i) /\ i \in Slots
    BY <1>k DEF Marks, Kills, Revives
  <2>3. (\A k, l \in DOMAIN undo[x] : \A n \in undo[x][k].kill, i \in undo[x][l].revive :
          k < l /\ n # i /\ SameRow(n, i)
            => \E m \in DOMAIN undo[x] : m < l /\ n \in undo[x][m].revive)'
    <3> SUFFICES ASSUME NEW k \in DOMAIN undo'[x], NEW l \in DOMAIN undo'[x],
                        NEW n \in undo'[x][k].kill, NEW i \in undo'[x][l].revive,
                        k < l, n # i, SameRow(n, i)'
                 PROVE  \E m \in DOMAIN undo'[x] : m < l /\ n \in undo'[x][m].revive
      OBVIOUS
    <3>1. /\ k \in DOMAIN undo[x] /\ l \in DOMAIN undo[x] /\ l < L
          /\ n \in undo[x][k].kill /\ i \in undo[x][l].revive
      BY <1>a
    <3>2. SameRow(n, i)
      BY <2>1, <2>2, <3>1
    <3>3. PICK m \in DOMAIN undo[x] : m < l /\ n \in undo[x][m].revive
      BY <1>c, <3>1, <3>2 DEF ChainOf
    <3>4. m # L
      BY <1>a, <3>1, <3>3
    <3>5. m \in DOMAIN undo'[x] /\ undo'[x][m] = undo[x][m]
      BY <1>a, <3>3, <3>4
    <3> QED BY <3>3, <3>5
  <2>4. (\A k, l \in DOMAIN undo[x] : \A j \in undo[x][k].revive, i \in undo[x][l].revive :
          k <= l /\ j # i /\ SameRow(j, i) => k < l /\ ver[i].xmin = x)'
    <3> SUFFICES ASSUME NEW k \in DOMAIN undo'[x], NEW l \in DOMAIN undo'[x],
                        NEW j \in undo'[x][k].revive, NEW i \in undo'[x][l].revive,
                        k <= l, j # i, SameRow(j, i)'
                 PROVE  k < l /\ ver'[i].xmin = x
      OBVIOUS
    <3>1. /\ k \in DOMAIN undo[x] /\ l \in DOMAIN undo[x]
          /\ j \in undo[x][k].revive /\ i \in undo[x][l].revive
      BY <1>a
    <3>2. SameRow(j, i) /\ ver'[i].xmin = ver[i].xmin
      BY <1>a, <1>d, <2>1, <2>2, <3>1
    <3> QED BY <1>c, <3>1, <3>2 DEF ChainOf
  <2> QED BY <1>a, <1>b, <2>3, <2>4 DEF ChainOf
<1>3. ASSUME NEW y \in Active \ {x}, NEW i \in Slots, NEW r \in Rows, Tip(i, r)',
             intent[y][r] = "delete", IntentAt(y, r)
      PROVE  Tip(i, r)
  <2>1. PICK j \in Slots : Stamps(y, j, r)
    BY <1>3 DEF IntentAt, Stamps
  <2>2. ~Stamps(x, i, r)
    BY <1>a, <1>c, <2>1 DEF RowsOK, RowOf
  <2> QED BY <1>3, <1>g, <2>2
<1> QED BY <1>1, <1>2, <1>3 DEF RowsOK

\* So of a step of x only its own rows, undo log and reads remain to be shown.
LEMMA MoveSnap ==
  ASSUME MvccInv, MvccInv', SnapInv, NEW x \in Active, Moves(x), seen' = seen,
         \A y \in Xids \ {x} : undo'[y] = undo[y] /\ op'[y] = op[y] /\ intent'[y] = intent[y],
         state[x] # "active" => intent'[x] = intent[x],
         \A y \in Active \ {x}, i \in Slots, r \in Rows :
           Tip(i, r)' /\ intent[y][r] = "delete" /\ IntentAt(y, r) => Tip(i, r),
         RowsOK', ChainOf(x)',
         Committed' = Committed /\ HistoryOK' /\ state[x] = "active" => ActiveOf(x)'
  PROVE  SnapInv' /\ Committed' = Committed
<1>a. /\ HistoryOK /\ TypeInv /\ Active' = Active /\ state' = state
      /\ \A y \in Active : y \in Xids
  BY TypeFacts DEF SnapInv, MvccInv, Moves, Active
<1>1. HistoryOK'
  BY <1>a, MoveHistory
<1>2. /\ Committed' = Committed
      /\ \A y \in Active \ {x} : SightKept(y)
      /\ \A y \in Active \ {x}, i \in Slots :
              /\ ver'[i].slot = "live" /\ (ver'[i].xmin = y \/ ver'[i].xmax = y) =>
                   /\ ver[i].slot = "live" /\ (ver[i].xmin = y \/ ver[i].xmax = y)
                   /\ ver'[i].row = ver[i].row
              /\ ver[i].slot = "live" /\ ver[i].xmax = NoXid /\ ver[i].xmin = y =>
                   /\ ver'[i].slot = "live" /\ ver'[i].xmax = NoXid /\ ver'[i].xmin = y
                   /\ ver'[i].row = ver[i].row
      /\ \A y \in Active, i \in Slots : ver[i].slot = "live" \/ Marks(y, i) =>
              ver'[i].row = ver[i].row /\ ver'[i].xmin = ver[i].xmin
  BY <1>a, <1>1, MoveOthers
<1>3. ASSUME NEW y \in Active \ {x} PROVE LogKept(y)
  <2>1. undo'[y] = undo[y] /\ op'[y] = op[y]
    BY <1>a
  <2> QED BY <2>1 DEF LogKept, Unlinked, Superseded
<1>4. ASSUME NEW y \in Active PROVE ChainOf(y)'
  <2>1. CASE y = x
    BY <2>1
  <2>2. CASE y # x
    <3>1. ChainOf(y)
      BY DEF SnapInv, ChainsOK
    <3> QED BY <1>a, <1>2, <1>3, <2>2, <3>1, ChainStays
  <2> QED BY <2>1, <2>2
<1>5. ASSUME NEW y \in Xids, state[y] = "active" PROVE ActiveOf(y)'
  <2>1. CASE y = x
    BY <1>1, <1>2, <1>5, <2>1
  <2>2. CASE y # x
    <3>1. y \in Active \ {x} /\ ActiveOf(y)
      BY <1>5, <2>2 DEF Active, SnapInv, OpenOK
    <3>2. \A i \in Slots, r \in Rows : Tip(i, r)' /\ intent[y][r] = "delete" => Tip(i, r)
      BY <3>1 DEF ActiveOf
    <3>3. \A i \in Slots : Revives(y, i) \/ Superseded(y, i) => ver'[i].row = ver[i].row
      BY <1>2, <3>1 DEF Marks
    <3>4. MarksKept(y)
      BY <1>2, <3>1, <3>2, <3>3 DEF MarksKept
    <3>5. OpenKept(y)
      BY <1>2, <1>3, <2>2, <3>1, <3>4 DEF OpenKept
    <3> QED BY <3>1, <3>5, OpenStays
  <2> QED BY <2>1, <2>2
<1>6. ReaderOK'
  BY MoveReader DEF SnapInv
<1>7. ChainsOK' /\ OpenOK'
  BY <1>a, <1>4, <1>5 DEF ChainsOK, OpenOK
<1> QED BY <1>1, <1>2, <1>6, <1>7 DEF SnapInv

LEMMA UndoSnap ==
  ASSUME MvccInv, MvccInv', SnapInv, NEW x \in Xids, Undo(x), UNCHANGED load
  PROVE  SnapInv' /\ Committed' = Committed
<1>1. /\ x \in Active /\ Moves(x) /\ seen' = seen /\ state[x] = "aborting"
      /\ \A y \in Xids \ {x} : undo'[y] = undo[y] /\ op'[y] = op[y] /\ intent'[y] = intent[y]
      /\ intent' = intent
  <2>1. state[x] = "aborting"
    BY DEF Undo
  <2> QED BY <2>1, UndoFact
<1>2. /\ RowsOK' /\ ChainOf(x)'
      /\ \A y \in Active \ {x}, i \in Slots, r \in Rows :
           Tip(i, r)' /\ intent[y][r] = "delete" /\ IntentAt(y, r) => Tip(i, r)
  BY UndoRows
<1> QED BY <1>1, <1>2, MoveSnap
----------------------------------------------------------------------------
(* Steps that move no version *)

LEMMA QuietSnap ==
  ASSUME MvccInv, MvccInv', SnapInv, UNCHANGED <<nextXid, state, snap, undo, ver, seen, intent>>,
         \A y \in Active : LogKept(y), ReaderOK'
  PROVE  SnapInv' /\ Committed' = Committed
<1>a. TypeInv /\ HistoryOK /\ Active' = Active /\ \A y \in Active : y \in Xids
  BY TypeFacts DEF MvccInv, SnapInv, Active
<1>1. HistoryOK'
  BY <1>a DEF HistoryOK, IsCommittedAt
<1>2. Committed' = Committed
  <2>1. \A i \in Slots : /\ Cur(i)' <=> Cur(i)
                         /\ Cur(i) => ver'[i].row = ver[i].row /\ ver'[i].xmin = ver[i].xmin
    BY <1>a DEF Cur
  <2> QED BY <1>a, <1>1, <2>1, CommittedKept
<1>3. ASSUME NEW r \in Rows PROVE RowOf(r)'
  <2>1. \A y \in Active, i \in Slots : /\ Revives(y, i)' <=> Revives(y, i)
                                       /\ Superseded(y, i)' <=> Superseded(y, i)
    BY DEF LogKept, Revives
  <2>2. \A i \in Slots : Tip(i, r)' <=> Tip(i, r)
    BY DEF Tip
  <2>3. \A i, j \in Slots : Pair(i, j) => Pair(i, j)'
    BY <1>a DEF Pair, LogKept
  <2>4. RowKept(r)
    BY <1>a, <2>1, <2>2, <2>3 DEF RowKept, Stamps
  <2>5. RowOf(r)
    BY DEF SnapInv, RowsOK
  <2> QED BY <2>4, <2>5, RowStays
<1>4. ASSUME NEW y \in Active PROVE ChainOf(y)'
  BY <1>a, ChainStays DEF SnapInv, ChainsOK
<1>5. ASSUME NEW y \in Xids, state[y] = "active" PROVE ActiveOf(y)'
  <2>1. y \in Active /\ ActiveOf(y) /\ LogKept(y)
    BY <1>5 DEF Active, SnapInv, OpenOK
  <2>2. SightKept(y) /\ MarksKept(y)
    BY DEF SightKept, MarksKept, Sees, Tip
  <2>3. OpenKept(y)
    BY <1>2, <2>1, <2>2 DEF OpenKept
  <2> QED BY <2>1, <2>3, OpenStays
<1>6. RowsOK' /\ ChainsOK' /\ OpenOK'
  BY <1>a, <1>3, <1>4, <1>5 DEF RowsOK, ChainsOK, OpenOK
<1> QED BY <1>1, <1>2, <1>6 DEF SnapInv

\* Nothing but locks, statements' stages and vacuum's list has changed.
LEMMA ReaderSame ==
  ASSUME ReaderOK, UNCHANGED <<nextXid, ver, reader>>, Active' \subseteq Active,
         vacuum'.pc # "idle" => vacuum.pc # "idle" /\ vacuum'.horizon = vacuum.horizon
  PROVE  ReaderOK'
BY DEF ReaderOK, IsCommittedAt

LEMMA ReleaseLocksSnap ==
  ASSUME MvccInv, MvccInv', SnapInv, NEW x \in Xids, ReleaseLocks(x), UNCHANGED load
  PROVE  SnapInv' /\ Committed' = Committed
<1>1. UNCHANGED <<nextXid, state, snap, undo, op, ver, reader, vacuum, seen, intent>>
  BY DEF ReleaseLocks, txnVars, histVars
<1>2. \A y \in Active : LogKept(y)
  BY <1>1 DEF LogKept, Unlinked, Superseded
<1>3. ReaderOK'
  BY <1>1, ReaderSame DEF SnapInv, Active
<1> QED BY <1>1, <1>2, <1>3, QuietSnap

\* A statement gets its lock, or passes its check.
LEMMA StageSnap ==
  ASSUME MvccInv, Orderly(load), MvccInv', SnapInv, NEW x \in Xids,
         (LockRow(x) /\ ~StartAbort(x)) \/ HotXpageCheck(x), UNCHANGED load
  PROVE  SnapInv' /\ Committed' = Committed
<1>a. TypeInv
  BY DEF MvccInv
<1>1. /\ op[x].stage \in {"lock", "check"} /\ op[x].path \notin {"idle", "insert"}
      /\ op[x].stage = "check" => op[x].path = "hotXpage"
  <2>1. op[x].stage \in {"lock", "check"}
    BY DEF LockRow, HotXpageCheck, At
  <2>2. op[x].path \in Paths /\ op[x].path # "idle" /\ op[x].stage \in Stages(op[x].path)
    BY <2>1, StageFact
  <2> QED BY <2>1, <2>2 DEF Paths, Stages
<1>2. PICK i \in Slots : op[x].old = <<i>> /\ op[x].todo = <<i>> /\ op[x].new = <<>>
  BY <1>1, TargetFact
<1>3. <<i>> \in Seq(Slots) /\ <<>> \in Seq(Slots)
  OBVIOUS
<1>4. PICK stage \in {"check", "stamp", "insert"} :
        /\ GoTo(x, stage, <<i>>, <<>>) /\ (stage = "insert" => op[x].path = "hotXpage")
  BY <1>1, <1>2 DEF LockRow, HotXpageCheck, At
<1>5. UNCHANGED <<nextXid, state, snap, undo, ver, reader, vacuum, seen, intent>>
  BY DEF LockRow, HotXpageCheck, txnVars, histVars
<1>6. /\ op'[x].path = op[x].path /\ op'[x].stage = stage
      /\ op'[x].old = op[x].old /\ op'[x].new = <<>>
      /\ \A y \in Xids \ {x} : op'[y] = op[y]
  <2>1. stage \in {"lock", "check", "stamp", "insert", "link"} /\ GoTo(x, stage, <<i>>, <<>>)
    BY <1>4
  <2>2. /\ op' \in [Xids -> OpType]
        /\ op'[x].path = op[x].path /\ op'[x].stage = stage /\ op'[x].todo = <<i>>
        /\ op'[x].old = op[x].old /\ op'[x].new = <<>>
        /\ \A y \in Xids \ {x} : op'[y] = op[y]
    BY ONLY <1>a, <1>3, <2>1, x \in Xids, GoToFact
  <2> QED BY <2>2
<1>7. ASSUME NEW y \in Active PROVE LogKept(y)
  <2>1. y \in Xids
    BY <1>a, TypeFacts
  <2>2. CASE y = x
    BY <1>1, <1>4, <1>5, <1>6, <2>2 DEF LogKept, Unlinked, Superseded
  <2>3. CASE y # x
    BY <1>5, <1>6, <2>1, <2>3 DEF LogKept, Unlinked, Superseded
  <2> QED BY <2>2, <2>3
<1>8. ReaderOK'
  BY <1>5, ReaderSame DEF SnapInv, Active
<1> QED BY <1>5, <1>7, <1>8, QuietSnap

LEMMA ReaderOpenSnap ==
  ASSUME MvccInv, MvccInv', SnapInv, ReaderOpen \/ ReaderClose, UNCHANGED load
  PROVE  SnapInv' /\ Committed' = Committed
<1>1. UNCHANGED <<nextXid, state, snap, undo, op, ver, vacuum, seen, intent>>
  BY DEF ReaderOpen, ReaderClose, txnVars, histVars
<1>2. \A y \in Active : LogKept(y)
  BY <1>1 DEF LogKept, Unlinked, Superseded
<1>3. ReaderOK'
  <2>1. CASE ReaderClose
    BY <2>1 DEF ReaderClose, ReaderOK
  <2>2. CASE ReaderOpen
    <3> DEFINE s == ComputeSnapshot(nextXid)
    <3>a. /\ nextXid \in Nat /\ \A z \in Active : z \in Nat /\ z < nextXid
          /\ \A i \in Slots : ver[i].xmin \in Xids \cup {NoXid} /\ ver[i].xmax \in Xids \cup {NoXid}
          /\ vacuum.horizon \in Nat
      BY TypeFacts DEF MvccInv
    <3>b. Active' = Active
      BY <1>1 DEF Active
    <3>1. /\ s.xmax = nextXid /\ \A z \in Active : ~IsCommittedAt(s, z)
          /\ \A z \in Xids \ Active : z < nextXid => IsCommittedAt(s, z)
          /\ ~IsCommittedAt(s, NoXid)
      BY <3>a, SnapshotFact DEF IsCommittedAt
    <3>2. s.xmin \in Nat /\ s.xmin <= nextXid
      <4>1. s.xmin = Least(Active, nextXid)
        BY DEF ComputeSnapshot
      <4>2. Active \in SUBSET Nat
        BY <3>a
      <4> QED BY <3>a, <4>1, <4>2, LeastFact
    <3>3. reader'.snap = s /\ reader'.seen = Committed
      BY <2>2 DEF ReaderOpen
    <3> HIDE DEF s
    <3>4. s.xmax \in s.xmin .. nextXid
      BY <3>a, <3>1, <3>2
    <3>5. vacuum.pc # "idle" => \A z \in Xids : z < vacuum.horizon => IsCommittedAt(s, z)
      <4>1. vacuum.pc # "idle" => \A z \in Xids : z < vacuum.horizon => z \notin Active /\ z < nextXid
        BY <3>a, XidFacts DEF MvccInv, VacuumOK
      <4> QED BY <3>1, <4>1
    <3>6. ASSUME NEW r \in Rows, NEW y \in Xids, y \in Committed[r]
          PROVE  \E i \in Slots : /\ ver[i].slot = "live" /\ ver[i].row = r /\ ver[i].xmin = y
                                  /\ ~IsCommittedAt(s, ver[i].xmax)
      <4>1. Committed = [q \in Rows |->
                {ver[i].xmin : i \in {j \in Slots : ver[j].row = q /\ Cur(j)}}]
        BY CommittedFact DEF SnapInv
      <4>2. y \in {ver[i].xmin : i \in {j \in Slots : ver[j].row = r /\ Cur(j)}}
        BY <3>6, <4>1
      <4>3. PICK i \in Slots : ver[i].row = r /\ Cur(i) /\ ver[i].xmin = y
        BY <4>2
      <4> QED BY <3>1, <4>3 DEF Cur
    <3> QED BY <1>1, <3>b, <3>1, <3>3, <3>4, <3>5, <3>6 DEF ReaderOK, IsCommittedAt
  <2> QED BY <2>1, <2>2
<1> QED BY <1>1, <1>2, <1>3, QuietSnap

LEMMA VacuumStartSnap ==
  ASSUME MvccInv, MvccInv', SnapInv, Orderly(load), VacuumStart \/ VacuumCollect, UNCHANGED load
  PROVE  SnapInv' /\ Committed' = Committed
<1>1. UNCHANGED <<nextXid, state, snap, undo, op, ver, reader, seen, intent>>
  BY DEF VacuumStart, VacuumCollect, txnVars, histVars
<1>2. \A y \in Active : LogKept(y)
  BY <1>1 DEF LogKept, Unlinked, Superseded
<1>3. ReaderOK'
  <2>1. CASE VacuumCollect
    <3>1. vacuum \in [pc : {"idle", "collect", "mark", "compact"}, horizon : Nat,
                      cand : SUBSET Slots]
      BY DEF MvccInv, TypeInv
    <3>2. vacuum'.pc # "idle" => vacuum.pc # "idle" /\ vacuum'.horizon = vacuum.horizon
      BY <2>1, <3>1 DEF VacuumCollect, NoVacuum
    <3> QED BY <1>1, <3>2, ReaderSame DEF SnapInv, Active
  <2>2. CASE VacuumStart
    <3>1. Active = {} /\ vacuum'.horizon = VacuumHorizon
      BY <2>2 DEF VacuumStart, Orderly
    <3> SUFFICES ASSUME reader # NoReader, NEW z \in Xids, z < VacuumHorizon
                 PROVE  IsCommittedAt(reader.snap, z)
      <4>1. Active' = Active
        BY <1>1 DEF Active
      <4> QED BY <1>1, <3>1, <4>1 DEF SnapInv, ReaderOK, IsCommittedAt
    <3>2. /\ reader.snap.xmin \in Nat /\ nextXid \in Nat
          /\ reader.snap.xmax \in reader.snap.xmin .. nextXid
      BY TypeFacts DEF MvccInv, TypeInv, SnapInv, ReaderOK
    <3>3. VacuumHorizon = Least({reader.snap.xmin}, nextXid)
      BY <3>1 DEF VacuumHorizon
    <3>4. VacuumHorizon = reader.snap.xmin
      BY <3>2, <3>3, LeastFact
    <3> QED BY <3>2, <3>4, XidFacts DEF IsCommittedAt
  <2> QED BY <2>1, <2>2
<1> QED BY <1>1, <1>2, <1>3, QuietSnap
----------------------------------------------------------------------------
(* Vacuum *)

\* A version that dies was stamped by somebody whom every snapshot takes for
\* committed; a slot that is freed was dead.
Swept(i) == \/ ver'[i] = ver[i]
            \/ ver'[i].slot # "live" /\ (ver[i].slot # "live" \/ i \in vacuum.cand)

LEMMA SweptFact ==
  ASSUME MvccInv, VacuumMark \/ VacuumCompact
  PROVE  /\ \A i \in Slots : Swept(i)
         /\ UNCHANGED <<nextXid, state, snap, undo, op, reader, seen, intent>>
         /\ vacuum.pc # "idle" /\ (vacuum'.pc # "idle" => vacuum'.horizon = vacuum.horizon)
<1>1. /\ ver \in [Slots -> VerType] /\ vacuum.cand \subseteq Slots
      /\ vacuum \in [pc : {"idle", "collect", "mark", "compact"}, horizon : Nat,
                     cand : SUBSET Slots]
  BY DEF MvccInv, TypeInv, VerType
<1>2. CASE VacuumMark
  <2> DEFINE i == Least(vacuum.cand, NoXid)
  <2>1. ver' = [ver EXCEPT ![i].slot = IF @ = "live" THEN "dead" ELSE @]
    BY <1>2 DEF VacuumMark
  <2>2. i \in vacuum.cand \/ i \notin Slots
    <3>1. vacuum.cand \in SUBSET Nat /\ NoXid \in Nat /\ NoXid \notin Slots
      BY <1>1, XidFacts
    <3> QED BY <3>1, LeastFact
  <2>3. vacuum.pc # "idle" /\ vacuum'.horizon = vacuum.horizon
    BY <1>1, <1>2 DEF VacuumMark
  <2> HIDE DEF i
  <2>4. ASSUME NEW j \in Slots PROVE Swept(j)
    <3>1. CASE j # i \/ ver[j].slot # "live"
      <4>1. ver[j] \in VerType
        BY <1>1
      <4> QED BY <1>1, <2>1, <3>1, <4>1 DEF Swept, VerType
    <3>2. CASE j = i /\ ver[j].slot = "live"
      <4>1. ver'[i] = [ver[i] EXCEPT !.slot = "dead"]
        BY <1>1, <2>1, <3>2
      <4>2. ver'[i].slot = "dead"
        BY <1>1, <3>2, <4>1 DEF VerType
      <4> QED BY <2>2, <3>2, <4>2 DEF Swept
    <3> QED BY <3>1, <3>2
  <2> QED BY <1>2, <2>3, <2>4 DEF VacuumMark, txnVars, histVars
<1>3. CASE VacuumCompact
  <2>1. \A j \in Slots : Swept(j)
    BY <1>3, FreeFact DEF VacuumCompact, Swept
  <2> QED BY <1>3, <2>1 DEF VacuumCompact, NoVacuum, txnVars, histVars
<1> QED BY <1>2, <1>3

LEMMA SweepSnap ==
  ASSUME MvccInv, MvccInv', SnapInv, VacuumMark \/ VacuumCompact, UNCHANGED load
  PROVE  SnapInv' /\ Committed' = Committed
<1>a. /\ \A i \in Slots : Swept(i)
      /\ UNCHANGED <<nextXid, state, snap, undo, op, reader, seen, intent>>
      /\ vacuum.pc # "idle" /\ (vacuum'.pc # "idle" => vacuum'.horizon = vacuum.horizon)
  BY SweptFact
<1>b. /\ TypeInv /\ HistoryOK /\ Active' = Active
      /\ \A y \in Active : y \in Xids /\ y # NoXid /\ y \in Nat
      /\ \A i \in Slots : ver[i].xmax \in Nat /\ ver[i].xmax \in Xids \cup {NoXid}
      /\ vacuum.horizon \in Nat
  BY <1>a, TypeFacts DEF MvccInv, SnapInv, Active
<1>c. \A i \in vacuum.cand : /\ ver[i].slot = "live" /\ ver[i].xmax # NoXid
                             /\ ver[i].xmax < vacuum.horizon
  BY DEF MvccInv, VacuumOK
<1>d. \A y \in Active : y >= vacuum.horizon
  BY <1>a DEF MvccInv, VacuumOK
<1>e. \A i \in Slots : /\ ver'[i].slot = "live" => ver'[i] = ver[i]
                       /\ ver[i].slot = "live" /\ (ver[i].xmax = NoXid \/ ver[i].xmax \in Active)
                            => ver'[i] = ver[i]
                       /\ ver[i].slot = "live" /\ ver'[i] # ver[i] =>
                            /\ ver'[i].slot # "live" /\ ver[i].xmax \in Xids
                            /\ ver[i].xmax < vacuum.horizon
  BY <1>a, <1>b, <1>c, <1>d DEF Swept
<1>f. \A y \in Active, i \in Slots : Marks(y, i) => ver'[i] = ver[i]
  <2> SUFFICES ASSUME NEW y \in Active, NEW i \in Slots, Marks(y, i) PROVE ver'[i] = ver[i]
    OBVIOUS
  <2>1. MarksOf(y)
    BY DEF MvccInv, UndoOK
  <2>2. ver[i].slot = "live" /\ (ver[i].xmin = y \/ ver[i].xmax = y)
    BY MarksLive DEF Marks
  <2>3. ver[i].xmax = NoXid \/ ver[i].xmax = y
    BY <2>1, <2>2 DEF MarksOf
  <2> QED BY <1>e, <2>2, <2>3
<1>1. HistoryOK'
  BY <1>a, <1>b, <1>e DEF HistoryOK, IsCommittedAt
<1>2. Committed' = Committed
  <2>1. \A i \in Slots : /\ Cur(i)' <=> Cur(i)
                         /\ Cur(i) => ver'[i].row = ver[i].row /\ ver'[i].xmin = ver[i].xmin
    BY <1>b, <1>e DEF Cur
  <2> QED BY <1>b, <1>1, <2>1, CommittedKept
<1>3. ASSUME NEW y \in Active PROVE LogKept(y)
  BY <1>a DEF LogKept, Unlinked, Superseded
<1>4. ASSUME NEW r \in Rows PROVE RowOf(r)'
  <2>1. \A y \in Active, i \in Slots : /\ Revives(y, i)' <=> Revives(y, i)
                                       /\ Superseded(y, i)' <=> Superseded(y, i)
    BY <1>a DEF Superseded, Revives
  <2>2. \A i \in Slots : Tip(i, r)' => Tip(i, r) /\ ver'[i].xmin = ver[i].xmin
    BY <1>e DEF Tip
  <2>3. \A i, j \in Slots : Pair(i, j) => Pair(i, j)'
    BY <1>a, <1>b DEF Pair, Unlinked
  <2>4. \A y \in Active, i \in Slots : Revives(y, i) \/ Superseded(y, i) => ver'[i] = ver[i]
    BY <1>f DEF Marks
  <2>5. RowKept(r)
    BY <1>b, <2>1, <2>2, <2>3, <2>4 DEF RowKept, Stamps
  <2>6. RowOf(r)
    BY DEF SnapInv, RowsOK
  <2> QED BY <2>5, <2>6, RowStays
<1>5. ASSUME NEW y \in Active PROVE ChainOf(y)'
  <2>1. ChainOf(y)
    BY DEF SnapInv, ChainsOK
  <2> QED BY <1>b, <1>3, <1>f, <2>1, ChainStays
<1>6. ASSUME NEW y \in Xids, state[y] = "active" PROVE ActiveOf(y)'
  <2>1. y \in Active /\ ActiveOf(y) /\ LogKept(y)
    BY <1>3, <1>6 DEF Active, SnapInv, OpenOK
  <2>2. SightKept(y)
    <3>1. /\ \A i \in Slots : Sees(y, i) <=>
               ver[i].slot = "live" /\ Over(y, ver[i].xmin) /\ ~Over(y, ver[i].xmax)
          /\ \A z \in Xids : z < vacuum.horizon => Over(y, z)
      BY <1>a, <1>b, <2>1, SeesFact, OverFact
    <3> SUFFICES ASSUME NEW i \in Slots
                 PROVE  /\ Sees(y, i)' <=> Sees(y, i)
                        /\ Sees(y, i) => ver'[i].row = ver[i].row /\ ver'[i].xmin = ver[i].xmin
      BY DEF SightKept
    <3>2. CASE ver'[i] = ver[i]
      BY <1>a, <3>2 DEF Sees
    <3>3. CASE ver'[i] # ver[i]
      BY <1>e, <3>1, <3>3 DEF Sees, IsVisible
    <3> QED BY <3>2, <3>3
  <2>3. MarksKept(y)
    BY <1>e, <1>f, <2>1 DEF MarksKept, Tip, Marks
  <2>4. OpenKept(y)
    BY <1>a, <1>2, <2>1, <2>2, <2>3 DEF OpenKept
  <2> QED BY <2>1, <2>4, OpenStays
<1>7. ReaderOK'
  <2> SUFFICES ASSUME reader # NoReader
               PROVE  /\ reader.snap.xmax \in reader.snap.xmin .. nextXid
                      /\ \A z \in Active : ~IsCommittedAt(reader.snap, z)
                      /\ \A z \in Xids : z < vacuum.horizon => IsCommittedAt(reader.snap, z)
                      /\ \A r \in Rows, y \in Xids : y \in reader.seen[r] =>
                           \E i \in Slots :
                             /\ ver'[i].slot = "live" /\ ver'[i].row = r /\ ver'[i].xmin = y
                             /\ ~IsCommittedAt(reader.snap, ver'[i].xmax)
    BY <1>a, <1>b DEF ReaderOK, IsCommittedAt
  <2>1. /\ reader.snap.xmax \in reader.snap.xmin .. nextXid
        /\ \A z \in Active : ~IsCommittedAt(reader.snap, z)
        /\ \A z \in Xids : z < vacuum.horizon => IsCommittedAt(reader.snap, z)
    BY <1>a DEF SnapInv, ReaderOK
  <2>2. ASSUME NEW r \in Rows, NEW y \in Xids, y \in reader.seen[r]
        PROVE  \E i \in Slots : /\ ver'[i].slot = "live" /\ ver'[i].row = r /\ ver'[i].xmin = y
                                /\ ~IsCommittedAt(reader.snap, ver'[i].xmax)
    <3>1. PICK i \in Slots : /\ ver[i].slot = "live" /\ ver[i].row = r /\ ver[i].xmin = y
                             /\ ~IsCommittedAt(reader.snap, ver[i].xmax)
      BY <2>2 DEF SnapInv, ReaderOK
    <3>2. ver'[i] = ver[i]
      BY <1>e, <2>1, <3>1
    <3> QED BY <3>1, <3>2
  <2> QED BY <2>1, <2>2
<1>8. RowsOK' /\ ChainsOK' /\ OpenOK'
  BY <1>a, <1>b, <1>4, <1>5, <1>6 DEF RowsOK, ChainsOK, OpenOK
<1> QED BY <1>1, <1>2, <1>7, <1>8 DEF SnapInv
----------------------------------------------------------------------------
(* Snapshots *)

LEMMA CommittedType == MvccInv /\ HistoryOK => Committed \in [Rows -> SUBSET Xids]
<1> SUFFICES ASSUME MvccInv, HistoryOK PROVE Committed \in [Rows -> SUBSET Xids]
  OBVIOUS
<1>1. \A i \in Slots : Cur(i) => ver[i].xmin \in Xids
  BY TypeFacts DEF MvccInv, HistoryOK, Cur
<1> QED BY <1>1, CommittedFact

\* Of one row a fresh snapshot sees one version.
LEMMA OneVersion ==
  ASSUME MvccInv, SnapInv, NEW x, x \in Active => op[x] = Idle,
         NEW i \in Slots, NEW j \in Slots, SameRow(i, j), FreshSees(x, i), FreshSees(x, j)
  PROVE  i = j
<1> DEFINE r == ver[i].row
<1>a. /\ r \in Rows /\ ver[j].row = r
      /\ ver[i].slot = "live" /\ ver[i].xmin \notin Active \ {x}
      /\ ver[j].slot = "live" /\ ver[j].xmin \notin Active \ {x}
      /\ ver[i].xmax = NoXid \/ ver[i].xmax \in Active \ {x}
      /\ ver[j].xmax = NoXid \/ ver[j].xmax \in Active \ {x}
  BY TypeFacts DEF MvccInv, SameRow, FreshSees
<1>b. RowOf(r)
  BY <1>a DEF SnapInv, RowsOK
<1> HIDE DEF r
<1>c. ASSUME NEW n \in Slots, ver[n].slot = "live", ver[n].row = r,
             ver[n].xmin \notin Active \ {x}, ver[n].xmax \in Active \ {x}
      PROVE  Stamps(ver[n].xmax, n, r)
  <2>1. MarksOf(ver[n].xmax)
    BY <1>c DEF MvccInv, UndoOK
  <2> QED BY <1>c, <2>1 DEF MarksOf, Stamps
<1>d. \A n, m \in Slots : ver[m].xmin \notin Active \ {x} => ~Pair(n, m)
  <2> SUFFICES ASSUME NEW n \in Slots, NEW m \in Slots, ver[m].xmin \notin Active \ {x}, Pair(n, m)
               PROVE  FALSE
    OBVIOUS
  <2>1. PICK y \in Active : Unlinked(y, m)
    BY DEF Pair
  <2>2. ver[m].xmin = y
    BY <2>1, MarksLive
  <2>3. y = x /\ op[y] = Idle
    BY <2>2
  <2> QED BY <2>1, <2>3 DEF Unlinked, Idle
<1>1. CASE ver[i].xmax = NoXid /\ ver[j].xmax = NoXid
  BY <1>a, <1>b, <1>d, <1>1 DEF RowOf, Tip, r
<1>2. CASE ver[i].xmax = NoXid /\ ver[j].xmax # NoXid
  BY <1>a, <1>b, <1>c, <1>2 DEF RowOf, Tip, r
<1>3. CASE ver[i].xmax # NoXid /\ ver[j].xmax = NoXid
  BY <1>a, <1>b, <1>c, <1>3 DEF RowOf, Tip, r
<1>4. CASE ver[i].xmax # NoXid /\ ver[j].xmax # NoXid
  <2>1. /\ Stamps(ver[i].xmax, i, r) /\ Stamps(ver[j].xmax, j, r)
        /\ ver[i].xmax \in Active \ {x} /\ ver[j].xmax \in Active \ {x}
    BY <1>a, <1>c, <1>4 DEF r
  <2>2. ver[i].xmax = ver[j].xmax
    BY <1>b, <2>1 DEF RowOf
  <2> DEFINE y == ver[i].xmax
  <2>3. y \in Active /\ y # x /\ Stamps(y, i, r) /\ Stamps(y, j, r) /\ ChainOf(y)
    BY <2>1, <2>2 DEF SnapInv, ChainsOK
  <2> HIDE DEF y
  <2>4. ver[i].xmin # y /\ ver[j].xmin # y /\ SameRow(i, j) /\ SameRow(j, i)
    BY <1>a, <2>3 DEF SameRow
  <2>5. CASE Superseded(y, i) /\ Superseded(y, j)
    BY <2>5 DEF Superseded
  <2>6. CASE Superseded(y, i) /\ Revives(y, j)
    BY <2>3, <2>4, <2>6 DEF ChainOf
  <2>7. CASE Superseded(y, j) /\ Revives(y, i)
    BY <2>3, <2>4, <2>7 DEF ChainOf
  <2>8. CASE Revives(y, i) /\ Revives(y, j)
    <3>1. PICK k \in DOMAIN undo[y] : i \in undo[y][k].revive
      BY <2>8 DEF Revives
    <3>2. PICK l \in DOMAIN undo[y] : j \in undo[y][l].revive
      BY <2>8 DEF Revives
    <3>3. k \in Nat /\ l \in Nat
      <4>1. y \in Xids /\ undo[y] \in Seq(Step1)
        BY <2>3, TypeFacts DEF MvccInv, TypeInv
      <4> HIDE DEF Step1
      <4> QED BY <4>1, DOMAIN undo[y] = 1 .. Len(undo[y])
    <3>4. k <= l \/ l <= k
      BY <3>3
    <3> QED BY <2>3, <2>4, <3>1, <3>2, <3>4 DEF ChainOf
  <2> QED BY <2>3, <2>5, <2>6, <2>7, <2>8 DEF Stamps
<1> QED BY <1>a, <1>1, <1>2, <1>3, <1>4

LEMMA OneCurrent ==
  ASSUME MvccInv, SnapInv, NEW i \in Slots, NEW j \in Slots, SameRow(i, j), Cur(i), Cur(j)
  PROVE  i = j
<1>1. NoXid \notin Active
  BY TypeFacts DEF MvccInv
<1>2. FreshSees(NoXid, i) /\ FreshSees(NoXid, j)
  BY <1>1 DEF FreshSees, Cur
<1> QED BY <1>1, <1>2, OneVersion

LEMMA BeginSnap ==
  ASSUME MvccInv, MvccInv', SnapInv, NEW x \in Xids, NEW lvl, Begin(x, lvl), UNCHANGED load
  PROVE  SnapInv' /\ Committed' = Committed
<1> DEFINE s == ComputeSnapshot(nextXid + 1)
<1>a. /\ nextXid \in Nat /\ nextXid >= 2 /\ TypeInv /\ HistoryOK
      /\ \A z \in Xids : z < nextXid <=> state[z] # "unborn"
      /\ \A z \in Active : z \in Xids /\ z < nextXid /\ z # NoXid /\ z \in Nat /\ z # 1
      /\ \A i \in Slots : /\ ver[i].xmin \in Nat /\ ver[i].xmax \in Nat
                          /\ ver[i].xmin \in Xids \cup {NoXid} /\ ver[i].xmax \in Xids \cup {NoXid}
                          /\ ver[i].row \in Rows
  BY TypeFacts DEF MvccInv, SnapInv
<1>1. /\ x = nextXid /\ nextXid' = nextXid + 1
      /\ state' = [state EXCEPT ![x] = "active"] /\ snap' = [snap EXCEPT ![x] = s]
      /\ seen' = [seen EXCEPT ![x] = Committed]
      /\ UNCHANGED <<undo, op, ver, lock, reader, vacuum, intent>>
  BY DEF Begin
<1>2. /\ s.xmax = nextXid + 1 /\ \A z \in Active : ~IsCommittedAt(s, z)
      /\ \A z \in Xids \ Active : z < nextXid + 1 => IsCommittedAt(s, z)
      /\ ~IsCommittedAt(s, NoXid)
  <2>1. nextXid + 1 \in Nat
    BY <1>a
  <2> QED BY <2>1, SnapshotFact DEF IsCommittedAt
<1> HIDE DEF s
<1>3. /\ state'[x] = "active" /\ \A y \in Xids \ {x} : state'[y] = state[y]
      /\ snap'[x] = s /\ \A y \in Xids \ {x} : snap'[y] = snap[y]
      /\ seen'[x] = Committed /\ \A y \in Xids \ {x} : seen'[y] = seen[y]
      /\ seen' \in [Xids -> [Rows -> SUBSET Xids]]
      /\ x \notin Active /\ state[x] = "unborn" /\ x # NoXid
  <2>1. Committed \in [Rows -> SUBSET Xids]
    BY <1>a, CommittedType
  <2>2. state[x] = "unborn"
    BY <1>a, <1>1, XidFacts
  <2> QED BY <1>a, <1>1, <2>1, <2>2, XidFacts DEF TypeInv, HistoryOK, Active
<1>4. Active' = Active \cup {x}
  BY <1>3 DEF Active
<1>5. \A i \in Slots : ver[i].xmin # x /\ ver[i].xmax # x
  BY <1>a, <1>1 DEF MvccInv, VersionXids
<1>6. undo[x] = <<>> /\ op[x] = Idle /\ intent[x] = NoWrites
  BY <1>a, <1>3 DEF MvccInv, ClosedOK, HistoryOK
<1>7. \A i \in Slots : ~Revives(x, i) /\ ~Superseded(x, i) /\ ~Unlinked(x, i)
  BY <1>6 DEF Revives, Superseded, Unlinked, Idle
<1>8. HistoryOK'
  <2>1. IsCommittedAt(s, 1)
    BY <1>a, <1>2, XidFacts
  <2>2. \A y \in Active' : IsCommittedAt(snap'[y], 1)
    BY <1>a, <1>3, <1>4, <2>1 DEF HistoryOK
  <2> QED BY <1>a, <1>1, <1>3, <2>2 DEF HistoryOK, IsCommittedAt
<1>9. Committed' = Committed
  <2>1. \A i \in Slots : /\ Cur(i)' <=> Cur(i)
                         /\ Cur(i) => ver'[i].row = ver[i].row /\ ver'[i].xmin = ver[i].xmin
    BY <1>1, <1>4, <1>5 DEF Cur
  <2> QED BY <1>a, <1>8, <2>1, CommittedKept
<1>10. ASSUME NEW y \in Active PROVE LogKept(y)
  BY <1>1 DEF LogKept, Unlinked, Superseded
<1>11. ASSUME NEW r \in Rows PROVE RowOf(r)'
  <2>1. \A y \in Active', i \in Slots : /\ Revives(y, i)' => y \in Active /\ Revives(y, i)
                                        /\ Superseded(y, i)' => y \in Active /\ Superseded(y, i)
    BY <1>1, <1>4, <1>7 DEF Revives, Superseded
  <2>2. \A i \in Slots : Tip(i, r)' <=> Tip(i, r)
    BY <1>1 DEF Tip
  <2>3. \A i, j \in Slots : Pair(i, j) => Pair(i, j)'
    BY <1>1, <1>4 DEF Pair, Unlinked
  <2>4. RowKept(r)
    BY <1>1, <2>1, <2>2, <2>3 DEF RowKept, Stamps
  <2>5. RowOf(r)
    BY DEF SnapInv, RowsOK
  <2> QED BY <2>4, <2>5, RowStays
<1>12. ASSUME NEW y \in Active' PROVE ChainOf(y)'
  <2>1. CASE y \in Active
    BY <1>a, <1>1, <1>10, <2>1, ChainStays DEF SnapInv, ChainsOK
  <2>2. CASE y = x
    <3>1. undo'[x] = <<>> /\ \A i \in Slots : ~Superseded(x, i)'
      BY <1>1, <1>6, <1>7 DEF Superseded
    <3> QED BY <2>2, <3>1 DEF ChainOf
  <2> QED BY <1>4, <2>1, <2>2
<1>13. ASSUME NEW y \in Xids \ {x}, state[y] = "active" PROVE ActiveOf(y)'
  <2>1. y \in Active /\ ActiveOf(y) /\ LogKept(y)
    BY <1>10, <1>13 DEF Active, SnapInv, OpenOK
  <2>2. SightKept(y) /\ MarksKept(y)
    BY <1>1, <1>3 DEF SightKept, MarksKept, Sees, Tip
  <2>3. OpenKept(y)
    BY <1>1, <1>3, <1>9, <2>1, <2>2 DEF OpenKept
  <2> QED BY <2>1, <2>3, OpenStays
<1>14. ActiveOf(x)'
  <2>1. ASSUME NEW i \in Slots PROVE Sees(x, i)' <=> Cur(i)
    <3>1. ver[i].slot = "live" => ver[i].xmin \in Xids
      BY <1>a DEF HistoryOK
    <3>2. ver[i].slot = "live" /\ ver[i].hint => IsCommittedAt(s, ver[i].xmin)
      BY <1>a, <1>2, HintFact, XidFacts
    <3>3. IsVisible(ver[i], s, x) <=> /\ ver[i].slot = "live"
                                      /\ ver[i].xmin = x \/ IsCommittedAt(s, ver[i].xmin)
                                      /\ ~(ver[i].xmax = x \/ IsCommittedAt(s, ver[i].xmax))
      BY <1>3, <3>2, VisibleIff
    <3>4. ver[i].xmin < nextXid + 1 /\ ver[i].xmax < nextXid + 1
      BY <1>a DEF MvccInv, VersionXids
    <3>5. IsVisible(ver[i], s, x) <=> Cur(i)
      BY <1>a, <1>2, <1>5, <3>1, <3>3, <3>4 DEF Cur
    <3> QED BY <1>1, <1>3, <3>5 DEF Sees
  <2>2. \A i \in Slots : ~Superseded(x, i)' /\ ~Unlinked(x, i)'
    BY <1>1, <1>7 DEF Superseded, Unlinked
  <2>3. TargetSeen(x)'
    BY <1>1, <1>6 DEF TargetSeen, Idle
  <2>4. ASSUME NEW r \in Rows PROVE IntentAt(x, r)' /\ ReadsAt(x, r)' /\ BaseAt(x, r)'
    <3>1. intent'[x][r] = "keep" /\ ~Replacing(x, r)'
      BY <1>1, <1>6, <2>2 DEF NoWrites, Replacing
    <3>2. IntentAt(x, r)'
      BY <1>1, <1>5, <3>1 DEF IntentAt
    <3>3. Read(x, r)' = Committed[r]
      <4> DEFINE V == {j \in Slots : ver[j].row = r /\ Sees(x, j) /\ ~Unlinked(x, j)}
                 C == {j \in Slots : ver[j].row = r /\ Cur(j)}
      <4>1. V' = C
        BY <1>1, <2>1, <2>2
      <4>2. Read(x, r)' = {ver'[i].xmin : i \in V'}
        BY DEF Read
      <4>3. Committed[r] = {ver[i].xmin : i \in C}
        BY <1>a, CommittedFact
      <4> HIDE DEF V, C
      <4> QED BY <1>1, <4>1, <4>2, <4>3
    <3>4. Overlay(x, seen[x], r)' = Committed[r]
      BY <1>3, <3>1 DEF Overlay
    <3>5. (\A i, j \in Slots : Sees(x, i) /\ Sees(x, j) /\ ver[i].row = r /\ ver[j].row = r
             => i = j \/ Unlinked(x, i) \/ Unlinked(x, j))'
      BY <1>1, <2>1, OneCurrent DEF SameRow
    <3>6. ReadsAt(x, r)'
      BY <3>1, <3>3, <3>4, <3>5 DEF ReadsAt
    <3> QED BY <3>1, <3>2, <3>6 DEF BaseAt
  <2> QED BY <2>3, <2>4 DEF ActiveOf
<1>15. ReaderOK'
  <2> SUFFICES ASSUME reader # NoReader
               PROVE  /\ reader.snap.xmax \in reader.snap.xmin .. nextXid + 1
                      /\ \A z \in Active \cup {x} : ~IsCommittedAt(reader.snap, z)
    BY <1>1, <1>4 DEF SnapInv, ReaderOK, IsCommittedAt
  <2>1. /\ reader.snap.xmax \in reader.snap.xmin .. nextXid /\ reader.snap.xmin \in Nat
        /\ \A z \in Active : ~IsCommittedAt(reader.snap, z)
    BY <1>a DEF SnapInv, ReaderOK, TypeInv
  <2>2. ~IsCommittedAt(reader.snap, x)
    BY <1>a, <1>1, <2>1 DEF IsCommittedAt
  <2> QED BY <1>a, <2>1, <2>2
<1>16. RowsOK' /\ ChainsOK' /\ OpenOK'
  <2>1. \A y \in Xids : state'[y] = "active" => ActiveOf(y)'
    BY <1>3, <1>13, <1>14
  <2> QED BY <1>11, <1>12, <2>1 DEF RowsOK, ChainsOK, OpenOK
<1> QED BY <1>8, <1>9, <1>15, <1>16 DEF SnapInv

\* Between statements, what a fresh snapshot shows of x is what is committed
\* with the finished writes of x.
LEMMA FreshReads ==
  ASSUME MvccInv, SnapInv, NEW x \in Xids, state[x] = "active", op[x] = Idle, NEW r \in Rows
  PROVE  {ver[i].xmin : i \in {j \in Slots : ver[j].row = r /\ FreshSees(x, j)}}
           = Overlay(x, Committed, r)
<1> DEFINE V == {j \in Slots : ver[j].row = r /\ FreshSees(x, j)}
<1>a. /\ x \in Active /\ x # NoXid /\ HistoryOK /\ IntentAt(x, r) /\ RowOf(r)
      /\ \A i \in Slots : ver[i].xmax \in Xids \cup {NoXid}
  BY TypeFacts, XidFacts DEF Active, MvccInv, SnapInv, OpenOK, ActiveOf, RowsOK
<1>b. \A i \in Slots : ~Superseded(x, i) /\ ~Unlinked(x, i)
  BY DEF Superseded, Unlinked, Idle
<1>c. intent[x][r] \in {"keep", "put", "delete"}
  BY DEF MvccInv, TypeInv
<1>1. CASE intent[x][r] = "keep"
  <2>1. \A i \in Slots : ver[i].slot = "live" /\ ver[i].row = r => ver[i].xmin # x /\ ver[i].xmax # x
    BY <1>a, <1>b, <1>1 DEF IntentAt
  <2>2. V = {j \in Slots : ver[j].row = r /\ Cur(j)}
    BY <2>1 DEF FreshSees, Cur
  <2>3. Committed[r] = {ver[i].xmin : i \in V}
    BY <1>a, <2>2, CommittedFact
  <2> HIDE DEF V
  <2>4. {ver[i].xmin : i \in V} = Overlay(x, Committed, r)
    BY <1>1, <2>3 DEF Overlay
  <2> QED BY <2>4 DEF V
<1>2. CASE intent[x][r] = "put"
  <2>1. PICK i \in Slots : Tip(i, r) /\ ver[i].xmin = x
    BY <1>a, <1>b, <1>2 DEF IntentAt
  <2>2. FreshSees(x, i) /\ ver[i].row = r
    BY <2>1 DEF FreshSees, Tip
  <2>3. \A j \in V : j = i
    BY <2>2, OneVersion DEF SameRow
  <2>4. V = {i}
    BY <2>2, <2>3
  <2> HIDE DEF V
  <2>5. {ver[j].xmin : j \in V} = {x}
    BY <2>1, <2>4
  <2> QED BY <1>2, <2>5 DEF Overlay, V
<1>3. CASE intent[x][r] = "delete"
  <2>1. PICK i \in Slots : Revives(x, i) /\ ver[i].row = r
    BY <1>a, <1>3 DEF IntentAt
  <2>2. \A j \in Slots : ~Tip(j, r)
    BY <1>a, <1>3 DEF IntentAt
  <2>3. ASSUME NEW j \in V PROVE FALSE
    <3>1. /\ j \in Slots /\ ver[j].slot = "live" /\ ver[j].row = r
          /\ ver[j].xmin \notin Active \ {x} /\ ver[j].xmax \in Active \ {x}
      BY <2>2 DEF FreshSees, Tip
    <3>2. MarksOf(ver[j].xmax)
      BY <3>1 DEF MvccInv, UndoOK
    <3>3. Stamps(ver[j].xmax, j, r) /\ Stamps(x, i, r)
      BY <2>1, <3>1, <3>2 DEF MarksOf, Stamps
    <3> QED BY <1>a, <3>1, <3>3 DEF RowOf
  <2>4. V = {}
    BY <2>3
  <2> HIDE DEF V
  <2>5. {ver[j].xmin : j \in V} = {}
    BY <2>4
  <2> QED BY <1>3, <2>5 DEF Overlay, V
<1> QED BY <1>c, <1>1, <1>2, <1>3

\* What the scan of a statement has found.
LEMMA StatementFact ==
  ASSUME MvccInv, Orderly(load), NEW x \in Xids, NEW path \in load.paths, Statement(x, path)
  PROVE  /\ op'[x].path = path /\ op'[x].stage = FirstStage(path) /\ op'[x].new = <<>>
         /\ \A y \in Xids \ {x} : op'[y] = op[y]
         /\ path # "insert" => \E i \in Slots : op'[x].old = <<i>> /\ IsVisible(ver[i], snap'[x], x)
         /\ path \in Paths
<1> DEFINE s == IF iso[x] = "ReadCommitted" THEN ComputeSnapshot(nextXid) ELSE snap[x]
<1>a. path \in Paths /\ op \in [Xids -> OpType] /\ snap'[x] = s
  BY LoadAssumption DEF MvccInv, TypeInv, OpType, Statement
<1> HIDE DEF s
<1>1. PICK ts \in Targets(x, s, path) :
        op' = [op EXCEPT ![x] = [path |-> path, stage |-> FirstStage(path),
                                 todo |-> PageOrder(ts), old |-> PageOrder(ts), new |-> <<>>]]
  BY DEF Statement, s
<1>2. /\ op'[x] = [path |-> path, stage |-> FirstStage(path),
                   todo |-> PageOrder(ts), old |-> PageOrder(ts), new |-> <<>>]
      /\ \A y \in Xids \ {x} : op'[y] = op[y]
  BY <1>a, <1>1
<1>3. ASSUME path # "insert"
      PROVE  \E i \in Slots : PageOrder(ts) = <<i>> /\ IsVisible(ver[i], s, x)
  <2>1. \E i \in Slots : ts = {i} /\ IsVisible(ver[i], s, x)
    BY <1>3, OneTarget
  <2> QED BY <2>1, PageOrderFact
<1> QED BY <1>a, <1>2, <1>3

LEMMA StatementSnap ==
  ASSUME MvccInv, MvccInv', SnapInv, Orderly(load), NEW x \in Xids, NEW path \in load.paths,
         Statement(x, path), UNCHANGED load
  PROVE  SnapInv' /\ Committed' = Committed
<1> DEFINE fresh == iso[x] = "ReadCommitted"
           s     == IF fresh THEN ComputeSnapshot(nextXid) ELSE snap[x]
<1>a. /\ nextXid \in Nat /\ nextXid >= 2 /\ TypeInv /\ HistoryOK
      /\ \A z \in Active : z \in Xids /\ z # 1
      /\ state[x] = "active" /\ op[x] = Idle /\ x \in Active /\ ActiveOf(x)
  BY TypeFacts DEF MvccInv, SnapInv, Statement, Active, OpenOK
<1>1. /\ snap' = [snap EXCEPT ![x] = s]
      /\ seen' = IF fresh THEN [seen EXCEPT ![x] = Committed] ELSE seen
      /\ UNCHANGED <<nextXid, state, iso, undo, ver, lock, reader, vacuum, intent>>
  BY DEF Statement
<1>2. /\ op'[x].path = path /\ op'[x].stage = FirstStage(path) /\ op'[x].new = <<>>
      /\ \A y \in Xids \ {x} : op'[y] = op[y]
      /\ path # "insert" => \E i \in Slots : op'[x].old = <<i>> /\ IsVisible(ver[i], snap'[x], x)
      /\ path \in Paths
  BY StatementFact
<1>3. /\ snap'[x] = s /\ \A y \in Xids \ {x} : snap'[y] = snap[y]
      /\ \A y \in Xids \ {x} : seen'[y] = seen[y]
      /\ seen'[x] = IF fresh THEN Committed ELSE seen[x]
      /\ seen' \in [Xids -> [Rows -> SUBSET Xids]]
  <2>1. Committed \in [Rows -> SUBSET Xids]
    BY <1>a, CommittedType
  <2>2. snap \in [Xids -> [xmin : Nat, xmax : Nat, active : SUBSET Xids]]
        /\ seen \in [Xids -> [Rows -> SUBSET Xids]]
    BY <1>a DEF TypeInv, HistoryOK
  <2> HIDE DEF s
  <2> QED BY <1>1, <2>1, <2>2
<1>4. Active' = Active
  BY <1>1 DEF Active
<1>5. \A i \in Slots : /\ ~Superseded(x, i) /\ ~Unlinked(x, i)
                       /\ ~Superseded(x, i)' /\ ~Unlinked(x, i)'
                       /\ Revives(x, i)' <=> Revives(x, i)
  BY <1>a, <1>1, <1>2 DEF Superseded, Unlinked, Idle, FirstStage, Revives, Paths
<1>6. IsCommittedAt(s, 1)
  <2>1. IsCommittedAt(ComputeSnapshot(nextXid), 1)
    BY <1>a, SnapshotFact, XidFacts
  <2> QED BY <1>a, <2>1 DEF HistoryOK
<1>7. \A i \in Slots : Sees(x, i)' <=> IF fresh THEN FreshSees(x, i) ELSE Sees(x, i)
  <2>1. \A i \in Slots : IsVisible(ver[i], ComputeSnapshot(nextXid), x) <=> FreshSees(x, i)
    BY <1>a, FreshFact
  <2> QED BY <1>1, <1>3, <2>1 DEF Sees
<1> HIDE DEF s, fresh
<1>8. HistoryOK'
  <2>1. \A y \in Active' : IsCommittedAt(snap'[y], 1)
    BY <1>a, <1>3, <1>4, <1>6 DEF HistoryOK
  <2> QED BY <1>a, <1>1, <1>3, <2>1 DEF HistoryOK, IsCommittedAt
<1>9. Committed' = Committed
  <2>1. \A i \in Slots : /\ Cur(i)' <=> Cur(i)
                         /\ Cur(i) => ver'[i].row = ver[i].row /\ ver'[i].xmin = ver[i].xmin
    BY <1>1, <1>4 DEF Cur
  <2> QED BY <1>a, <1>8, <2>1, CommittedKept
<1>10. ASSUME NEW y \in Active \ {x} PROVE LogKept(y)
  BY <1>a, <1>1, <1>2 DEF LogKept, Unlinked, Superseded
<1>11. ASSUME NEW r \in Rows PROVE RowOf(r)'
  <2>1. \A y \in Active, i \in Slots : /\ Revives(y, i)' => Revives(y, i)
                                       /\ Superseded(y, i)' => Superseded(y, i)
    BY <1>1, <1>5, <1>10 DEF Revives, LogKept
  <2>2. \A i \in Slots : Tip(i, r)' <=> Tip(i, r)
    BY <1>1 DEF Tip
  <2>3. \A i, j \in Slots : Pair(i, j) => Pair(i, j)'
    <3>1. \A y \in Active, j \in Slots : Unlinked(y, j) => y # x
      BY <1>5
    <3> QED BY <1>4, <1>10, <3>1 DEF Pair, LogKept
  <2>4. RowKept(r)
    BY <1>1, <1>4, <2>1, <2>2, <2>3 DEF RowKept, Stamps
  <2>5. RowOf(r)
    BY DEF SnapInv, RowsOK
  <2> QED BY <2>4, <2>5, RowStays
<1>12. ASSUME NEW y \in Active PROVE ChainOf(y)'
  <2>1. ChainOf(y)
    BY DEF SnapInv, ChainsOK
  <2>2. CASE y # x
    BY <1>a, <1>1, <1>10, <2>1, <2>2, ChainStays
  <2>3. CASE y = x
    BY <1>1, <1>5, <2>1, <2>3 DEF ChainOf, SameRow
  <2> QED BY <2>2, <2>3
<1>13. ASSUME NEW y \in Xids \ {x}, state[y] = "active" PROVE ActiveOf(y)'
  <2>1. y \in Active /\ ActiveOf(y) /\ LogKept(y)
    BY <1>10, <1>13 DEF Active, SnapInv, OpenOK
  <2>2. SightKept(y) /\ MarksKept(y)
    BY <1>1, <1>3 DEF SightKept, MarksKept, Sees, Tip
  <2>3. OpenKept(y)
    BY <1>1, <1>3, <1>9, <2>1, <2>2 DEF OpenKept
  <2> QED BY <2>1, <2>3, OpenStays
<1>14. ActiveOf(x)'
  <2>1. TargetSeen(x)'
    BY <1>1, <1>2, <1>5 DEF TargetSeen, Sees
  <2>2. ASSUME NEW r \in Rows PROVE IntentAt(x, r)' /\ ReadsAt(x, r)' /\ BaseAt(x, r)'
    <3>a. IntentAt(x, r) /\ ReadsAt(x, r) /\ BaseAt(x, r)
      BY <1>a DEF ActiveOf
    <3>1. ~Replacing(x, r) /\ ~Replacing(x, r)'
      BY <1>5 DEF Replacing
    <3>2. IntentAt(x, r)'
      BY <1>1, <1>5, <3>a DEF IntentAt, Tip
    <3>3. Read(x, r)' = Overlay(x, seen[x], r)'
      <4> DEFINE V == {j \in Slots : ver[j].row = r /\ Sees(x, j) /\ ~Unlinked(x, j)}
                 W == {j \in Slots : ver[j].row = r /\ FreshSees(x, j)}
      <4>1. Read(x, r)' = {ver'[i].xmin : i \in V'} /\ Read(x, r) = {ver[i].xmin : i \in V}
        BY DEF Read
      <4>2. CASE fresh
        <5>1. V' = W
          BY <1>1, <1>5, <1>7, <4>2
        <5>2. {ver[i].xmin : i \in W} = Overlay(x, Committed, r)
          BY <1>a, FreshReads
        <5>3. Overlay(x, seen[x], r)' = Overlay(x, Committed, r)
          BY <1>1, <1>3, <4>2 DEF Overlay
        <5> HIDE DEF V, W
        <5> QED BY <1>1, <4>1, <5>1, <5>2, <5>3
      <4>3. CASE ~fresh
        <5>1. V' = V
          BY <1>1, <1>5, <1>7, <4>3
        <5>2. Overlay(x, seen[x], r)' = Overlay(x, seen[x], r)
          BY <1>1, <1>3, <4>3 DEF Overlay
        <5> HIDE DEF V
        <5>3. Read(x, r)' = Read(x, r)
          BY <1>1, <4>1, <5>1
        <5> QED BY <3>a, <3>1, <5>2, <5>3 DEF ReadsAt
      <4> QED BY <4>2, <4>3
    <3>4. (\A i, j \in Slots : Sees(x, i) /\ Sees(x, j) /\ ver[i].row = r /\ ver[j].row = r
             => i = j \/ Unlinked(x, i) \/ Unlinked(x, j))'
      <4>1. CASE fresh
        BY <1>a, <1>1, <1>7, <4>1, OneVersion DEF SameRow
      <4>2. CASE ~fresh
        BY <1>1, <1>5, <1>7, <3>a, <4>2 DEF ReadsAt
      <4> QED BY <4>1, <4>2
    <3>5. ReadsAt(x, r)'
      BY <3>1, <3>3, <3>4 DEF ReadsAt
    <3>6. BaseAt(x, r)'
      BY <1>1, <1>3, <1>9, <3>a, <3>1 DEF BaseAt
    <3> QED BY <3>2, <3>5, <3>6
  <2> QED BY <2>1, <2>2 DEF ActiveOf
<1>15. ReaderOK'
  BY <1>1, ReaderSame DEF SnapInv, Active
<1>16. RowsOK' /\ ChainsOK' /\ OpenOK'
  BY <1>1, <1>4, <1>11, <1>12, <1>13, <1>14 DEF RowsOK, ChainsOK, OpenOK
<1> QED BY <1>8, <1>9, <1>15, <1>16 DEF SnapInv
----------------------------------------------------------------------------
(* The end of a transaction *)

\* No two open transactions have writes on one row.
LEMMA Exclusive ==
  ASSUME MvccInv, SnapInv, NEW r \in Rows, NEW x \in Xids, NEW y \in Xids,
         state[x] = "active", state[y] = "active",
         intent[x][r] # "keep" \/ Replacing(x, r), intent[y][r] # "keep" \/ Replacing(y, r)
  PROVE  x = y
<1> DEFINE Own(z, i) == Tip(i, r) /\ ver[i].xmin = z /\ ~Unlinked(z, i)
<1>a. x \in Active /\ y \in Active /\ RowOf(r)
  BY DEF Active, SnapInv, RowsOK
<1>1. ASSUME NEW z \in Xids, state[z] = "active", intent[z][r] # "keep" \/ Replacing(z, r)
      PROVE  \E i \in Slots : Stamps(z, i, r) \/ Own(z, i)
  <2>1. IntentAt(z, r) /\ intent[z][r] \in {"keep", "put", "delete"}
    BY <1>1 DEF SnapInv, OpenOK, ActiveOf, MvccInv, TypeInv
  <2> QED BY <1>1, <2>1 DEF IntentAt, Replacing, Stamps
<1>2. PICK i \in Slots : Stamps(x, i, r) \/ Own(x, i)
  BY <1>1
<1>3. PICK j \in Slots : Stamps(y, j, r) \/ Own(y, j)
  BY <1>1
<1>4. CASE Own(x, i) /\ Own(y, j) /\ i # j
  <2>1. Pair(i, j) \/ Pair(j, i)
    BY <1>a, <1>4 DEF RowOf
  <2>2. PICK z \in Active : Unlinked(z, j) \/ Unlinked(z, i)
    BY <2>1 DEF Pair
  <2>3. Unlinked(z, j) => ver[j].xmin = z
    BY MarksLive
  <2>4. Unlinked(z, i) => ver[i].xmin = z
    BY MarksLive
  <2> QED BY <1>4, <2>2, <2>3, <2>4
<1> QED BY <1>a, <1>2, <1>3, <1>4 DEF RowOf

\* x stops being open, between statements or before its statement has changed
\* anything.
Leaves(x) ==
  /\ \A i \in Slots : ~Superseded(x, i) /\ ~Unlinked(x, i)
  /\ UNCHANGED <<nextXid, ver, reader, vacuum>>
  /\ \A y \in Xids \ {x} : /\ state'[y] = state[y] /\ snap'[y] = snap[y] /\ undo'[y] = undo[y]
                           /\ op'[y] = op[y] /\ intent'[y] = intent[y] /\ seen'[y] = seen[y]
  /\ Active' \subseteq Active /\ state'[x] # "active"
  /\ x \in Active' => undo'[x] = undo[x] /\ op'[x] = Idle /\ snap'[x] = snap[x]
  /\ intent'[x] = NoWrites /\ seen'[x] = NoRows /\ seen' \in [Xids -> [Rows -> SUBSET Xids]]

LEMMA LeaveSnap ==
  ASSUME MvccInv, MvccInv', SnapInv, NEW x \in Active, Leaves(x),
         HistoryOK' => \A y \in Xids \ {x}, r \in Rows :
           state[y] = "active" /\ (intent[y][r] # "keep" \/ Replacing(y, r))
             => Committed'[r] = Committed[r]
  PROVE  SnapInv'
<1>a. /\ TypeInv /\ HistoryOK /\ \A y \in Active : y \in Xids
      /\ Active' \subseteq Active /\ Active \ {x} \subseteq Active'
  BY TypeFacts DEF MvccInv, SnapInv, Leaves, Active
<1>b. ver' = ver /\ nextXid' = nextXid
  BY DEF Leaves
<1>1. HistoryOK'
  <2>1. \A y \in Active' : snap'[y] = snap[y]
    BY <1>a DEF Leaves
  <2>2. \A y \in Active' : IsCommittedAt(snap'[y], 1)
    BY <1>a, <2>1 DEF HistoryOK
  <2>3. \A y \in Xids : state'[y] # "active" => intent'[y] = NoWrites /\ seen'[y] = NoRows
    BY <1>a DEF HistoryOK, Leaves
  <2> QED BY <1>a, <1>b, <2>2, <2>3 DEF HistoryOK, Leaves, IsCommittedAt, NoWrites, NoRows
<1>2. ASSUME NEW y \in Active \ {x} PROVE LogKept(y)
  BY <1>a DEF Leaves, LogKept, Unlinked, Superseded
<1>3. \A i \in Slots : /\ ~Superseded(x, i) /\ ~Unlinked(x, i)
                       /\ x \in Active' => ~Superseded(x, i)' /\ ~Unlinked(x, i)'
                       /\ x \in Active' => (Revives(x, i)' <=> Revives(x, i))
  BY DEF Leaves, Superseded, Unlinked, Idle, Revives
<1>4. ASSUME NEW r \in Rows PROVE RowOf(r)'
  <2>1. \A y \in Active', i \in Slots : /\ Revives(y, i)' => Revives(y, i)
                                        /\ Superseded(y, i)' => Superseded(y, i)
    BY <1>a, <1>2, <1>3 DEF Revives, LogKept
  <2>2. \A i \in Slots : Tip(i, r)' <=> Tip(i, r)
    BY <1>b DEF Tip
  <2>3. \A i, j \in Slots : Pair(i, j) => Pair(i, j)'
    BY <1>a, <1>2, <1>3 DEF Pair, LogKept
  <2>4. RowKept(r)
    BY <1>a, <1>b, <2>1, <2>2, <2>3 DEF RowKept, Stamps
  <2>5. RowOf(r)
    BY DEF SnapInv, RowsOK
  <2> QED BY <2>4, <2>5, RowStays
<1>5. ASSUME NEW y \in Active' PROVE ChainOf(y)'
  <2>1. y \in Active /\ ChainOf(y)
    BY <1>a DEF SnapInv, ChainsOK
  <2>2. CASE y # x
    BY <1>a, <1>b, <1>2, <2>1, <2>2, ChainStays
  <2>3. CASE y = x
    <3>1. undo'[x] = undo[x]
      BY <2>3 DEF Leaves
    <3> QED BY <1>b, <1>3, <2>1, <2>3, <3>1 DEF ChainOf, SameRow
  <2> QED BY <2>2, <2>3
<1>6. ASSUME NEW y \in Xids, state'[y] = "active" PROVE ActiveOf(y)'
  <2>1. y # x /\ state[y] = "active"
    BY <1>6 DEF Leaves
  <2>2. y \in Active \ {x} /\ ActiveOf(y) /\ LogKept(y) /\ snap'[y] = snap[y]
        /\ intent'[y] = intent[y] /\ seen'[y] = seen[y]
    BY <1>2, <2>1 DEF Active, SnapInv, OpenOK, Leaves
  <2>3. SightKept(y) /\ MarksKept(y)
    BY <1>b, <2>2 DEF SightKept, MarksKept, Sees, Tip
  <2>4. OpenKept(y)
    BY <1>1, <2>1, <2>2, <2>3 DEF OpenKept
  <2> QED BY <2>2, <2>4, OpenStays
<1>7. ReaderOK'
  BY <1>a, ReaderSame DEF SnapInv, Leaves
<1>8. RowsOK' /\ ChainsOK' /\ OpenOK'
  BY <1>4, <1>5, <1>6 DEF RowsOK, ChainsOK, OpenOK
<1> QED BY <1>1, <1>7, <1>8 DEF SnapInv

\* A failed lock or check, or the client's rollback: every mark stays, under an
\* xid that stays in `active`.
LEMMA StartAbortSnap ==
  ASSUME MvccInv, MvccInv', SnapInv, NEW x \in Xids, StartAbort(x), UNCHANGED load,
         state[x] = "active", op[x] = Idle \/ op[x].stage \in {"lock", "stamp", "check"}
  PROVE  SnapInv' /\ Committed' = Committed
<1>a. TypeInv /\ HistoryOK /\ x \in Active
  BY DEF MvccInv, SnapInv, Active
<1>1. /\ state' = [state EXCEPT ![x] = "aborting"] /\ op' = [op EXCEPT ![x] = Idle]
      /\ intent' = [intent EXCEPT ![x] = NoWrites] /\ seen' = [seen EXCEPT ![x] = NoRows]
      /\ UNCHANGED <<nextXid, snap, undo, ver, reader, vacuum>>
  BY DEF StartAbort
<1>2. state'[x] = "aborting" /\ Active' = Active
      /\ \A y \in Xids \ {x} : state'[y] = state[y]
  BY <1>a, <1>1 DEF TypeInv, Active
<1>3. /\ op'[x] = Idle /\ \A y \in Xids \ {x} : op'[y] = op[y]
      /\ intent'[x] = NoWrites /\ \A y \in Xids \ {x} : intent'[y] = intent[y]
      /\ seen'[x] = NoRows /\ \A y \in Xids \ {x} : seen'[y] = seen[y]
      /\ seen' \in [Xids -> [Rows -> SUBSET Xids]]
  BY <1>a, <1>1 DEF TypeInv, HistoryOK, NoRows
<1>4. \A i \in Slots : ~Superseded(x, i) /\ ~Unlinked(x, i)
  BY DEF Superseded, Unlinked, Idle
<1>5. Leaves(x)
  BY <1>1, <1>2, <1>3, <1>4 DEF Leaves
<1>6. HistoryOK' => Committed' = Committed
  <2>1. \A i \in Slots : /\ Cur(i)' <=> Cur(i)
                         /\ Cur(i) => ver'[i].row = ver[i].row /\ ver'[i].xmin = ver[i].xmin
    BY <1>1, <1>2 DEF Cur
  <2> QED BY <1>a, <2>1, CommittedKept
<1>7. SnapInv'
  BY <1>a, <1>5, <1>6, LeaveSnap
<1> QED BY <1>6, <1>7 DEF SnapInv

\* What active.remove leaves of x.
LEMMA ForgetLeaves ==
  ASSUME MvccInv, SnapInv, NEW x \in Active, op[x] = Idle, NEW outcome \in {"committed", "aborted"},
         Forget(x, outcome), UNCHANGED <<nextXid, op, ver, reader, vacuum>>,
         intent' = [intent EXCEPT ![x] = NoWrites], seen' = [seen EXCEPT ![x] = NoRows]
  PROVE  Leaves(x) /\ Active' = Active \ {x} /\ state'[x] = outcome
<1>a. TypeInv /\ HistoryOK /\ x \in Xids
  BY TypeFacts DEF MvccInv, SnapInv
<1>1. /\ state' = [state EXCEPT ![x] = outcome] /\ snap' = [snap EXCEPT ![x] = NoSnap]
      /\ undo' = [undo EXCEPT ![x] = <<>>]
  BY DEF Forget
<1>2. state'[x] = outcome /\ \A y \in Xids \ {x} : state'[y] = state[y]
  BY <1>a, <1>1 DEF TypeInv
<1>3. Active' = Active \ {x}
  BY <1>2 DEF Active
<1>4. /\ \A y \in Xids \ {x} : snap'[y] = snap[y] /\ undo'[y] = undo[y]
      /\ intent'[x] = NoWrites /\ \A y \in Xids \ {x} : intent'[y] = intent[y]
      /\ seen'[x] = NoRows /\ \A y \in Xids \ {x} : seen'[y] = seen[y]
      /\ seen' \in [Xids -> [Rows -> SUBSET Xids]]
  BY <1>a, <1>1 DEF TypeInv, HistoryOK, NoRows
<1>5. \A i \in Slots : ~Superseded(x, i) /\ ~Unlinked(x, i)
  BY DEF Superseded, Unlinked, Idle
<1> QED BY <1>2, <1>3, <1>4, <1>5 DEF Leaves

\* The rollback is over: x is left only on versions it both wrote and stamped.
LEMMA AbortDoneSnap ==
  ASSUME MvccInv, MvccInv', SnapInv, NEW x \in Xids, AbortDone(x), UNCHANGED load
  PROVE  SnapInv' /\ Committed' = Committed
<1>a. TypeInv /\ HistoryOK /\ x \in Active /\ op[x] = Idle /\ x # NoXid
  BY TypeFacts, AbortingFact DEF MvccInv, SnapInv, Active, AbortDone
<1>1. /\ Forget(x, "aborted") /\ UNCHANGED <<nextXid, op, ver, reader, vacuum>>
      /\ intent' = intent /\ seen' = seen /\ state[x] = "aborting"
  BY DEF AbortDone, histVars
<1>2. intent' = [intent EXCEPT ![x] = NoWrites] /\ seen' = [seen EXCEPT ![x] = NoRows]
  BY <1>a, <1>1 DEF HistoryOK, TypeInv
<1>3. Leaves(x) /\ Active' = Active \ {x} /\ state'[x] = "aborted"
  BY <1>a, <1>1, <1>2, ForgetLeaves
<1>4. \A i \in Slots : ver[i].slot = "live" => (ver[i].xmin = x <=> ver[i].xmax = x)
  BY <1>1, <1>3 DEF MvccInv, AbortLeavesNothing
<1>5. HistoryOK' => Committed' = Committed
  <2>1. \A i \in Slots : /\ Cur(i)' <=> Cur(i)
                         /\ Cur(i) => ver'[i].row = ver[i].row /\ ver'[i].xmin = ver[i].xmin
    BY <1>a, <1>1, <1>3, <1>4 DEF Cur
  <2> QED BY <1>a, <2>1, CommittedKept
<1>6. SnapInv'
  BY <1>a, <1>3, <1>5, LeaveSnap
<1> QED BY <1>5, <1>6 DEF SnapInv

\* Commit: the rows change by exactly the finished writes of x.
LEMMA CommitSnap ==
  ASSUME MvccInv, MvccInv', SnapInv, NEW x \in Xids, Commit(x), UNCHANGED load
  PROVE  SnapInv' /\ Committed' = [r \in Rows |-> Overlay(x, Committed, r)]
<1>a. TypeInv /\ HistoryOK /\ x \in Active /\ op[x] = Idle /\ state[x] = "active"
  BY DEF MvccInv, SnapInv, Active, Commit
<1>1. /\ Forget(x, "committed") /\ UNCHANGED <<nextXid, op, ver, reader, vacuum>>
      /\ intent' = [intent EXCEPT ![x] = NoWrites] /\ seen' = [seen EXCEPT ![x] = NoRows]
  BY DEF Commit
<1>2. Leaves(x) /\ Active' = Active \ {x}
  BY <1>a, <1>1, ForgetLeaves
<1>3. HistoryOK' => Committed' = [r \in Rows |-> Overlay(x, Committed, r)]
  <2> SUFFICES ASSUME HistoryOK' PROVE Committed' = [r \in Rows |-> Overlay(x, Committed, r)]
    OBVIOUS
  <2> DEFINE C(r) == {j \in Slots : ver[j].row = r /\ Cur(j)}
             F(r) == {j \in Slots : ver[j].row = r /\ FreshSees(x, j)}
  <2>1. Committed' = [r \in Rows |-> {ver'[i].xmin : i \in C(r)'}]
    BY CommittedFactNext
  <2>2. \A r \in Rows : C(r)' = F(r)
    BY <1>1, <1>2 DEF Cur, FreshSees
  <2>3. \A r \in Rows : {ver[i].xmin : i \in F(r)} = Overlay(x, Committed, r)
    BY <1>a, FreshReads
  <2> HIDE DEF C, F
  <2>4. \A r \in Rows : {ver'[i].xmin : i \in C(r)'} = Overlay(x, Committed, r)
    BY <1>1, <2>2, <2>3
  <2> QED BY <2>1, <2>4
<1>4. ASSUME HistoryOK', NEW y \in Xids \ {x}, NEW r \in Rows, state[y] = "active",
             intent[y][r] # "keep" \/ Replacing(y, r)
      PROVE  Committed'[r] = Committed[r]
  <2>1. intent[x][r] = "keep"
    BY <1>a, <1>4, Exclusive
  <2> QED BY <1>3, <1>4, <2>1 DEF Overlay
<1>5. SnapInv'
  BY <1>a, <1>2, <1>4, LeaveSnap
<1> QED BY <1>3, <1>5 DEF SnapInv
----------------------------------------------------------------------------
(* The write paths *)

\* x is alone on row r: T is the version its statement is about, and but for a
\* new one not yet linked nothing else of the row is unstamped or seen by x;
\* nobody else has marks or writes there, and nobody has committed to it since
\* the snapshot of x.
Holds(x, r, T) ==
  /\ \A y \in Active \ {x}, j \in Slots : ~Stamps(y, j, r)
  /\ \A j \in Slots : Tip(j, r) \/ (Sees(x, j) /\ ver[j].row = r) => j \in T \/ Unlinked(x, j)
  /\ \A j \in T : ver[j].slot = "live" /\ ver[j].row = r /\ (Tip(j, r) \/ Superseded(x, j))
  /\ \A j \in Slots : Superseded(x, j) => j \in T
  /\ \A j \in Slots : Unlinked(x, j) => Tip(j, r) /\ ver[j].xmin = x /\ ~Kills(x, j)
  /\ Committed[r] = seen[x][r]
  /\ \A y \in Xids \ {x} : intent[y][r] = "keep"

\* Of a row without marks or unstamped versions of others, the others have no writes.
LEMMA OthersKeep ==
  ASSUME MvccInv, SnapInv, NEW x \in Xids, NEW r \in Rows,
         \A y \in Active \ {x}, j \in Slots : ~Stamps(y, j, r),
         \A y \in Active \ {x}, j \in Slots : ~(Tip(j, r) /\ ver[j].xmin = y)
  PROVE  \A y \in Xids \ {x} : intent[y][r] = "keep"
<1> SUFFICES ASSUME NEW y \in Xids \ {x} PROVE intent[y][r] = "keep"
  OBVIOUS
<1>1. CASE state[y] # "active"
  BY <1>1 DEF SnapInv, HistoryOK, NoWrites
<1>2. CASE state[y] = "active"
  <2>1. y \in Active \ {x} /\ IntentAt(y, r) /\ intent[y][r] \in {"keep", "put", "delete"}
    BY <1>2 DEF Active, SnapInv, OpenOK, ActiveOf, MvccInv, TypeInv
  <2> QED BY <2>1 DEF IntentAt, Stamps
<1> QED BY <1>1, <1>2

\* What x sees of a row is one version that is current, or none is either.
LEMMA SeenIsCommitted ==
  ASSUME MvccInv, SnapInv, NEW x \in Xids, state[x] = "active", NEW r \in Rows,
         intent[x][r] = "keep", ~Replacing(x, r),
         \A j \in Slots : ver[j].row = r => (Cur(j) <=> Sees(x, j) /\ ~Unlinked(x, j))
  PROVE  Committed[r] = seen[x][r]
<1> DEFINE C == {j \in Slots : ver[j].row = r /\ Cur(j)}
           V == {j \in Slots : ver[j].row = r /\ Sees(x, j) /\ ~Unlinked(x, j)}
<1>1. HistoryOK /\ ReadsAt(x, r)
  BY DEF SnapInv, OpenOK, ActiveOf
<1>2. Committed[r] = {ver[i].xmin : i \in C}
  BY <1>1, CommittedFact
<1>3. Read(x, r) = {ver[i].xmin : i \in V}
  BY DEF Read
<1>4. C = V
  OBVIOUS
<1> HIDE DEF C, V
<1>5. Read(x, r) = seen[x][r]
  BY <1>1 DEF ReadsAt, Overlay
<1> QED BY <1>2, <1>3, <1>4, <1>5

\* A statement that has its lock, and finds its target unstamped.
LEMMA HoldsTarget ==
  ASSUME MvccInv, SnapInv, Orderly(load), NEW x \in Xids, NEW i \in Slots,
         op[x].path \notin {"idle", "insert"}, op[x].stage # "lock", op[x].old = <<i>>, Unstamped(i)
  PROVE  /\ Holds(x, ver[i].row, {i}) /\ ver[i].row \in Rows /\ state[x] = "active"
         /\ Sees(x, i) /\ ~Superseded(x, i) /\ ~Unlinked(x, i)
<1> DEFINE r == ver[i].row
<1>a. /\ state[x] = "active" /\ x \in Active /\ op[x].path \in load.paths /\ TargetOK(x, i)
      /\ op[x].path \in Paths
  <2>1. /\ state[x] = "active" /\ x \in Active /\ op[x].path \in load.paths
        /\ \E j \in Slots : op[x].old = <<j>> /\ TargetOK(x, j)
    BY TargetFact
  <2>2. op[x].path \in Paths \cup {"idle"}
    BY DEF MvccInv, TypeInv
  <2> QED BY <2>1, <2>2
<1>b. /\ r \in Rows /\ Tip(i, r) /\ x # NoXid /\ HistoryOK
      /\ \A z \in Active : z \in Xids
  BY <1>a, TypeFacts DEF MvccInv, SnapInv, Tip, Unstamped
<1>c. RowOf(r) /\ ActiveOf(x)
  BY <1>a, <1>b DEF SnapInv, RowsOK, OpenOK
<1>d. ver[i].xmin \notin Active \ {x} /\ ~Superseded(x, i) /\ ~Unlinked(x, i)
  BY <1>a, <1>b DEF TargetOK, Tip, Unlinked
<1>e. Sees(x, i) /\ \A n \in Slots : Unlinked(x, n) => Tip(n, r) /\ ver[n].xmin = x /\ ~Kills(x, n)
  BY <1>c, <1>d DEF ActiveOf, TargetSeen
<1>f. IntentAt(x, r) /\ ReadsAt(x, r) /\ BaseAt(x, r)
  BY <1>b, <1>c DEF ActiveOf
<1> HIDE DEF r
<1>1. \A y \in Active \ {x}, j \in Slots : ~Stamps(y, j, r)
  BY <1>b, <1>c, <1>d DEF RowOf
<1>2. ASSUME NEW j \in Slots, Tip(j, r) PROVE j = i \/ Unlinked(x, j)
  <2>1. j = i \/ Pair(i, j) \/ Pair(j, i)
    BY <1>b, <1>c, <1>2 DEF RowOf
  <2>2. CASE Pair(i, j)
    <3>1. PICK y \in Active : Unlinked(y, j) /\ op[y].old = <<i>>
      BY <2>2 DEF Pair
    <3>2. op[y].path = "hotXpage" /\ op[y].stage = "link"
      BY <3>1, MarksLive DEF Unlinked
    <3>3. y = x
      BY <1>a, <1>b, <3>1, <3>2, NoCrossing
    <3> QED BY <3>1, <3>3
  <2>3. CASE Pair(j, i)
    <3>1. PICK y \in Active : Unlinked(y, i)
      BY <2>3 DEF Pair
    <3>2. ver[i].xmin = y
      BY <3>1, MarksLive
    <3> QED BY <1>d, <3>1, <3>2
  <2> QED BY <2>1, <2>2, <2>3
<1>3. ASSUME NEW j \in Slots, Sees(x, j), ver[j].row = r PROVE j = i \/ Unlinked(x, j)
  BY <1>d, <1>e, <1>f, <1>3 DEF ReadsAt, r
<1>4. \A j \in Slots : ~Superseded(x, j)
  BY <1>d DEF Superseded
<1>5. \A y \in Xids \ {x} : intent[y][r] = "keep"
  <2>1. \A y \in Active \ {x}, j \in Slots : ~(Tip(j, r) /\ ver[j].xmin = y)
    BY <1>d, <1>e, <1>2
  <2> QED BY <1>b, <1>1, <2>1, OthersKeep
<1>6. Committed[r] = seen[x][r]
  <2>1. ~Replacing(x, r)
    BY <1>4 DEF Replacing
  <2>2. CASE intent[x][r] # "keep"
    BY <1>f, <2>2 DEF BaseAt
  <2>3. CASE intent[x][r] = "keep"
    <3>1. ver[i].xmin # x /\ Cur(i)
      BY <1>b, <1>d, <1>f, <2>3 DEF IntentAt, Tip, Cur
    <3>2. \A j \in Slots : ver[j].row = r /\ Cur(j) => j = i
      BY <3>1, OneCurrent DEF SameRow, r
    <3>3. \A j \in Slots : ver[j].row = r => (Cur(j) <=> Sees(x, j) /\ ~Unlinked(x, j))
      BY <1>d, <1>e, <1>3, <3>1, <3>2
    <3> QED BY <1>a, <1>b, <2>1, <2>3, <3>3, SeenIsCommitted
  <2> QED BY <2>2, <2>3
<1>7. Holds(x, r, {i})
  BY <1>b, <1>e, <1>1, <1>2, <1>3, <1>4, <1>5, <1>6 DEF Holds, Tip
<1> QED BY <1>a, <1>b, <1>d, <1>e, <1>7 DEF r

\* An update that has stamped its target.
LEMMA HoldsSuperseded ==
  ASSUME MvccInv, SnapInv, NEW x \in Xids, NEW i \in Slots, Superseded(x, i)
  PROVE  Holds(x, ver[i].row, {i}) /\ ver[i].row \in Rows /\ state[x] = "active"
<1> DEFINE r == ver[i].row
<1>a. state[x] = "active" /\ x \in Active /\ ver[i].slot = "live"
  <2>1. op[x].path # "idle" /\ op[x].path # "insert"
    BY DEF Superseded
  <2>2. state[x] = "active" /\ x \in Active
    BY <2>1, TargetFact
  <2> QED BY <2>2, MarksLive DEF Marks
<1>b. r \in Rows /\ HistoryOK /\ Stamps(x, i, r) /\ Replacing(x, r)
  BY TypeFacts DEF MvccInv, SnapInv, Stamps, Replacing
<1>c. RowOf(r) /\ ReadsAt(x, r) /\ BaseAt(x, r)
  BY <1>a, <1>b DEF SnapInv, RowsOK, OpenOK, ActiveOf
<1>d. \A j \in Slots : ~Unlinked(x, j) /\ (Superseded(x, j) => j = i)
  BY DEF Superseded, Unlinked
<1>e. Superseded(x, i) /\ ver[i].row = r
  OBVIOUS
<1> HIDE DEF r
<1>1. \A y \in Active \ {x}, j \in Slots : ~Stamps(y, j, r)
  BY <1>a, <1>b, <1>c DEF RowOf
<1>2. \A j \in Slots : ~Tip(j, r)
  BY <1>a, <1>c, <1>e DEF RowOf
<1>3. \A y \in Xids \ {x} : intent[y][r] = "keep"
  BY <1>b, <1>1, <1>2, OthersKeep
<1>4. \A j \in Slots : ver[j].row = r => ~Sees(x, j)
  BY <1>b, <1>c DEF ReadsAt
<1>5. Committed[r] = seen[x][r]
  BY <1>b, <1>c DEF BaseAt
<1>6. Holds(x, r, {i})
  BY <1>a, <1>d, <1>e, <1>1, <1>2, <1>3, <1>4, <1>5 DEF Holds
<1> QED BY <1>a, <1>b, <1>6 DEF r

\* An insert of a row that has no version.
LEMMA HoldsInsert ==
  ASSUME MvccInv, SnapInv, NEW x \in Xids, NEW r \in Rows, op[x].path = "insert", state[x] = "active",
         op[x].stage = "insert", \A i \in Slots : ver[i].slot = "live" => ver[i].row # r
  PROVE  Holds(x, r, {})
<1>a. x \in Active /\ HistoryOK /\ ActiveOf(x) /\ intent[x][r] \in {"keep", "put", "delete"}
  BY DEF Active, SnapInv, OpenOK, MvccInv, TypeInv
<1>b. \A j \in Slots : ~Unlinked(x, j) /\ ~Superseded(x, j)
  BY DEF Superseded, Unlinked
<1>c. \A j \in Slots : ~Tip(j, r) /\ (ver[j].row = r => ~Sees(x, j) /\ ~Cur(j))
  BY DEF Tip, Sees, IsVisible, Cur
<1>1. \A y \in Active, j \in Slots : ~Stamps(y, j, r)
  BY MarksLive DEF Stamps, Marks
<1>2. \A y \in Xids \ {x} : intent[y][r] = "keep"
  BY <1>c, <1>1, OthersKeep
<1>3. intent[x][r] = "keep" /\ ~Replacing(x, r)
  BY <1>a, <1>b, <1>c, <1>1 DEF ActiveOf, IntentAt, Stamps, Replacing
<1>4. Committed[r] = seen[x][r]
  BY <1>c, <1>3, SeenIsCommitted
<1> QED BY <1>b, <1>c, <1>1, <1>2, <1>4 DEF Holds

LEMMA WritesMove ==
  ASSUME MvccInv, NEW x \in Xids, NEW S \in SUBSET Slots, NEW N \in SUBSET Slots, Writes(x, S, N)
  PROVE  Moves(x) /\ x \in Active /\ state[x] = "active"
<1>1. \A i \in Slots : Unmoved(i) \/ Restamped(x, i) \/ Filled(x, i)
  BY DEF Writes, MayWrite, Wrote, Unstamped, Unmoved, Restamped, Filled
<1>2. UNCHANGED <<load, nextXid, state, snap, reader, vacuum>>
  BY DEF Writes, txnVars
<1> QED BY <1>1, <1>2 DEF Moves, Writes, MayWrite, Active

\* A step of x concerns row r only.
OnRow(x, r) ==
  /\ \A i \in Slots : \/ ver'[i] = ver[i]
                      \/ /\ ver'[i].slot = "live" /\ ver'[i].row = r
                         /\ ver[i].slot = "live" => ver[i].row = r
  /\ \A i \in Slots : Unlinked(x, i) \/ Superseded(x, i) => ver[i].slot = "live" /\ ver[i].row = r
  /\ \A i \in Slots : Unlinked(x, i)' \/ Superseded(x, i)' => ver'[i].row = r
  /\ \A i \in Slots : Revives(x, i)' => Revives(x, i) \/ ver'[i].row = r
  /\ \A i \in Slots : Revives(x, i) => Revives(x, i)'
  /\ \A q \in Rows \ {r} : intent'[x][q] = intent[x][q]

LEMMA OtherRows ==
  ASSUME MvccInv, SnapInv, NEW x \in Xids, state[x] = "active", NEW r \in Rows, OnRow(x, r), Moves(x),
         seen' = seen, \A y \in Xids \ {x} : undo'[y] = undo[y] /\ op'[y] = op[y],
         NEW q \in Rows \ {r}
  PROVE  /\ RowOf(q)'
         /\ Committed' = Committed => IntentAt(x, q)' /\ ReadsAt(x, q)' /\ BaseAt(x, q)'
<1>a. /\ x \in Active /\ Active' = Active /\ \A y \in Active : y \in Xids
      /\ RowOf(q) /\ IntentAt(x, q) /\ ReadsAt(x, q) /\ BaseAt(x, q) /\ snap' = snap
  BY TypeFacts DEF MvccInv, SnapInv, RowsOK, OpenOK, ActiveOf, Moves, Active
<1>b. \A i \in Slots : /\ ver'[i].row = q => ver'[i] = ver[i]
                       /\ ver[i].slot = "live" /\ ver[i].row = q => ver'[i] = ver[i]
  BY DEF OnRow
<1>c. \A i \in Slots : /\ ver[i].row = q => ~Unlinked(x, i) /\ ~Superseded(x, i)
                       /\ ver'[i].row = q => ~Unlinked(x, i)' /\ ~Superseded(x, i)'
  BY DEF OnRow
<1>d. \A y \in Active, i \in Slots : Revives(y, i) \/ Superseded(y, i) => ver[i].slot = "live"
  BY MarksLive DEF Marks
<1>e. \A y \in Active \ {x}, i \in Slots : /\ Revives(y, i)' <=> Revives(y, i)
                                           /\ Superseded(y, i)' <=> Superseded(y, i)
                                           /\ Unlinked(y, i)' <=> Unlinked(y, i)
                                           /\ op'[y].old = op[y].old
  BY <1>a DEF Revives, Superseded, Unlinked
<1>f. \A i \in Slots : /\ Revives(x, i)' /\ ver'[i].row = q => Revives(x, i) /\ ver[i].row = q
                       /\ Revives(x, i) /\ ver[i].row = q => Revives(x, i)' /\ ver'[i].row = q
  BY <1>a, <1>b, <1>d DEF OnRow
<1>g. \A i \in Slots : Tip(i, q)' <=> Tip(i, q)
  BY <1>b DEF Tip
<1>1. RowKept(q)
  <2>1. \A i \in Slots : Tip(i, q)' => Tip(i, q) /\ ver'[i].xmin = ver[i].xmin
    BY <1>b DEF Tip
  <2>2. ASSUME NEW y \in Active, NEW i \in Slots
        PROVE  /\ Stamps(y, i, q)' => Stamps(y, i, q)
               /\ Superseded(y, i)' /\ ver'[i].row = q => Superseded(y, i) /\ ver[i].row = q
    <3>1. CASE y = x
      BY <1>c, <1>f, <3>1 DEF Stamps
    <3>2. CASE y # x
      BY <1>b, <1>d, <1>e, <3>2 DEF Stamps
    <3> QED BY <3>1, <3>2
  <2>3. \A i, j \in Slots : Tip(i, q)' /\ Tip(j, q)' /\ Pair(i, j) => Pair(i, j)'
    <3> SUFFICES ASSUME NEW i \in Slots, NEW j \in Slots, Tip(j, q)', Pair(i, j)
                 PROVE  Pair(i, j)'
      OBVIOUS
    <3>1. PICK y \in Active : Unlinked(y, j) /\ op[y].old = <<i>>
      BY DEF Pair
    <3>2. y # x
      BY <1>c, <1>g, <3>1 DEF Tip
    <3> QED BY <1>a, <1>e, <3>1, <3>2 DEF Pair
  <2> QED BY <1>a, <2>1, <2>2, <2>3 DEF RowKept
<1>2. RowOf(q)'
  BY <1>a, <1>1, RowStays
<1>3. intent'[x][q] = intent[x][q]
  BY DEF OnRow
<1>4. IntentAt(x, q)'
  <2>1. intent[x][q] = "keep" => \A i \in Slots :
          ver'[i].slot = "live" /\ ver'[i].row = q /\ (ver'[i].xmin = x \/ ver'[i].xmax = x) => FALSE
    BY <1>a, <1>b, <1>c DEF IntentAt
  <2>2. intent[x][q] = "put" => \E i \in Slots : (Tip(i, q) /\ ver[i].xmin = x /\ ~Unlinked(x, i))'
    BY <1>a, <1>b, <1>c DEF IntentAt, Tip
  <2>3. intent[x][q] = "delete" => /\ \E i \in Slots : (Revives(x, i) /\ ver[i].row = q)'
                                   /\ \A i \in Slots : ~Tip(i, q)'
    BY <1>a, <1>f, <1>g DEF IntentAt
  <2> QED BY <1>3, <2>1, <2>2, <2>3 DEF IntentAt
<1>5. ~Replacing(x, q) /\ ~Replacing(x, q)'
  BY <1>c DEF Replacing
<1>6. \A i \in Slots : ver'[i].row = q /\ Sees(x, i)' <=> ver[i].row = q /\ Sees(x, i)
  BY <1>a, <1>b DEF Sees, IsVisible
<1>7. ReadsAt(x, q)'
  <2> DEFINE V == {j \in Slots : ver[j].row = q /\ Sees(x, j) /\ ~Unlinked(x, j)}
  <2>1. V' = V
    BY <1>c, <1>6
  <2>2. \A i \in V' : ver'[i].xmin = ver[i].xmin
    BY <1>b
  <2>3. Read(x, q) = {ver[i].xmin : i \in V} /\ Read(x, q)' = {ver'[i].xmin : i \in V'}
    BY DEF Read
  <2> HIDE DEF V
  <2>4. Read(x, q)' = Read(x, q)
    BY <2>1, <2>2, <2>3
  <2>5. Overlay(x, seen[x], q)' = Overlay(x, seen[x], q)
    BY <1>3 DEF Overlay
  <2>6. (\A i, j \in Slots : Sees(x, i) /\ Sees(x, j) /\ ver[i].row = q /\ ver[j].row = q
           => i = j \/ Unlinked(x, i) \/ Unlinked(x, j))'
    BY <1>a, <1>c, <1>6 DEF ReadsAt
  <2> QED BY <1>a, <1>5, <2>4, <2>5, <2>6 DEF ReadsAt
<1>8. Committed' = Committed => BaseAt(x, q)'
  BY <1>a, <1>3, <1>5 DEF BaseAt
<1> QED BY <1>2, <1>4, <1>7, <1>8

\* Of a row that x holds, nobody else has a mark after the step either, and no
\* version becomes an unstamped one of a row somebody else has deleted.
LEMMA HoldsOthers ==
  ASSUME MvccInv, SnapInv, NEW x \in Active, NEW r \in Rows, NEW T, Holds(x, r, T), Moves(x), OnRow(x, r),
         \A y \in Xids \ {x} : undo'[y] = undo[y] /\ op'[y] = op[y]
  PROVE  /\ \A y \in Active \ {x}, j \in Slots : ~Stamps(y, j, r)'
         /\ \A y \in Active \ {x}, i \in Slots, q \in Rows :
              Tip(i, q)' /\ intent[y][q] = "delete" /\ IntentAt(y, q) => Tip(i, q)
<1>1. ASSUME NEW y \in Active \ {x}, NEW j \in Slots, Stamps(y, j, r)' PROVE FALSE
  <2>1. y \in Xids /\ undo'[y] = undo[y] /\ op'[y] = op[y]
    BY TypeFacts DEF MvccInv
  <2>2. Revives(y, j) \/ Superseded(y, j)
    BY <1>1, <2>1 DEF Stamps, Revives, Superseded
  <2>3. ver[j].slot = "live"
    BY <2>2, MarksLive DEF Marks
  <2>4. ver'[j].row = ver[j].row
    BY <2>3 DEF Moves, Unmoved, Restamped, Filled
  <2> QED BY <1>1, <2>2, <2>4 DEF Stamps, Holds
<1>2. ASSUME NEW y \in Active \ {x}, NEW i \in Slots, NEW q \in Rows, Tip(i, q)',
             intent[y][q] = "delete"
      PROVE  Tip(i, q)
  <2>1. y \in Xids \ {x}
    BY TypeFacts DEF MvccInv
  <2>2. q # r
    BY <1>2, <2>1 DEF Holds
  <2> QED BY <1>2, <2>2 DEF OnRow, Tip
<1> QED BY <1>1, <1>2

\* The undo steps of a statement that is done revive R, before anything is killed.
Logs(x, R, steps) ==
  /\ undo'[x] = undo[x] \o steps /\ op'[x] = Idle
  /\ \A k \in DOMAIN steps : steps[k].revive \subseteq R
  /\ \A k, l \in DOMAIN steps : k < l => steps[l].revive = {}
  /\ \A i, j \in R : i = j

\* The undo log of a statement that is done: the versions its steps revive come
\* after everything x did to the row before.
LEMMA EndChain ==
  ASSUME MvccInv, SnapInv, NEW x \in Xids, NEW r \in Rows, NEW R \in SUBSET Slots,
         NEW steps \in Seq(Step1), state[x] = "active", Holds(x, r, R), Moves(x),
         Logs(x, R, steps)
  PROVE  ChainOf(x)'
<1>l. /\ undo'[x] = undo[x] \o steps /\ op'[x] = Idle
      /\ \A k \in DOMAIN steps : steps[k].revive \subseteq R
      /\ \A k, l \in DOMAIN steps : k < l => steps[l].revive = {}
      /\ \A i, j \in R : i = j
  BY DEF Logs
<1> USE <1>l
<1> DEFINE u == undo[x]
<1>a. /\ x \in Active /\ RowOf(r) /\ ChainOf(x) /\ MarksOf(x) /\ u \in Seq(Step1) /\ x # NoXid
      /\ \A k \in DOMAIN u : u[k].kill \subseteq Slots /\ u[k].revive \subseteq Slots
  BY TypeFacts DEF Active, SnapInv, RowsOK, ChainsOK, MvccInv, UndoOK, TypeInv
<1>b. /\ \A k \in DOMAIN (u \o steps) :
           \/ k \in DOMAIN u /\ (u \o steps)[k] = u[k]
           \/ \E l \in DOMAIN steps : k = Len(u) + l /\ (u \o steps)[k] = steps[l]
      /\ \A k \in DOMAIN u : k \in DOMAIN (u \o steps) /\ (u \o steps)[k] = u[k] /\ k <= Len(u)
      /\ \A l \in DOMAIN steps : l \in Nat \ {0}
      /\ Len(u) \in Nat /\ DOMAIN u \subseteq Nat
  <2>1. u \in Seq(Step1) /\ steps \in Seq(Step1)
    BY <1>a
  <2> HIDE DEF u, Step1
  <2> QED BY ONLY <2>1, ConcatFact
<1>c. \A i \in Slots : Marks(x, i) => /\ ver[i].slot = "live"
                                      /\ ver'[i].row = ver[i].row /\ ver'[i].xmin = ver[i].xmin
  BY <1>a, MarksLive DEF Moves, Unmoved, Restamped, Filled
<1>d. /\ \A k \in DOMAIN u : \A i \in u[k].kill : i \in Slots /\ Kills(x, i) /\ Marks(x, i)
      /\ \A k \in DOMAIN u : \A i \in u[k].revive : i \in Slots /\ Revives(x, i) /\ Marks(x, i)
  BY <1>a DEF Kills, Revives, Marks
<1>e. \A i \in R : /\ ver[i].row = r /\ ver'[i].row = r /\ ver'[i].xmin = ver[i].xmin
                   /\ Tip(i, r) \/ Superseded(x, i)
  BY DEF Holds, Moves, Unmoved, Restamped, Filled
<1> DEFINE v == undo'[x]
<1>f. /\ \A k \in DOMAIN v : \/ k \in DOMAIN u /\ v[k] = u[k] /\ k <= Len(u)
                             \/ \E l \in DOMAIN steps : k = Len(u) + l /\ v[k] = steps[l]
      /\ \A k \in DOMAIN u : k \in DOMAIN v /\ v[k] = u[k]
  BY <1>b
<1> HIDE DEF u, v
\* What x has killed or revived before of row r.
<1>1. ASSUME NEW n \in Slots, Kills(x, n), ver[n].row = r, n \notin R
      PROVE  Revives(x, n)
  <2>1. ver[n].slot = "live" /\ ver[n].xmin = x
    BY <1>a, <1>1, MarksLive DEF Marks
  <2>2. ~Tip(n, r)
    BY <1>1 DEF Holds
  <2>3. ver[n].xmax = x /\ ~Superseded(x, n)
    BY <1>a, <1>1, <2>1, <2>2 DEF MarksOf, Tip, Holds
  <2> QED BY <1>a, <2>1, <2>3 DEF MarksOf
<1>2. ASSUME NEW j \in Slots, Revives(x, j), ver[j].row = r, NEW i \in R
      PROVE  ver[i].xmin = x
  <2>1. Stamps(x, j, r)
    BY <1>2 DEF Stamps
  <2>2. CASE Tip(i, r)
    BY <1>a, <2>1, <2>2 DEF RowOf
  <2>3. CASE Superseded(x, i)
    BY <1>a, <1>e, <1>2, <2>3 DEF ChainOf, SameRow
  <2> QED BY <1>e, <2>2, <2>3
<1>3. (\A k, l \in DOMAIN undo[x] : \A n \in undo[x][k].kill, i \in undo[x][l].revive :
        k < l /\ n # i /\ SameRow(n, i)
          => \E m \in DOMAIN undo[x] : m < l /\ n \in undo[x][m].revive)'
  <2> SUFFICES ASSUME NEW k \in DOMAIN v, NEW l \in DOMAIN v, NEW n \in v[k].kill,
                      NEW i \in v[l].revive, k < l, n # i, SameRow(n, i)'
               PROVE  \E m \in DOMAIN v : m < l /\ n \in v[m].revive
    BY DEF v
  <2>1. CASE l \in DOMAIN u /\ v[l] = u[l] /\ l <= Len(u)
    <3>1. k \in DOMAIN u /\ v[k] = u[k]
      BY <1>b, <1>f, <2>1
    <3>2. SameRow(n, i)
      BY <1>c, <1>d, <2>1, <3>1 DEF SameRow
    <3>3. PICK m \in DOMAIN u : m < l /\ n \in u[m].revive
      BY <1>a, <2>1, <3>1, <3>2 DEF ChainOf, u
    <3> QED BY <1>f, <3>3
  <2>2. ASSUME NEW p \in DOMAIN steps, l = Len(u) + p, v[l] = steps[p]
        PROVE  \E m \in DOMAIN v : m < l /\ n \in v[m].revive
    <3>1. i \in R
      BY <2>2
    <3>2. CASE k \in DOMAIN u /\ v[k] = u[k]
      <4>1. n \in Slots /\ Kills(x, n) /\ Marks(x, n) /\ ver[n].row = r
        BY <1>c, <1>d, <1>e, <3>1, <3>2 DEF SameRow
      <4>2. Revives(x, n)
        BY <1>1, <3>1, <4>1
      <4>3. PICK m \in DOMAIN u : n \in u[m].revive
        BY <4>2 DEF Revives, u
      <4> QED BY <1>b, <1>f, <2>2, <4>3
    <3>3. ASSUME NEW o \in DOMAIN steps, k = Len(u) + o PROVE FALSE
      <4>1. o < p
        BY <1>b, <2>2, <3>3
      <4> QED BY <2>2, <4>1
    <3> QED BY <1>f, <3>2, <3>3
  <2> QED BY <1>f, <2>1, <2>2
<1>4. (\A k, l \in DOMAIN undo[x] : \A j \in undo[x][k].revive, i \in undo[x][l].revive :
        k <= l /\ j # i /\ SameRow(j, i) => k < l /\ ver[i].xmin = x)'
  <2> SUFFICES ASSUME NEW k \in DOMAIN v, NEW l \in DOMAIN v, NEW j \in v[k].revive,
                      NEW i \in v[l].revive, k <= l, j # i, SameRow(j, i)'
               PROVE  k < l /\ ver'[i].xmin = x
    BY DEF v
  <2>1. CASE l \in DOMAIN u /\ v[l] = u[l] /\ l <= Len(u)
    <3>1. k \in DOMAIN u /\ v[k] = u[k]
      BY <1>b, <1>f, <2>1
    <3>2. SameRow(j, i) /\ ver'[i].xmin = ver[i].xmin
      BY <1>c, <1>d, <2>1, <3>1 DEF SameRow
    <3> QED BY <1>a, <2>1, <3>1, <3>2 DEF ChainOf, u
  <2>2. ASSUME NEW p \in DOMAIN steps, l = Len(u) + p, v[l] = steps[p]
        PROVE  k < l /\ ver'[i].xmin = x
    <3>1. i \in R
      BY <2>2
    <3>2. CASE k \in DOMAIN u /\ v[k] = u[k] /\ k <= Len(u)
      <4>1. j \in Slots /\ Revives(x, j) /\ ver[j].row = r
        BY <1>c, <1>d, <1>e, <3>1, <3>2 DEF SameRow
      <4>2. ver'[i].xmin = x
        BY <1>2, <1>e, <3>1, <4>1
      <4> QED BY <1>b, <2>2, <3>2, <4>2
    <3>3. ASSUME NEW o \in DOMAIN steps, v[k] = steps[o] PROVE FALSE
      BY <3>1, <3>3
    <3> QED BY <1>f, <3>2, <3>3
  <2> QED BY <1>f, <2>1, <2>2
<1>5. \A i \in Slots : ~Superseded(x, i)'
  BY DEF Superseded, Idle
<1> QED BY <1>3, <1>4, <1>5 DEF ChainOf

\* R is at most the target, and K at most the new version.
Fits(x, S, N, R, K, write) ==
  /\ S \subseteq R /\ \A i, j \in R : i = j
  /\ K = N \cup {j \in Slots : Unlinked(x, j)} /\ \A i, j \in K : i = j
  /\ write = "put" => K # {}
  /\ write = "delete" => K = {} /\ R # {}

\* A statement is done, on a row that x holds.
LEMMA EndSnap ==
  ASSUME MvccInv, MvccInv', SnapInv, NEW x \in Xids, NEW r \in Rows, NEW S \in SUBSET Slots,
         NEW N \in SUBSET Slots, NEW R \in SUBSET Slots, NEW K \in SUBSET Slots,
         NEW steps \in Seq(Step1), NEW write \in {"put", "delete"},
         Holds(x, r, R), Ends(x, r, S, N, R, K, steps, write), Fits(x, S, N, R, K, write)
  PROVE  SnapInv' /\ Committed' = Committed
<1>k. /\ S \subseteq R /\ \A i, j \in R : i = j
      /\ K = N \cup {j \in Slots : Unlinked(x, j)} /\ \A i, j \in K : i = j
      /\ write = "put" => K # {}
      /\ write = "delete" => K = {} /\ R # {}
  BY DEF Fits
<1>a. /\ Writes(x, S, N) /\ undo'[x] = undo[x] \o steps /\ op'[x] = Idle /\ seen' = seen
      /\ \A k \in DOMAIN steps : steps[k].revive \subseteq R /\ steps[k].kill \subseteq K
      /\ \A k, l \in DOMAIN steps : k < l => steps[l].revive = {}
      /\ \A i \in R : \E k \in DOMAIN steps : i \in steps[k].revive
      /\ \A i \in R : ver'[i].slot = "live" /\ ver'[i].xmax = x /\ (ver'[i].xmin = x => Kills(x, i))
      /\ \A j \in S : ver[j].row = r
      /\ \A j \in N : ver'[j].row = r
      /\ intent'[x] = [q \in Rows |-> IF q = r THEN write ELSE intent[x][q]]
      /\ \A y \in Xids \ {x} : intent'[y] = intent[y]
  BY DEF Ends, Finishes
<1>b. /\ Moves(x) /\ x \in Active /\ state[x] = "active" /\ Active' = Active
      /\ \A y \in Xids \ {x} : undo'[y] = undo[y] /\ op'[y] = op[y]
      /\ x # NoXid /\ snap' = snap /\ \A y \in Active : y \in Xids
  BY <1>a, WritesMove, TypeFacts DEF Writes, MvccInv, Moves, Active
<1>c. /\ \A j \in Slots \ (S \cup N) : ver'[j] = ver[j]
      /\ \A j \in S : /\ ver'[j].slot = "live" /\ ver'[j].xmax = x
                      /\ ver'[j].xmin = ver[j].xmin /\ ver'[j].row = ver[j].row
                      /\ ver[j].slot = "live"
      /\ \A n \in N : /\ ver'[n].slot = "live" /\ ver'[n].xmin = x /\ ver'[n].xmax = NoXid
                      /\ ver[n].slot # "live"
  BY <1>a DEF Writes, Wrote, MayWrite, Unstamped
<1>d. \A i \in Slots : ~Superseded(x, i)' /\ ~Unlinked(x, i)'
  BY <1>a DEF Superseded, Unlinked, Idle
<1>e. \A i \in Slots : /\ Revives(x, i) => Revives(x, i)'
                       /\ Revives(x, i)' => Revives(x, i) \/ i \in R
                       /\ i \in R => Revives(x, i)'
  <2>1. undo[x] \in Seq(Step1)
    BY DEF MvccInv, TypeInv
  <2> DEFINE u == undo[x]
  <2>2. /\ \A k \in DOMAIN (u \o steps) :
             \/ k \in DOMAIN u /\ (u \o steps)[k] = u[k]
             \/ \E l \in DOMAIN steps : k = Len(u) + l /\ (u \o steps)[k] = steps[l]
        /\ \A k \in DOMAIN u : k \in DOMAIN (u \o steps) /\ (u \o steps)[k] = u[k]
        /\ \A l \in DOMAIN steps : Len(u) + l \in DOMAIN (u \o steps) /\ (u \o steps)[Len(u) + l] = steps[l]
    <3>1. u \in Seq(Step1) /\ steps \in Seq(Step1)
      BY <2>1
    <3> HIDE DEF u, Step1
    <3> QED BY ONLY <3>1, ConcatFact
  <2> DEFINE w == u \o steps
  <2>3. undo'[x] = w
    BY <1>a
  <2> HIDE DEF w
  <2>4. /\ \A k \in DOMAIN w : \/ k \in DOMAIN u /\ w[k] = u[k]
                              \/ \E l \in DOMAIN steps : w[k] = steps[l]
        /\ \A k \in DOMAIN u : k \in DOMAIN w /\ w[k] = u[k]
        /\ \A l \in DOMAIN steps : \E k \in DOMAIN w : w[k] = steps[l]
    BY <2>2 DEF w
  <2> HIDE DEF u
  <2>5. \A i \in Slots : /\ Revives(x, i) <=> \E k \in DOMAIN u : i \in u[k].revive
                         /\ Revives(x, i)' <=> \E k \in DOMAIN w : i \in w[k].revive
    BY <2>3 DEF Revives, u
  <2>6. \A i \in Slots : Revives(x, i) => Revives(x, i)'
    BY <2>4, <2>5
  <2>7. ASSUME NEW i \in Slots, Revives(x, i)' PROVE Revives(x, i) \/ i \in R
    <3>1. PICK k \in DOMAIN w : i \in w[k].revive
      BY <2>5, <2>7
    <3>2. CASE k \in DOMAIN u /\ w[k] = u[k]
      BY <2>5, <3>1, <3>2
    <3>3. ASSUME NEW l \in DOMAIN steps, w[k] = steps[l] PROVE i \in R
      BY <1>a, <3>1, <3>3
    <3> QED BY <2>4, <3>2, <3>3
  <2>8. ASSUME NEW i \in R PROVE Revives(x, i)'
    <3>1. PICK l \in DOMAIN steps : i \in steps[l].revive
      BY <1>a
    <3> QED BY <2>4, <2>5, <3>1
  <2> QED BY <2>6, <2>7, <2>8
<1>f. OnRow(x, r)
  <2>1. \A i \in R : ver[i].row = r /\ ver[i].slot = "live" /\ ver'[i].row = r
    BY <1>c DEF Holds
  <2>2. \A i \in Slots : Unlinked(x, i) \/ Superseded(x, i) => ver[i].slot = "live" /\ ver[i].row = r
    BY <2>1 DEF Holds, Tip
  <2> QED BY <1>a, <1>c, <1>d, <1>e, <2>1, <2>2 DEF OnRow
<1>g. /\ \A y \in Active \ {x}, j \in Slots : ~Stamps(y, j, r)'
      /\ \A y \in Active \ {x}, i \in Slots, q \in Rows :
           Tip(i, q)' /\ intent[y][q] = "delete" /\ IntentAt(y, q) => Tip(i, q)
  BY <1>b, <1>f, HoldsOthers
\* The unstamped versions of the row, and what x sees of it, are K.
<1>1. \A j \in Slots : Unlinked(x, j) => j \notin R
  BY <1>a, <1>c DEF Holds, Tip
<1>2. \A j \in Slots : Tip(j, r)' <=> j \in K
  <2>1. \A j \in Slots : Tip(j, r)' => j \in K
    BY <1>k, <1>a, <1>b, <1>c DEF Tip, Holds
  <2>2. \A j \in K : Tip(j, r)'
    BY <1>k, <1>a, <1>b, <1>c, <1>1 DEF Tip, Holds
  <2> QED BY <2>1, <2>2
<1>3. \A j \in K : ver'[j].xmin = x
  BY <1>k, <1>c, <1>1 DEF Holds
<1>4. RowOf(r)'
  <2>1. (\A i, j \in Slots : Tip(i, r) /\ Tip(j, r) => i = j \/ Pair(i, j) \/ Pair(j, i))'
    BY <1>k, <1>2
  <2>2. (\A y \in Active, i, j \in Slots : Stamps(y, i, r) /\ Tip(j, r) => ver[j].xmin = y)'
    BY <1>k, <1>b, <1>g, <1>2, <1>3
  <2>3. (\A y, z \in Active, i, j \in Slots : Stamps(y, i, r) /\ Stamps(z, j, r) => y = z)'
    BY <1>b, <1>g
  <2>4. (\A y \in Active, i, j \in Slots : Superseded(y, i) /\ ver[i].row = r => ~Tip(j, r))'
    BY <1>b, <1>d, <1>g DEF Stamps
  <2> QED BY <2>1, <2>2, <2>3, <2>4 DEF RowOf
<1>5. RowsOK'
  BY <1>a, <1>b, <1>f, <1>4, OtherRows DEF RowsOK
<1>6. ChainOf(x)'
  <2>1. Logs(x, R, steps)
    BY <1>k, <1>a DEF Logs
  <2> HIDE DEF Step1
  <2> QED BY <1>b, <2>1, EndChain
<1>7. ASSUME Committed' = Committed, HistoryOK' PROVE ActiveOf(x)'
  <2>1. TargetSeen(x)'
    BY <1>a DEF TargetSeen, Idle
  <2>2. intent'[x][r] = write /\ ~Replacing(x, r)'
    BY <1>a, <1>d DEF Replacing
  <2>3. IntentAt(x, r)'
    <3>1. write = "put" => \E i \in Slots : (Tip(i, r) /\ ver[i].xmin = x /\ ~Unlinked(x, i))'
      BY <1>k, <1>d, <1>2, <1>3
    <3>2. write = "delete" => /\ \E i \in Slots : (Revives(x, i) /\ ver[i].row = r)'
                              /\ \A i \in Slots : ~Tip(i, r)'
      BY <1>k, <1>c, <1>e, <1>2 DEF Holds
    <3> QED BY <2>2, <3>1, <3>2 DEF IntentAt
  <2>4. \A j \in Slots : Sees(x, j)' /\ ver'[j].row = r <=> j \in K
    <3>1. \A j \in Slots : Sees(x, j)' <=>
            ver'[j].slot = "live" /\ Over(x, ver[j].xmin)' /\ ~Over(x, ver[j].xmax)'
      BY <1>b, <1>7, SeesFactNext
    <3>2. \A j \in Slots : /\ ver'[j].xmin = x => Over(x, ver[j].xmin)'
                           /\ ver'[j].xmax = x => Over(x, ver[j].xmax)'
                           /\ ver'[j].xmax = NoXid => ~Over(x, ver[j].xmax)'
      BY <1>b DEF Over, IsCommittedAt
    <3>3. \A j \in K : Sees(x, j)' /\ ver'[j].row = r
      BY <1>2, <1>3, <3>1, <3>2 DEF Tip
    <3>4. ASSUME NEW j \in Slots, Sees(x, j)', ver'[j].row = r PROVE j \in K
      <4>1. j \notin R /\ j \notin S
        BY <1>k, <3>1, <3>2, <3>4, <1>a
      <4>2. j \in N \/ ver'[j] = ver[j]
        BY <1>c, <4>1
      <4>3. j \in N \/ (Sees(x, j) /\ ver[j].row = r)
        <5>1. snap'[x] = snap[x]
          BY <1>b
        <5> QED BY <3>4, <4>2, <5>1 DEF Sees
      <4> QED BY <1>k, <4>1, <4>3 DEF Holds
    <3> QED BY <3>3, <3>4
  <2>5. Read(x, r)' = Overlay(x, seen[x], r)'
    <3> DEFINE V == {j \in Slots : ver[j].row = r /\ Sees(x, j) /\ ~Unlinked(x, j)}
    <3>1. V' = K
      BY <1>d, <2>4
    <3>2. Read(x, r)' = {ver'[i].xmin : i \in V'}
      BY DEF Read
    <3> HIDE DEF V
    <3>3. Read(x, r)' = {ver'[i].xmin : i \in K}
      BY <3>1, <3>2
    <3>4. CASE write = "put"
      BY <1>k, <1>3, <2>2, <3>3, <3>4 DEF Overlay
    <3>5. CASE write = "delete"
      BY <1>k, <2>2, <3>3, <3>5 DEF Overlay
    <3> QED BY <3>4, <3>5
  <2>6. ReadsAt(x, r)'
    BY <1>k, <2>2, <2>4, <2>5 DEF ReadsAt
  <2>7. BaseAt(x, r)'
    BY <1>a, <1>7 DEF BaseAt, Holds
  <2>8. \A q \in Rows \ {r} : IntentAt(x, q)' /\ ReadsAt(x, q)' /\ BaseAt(x, q)'
    BY <1>a, <1>b, <1>f, <1>7, OtherRows
  <2> QED BY <2>1, <2>3, <2>6, <2>7, <2>8 DEF ActiveOf
<1> QED BY <1>a, <1>b, <1>g, <1>5, <1>6, <1>7, MoveSnap

\* What a finished statement adds to the history: one write, to a row nobody has
\* committed to since the snapshot and nobody else has a write on.
Records(x) ==
  \E r \in Rows, write \in {"put", "delete"} :
    /\ state[x] = "active" /\ Committed[r] = seen[x][r]
    /\ \A y \in Xids \ {x} : intent[y][r] = "keep"
    /\ intent' = [intent EXCEPT ![x] = [q \in Rows |-> IF q = r THEN write ELSE intent[x][q]]]
    /\ UNCHANGED <<state, seen>>

LEMMA EndRecords ==
  ASSUME MvccInv, MvccInv', NEW x \in Xids, NEW r \in Rows, NEW S, NEW N, NEW R, NEW K,
         NEW steps, NEW write \in {"put", "delete"}, Holds(x, r, R),
         Ends(x, r, S, N, R, K, steps, write)
  PROVE  Records(x)
<1>1. /\ intent \in [Xids -> [Rows -> {"keep", "put", "delete"}]]
      /\ intent' \in [Xids -> [Rows -> {"keep", "put", "delete"}]]
  BY DEF MvccInv, TypeInv
<1>2. /\ state[x] = "active" /\ state' = state /\ seen' = seen
      /\ intent'[x] = [q \in Rows |-> IF q = r THEN write ELSE intent[x][q]]
      /\ \A y \in Xids \ {x} : intent'[y] = intent[y]
  BY DEF Ends, Finishes, Writes, MayWrite, txnVars
<1>3. intent' = [intent EXCEPT ![x] = [q \in Rows |-> IF q = r THEN write ELSE intent[x][q]]]
  BY <1>1, <1>2
<1>4. Committed[r] = seen[x][r] /\ \A y \in Xids \ {x} : intent[y][r] = "keep"
  BY DEF Holds
<1> QED BY <1>2, <1>3, <1>4 DEF Records

\* An update has stamped its target and has yet to insert the new version.
LEMMA SupersedeSnap ==
  ASSUME MvccInv, MvccInv', SnapInv, NEW x \in Xids, NEW r \in Rows, NEW i \in Slots,
         op[x].old = <<i>>, Tip(i, r), Holds(x, r, {i}), GoesOn(x, r, {i}, {}), ~Superseded(x, i),
         op[x].path \in {"update", "updateMany"}, op'[x].stage = "insert"
  PROVE  SnapInv' /\ Committed' = Committed
<1>a. /\ Writes(x, {i}, {}) /\ undo' = undo /\ intent' = intent /\ seen' = seen
      /\ op'[x].path = op[x].path /\ op'[x].old = <<i>>
  BY DEF GoesOn
<1>b. /\ Moves(x) /\ x \in Active /\ state[x] = "active" /\ Active' = Active /\ snap' = snap
      /\ \A y \in Xids \ {x} : undo'[y] = undo[y] /\ op'[y] = op[y]
      /\ x # NoXid /\ \A y \in Active : y \in Xids
  <2>1. {i} \in SUBSET Slots /\ {} \in SUBSET Slots
    OBVIOUS
  <2> QED BY <1>a, <2>1, WritesMove, TypeFacts DEF Writes, MvccInv, Moves, Active
<1>c. /\ \A j \in Slots \ {i} : ver'[j] = ver[j]
      /\ ver'[i].slot = "live" /\ ver'[i].xmax = x /\ ver'[i].xmin = ver[i].xmin
      /\ ver'[i].row = ver[i].row /\ ver[i].slot = "live"
  BY <1>a DEF Writes, Wrote, MayWrite, Unstamped
<1>d. /\ \A j \in Slots : ~Superseded(x, j) /\ ~Unlinked(x, j) /\ ~Unlinked(x, j)'
      /\ \A j \in Slots : Superseded(x, j)' <=> j = i
  <2>1. \A j \in Slots : ~Unlinked(x, j)
    BY <1>b, MarksLive
  <2> QED BY <1>a, <2>1 DEF Superseded, Unlinked
<1>e. r \in Rows /\ Tip(i, r) /\ Holds(x, r, {i}) /\ RowOf(r) /\ ChainOf(x) /\ IntentAt(x, r)
  BY <1>b DEF SnapInv, RowsOK, ChainsOK, OpenOK, ActiveOf
<1>f. \A j \in Slots : Revives(x, j)' <=> Revives(x, j)
  BY <1>a DEF Revives
<1>g. OnRow(x, r)
  BY <1>a, <1>c, <1>d, <1>e, <1>f DEF OnRow, Tip
<1>h. ver'[i].row = r /\ ver[i].row = r
  BY <1>c, <1>e DEF Tip
<1>i. /\ \A y \in Active \ {x}, j \in Slots : ~Stamps(y, j, r)'
      /\ \A y \in Active \ {x}, j \in Slots, q \in Rows :
           Tip(j, q)' /\ intent[y][q] = "delete" /\ IntentAt(y, q) => Tip(j, q)
  BY <1>b, <1>e, <1>g, HoldsOthers
<1>1. \A j \in Slots : ~Tip(j, r)'
  BY <1>b, <1>c, <1>d, <1>e DEF Holds, Tip
<1>2. RowOf(r)'
  BY <1>b, <1>i, <1>1 DEF RowOf
<1>3. RowsOK'
  BY <1>a, <1>b, <1>e, <1>g, <1>2, OtherRows DEF RowsOK
<1>4. ChainOf(x)'
  <2>1. \A j \in Slots : Marks(x, j) => ver'[j].row = ver[j].row /\ ver'[j].xmin = ver[j].xmin
    BY <1>c
  <2>2. /\ \A k \in DOMAIN undo[x] : \A j \in undo[x][k].kill : j \in Slots /\ Marks(x, j)
        /\ \A k \in DOMAIN undo[x] : \A j \in undo[x][k].revive : j \in Slots /\ Marks(x, j)
    BY TypeFacts DEF MvccInv, Marks, Kills, Revives
  <2>3. (\A k, l \in DOMAIN undo[x] : \A n \in undo[x][k].kill, j \in undo[x][l].revive :
          k < l /\ n # j /\ SameRow(n, j)
            => \E m \in DOMAIN undo[x] : m < l /\ n \in undo[x][m].revive)'
    BY <1>a, <1>e, <2>1, <2>2 DEF ChainOf, SameRow
  <2>4. (\A k, l \in DOMAIN undo[x] : \A n \in undo[x][k].revive, j \in undo[x][l].revive :
          k <= l /\ n # j /\ SameRow(n, j) => k < l /\ ver[j].xmin = x)'
    BY <1>a, <1>e, <2>1, <2>2 DEF ChainOf, SameRow
  <2>5. ASSUME NEW j \in Slots, Revives(x, j), SameRow(i, j)' PROVE ver'[i].xmin = x
    <3>1. Stamps(x, j, r)
      BY <1>h, <2>1, <2>5 DEF Stamps, SameRow, Marks
    <3> QED BY <1>b, <1>c, <1>e, <3>1 DEF RowOf
  <2> QED BY <1>d, <1>f, <2>3, <2>4, <2>5 DEF ChainOf
<1>5. ASSUME Committed' = Committed, HistoryOK' PROVE ActiveOf(x)'
  <2>1. TargetSeen(x)'
    BY <1>a, <1>d DEF TargetSeen
  <2>2. Replacing(x, r)' /\ intent[x][r] # "delete"
    BY <1>d, <1>e, <1>h DEF Replacing, IntentAt
  <2>3. IntentAt(x, r)'
    <3>1. intent[x][r] = "keep" => \A j \in Slots :
            ver'[j].slot = "live" /\ ver'[j].row = r /\ (ver'[j].xmin = x \/ ver'[j].xmax = x) => j = i
      BY <1>c, <1>d, <1>e DEF IntentAt
    <3> QED BY <1>a, <1>d, <1>h, <2>2, <3>1 DEF IntentAt
  <2>4. \A j \in Slots : ver'[j].row = r => ~Sees(x, j)'
    <3> SUFFICES ASSUME NEW j \in Slots, ver'[j].row = r, Sees(x, j)' PROVE FALSE
      OBVIOUS
    <3>1. j # i
      BY <1>b, <1>c DEF Sees, IsVisible
    <3>2. Sees(x, j) /\ ver[j].row = r
      BY <1>b, <1>c, <3>1 DEF Sees
    <3> QED BY <1>d, <1>e, <3>1, <3>2 DEF Holds
  <2>5. ReadsAt(x, r)'
    BY <2>2, <2>4 DEF ReadsAt
  <2>6. BaseAt(x, r)'
    BY <1>a, <1>e, <1>5 DEF BaseAt, Holds
  <2>7. \A q \in Rows \ {r} : IntentAt(x, q)' /\ ReadsAt(x, q)' /\ BaseAt(x, q)'
    BY <1>a, <1>b, <1>e, <1>g, <1>5, OtherRows
  <2> QED BY <2>1, <2>3, <2>5, <2>6, <2>7 DEF ActiveOf
<1> QED BY <1>a, <1>b, <1>i, <1>3, <1>4, <1>5, MoveSnap

\* A cross-page HOT update has inserted its new version and has yet to link it.
LEMMA UnlinkedSnap ==
  ASSUME MvccInv, MvccInv', SnapInv, NEW x \in Xids, NEW r \in Rows, NEW i \in Slots, NEW n \in Slots,
         op[x].old = <<i>>, Tip(i, r), Holds(x, r, {i}), GoesOn(x, r, {}, {n}), Sees(x, i),
         op[x].path = "hotXpage", op[x].stage = "insert", op'[x].stage = "link", op'[x].new = <<n>>
  PROVE  SnapInv' /\ Committed' = Committed
<1>a. /\ Writes(x, {}, {n}) /\ undo' = undo /\ intent' = intent /\ seen' = seen
      /\ op'[x].path = op[x].path /\ op'[x].old = <<i>> /\ ver'[n].row = r
  BY DEF GoesOn
<1>b. /\ Moves(x) /\ x \in Active /\ state[x] = "active" /\ Active' = Active /\ snap' = snap
      /\ \A y \in Xids \ {x} : undo'[y] = undo[y] /\ op'[y] = op[y]
      /\ x # NoXid /\ \A y \in Active : y \in Xids
  <2>1. {n} \in SUBSET Slots /\ {} \in SUBSET Slots
    OBVIOUS
  <2> QED BY <1>a, <2>1, WritesMove, TypeFacts DEF Writes, MvccInv, Moves, Active
<1>c. /\ \A j \in Slots \ {n} : ver'[j] = ver[j]
      /\ ver'[n].slot = "live" /\ ver'[n].xmax = NoXid /\ ver'[n].xmin = x
      /\ ver[n].slot # "live"
  BY <1>a DEF Writes, Wrote, MayWrite
<1>d. /\ \A j \in Slots : ~Superseded(x, j) /\ ~Unlinked(x, j) /\ ~Superseded(x, j)'
      /\ \A j \in Slots : Unlinked(x, j)' <=> j = n
  BY <1>a DEF Superseded, Unlinked
<1>e. /\ r \in Rows /\ Tip(i, r) /\ Holds(x, r, {i}) /\ RowOf(r) /\ ChainOf(x) /\ IntentAt(x, r)
      /\ ReadsAt(x, r) /\ n # i
  BY <1>b, <1>c DEF SnapInv, RowsOK, ChainsOK, OpenOK, ActiveOf, Tip
<1>f. \A j \in Slots : /\ Revives(x, j)' <=> Revives(x, j)
                       /\ Kills(x, j)' <=> Kills(x, j)
  BY <1>a DEF Revives, Kills
<1>g. OnRow(x, r)
  BY <1>a, <1>c, <1>d, <1>f DEF OnRow
<1>h. ver'[i] = ver[i] /\ ver[i].row = r
  BY <1>c, <1>e DEF Tip
<1>m. \A j \in Slots : Marks(x, j) => j # n
  BY <1>b, <1>c, MarksLive
<1>i. /\ \A y \in Active \ {x}, j \in Slots : ~Stamps(y, j, r)'
      /\ \A y \in Active \ {x}, j \in Slots, q \in Rows :
           Tip(j, q)' /\ intent[y][q] = "delete" /\ IntentAt(y, q) => Tip(j, q)
  BY <1>b, <1>e, <1>g, HoldsOthers
<1>1. \A j \in Slots : Tip(j, r)' => j = i \/ j = n
  BY <1>c, <1>d, <1>e DEF Holds, Tip
<1>2. RowOf(r)'
  <2>1. Pair(i, n)'
    BY <1>a, <1>b, <1>d DEF Pair
  <2>2. ASSUME NEW j \in Slots, Stamps(x, j, r)', NEW k \in Slots, Tip(k, r)' PROVE ver'[k].xmin = x
    <3>1. Revives(x, j)
      BY <1>d, <1>f, <2>2 DEF Stamps
    <3>2. j # n
      BY <1>m, <3>1 DEF Marks
    <3>3. Stamps(x, j, r)
      BY <1>c, <2>2, <3>1, <3>2 DEF Stamps
    <3>4. ver[i].xmin = x
      BY <1>b, <1>e, <3>3 DEF RowOf
    <3> QED BY <1>c, <1>h, <1>1, <2>2, <3>4
  <2>3. (\A y \in Active, j, k \in Slots : Superseded(y, j) /\ ver[j].row = r => ~Tip(k, r))'
    BY <1>b, <1>d, <1>i DEF Stamps
  <2>4. (\A y \in Active, j, k \in Slots : Stamps(y, j, r) /\ Tip(k, r) => ver[k].xmin = y)'
    BY <1>b, <1>i, <2>2
  <2>5. (\A y, z \in Active, j, k \in Slots : Stamps(y, j, r) /\ Stamps(z, k, r) => y = z)'
    BY <1>b, <1>i
  <2>6. (\A j, k \in Slots : Tip(j, r) /\ Tip(k, r) => j = k \/ Pair(j, k) \/ Pair(k, j))'
    BY <1>1, <2>1
  <2> QED BY <2>3, <2>4, <2>5, <2>6 DEF RowOf
<1>3. RowsOK'
  BY <1>a, <1>b, <1>e, <1>g, <1>2, OtherRows DEF RowsOK
<1>4. ChainOf(x)'
  <2>1. \A j \in Slots : Marks(x, j) => ver'[j] = ver[j]
    BY <1>c, <1>m
  <2>2. /\ \A k \in DOMAIN undo[x] : \A j \in undo[x][k].kill : j \in Slots /\ Marks(x, j)
        /\ \A k \in DOMAIN undo[x] : \A j \in undo[x][k].revive : j \in Slots /\ Marks(x, j)
    BY TypeFacts DEF MvccInv, Marks, Kills, Revives
  <2>3. (\A k, l \in DOMAIN undo[x] : \A m \in undo[x][k].kill, j \in undo[x][l].revive :
          k < l /\ m # j /\ SameRow(m, j)
            => \E o \in DOMAIN undo[x] : o < l /\ m \in undo[x][o].revive)'
    BY <1>a, <1>e, <2>1, <2>2 DEF ChainOf, SameRow
  <2>4. (\A k, l \in DOMAIN undo[x] : \A m \in undo[x][k].revive, j \in undo[x][l].revive :
          k <= l /\ m # j /\ SameRow(m, j) => k < l /\ ver[j].xmin = x)'
    BY <1>a, <1>e, <2>1, <2>2 DEF ChainOf, SameRow
  <2> QED BY <1>d, <2>3, <2>4 DEF ChainOf
<1>5. ASSUME Committed' = Committed, HistoryOK' PROVE ActiveOf(x)'
  <2>1. TargetSeen(x)'
    <3>1. Sees(x, i)'
      BY <1>b, <1>h DEF Sees
    <3>2. Tip(n, r)' /\ ver'[n].xmin = x /\ ~Kills(x, n)'
      BY <1>a, <1>c, <1>f, <1>m DEF Tip, Marks
    <3> QED BY <1>a, <1>d, <1>h, <3>1, <3>2 DEF TargetSeen
  <2>2. ~Replacing(x, r) /\ ~Replacing(x, r)' /\ intent[x][r] # "delete"
    BY <1>d, <1>e DEF Replacing, IntentAt
  <2>3. IntentAt(x, r)'
    <3>1. intent[x][r] = "keep" => \A j \in Slots :
            ver'[j].slot = "live" /\ ver'[j].row = r /\ (ver'[j].xmin = x \/ ver'[j].xmax = x) => j = n
      BY <1>c, <1>d, <1>e DEF IntentAt
    <3>2. intent[x][r] = "put" => \E j \in Slots : (Tip(j, r) /\ ver[j].xmin = x /\ ~Unlinked(x, j))'
      BY <1>c, <1>d, <1>e DEF IntentAt, Tip
    <3> QED BY <1>a, <1>d, <2>2, <3>1, <3>2 DEF IntentAt
  <2>4. \A j \in Slots \ {n} : /\ ver'[j].row = ver[j].row /\ ver'[j].xmin = ver[j].xmin
                               /\ Sees(x, j)' <=> Sees(x, j)
    BY <1>b, <1>c DEF Sees
  <2>5. ~Sees(x, n)
    BY <1>c DEF Sees, IsVisible
  <2>6. Read(x, r)' = Read(x, r)
    <3> DEFINE V == {j \in Slots : ver[j].row = r /\ Sees(x, j) /\ ~Unlinked(x, j)}
    <3>1. V' = V
      BY <1>d, <2>4, <2>5
    <3>2. \A j \in V : ver'[j].xmin = ver[j].xmin
      BY <2>4, <2>5
    <3>3. Read(x, r) = {ver[j].xmin : j \in V} /\ Read(x, r)' = {ver'[j].xmin : j \in V'}
      BY DEF Read
    <3> HIDE DEF V
    <3> QED BY <3>1, <3>2, <3>3
  <2>7. Overlay(x, seen[x], r)' = Overlay(x, seen[x], r)
    BY <1>a DEF Overlay
  <2>8. (\A j, k \in Slots : Sees(x, j) /\ Sees(x, k) /\ ver[j].row = r /\ ver[k].row = r
           => j = k \/ Unlinked(x, j) \/ Unlinked(x, k))'
    BY <1>d, <1>e, <2>4 DEF ReadsAt
  <2>9. ReadsAt(x, r)'
    BY <1>e, <2>2, <2>6, <2>7, <2>8 DEF ReadsAt
  <2>10. BaseAt(x, r)'
    BY <1>a, <1>e, <1>5 DEF BaseAt, Holds
  <2>11. \A q \in Rows \ {r} : IntentAt(x, q)' /\ ReadsAt(x, q)' /\ BaseAt(x, q)'
    BY <1>a, <1>b, <1>e, <1>g, <1>5, OtherRows
  <2> QED BY <2>1, <2>3, <2>9, <2>10, <2>11 DEF ActiveOf
<1> QED BY <1>a, <1>b, <1>i, <1>3, <1>4, <1>5, MoveSnap

LEMMA InsertRowSnap ==
  ASSUME MvccInv, SnapInv, Orderly(load), NEW x \in Xids, InsertRow(x), UNCHANGED load
  PROVE  SnapInv' /\ Committed' = Committed /\ Records(x)
<1>1. PICK r \in Rows, n \in Slots :
        /\ \A i \in Slots : ver[i].slot = "live" => ver[i].row # r
        /\ Ends(x, r, {}, {n}, {}, {n}, <<KillStep(n)>>, "put")
  BY InsertRowInv
<1>2. MvccInv'
  BY InsertRowInv
<1>3. op[x].path = "insert" /\ op[x].stage = "insert" /\ state[x] = "active"
  BY <1>1 DEF InsertRow, At, Ends, Finishes, Writes, MayWrite
<1>4. Holds(x, r, {})
  BY <1>1, <1>3, HoldsInsert
<1>5. \A j \in Slots : ~Unlinked(x, j)
  BY <1>3 DEF Unlinked
<1>6. <<KillStep(n)>> \in Seq(Step1)
  BY DEF KillStep, Step1
<1>7. {} \in SUBSET Slots /\ {n} \in SUBSET Slots /\ Fits(x, {}, {n}, {}, {n}, "put")
  BY <1>5 DEF Fits
<1> HIDE DEF Step1
<1>8. SnapInv' /\ Committed' = Committed
  BY <1>1, <1>2, <1>4, <1>6, <1>7, EndSnap
<1> QED BY <1>1, <1>2, <1>4, <1>8, EndRecords

\* The paths that end on their target, with the stamp or after it.
LEMMA TargetSnap ==
  ASSUME MvccInv, MvccInv', SnapInv, NEW x \in Xids, NEW r \in Rows, NEW i \in Slots,
         Holds(x, r, {i}), NEW S \in SUBSET {i}, NEW N \in SUBSET Slots, NEW K \in SUBSET Slots,
         NEW steps \in Seq(Step1), NEW write \in {"put", "delete"},
         Ends(x, r, S, N, {i}, K, steps, write),
         \/ write = "delete" /\ K = {} /\ N = {} /\ \A j \in Slots : ~Unlinked(x, j)
         \/ write = "put" /\ \E n \in Slots : /\ K = {n}
                                              /\ \/ N = {n} /\ \A j \in Slots : ~Unlinked(x, j)
                                                 \/ N = {} /\ Unlinked(x, n)
  PROVE  SnapInv' /\ Committed' = Committed /\ Records(x)
<1>1. S \in SUBSET Slots /\ {i} \in SUBSET Slots
  OBVIOUS
<1>2. Fits(x, S, N, {i}, K, write)
  <2>1. CASE write = "delete" /\ K = {} /\ N = {} /\ \A j \in Slots : ~Unlinked(x, j)
    BY <2>1 DEF Fits
  <2>2. ASSUME NEW n \in Slots, write = "put", K = {n}, N = {n}, \A j \in Slots : ~Unlinked(x, j)
        PROVE  Fits(x, S, N, {i}, K, write)
    BY <2>2 DEF Fits
  <2>3. ASSUME NEW n \in Slots, write = "put", K = {n}, N = {}, Unlinked(x, n)
        PROVE  Fits(x, S, N, {i}, K, write)
    <3>1. \A j \in Slots : Unlinked(x, j) => j = n
      BY <2>3 DEF Unlinked
    <3>2. {j \in Slots : Unlinked(x, j)} = {n}
      BY <2>3, <3>1
    <3> QED BY <2>3, <3>2 DEF Fits
  <2> QED BY <2>1, <2>2, <2>3
<1> HIDE DEF Step1
<1>3. SnapInv' /\ Committed' = Committed
  BY <1>1, <1>2, EndSnap
<1> QED BY <1>3, EndRecords

LEMMA DeleteStampSnap ==
  ASSUME MvccInv, SnapInv, Orderly(load), NEW x \in Xids, DeleteStamp(x), UNCHANGED load
  PROVE  SnapInv' /\ Committed' = Committed /\ Records(x)
<1>1. PICK i \in Slots : /\ op[x].old = <<i>> /\ Unstamped(i)
                         /\ Ends(x, ver[i].row, {i}, {}, {i}, {}, <<ReviveStep(i)>>, "delete")
  BY DeleteStampInv
<1>2. MvccInv'
  BY DeleteStampInv
<1>3. op[x].path = "delete" /\ op[x].stage = "stamp"
  BY DEF DeleteStamp, At
<1>4. PICK r \in Rows : ver[i].row = r /\ Holds(x, r, {i})
  BY <1>1, <1>3, HoldsTarget
<1>5. \A j \in Slots : ~Unlinked(x, j)
  BY <1>3 DEF Unlinked
<1>6. /\ <<ReviveStep(i)>> \in Seq(Step1) /\ {i} \in SUBSET {i} /\ {} \in SUBSET Slots
      /\ Ends(x, r, {i}, {}, {i}, {}, <<ReviveStep(i)>>, "delete")
  BY <1>1, <1>4, StepFact
<1> HIDE DEF Step1
<1> QED BY <1>2, <1>4, <1>5, <1>6, TargetSnap

LEMMA HotUpdateSnap ==
  ASSUME MvccInv, SnapInv, Orderly(load), NEW x \in Xids, HotUpdate(x), UNCHANGED load
  PROVE  SnapInv' /\ Committed' = Committed /\ Records(x)
<1> DEFINE steps(n, i) == <<[kill |-> {n}, revive |-> {i}]>>
<1>1. PICK i, n \in Slots : /\ op[x].old = <<i>> /\ Unstamped(i)
                            /\ Ends(x, ver[i].row, {i}, {n}, {i}, {n}, steps(n, i), "put")
  BY HotUpdateInv
<1>2. MvccInv'
  BY HotUpdateInv
<1>3. op[x].path = "hot" /\ op[x].stage = "stamp"
  BY DEF HotUpdate, At
<1>4. PICK r \in Rows : ver[i].row = r /\ Holds(x, r, {i})
  BY <1>1, <1>3, HoldsTarget
<1>5. \A j \in Slots : ~Unlinked(x, j)
  BY <1>3 DEF Unlinked
<1>6. steps(n, i) \in Seq(Step1)
  BY StepFact
<1> HIDE DEF Step1, steps
<1>7. /\ Ends(x, r, {i}, {n}, {i}, {n}, steps(n, i), "put")
      /\ {i} \in SUBSET {i} /\ {n} \in SUBSET Slots
  BY <1>1, <1>4
<1> QED BY <1>2, <1>4, <1>5, <1>6, <1>7, TargetSnap

LEMMA HotXpageLinkSnap ==
  ASSUME MvccInv, SnapInv, Orderly(load), NEW x \in Xids, HotXpageLink(x), UNCHANGED load
  PROVE  SnapInv' /\ Committed' = Committed /\ Records(x)
<1> DEFINE steps(i, n) == <<ReviveStep(i), KillStep(n)>>
<1>1. PICK i, n \in Slots : /\ op[x].old = <<i>> /\ Unlinked(x, n) /\ Unstamped(i)
                            /\ Ends(x, ver[i].row, {i}, {}, {i}, {n}, steps(i, n), "put")
  BY HotXpageLinkInv
<1>2. MvccInv'
  BY HotXpageLinkInv
<1>3. op[x].path = "hotXpage" /\ op[x].stage = "link"
  BY DEF HotXpageLink, At
<1>4. PICK r \in Rows : ver[i].row = r /\ Holds(x, r, {i})
  BY <1>1, <1>3, HoldsTarget
<1>5. steps(i, n) \in Seq(Step1)
  BY StepFact
<1> HIDE DEF Step1, steps
<1>6. /\ Ends(x, r, {i}, {}, {i}, {n}, steps(i, n), "put")
      /\ {i} \in SUBSET {i} /\ {n} \in SUBSET Slots /\ {} \in SUBSET Slots
  BY <1>1, <1>4
<1> QED BY <1>1, <1>2, <1>4, <1>5, <1>6, TargetSnap

LEMMA StampNextSnap ==
  ASSUME MvccInv, SnapInv, Orderly(load), NEW x \in Xids, StampNext(x), UNCHANGED load
  PROVE  /\ SnapInv' /\ Committed' = Committed
         /\ Records(x) \/ UNCHANGED <<state, seen, intent>>
<1>1. PICK i \in Slots :
        /\ op[x].old = <<i>> /\ Unstamped(i)
        /\ \/ Ends(x, ver[i].row, {i}, {}, {i}, {}, <<ReviveStep(i)>>, "delete")
           \/ /\ GoesOn(x, ver[i].row, {i}, {}) /\ op[x].path \in {"update", "updateMany"}
              /\ op'[x].stage = "insert"
  BY StampNextInv
<1>2. MvccInv'
  BY StampNextInv
<1>3. op[x].path \in {"update", "deleteMany", "updateMany"} /\ op[x].stage = "stamp"
  BY DEF StampNext, At
<1>4. PICK r \in Rows : ver[i].row = r /\ Holds(x, r, {i}) /\ ~Superseded(x, i)
  BY <1>1, <1>3, HoldsTarget
<1>5. CASE Ends(x, ver[i].row, {i}, {}, {i}, {}, <<ReviveStep(i)>>, "delete")
  <2>1. \A j \in Slots : ~Unlinked(x, j)
    BY <1>3 DEF Unlinked
  <2>2. /\ <<ReviveStep(i)>> \in Seq(Step1) /\ {i} \in SUBSET {i} /\ {} \in SUBSET Slots
        /\ Ends(x, r, {i}, {}, {i}, {}, <<ReviveStep(i)>>, "delete")
    BY <1>4, <1>5, StepFact
  <2> HIDE DEF Step1
  <2> QED BY <1>2, <1>4, <2>1, <2>2, TargetSnap
<1>6. CASE /\ GoesOn(x, ver[i].row, {i}, {}) /\ op[x].path \in {"update", "updateMany"}
           /\ op'[x].stage = "insert"
  <2>1. Tip(i, r)
    BY <1>1, <1>4 DEF Tip, Unstamped
  <2>2. SnapInv' /\ Committed' = Committed
    BY <1>1, <1>2, <1>4, <1>6, <2>1, SupersedeSnap
  <2>3. UNCHANGED <<state, seen, intent>>
    BY <1>6 DEF GoesOn, Writes, txnVars
  <2> QED BY <2>2, <2>3
<1> QED BY <1>1, <1>5, <1>6

LEMMA InsertNextSnap ==
  ASSUME MvccInv, SnapInv, Orderly(load), NEW x \in Xids, InsertNext(x), UNCHANGED load
  PROVE  /\ SnapInv' /\ Committed' = Committed
         /\ Records(x) \/ UNCHANGED <<state, seen, intent>>
<1> DEFINE steps(i, n) == <<ReviveStep(i), KillStep(n)>>
<1>1. PICK i, n \in Slots :
        /\ op[x].old = <<i>>
        /\ \/ /\ op[x].path = "hotXpage" /\ GoesOn(x, ver[i].row, {}, {n})
              /\ op'[x].stage = "link" /\ op'[x].new = <<n>>
           \/ /\ Superseded(x, i)
              /\ Ends(x, ver[i].row, {}, {n}, {i}, {n}, steps(i, n), "put")
  BY InsertNextInv
<1>2. MvccInv'
  BY InsertNextInv
<1>3. op[x].stage = "insert"
  BY DEF InsertNext, At
<1>4. CASE /\ op[x].path = "hotXpage" /\ GoesOn(x, ver[i].row, {}, {n})
           /\ op'[x].stage = "link" /\ op'[x].new = <<n>>
  <2>1. Unstamped(i)
    <3>1. \E j \in Slots : op[x].old = <<j>> /\ TargetOK(x, j)
      BY <1>4, TargetFact
    <3>2. TargetOK(x, i)
      BY <1>1, <3>1
    <3> QED BY <1>3, <1>4, <3>2 DEF TargetOK, Unstamped
  <2>2. PICK r \in Rows : ver[i].row = r /\ Holds(x, r, {i}) /\ Sees(x, i)
    BY <1>1, <1>3, <1>4, <2>1, HoldsTarget
  <2>3. Tip(i, r)
    BY <2>1, <2>2 DEF Tip, Unstamped
  <2>4. SnapInv' /\ Committed' = Committed
    BY <1>1, <1>2, <1>3, <1>4, <2>2, <2>3, UnlinkedSnap
  <2>5. UNCHANGED <<state, seen, intent>>
    BY <1>4 DEF GoesOn, Writes, txnVars
  <2> QED BY <2>4, <2>5
<1>5. CASE Superseded(x, i) /\ Ends(x, ver[i].row, {}, {n}, {i}, {n}, steps(i, n), "put")
  <2>1. PICK r \in Rows : ver[i].row = r /\ Holds(x, r, {i})
    BY <1>5, HoldsSuperseded
  <2>2. \A j \in Slots : ~Unlinked(x, j)
    BY <1>3 DEF Unlinked
  <2>3. steps(i, n) \in Seq(Step1)
    BY StepFact
  <2> HIDE DEF Step1, steps
  <2>4. /\ Ends(x, r, {}, {n}, {i}, {n}, steps(i, n), "put")
        /\ {} \in SUBSET {i} /\ {n} \in SUBSET Slots
    BY <1>5, <2>1
  <2> QED BY <1>2, <2>1, <2>2, <2>3, <2>4, TargetSnap
<1> QED BY <1>1, <1>4, <1>5
----------------------------------------------------------------------------
(* Every step *)

\* SetToSeq gives each row of the initial heap one slot.
LEMMA OldRowsOnce ==
  ASSUME NEW l \in Loads,
         NEW i \in DOMAIN SetToSeq(l.old), NEW j \in DOMAIN SetToSeq(l.old),
         SetToSeq(l.old)[i] = SetToSeq(l.old)[j]
  PROVE  i = j
<1>1. l.old \subseteq Rows /\ IsFiniteSet(l.old)
  BY RowAssumption, LoadAssumption, FS_Subset
<1>2. Cardinality(l.old) \in Nat /\ ExistsBijection(1 .. Cardinality(l.old), l.old)
  BY <1>1, FS_CardinalityType
<1>3. \E f \in [1 .. Cardinality(l.old) -> l.old] : IsInjective(f)
  BY <1>2 DEF ExistsBijection, Bijection, Injection, IsInjective
<1>4. IsInjective(SetToSeq(l.old))
  BY <1>3 DEF SetToSeq
<1> QED BY <1>4 DEF IsInjective

LEMMA InitSnap == Init => SnapInv
<1> SUFFICES ASSUME Init PROVE SnapInv
  OBVIOUS
<1>1. /\ Active = {} /\ \A x \in Xids : state[x] # "active"
      /\ \A x \in Xids : intent[x] = NoWrites /\ seen[x] = NoRows
      /\ reader = NoReader /\ load \in Loads
  BY DEF Init, Active
<1>2. seen \in [Xids -> [Rows -> SUBSET Xids]]
  BY DEF Init, NoRows
<1> DEFINE old == SetToSeq(load.old)
<1>3. ver = [i \in Slots |->
              IF i > Len(old) THEN Free
              ELSE [row |-> old[i], xmin |-> 1, xmax |-> NoXid, hint |-> FALSE,
                    slot |-> "live"]]
  BY Zenon DEF Init
<1>4. DOMAIN old = 1 .. Len(old) /\ Len(old) \in Nat
  BY <1>1, OldRows
<1>5. \A i, j \in DOMAIN old : old[i] = old[j] => i = j
  BY <1>1, OldRowsOnce
<1> HIDE DEF old
<1>6. ASSUME NEW i \in Slots, ver[i].slot = "live"
      PROVE  ver[i].xmin = 1 /\ ver[i].row = old[i] /\ i \in DOMAIN old
  <2>1. i \in Nat \ {0}
    BY BoundAssumption DEF Slots
  <2>2. ~(i > Len(old))
    BY <1>3, <1>6, FreeFact
  <2>3. ver[i] = [row |-> old[i], xmin |-> 1, xmax |-> NoXid, hint |-> FALSE, slot |-> "live"]
    BY <1>3, <2>2
  <2> QED BY <1>4, <2>1, <2>2, <2>3
<1>7. HistoryOK
  BY <1>1, <1>2, <1>6 DEF HistoryOK, NoXid
<1>8. RowsOK
  <2> SUFFICES ASSUME NEW r \in Rows PROVE RowOf(r)
    BY DEF RowsOK
  <2>1. \A i, j \in Slots : Tip(i, r) /\ Tip(j, r) => i = j
    BY <1>5, <1>6 DEF Tip
  <2> QED BY <1>1, <2>1 DEF RowOf
<1>9. ChainsOK /\ OpenOK /\ ReaderOK
  BY <1>1 DEF ChainsOK, OpenOK, ReaderOK
<1> QED BY <1>7, <1>8, <1>9 DEF SnapInv

LEMMA StutterSnap ==
  ASSUME MvccInv, MvccInv', SnapInv, UNCHANGED vars
  PROVE  SnapInv' /\ Committed' = Committed
<1>1. UNCHANGED <<nextXid, state, snap, undo, op, ver, reader, vacuum, seen, intent>>
  BY DEF vars, txnVars, histVars
<1>2. \A y \in Active : LogKept(y)
  BY <1>1 DEF LogKept, Unlinked, Superseded
<1>3. ReaderOK'
  BY <1>1, ReaderSame DEF SnapInv, Active
<1> QED BY <1>1, <1>2, <1>3, QuietSnap

\* The ways a transaction stops before its commit.
Stops(x) == StartAbort(x) /\ state[x] = "active"

LEMMA LockRowSnap ==
  ASSUME MvccInv, Orderly(load), MvccInv', SnapInv, NEW x \in Xids, LockRow(x), UNCHANGED load
  PROVE  /\ SnapInv' /\ Committed' = Committed
         /\ Stops(x) \/ UNCHANGED <<state, seen, intent>>
<1>1. op[x].stage = "lock" /\ state[x] = "active"
  <2>1. op[x].stage = "lock"
    BY DEF LockRow, At
  <2> QED BY <2>1, StageFact
<1>2. CASE StartAbort(x)
  BY <1>1, <1>2, StartAbortSnap DEF Stops
<1>3. CASE ~StartAbort(x)
  <2>1. SnapInv' /\ Committed' = Committed
    BY <1>3, StageSnap
  <2>2. UNCHANGED <<state, seen, intent>>
    BY <1>3 DEF LockRow, txnVars, histVars
  <2> QED BY <2>1, <2>2
<1> QED BY <1>2, <1>3

LEMMA ConflictSnap ==
  ASSUME MvccInv, MvccInv', SnapInv, NEW x \in Xids, Conflict(x) \/ Rollback(x), UNCHANGED load
  PROVE  SnapInv' /\ Committed' = Committed /\ Stops(x)
<1>1. CASE Conflict(x)
  <2>1. op[x].stage \in {"stamp", "check"} /\ StartAbort(x)
    BY <1>1 DEF Conflict
  <2>2. state[x] = "active"
    BY <2>1, StageFact
  <2> QED BY <2>1, <2>2, StartAbortSnap DEF Stops
<1>2. CASE Rollback(x)
  BY <1>2, StartAbortSnap DEF Rollback, Stops
<1> QED BY <1>1, <1>2

\* What a step does to the store of rows, in the terms of SnapshotStore.
Opens(x) ==
  /\ state[x] = "unborn" /\ state' = [state EXCEPT ![x] = "active"]
  /\ seen' = [seen EXCEPT ![x] = Committed] /\ intent' = intent

Refreshes(x) ==
  /\ state[x] = "active" /\ seen' = [seen EXCEPT ![x] = Committed]
  /\ UNCHANGED <<state, intent>>

Publishes(x) ==
  /\ state[x] = "active" /\ state' = [state EXCEPT ![x] = "committed"]
  /\ seen' = [seen EXCEPT ![x] = NoRows] /\ intent' = [intent EXCEPT ![x] = NoWrites]

Buries(x) ==
  /\ state[x] = "aborting" /\ state' = [state EXCEPT ![x] = "aborted"]
  /\ UNCHANGED <<seen, intent>>

StoreStep ==
  \/ \E x \in Xids : /\ Publishes(x) /\ Committed' = [r \in Rows |-> Overlay(x, Committed, r)]
  \/ /\ Committed' = Committed
     /\ \/ UNCHANGED <<state, seen, intent>>
        \/ \E x \in Xids : Opens(x) \/ Refreshes(x) \/ Records(x) \/ Stops(x) \/ Buries(x)

LEMMA NextSnap ==
  ASSUME MvccInv, SnapInv, Orderly(load), [Next]_vars
  PROVE  MvccInv' /\ SnapInv' /\ StoreStep
<1>a. MvccInv'
  BY NextInv
<1> SUFFICES SnapInv' /\ StoreStep
  BY <1>a
<1>b. TypeInv
  BY DEF MvccInv
<1>1. CASE UNCHANGED vars
  BY <1>a, <1>1, StutterSnap DEF vars, txnVars, histVars, StoreStep
<1>2. CASE Next
  <2>a. Step /\ UNCHANGED load
    BY <1>2 DEF Next
  <2>1. ASSUME NEW x \in Xids, NEW lvl \in load.isolations, Begin(x, lvl)
        PROVE  SnapInv' /\ StoreStep
    <3>1. SnapInv' /\ Committed' = Committed
      BY <1>a, <2>a, <2>1, BeginSnap
    <3>2. state[x] = "unborn"
      BY <1>b, <2>1, XidFacts DEF TypeInv, Begin
    <3>3. Opens(x)
      BY <2>1, <3>2 DEF Begin, Opens
    <3> QED BY <3>1, <3>3 DEF StoreStep
  <2>2. ASSUME NEW x \in Xids, NEW path \in load.paths, Statement(x, path)
        PROVE  SnapInv' /\ StoreStep
    <3>1. SnapInv' /\ Committed' = Committed
      BY <1>a, <2>a, <2>2, StatementSnap
    <3>2. Refreshes(x) \/ UNCHANGED <<state, seen, intent>>
      BY <2>2 DEF Statement, Refreshes
    <3> QED BY <3>1, <3>2 DEF StoreStep
  <2>3. ASSUME NEW x \in Xids, InsertRow(x) PROVE SnapInv' /\ StoreStep
    BY <2>a, <2>3, InsertRowSnap DEF StoreStep
  <2>4. ASSUME NEW x \in Xids, LockRow(x) PROVE SnapInv' /\ StoreStep
    BY <1>a, <2>a, <2>4, LockRowSnap DEF StoreStep
  <2>5. ASSUME NEW x \in Xids, DeleteStamp(x) PROVE SnapInv' /\ StoreStep
    BY <2>a, <2>5, DeleteStampSnap DEF StoreStep
  <2>6. ASSUME NEW x \in Xids, HotUpdate(x) PROVE SnapInv' /\ StoreStep
    BY <2>a, <2>6, HotUpdateSnap DEF StoreStep
  <2>7. ASSUME NEW x \in Xids, HotXpageCheck(x) PROVE SnapInv' /\ StoreStep
    <3>1. SnapInv' /\ Committed' = Committed
      BY <1>a, <2>a, <2>7, StageSnap
    <3>2. UNCHANGED <<state, seen, intent>>
      BY <2>7 DEF HotXpageCheck, txnVars, histVars
    <3> QED BY <3>1, <3>2 DEF StoreStep
  <2>8. ASSUME NEW x \in Xids, HotXpageLink(x) PROVE SnapInv' /\ StoreStep
    BY <2>a, <2>8, HotXpageLinkSnap DEF StoreStep
  <2>9. ASSUME NEW x \in Xids, StampNext(x) PROVE SnapInv' /\ StoreStep
    BY <2>a, <2>9, StampNextSnap DEF StoreStep
  <2>10. ASSUME NEW x \in Xids, InsertNext(x) PROVE SnapInv' /\ StoreStep
    BY <2>a, <2>10, InsertNextSnap DEF StoreStep
  <2>11. ASSUME NEW x \in Xids, Conflict(x) \/ Rollback(x) PROVE SnapInv' /\ StoreStep
    BY <1>a, <2>a, <2>11, ConflictSnap DEF StoreStep
  <2>12. ASSUME NEW x \in Xids, Commit(x) PROVE SnapInv' /\ StoreStep
    <3>1. SnapInv' /\ Committed' = [r \in Rows |-> Overlay(x, Committed, r)]
      BY <1>a, <2>a, <2>12, CommitSnap
    <3>2. Publishes(x)
      BY <2>12 DEF Commit, Forget, Publishes
    <3> QED BY <3>1, <3>2 DEF StoreStep
  <2>13. ASSUME NEW x \in Xids, Undo(x) PROVE SnapInv' /\ StoreStep
    <3>1. SnapInv' /\ Committed' = Committed
      BY <1>a, <2>a, <2>13, UndoSnap
    <3>2. UNCHANGED <<state, seen, intent>>
      BY <2>13 DEF Undo, txnVars, histVars
    <3> QED BY <3>1, <3>2 DEF StoreStep
  <2>14. ASSUME NEW x \in Xids, AbortDone(x) PROVE SnapInv' /\ StoreStep
    <3>1. SnapInv' /\ Committed' = Committed
      BY <1>a, <2>a, <2>14, AbortDoneSnap
    <3>2. Buries(x)
      BY <2>14 DEF AbortDone, Forget, histVars, Buries
    <3> QED BY <3>1, <3>2 DEF StoreStep
  <2>15. ASSUME NEW x \in Xids, ReleaseLocks(x) PROVE SnapInv' /\ StoreStep
    <3>1. SnapInv' /\ Committed' = Committed
      BY <1>a, <2>a, <2>15, ReleaseLocksSnap
    <3>2. UNCHANGED <<state, seen, intent>>
      BY <2>15 DEF ReleaseLocks, txnVars, histVars
    <3> QED BY <3>1, <3>2 DEF StoreStep
  <2>16. CASE ReaderOpen \/ ReaderClose
    <3>1. SnapInv' /\ Committed' = Committed
      BY <1>a, <2>a, <2>16, ReaderOpenSnap
    <3>2. UNCHANGED <<state, seen, intent>>
      BY <2>16 DEF ReaderOpen, ReaderClose, txnVars, histVars
    <3> QED BY <3>1, <3>2 DEF StoreStep
  <2>17. CASE VacuumStart \/ VacuumCollect
    <3>1. SnapInv' /\ Committed' = Committed
      BY <1>a, <2>a, <2>17, VacuumStartSnap
    <3>2. UNCHANGED <<state, seen, intent>>
      BY <2>17 DEF VacuumStart, VacuumCollect, txnVars, histVars
    <3> QED BY <3>1, <3>2 DEF StoreStep
  <2>18. CASE VacuumMark \/ VacuumCompact
    <3>1. SnapInv' /\ Committed' = Committed
      BY <1>a, <2>a, <2>18, SweepSnap
    <3>2. UNCHANGED <<state, seen, intent>>
      BY <2>18 DEF VacuumMark, VacuumCompact, txnVars, histVars
    <3> QED BY <3>1, <3>2 DEF StoreStep
  <2> QED BY <2>a, <2>1, <2>2, <2>3, <2>4, <2>5, <2>6, <2>7, <2>8, <2>9, <2>10, <2>11, <2>12,
             <2>13, <2>14, <2>15, <2>16, <2>17, <2>18, Zenon DEF Step
<1> QED BY <1>1, <1>2

LEMMA SnapHolds == Spec => [](Orderly(load) => MvccInv /\ SnapInv)
<1>1. Init => (Orderly(load) => MvccInv /\ SnapInv)
  BY InitInv, InitSnap
<1>2. (Orderly(load) => MvccInv /\ SnapInv) /\ [Next]_vars
        => (Orderly(load) => MvccInv /\ SnapInv)'
  <2> SUFFICES ASSUME Orderly(load) => MvccInv /\ SnapInv, [Next]_vars, Orderly(load)'
               PROVE  MvccInv' /\ SnapInv'
    OBVIOUS
  <2>1. load' = load
    BY DEF Next, vars
  <2>2. Orderly(load)
    BY <2>1 DEF Orderly
  <2> QED BY <2>2, NextSnap
<1> QED BY <1>1, <1>2, PTL DEF Spec

\* txn.rs and heap.rs, is_visible_hinted: whatever the other transactions, their
\* rollbacks and vacuum do, between two statements a transaction sees exactly the
\* rows committed when its snapshot was taken, with its own writes over them, and
\* every version a registered reader saw is still there.  For every number of
\* rows, xids, slots and undo steps, under every orderly workload.
THEOREM ReadsAreExact == Spec => [](Orderly(load) => ReadsExact)
<1>1. ASSUME MvccInv, SnapInv PROVE SnapshotReads
  <2> SUFFICES ASSUME NEW x \in Xids, state[x] = "active", op[x] = Idle
               PROVE  View(snap[x], x) = [r \in Rows |-> Overlay(x, seen[x], r)]
    BY DEF SnapshotReads, Overlay
  <2>1. ActiveOf(x)
    BY <1>1 DEF SnapInv, OpenOK
  <2>2. \A i \in Slots : ~Superseded(x, i) /\ ~Unlinked(x, i)
    BY DEF Superseded, Unlinked, Idle
  <2>3. ASSUME NEW r \in Rows
        PROVE  {ver[i].xmin : i \in VisibleSlots(r, snap[x], x)} = Overlay(x, seen[x], r)
    <3>1. Read(x, r) = Overlay(x, seen[x], r)
      BY <2>1, <2>2 DEF ActiveOf, ReadsAt, Replacing
    <3>2. VisibleSlots(r, snap[x], x)
            = {j \in Slots : ver[j].row = r /\ Sees(x, j) /\ ~Unlinked(x, j)}
      BY <2>2 DEF VisibleSlots, Sees
    <3> QED BY <3>1, <3>2 DEF Read
  <2> QED BY <2>3 DEF View
<1>2. SnapInv => ReaderVersionsKept
  BY DEF SnapInv, ReaderOK, ReaderVersionsKept
<1>3. MvccInv /\ SnapInv => ReadsExact
  BY <1>1, <1>2 DEF ReadsExact
<1> QED BY <1>3, SnapHolds, PTL

----------------------------------------------------------------------------
(* The refinement *)

Status(x) == CASE state[x] = "unborn" -> "unborn"
               [] state[x] = "active" -> "open"
               [] OTHER               -> "closed"

LEMMA InitMaps == Init => Snapshots!Init
<1> SUFFICES ASSUME Init PROVE Snapshots!Init
  OBVIOUS
<1>1. Committed \in [Rows -> SUBSET Xids]
  BY InitInv, InitSnap, CommittedType DEF SnapInv
<1>2. [x \in Xids |-> Status(x)] \in [Xids -> {"unborn", "closed"}]
  BY DEF Init, Status
<1>3. seen = [x \in Xids |-> NoRows] /\ intent = [x \in Xids |-> NoWrites]
  BY DEF Init
<1> QED BY <1>1, <1>2, <1>3 DEF Snapshots!Init, Snapshots!NoRows, Snapshots!NoWrites,
                             NoRows, NoWrites, Status

LEMMA StepMaps ==
  ASSUME TypeInv, StoreStep
  PROVE  [Snapshots!Next]_(Snapshots!vars)
<1> DEFINE status == [x \in Xids |-> Status(x)]
<1>a. state \in [Xids -> {"unborn", "active", "aborting", "committed", "aborted"}]
  BY DEF TypeInv
<1>b. ASSUME NEW x \in Xids, NEW s, state' = [state EXCEPT ![x] = s]
      PROVE  status' = [status EXCEPT ![x] = IF s = "unborn" THEN "unborn"
                                             ELSE IF s = "active" THEN "open" ELSE "closed"]
  BY <1>a, <1>b DEF Status
<1>c. state' = state => status' = status
  BY DEF Status
<1>d. \A x \in Xids : /\ state[x] = "unborn" => status[x] = "unborn"
                      /\ state[x] = "active" => status[x] = "open"
                      /\ state[x] = "aborting" => status[x] = "closed"
  BY DEF Status
<1>1. ASSUME NEW x \in Xids, Publishes(x),
             Committed' = [r \in Rows |-> Overlay(x, Committed, r)]
      PROVE  Snapshots!Commit(x)
  <2>a. state[x] = "active" /\ state' = [state EXCEPT ![x] = "committed"]
    BY <1>1 DEF Publishes
  <2>b. status' = [status EXCEPT ![x] = IF "committed" = "unborn" THEN "unborn"
                              ELSE IF "committed" = "active" THEN "open" ELSE "closed"]
    BY <1>b, <2>a, Zenon
  <2>c. status[x] = "open"
    BY <1>d, <2>a
  <2>1. status[x] = "open" /\ status' = [status EXCEPT ![x] = "closed"]
    BY <2>b, <2>c
  <2> QED BY <1>1, <2>1 DEF Publishes, Overlay, Status, Snapshots!Commit, Snapshots!Close,
                            Snapshots!NoRows, Snapshots!NoWrites, NoRows, NoWrites
<1>2. ASSUME NEW x \in Xids, Opens(x), Committed' = Committed PROVE Snapshots!Begin(x)
  <2>1. status[x] = "unborn" /\ status' = [status EXCEPT ![x] = "open"]
    BY <1>b, <1>d, <1>2 DEF Opens
  <2> QED BY <1>2, <2>1 DEF Opens, Status, Snapshots!Begin
<1>3. ASSUME NEW x \in Xids, Refreshes(x), Committed' = Committed PROVE Snapshots!Refresh(x)
  <2>1. status[x] = "open" /\ status' = status
    BY <1>c, <1>d, <1>3 DEF Refreshes
  <2> QED BY <1>3, <2>1 DEF Refreshes, Status, Snapshots!Refresh
<1>4. ASSUME NEW x \in Xids, Records(x), Committed' = Committed
      PROVE  \E R \in SUBSET Rows, w \in {"put", "delete"} : Snapshots!Write(x, R, w)
  <2>1. PICK r \in Rows, w \in {"put", "delete"} :
          /\ state[x] = "active" /\ Committed[r] = seen[x][r]
          /\ \A y \in Xids \ {x} : intent[y][r] = "keep"
          /\ intent' = [intent EXCEPT ![x] = [q \in Rows |-> IF q = r THEN w ELSE intent[x][q]]]
          /\ UNCHANGED <<state, seen>>
    BY <1>4 DEF Records
  <2>2. status[x] = "open" /\ status' = status
    BY <1>c, <1>d, <2>1
  <2>3. [q \in Rows |-> IF q = r THEN w ELSE intent[x][q]]
          = [q \in Rows |-> IF q \in {r} THEN w ELSE intent[x][q]]
    OBVIOUS
  <2>4. Snapshots!Write(x, {r}, w)
    BY <1>4, <2>1, <2>2, <2>3 DEF Status, Snapshots!Write
  <2> QED BY <2>4
<1>5. ASSUME NEW x \in Xids, Stops(x), Committed' = Committed PROVE Snapshots!Abort(x)
  <2>1. status[x] = "open" /\ status' = [status EXCEPT ![x] = "closed"]
    BY <1>b, <1>d, <1>5 DEF Stops, StartAbort
  <2> QED BY <1>5, <2>1 DEF Stops, StartAbort, Status, Snapshots!Abort, Snapshots!Close,
                            Snapshots!NoRows, Snapshots!NoWrites, NoRows, NoWrites
<1>6. ASSUME NEW x \in Xids, Buries(x), Committed' = Committed
      PROVE  UNCHANGED Snapshots!vars
  <2>1. status' = [status EXCEPT ![x] = "closed"] /\ status[x] = "closed"
    BY <1>b, <1>d, <1>6 DEF Buries
  <2>2. status' = status
    BY <2>1
  <2> QED BY <1>6, <2>2 DEF Buries, Status, Snapshots!vars
<1>7. ASSUME UNCHANGED <<state, seen, intent>>, Committed' = Committed
      PROVE  UNCHANGED Snapshots!vars
  BY <1>c, <1>7 DEF Status, Snapshots!vars
<1> QED BY <1>1, <1>2, <1>3, <1>4, <1>5, <1>6, <1>7 DEF StoreStep, Snapshots!Next

\* txn.rs and heap.rs together: versions, stamps, undo logs, row locks and vacuum
\* implement the store of SnapshotStore.  The rows a new reader sees change only
\* when a transaction commits, by exactly its writes; a write is recorded only on
\* a row that nobody has changed since the writer's snapshot and nobody else has
\* a write on.  For every number of rows, xids, slots and undo steps, under every
\* orderly workload.
THEOREM VersionsImplementSnapshots == Spec /\ Orderly(load) => SnapshotIsolation
<1>1. Orderly(load) /\ [Next]_vars => Orderly(load)'
  <2> SUFFICES ASSUME Orderly(load), [Next]_vars PROVE Orderly(load)'
    OBVIOUS
  <2>1. load' = load
    BY DEF Next, vars
  <2> QED BY <2>1 DEF Orderly
<1>2. MvccInv /\ SnapInv /\ Orderly(load) /\ [Next]_vars => [Snapshots!Next]_(Snapshots!vars)
  BY NextSnap, StepMaps DEF MvccInv
<1> QED BY <1>1, <1>2, InitMaps, SnapHolds, PTL DEF Spec, SnapshotIsolation, Snapshots!Spec
=============================================================================
