------------------------- MODULE ParallelScanProofs -------------------------
(***************************************************************************)
(* Proofs about ParallelScan for any queries, pages, pool size and degree. *)
(*                                                                         *)
(* JobLifetime is not inductive: the caller goes on when `finished` has    *)
(* reached `degree`, and only a count relates that to the threads.  The    *)
(* strengthening says whom `finished` counts, the threads that joined this *)
(* generation and came back, and whom the lease counter does not: the      *)
(* workers of the scans between acquire and drop.                          *)
(***************************************************************************)
EXTENDS ParallelScan, FiniteSetTheorems, TLAPS

ScanFields   == {"pc", "degree", "cursor", "stop", "err", "total", "parts", "result"}
WorkerFields == {"pc", "gen", "job", "unit", "local"}
ScanPCs   == {"start", "enter", "giveback", "serial", "wait", "merge", "done"}
WorkerPCs == {"wait", "take", "read", "push", "finish"}

\* The parts of the state that the control of the pool depends on.
ControlTypes ==
  /\ available \in Nat
  /\ pool \in [gen : Nat, degree : 0 .. PoolSize, job : Scans \cup {NoScan}, finished : Nat]
  /\ entry \in Scans \cup {NoScan}
  /\ DOMAIN scan = Scans
  /\ \A s \in Scans : /\ DOMAIN scan[s] = ScanFields
                      /\ scan[s].pc \in ScanPCs
                      /\ scan[s].degree \in 0 .. PoolSize
  /\ DOMAIN worker = Threads
  /\ \A w \in Threads : /\ DOMAIN worker[w] = WorkerFields
                        /\ worker[w].pc \in WorkerPCs
                        /\ worker[w].gen \in Nat
                        /\ worker[w].gen <= pool.gen

\* run_in_pool: the scan that waits for its workers is the one in the lock.
EntryHeld == \A s \in Scans : scan[s].pc = "wait" <=> entry = s

\* The threads of this generation, and those that are through with its job.
Joined   == {w \in Threads : w < pool.degree /\ worker[w].gen = pool.gen}
Returned == {w \in Joined : worker[w].pc = "wait"}

\* worker_main: a thread at work has joined the generation of the scan in the
\* lock and runs its job.
WorkersOwned ==
  \A w \in Threads : worker[w].pc # "wait" =>
     entry \in Scans /\ worker[w].job = entry /\ w \in Joined

\* run_in_pool, worker_main: `finished` counts the threads that came back, and
\* between two jobs no thread below the degree has a generation to catch up on.
FinishedCounted ==
  /\ entry \in Scans => pool.job = entry /\ pool.finished = Cardinality(Returned)
  /\ entry = NoScan => \A w \in Threads : w < pool.degree => w \in Joined

\* The workers that scans hold, each with its number within the lease.
Leased == {"enter", "giveback", "wait", "merge"}
Leases == {l \in Scans \X (1 .. PoolSize) :
             scan[l[1]].pc \in Leased /\ l[2] <= scan[l[1]].degree}

\* take_from_pool and the lease's drop: the counter misses exactly the leases.
LeasesCounted == IsFiniteSet(Leases) /\ available + Cardinality(Leases) = PoolSize

PoolInv == /\ ControlTypes
           /\ EntryHeld
           /\ WorkersOwned
           /\ FinishedCounted
           /\ LeasesCounted

----------------------------------------------------------------------------
(* Counting *)

\* A lease of d workers counts d.
LEMMA LeaseSize ==
  ASSUME NEW s, NEW d \in Nat
  PROVE  /\ IsFiniteSet({s} \X (1 .. d))
         /\ Cardinality({s} \X (1 .. d)) = d
<1> DEFINE f == [i \in 1 .. d |-> <<s, i>>]
           T == {s} \X (1 .. d)
<1>1. f \in Bijection(1 .. d, T)
  <2>1. f \in [1 .. d -> T]
    OBVIOUS
  <2>2. \A i, j \in 1 .. d : f[i] = f[j] => i = j
    OBVIOUS
  <2>3. \A t \in T : \E i \in 1 .. d : f[i] = t
    OBVIOUS
  <2> HIDE DEF f, T
  <2> QED
    BY <2>1, <2>2, <2>3 DEF Bijection, Injection, Surjection, IsInjective
<1>2. IsFiniteSet(1 .. d) /\ Cardinality(1 .. d) = d
  BY FS_Interval
<1>3. ExistsBijection(1 .. d, T)
  BY <1>1 DEF ExistsBijection
<1> QED
  BY <1>2, <1>3, FS_Bijection

\* Two disjoint finite sets count together.
LEMMA DisjointUnion ==
  ASSUME NEW S, NEW T, IsFiniteSet(S), IsFiniteSet(T), S \cap T = {}
  PROVE  /\ IsFiniteSet(S \cup T)
         /\ Cardinality(S \cup T) = Cardinality(S) + Cardinality(T)
<1>1. Cardinality(S) \in Nat /\ Cardinality(T) \in Nat /\ Cardinality({}) = 0
  BY FS_CardinalityType, FS_EmptySet
<1>2. /\ IsFiniteSet(S \cup T)
      /\ Cardinality(S \cup T) =
           Cardinality(S) + Cardinality(T) - Cardinality(S \cap T)
  BY FS_Union
<1>3. Cardinality(S \cap T) = 0
  BY <1>1, Zenon
<1> QED
  BY <1>1, <1>2, <1>3

\* The pool's threads and every set of them are finite.
LEMMA ThreadsFinite ==
  ASSUME NEW S \in SUBSET Threads
  PROVE  IsFiniteSet(S) /\ Cardinality(S) \in Nat
<1>1. IsFiniteSet(Threads)
  BY PoolAssumption, FS_Interval DEF Threads
<1> QED
  BY <1>1, FS_Subset, FS_CardinalityType

\* degree_for and warm_degree ask for a number of workers.
LEMMA WantedIsNat == ASSUME NEW s \in Scans PROVE Wanted(s) \in Nat
BY PoolAssumption, ScanAssumption DEF Wanted, WarmDegree, DegreeFor, Least

----------------------------------------------------------------------------
(* Steps of the threads *)

\* What the control of the pool sees of a scan is as before.
ScanControlKept ==
  /\ DOMAIN scan' = Scans
  /\ \A s \in Scans : /\ DOMAIN scan'[s] = ScanFields
                      /\ scan'[s].pc = scan[s].pc
                      /\ scan'[s].degree = scan[s].degree

\* Only the thread w moves, within its generation.
OnlyWorker(w, pc) ==
  /\ DOMAIN worker' = Threads
  /\ \A u \in Threads : u # w => worker'[u] = worker[u]
  /\ DOMAIN worker'[w] = WorkerFields
  /\ worker'[w].pc = pc /\ worker'[w].gen = worker[w].gen

\* The leases depend on the scans' places and degrees only.
LEMMA LeasesKept ==
  ASSUME PoolInv, ScanControlKept, UNCHANGED available
  PROVE  LeasesCounted'
<1>1. Leases' = Leases
  BY DEF Leases, ScanControlKept
<1> QED
  BY <1>1 DEF PoolInv, LeasesCounted

\* A thread at work takes a unit, reads it or hands in its part.
LEMMA BusyStep ==
  ASSUME PoolInv, NEW w \in Threads, worker[w].pc # "wait",
         NEW pc \in WorkerPCs \ {"wait"}, OnlyWorker(w, pc),
         worker'[w].job = worker[w].job,
         ScanControlKept, UNCHANGED <<available, pool, entry>>
  PROVE  PoolInv'
<1>1. /\ \A u \in Threads : worker'[u].gen = worker[u].gen /\ worker'[u].job = worker[u].job
      /\ \A u \in Threads : worker'[u].pc = "wait" <=> worker[u].pc = "wait"
  BY DEF OnlyWorker
<1>2. ControlTypes'
  BY <1>1 DEF PoolInv, ControlTypes, ScanControlKept, OnlyWorker
<1>3. EntryHeld'
  BY DEF PoolInv, EntryHeld, ScanControlKept
<1>4. Joined' = Joined /\ Returned' = Returned
  BY <1>1 DEF Joined, Returned
<1>5. WorkersOwned'
  BY <1>1, <1>4 DEF PoolInv, WorkersOwned
<1>6. FinishedCounted'
  BY <1>4 DEF PoolInv, FinishedCounted
<1>7. LeasesCounted'
  BY LeasesKept
<1> QED
  BY <1>2, <1>3, <1>5, <1>6, <1>7 DEF PoolInv

\* worker_main: joining a generation, or noting it.
LEMMA WakeInv ==
  ASSUME PoolInv, NEW w \in Threads, Wake(w)
  PROVE  PoolInv'
<1>1. /\ DOMAIN worker' = Threads
      /\ \A u \in Threads : u # w => worker'[u] = worker[u]
      /\ DOMAIN worker'[w] = WorkerFields /\ worker'[w].gen = pool.gen
      /\ worker'[w].pc = IF w < pool.degree THEN "take" ELSE "wait"
      /\ worker'[w].job = IF w < pool.degree THEN pool.job ELSE NoScan
  BY DEF PoolInv, ControlTypes, Wake, WorkerFields
<1>2. /\ UNCHANGED <<available, pool, entry, scan>>
      /\ worker[w].pc = "wait" /\ worker[w].gen # pool.gen
  BY DEF Wake
<1>3. w < pool.degree => entry \in Scans /\ pool.job = entry
  BY <1>2 DEF PoolInv, ControlTypes, FinishedCounted, Joined
<1>4. ControlTypes'
  BY <1>1, <1>2 DEF PoolInv, ControlTypes, WorkerPCs
<1>5. EntryHeld'
  BY <1>2 DEF PoolInv, EntryHeld
<1>6. \A u \in Threads : u \in Joined => u \in Joined' /\ u # w
  BY <1>1, <1>2 DEF Joined
<1>7. WorkersOwned'
  BY <1>1, <1>2, <1>3, <1>6 DEF PoolInv, WorkersOwned, Joined
<1>8. Returned' = Returned
  BY <1>1, <1>2 DEF Returned, Joined
<1>9. FinishedCounted'
  BY <1>2, <1>6, <1>8 DEF PoolInv, FinishedCounted
<1>10. LeasesCounted'
  BY <1>2, LeasesKept DEF PoolInv, ControlTypes, ScanControlKept
<1> QED
  BY <1>4, <1>5, <1>7, <1>9, <1>10 DEF PoolInv

\* worker_main: the thread counts itself as finished.
LEMMA FinishInv ==
  ASSUME PoolInv, NEW w \in Threads, Finish(w)
  PROVE  PoolInv'
<1>1. /\ DOMAIN worker' = Threads
      /\ \A u \in Threads : u # w => worker'[u] = worker[u]
      /\ DOMAIN worker'[w] = WorkerFields /\ worker'[w].gen = worker[w].gen
      /\ worker'[w].pc = "wait"
  BY DEF PoolInv, ControlTypes, Finish, WorkerFields
<1>2. UNCHANGED <<available, entry, scan>> /\ worker[w].pc = "finish"
  BY DEF Finish
<1>3. /\ pool' \in [gen : Nat, degree : 0 .. PoolSize, job : Scans \cup {NoScan}, finished : Nat]
      /\ pool'.gen = pool.gen /\ pool'.degree = pool.degree /\ pool'.job = pool.job
      /\ pool'.finished = pool.finished + 1
  BY DEF PoolInv, ControlTypes, Finish, CountsFinished
<1>4. ControlTypes'
  BY <1>1, <1>2, <1>3 DEF PoolInv, ControlTypes, WorkerPCs
<1>5. EntryHeld'
  BY <1>2 DEF PoolInv, EntryHeld
<1>6. w \in Joined /\ entry \in Scans
  BY <1>2 DEF PoolInv, WorkersOwned
<1>7. Joined' = Joined
  BY <1>1, <1>3 DEF Joined
<1>8. WorkersOwned'
  BY <1>1, <1>2, <1>7 DEF PoolInv, WorkersOwned
<1>9. Returned' = Returned \cup {w} /\ w \notin Returned
  BY <1>1, <1>2, <1>6, <1>7 DEF Returned, Joined
<1>10. IsFiniteSet(Returned) /\ Cardinality(Returned) \in Nat
  BY ThreadsFinite DEF Returned, Joined
<1>11. Cardinality(Returned \cup {w}) = Cardinality(Returned) + 1
  BY <1>9, <1>10, FS_AddElement
<1>12. FinishedCounted'
  <2>1. pool.job = entry /\ pool.finished = Cardinality(Returned) /\ entry # NoScan
    BY <1>6, ScanAssumption DEF PoolInv, FinishedCounted
  <2> QED
    BY <1>2, <1>3, <1>9, <1>11, <2>1 DEF FinishedCounted
<1>13. LeasesCounted'
  BY <1>2, LeasesKept DEF PoolInv, ControlTypes, ScanControlKept
<1> QED
  BY <1>4, <1>5, <1>8, <1>12, <1>13 DEF PoolInv

\* next_unit: the cursor moves, or the thread is through.
LEMMA NextUnitInv ==
  ASSUME PoolInv, NEW w \in Threads, NextUnit(w)
  PROVE  PoolInv'
<1> DEFINE s == worker[w].job
<1>1. worker[w].pc = "take" /\ s \in Scans /\ UNCHANGED <<available, pool, entry>>
  BY DEF PoolInv, WorkersOwned, NextUnit
<1>2. scan' = scan \/ scan' = [scan EXCEPT ![s].cursor = scan[s].cursor + 1]
  BY DEF NextUnit
<1>3. ScanControlKept
  <2>1. CASE scan' = scan
    BY <2>1 DEF PoolInv, ControlTypes, ScanControlKept
  <2>2. CASE scan' = [scan EXCEPT ![s].cursor = scan[s].cursor + 1]
    BY <1>1, <2>2 DEF PoolInv, ControlTypes, ScanControlKept, ScanFields
  <2> QED
    BY <1>2, <2>1, <2>2
<1>4. \/ worker' = [worker EXCEPT ![w].pc = "push"]
      \/ worker' = [worker EXCEPT ![w].pc = "read", ![w].unit = scan[s].cursor]
  BY DEF NextUnit
<1>5. \E pc \in WorkerPCs \ {"wait"} : OnlyWorker(w, pc) /\ worker'[w].job = worker[w].job
  <2>1. CASE worker' = [worker EXCEPT ![w].pc = "push"]
    <3>1. OnlyWorker(w, "push") /\ worker'[w].job = worker[w].job
      BY <2>1 DEF PoolInv, ControlTypes, OnlyWorker, WorkerFields
    <3> QED
      BY <3>1 DEF WorkerPCs
  <2>2. CASE worker' = [worker EXCEPT ![w].pc = "read", ![w].unit = scan[s].cursor]
    <3>1. OnlyWorker(w, "read") /\ worker'[w].job = worker[w].job
      BY <2>2 DEF PoolInv, ControlTypes, OnlyWorker, WorkerFields
    <3> QED
      BY <3>1 DEF WorkerPCs
  <2> QED
    BY <1>4, <2>1, <2>2
<1> QED
  BY <1>1, <1>3, <1>5, BusyStep

\* The job's body: a unit is visited, or it fails and stops the others.
LEMMA ReadUnitInv ==
  ASSUME PoolInv, NEW w \in Threads, ReadUnit(w)
  PROVE  PoolInv'
<1> DEFINE s == worker[w].job
           page == Pages(s)[worker[w].unit]
<1>1. worker[w].pc = "read" /\ s \in Scans /\ UNCHANGED <<available, pool, entry>>
  BY DEF PoolInv, WorkersOwned, ReadUnit
<1>2. \/ /\ \E n : scan' = [scan EXCEPT ![s].total = n]
         /\ \E local : worker' = [worker EXCEPT ![w].pc = "take", ![w].local = local]
      \/ /\ scan' = [scan EXCEPT ![s].err = TRUE, ![s].stop = TRUE]
         /\ worker' = [worker EXCEPT ![w].pc = "push"]
  BY DEF ReadUnit
<1>3. CASE scan' = [scan EXCEPT ![s].err = TRUE, ![s].stop = TRUE]
           /\ worker' = [worker EXCEPT ![w].pc = "push"]
  <2>1. ScanControlKept
    BY <1>1, <1>3 DEF PoolInv, ControlTypes, ScanControlKept, ScanFields
  <2>2. OnlyWorker(w, "push") /\ worker'[w].job = worker[w].job
    BY <1>3 DEF PoolInv, ControlTypes, OnlyWorker, WorkerFields
  <2> QED
    BY <1>1, <2>1, <2>2, BusyStep DEF WorkerPCs
<1>4. ASSUME NEW n, NEW local, scan' = [scan EXCEPT ![s].total = n],
             worker' = [worker EXCEPT ![w].pc = "take", ![w].local = local]
      PROVE  PoolInv'
  <2>1. ScanControlKept
    BY <1>1, <1>4 DEF PoolInv, ControlTypes, ScanControlKept, ScanFields
  <2>2. OnlyWorker(w, "take") /\ worker'[w].job = worker[w].job
    BY <1>4 DEF PoolInv, ControlTypes, OnlyWorker, WorkerFields
  <2> QED
    BY <1>1, <2>1, <2>2, BusyStep DEF WorkerPCs
<1> QED
  BY <1>2, <1>3, <1>4

\* The end of the job's body: the thread's own part joins the scan's.
LEMMA PushPartInv ==
  ASSUME PoolInv, NEW w \in Threads, PushPart(w)
  PROVE  PoolInv'
<1> DEFINE s == worker[w].job
           local == worker[w].local
<1>1. worker[w].pc = "push" /\ s \in Scans /\ UNCHANGED <<available, pool, entry>>
  BY DEF PoolInv, WorkersOwned, PushPart
<1>2. \/ scan' = scan
      \/ \E p : scan' = [scan EXCEPT ![s].parts = p]
      \/ \E n : scan' = [scan EXCEPT ![s].total = n]
  <2>1. CASE kind[s] \in {"collect", "group"}
    BY <2>1 DEF PushPart
  <2>2. CASE kind[s] \notin {"collect", "group"} /\ kind[s] = "count_matching" /\ local # <<>>
    BY <2>2 DEF PushPart
  <2>3. CASE kind[s] \notin {"collect", "group"} /\ ~(kind[s] = "count_matching" /\ local # <<>>)
    BY <2>3 DEF PushPart
  <2> QED
    BY <2>1, <2>2, <2>3
<1>3. ScanControlKept
  <2>1. CASE scan' = scan
    BY <2>1 DEF PoolInv, ControlTypes, ScanControlKept
  <2>2. ASSUME NEW p, scan' = [scan EXCEPT ![s].parts = p] PROVE ScanControlKept
    BY <1>1, <2>2 DEF PoolInv, ControlTypes, ScanControlKept, ScanFields
  <2>3. ASSUME NEW n, scan' = [scan EXCEPT ![s].total = n] PROVE ScanControlKept
    BY <1>1, <2>3 DEF PoolInv, ControlTypes, ScanControlKept, ScanFields
  <2> QED
    BY <1>2, <2>1, <2>2, <2>3
<1>4. OnlyWorker(w, "finish") /\ worker'[w].job = worker[w].job
  BY DEF PushPart, PoolInv, ControlTypes, OnlyWorker, WorkerFields
<1> QED
  BY <1>1, <1>3, <1>4, BusyStep DEF WorkerPCs

----------------------------------------------------------------------------
(* Steps of the scans *)

\* Only the scan s moves, to pc and with d workers.
OnlyScan(s, pc, d) ==
  /\ DOMAIN scan' = Scans
  /\ \A r \in Scans : r # s => scan'[r] = scan[r]
  /\ DOMAIN scan'[s] = ScanFields
  /\ scan'[s].pc = pc /\ scan'[s].degree = d

\* The pool's side when a scan moves outside of it.
LEMMA OutsidePool ==
  ASSUME PoolInv, NEW s \in Scans, NEW pc \in ScanPCs \ {"wait"},
         NEW d \in 0 .. PoolSize, OnlyScan(s, pc, d), scan[s].pc # "wait",
         available' \in Nat, UNCHANGED <<pool, entry, worker>>
  PROVE  ControlTypes' /\ EntryHeld' /\ WorkersOwned' /\ FinishedCounted'
<1>1. ControlTypes'
  BY DEF PoolInv, ControlTypes, OnlyScan
<1>2. EntryHeld'
  BY DEF PoolInv, EntryHeld, OnlyScan
<1>3. Joined' = Joined /\ Returned' = Returned
  BY DEF Joined, Returned
<1> QED
  BY <1>1, <1>2, <1>3 DEF PoolInv, WorkersOwned, FinishedCounted

\* The leases of one scan, and what a step of it does to them.
LEMMA LeasesOf ==
  ASSUME PoolInv, NEW s \in Scans, NEW pc \in ScanPCs, NEW d \in 0 .. PoolSize,
         OnlyScan(s, pc, d)
  PROVE  LET Rest == {l \in Leases : l[1] # s}
             Mine == IF scan[s].pc \in Leased THEN {s} \X (1 .. scan[s].degree) ELSE {}
             Next == IF pc \in Leased THEN {s} \X (1 .. d) ELSE {}
         IN  /\ Leases = Rest \cup Mine /\ Leases' = Rest \cup Next
             /\ Rest \cap Mine = {} /\ Rest \cap Next = {}
<1> DEFINE Rest == {l \in Leases : l[1] # s}
           Mine == IF scan[s].pc \in Leased THEN {s} \X (1 .. scan[s].degree) ELSE {}
           Next == IF pc \in Leased THEN {s} \X (1 .. d) ELSE {}
<1>1. scan[s].degree \in 0 .. PoolSize
  BY DEF PoolInv, ControlTypes
<1>2. Leases = Rest \cup Mine
  BY <1>1, PoolAssumption DEF Leases
<1>3. Leases' = Rest \cup Next
  BY PoolAssumption DEF Leases, OnlyScan
<1>4. Rest \cap Mine = {} /\ Rest \cap Next = {}
  OBVIOUS
<1> QED
  BY <1>2, <1>3, <1>4

\* The counter moves by what the scan's lease loses or gains.
LEMMA LeasesMove ==
  ASSUME PoolInv, NEW s \in Scans, NEW pc \in ScanPCs, NEW d \in 0 .. PoolSize,
         OnlyScan(s, pc, d),
         available' = available + (IF scan[s].pc \in Leased THEN scan[s].degree ELSE 0)
                                - (IF pc \in Leased THEN d ELSE 0)
  PROVE  LeasesCounted'
<1> DEFINE Rest == {l \in Leases : l[1] # s}
           Mine == IF scan[s].pc \in Leased THEN {s} \X (1 .. scan[s].degree) ELSE {}
           Next == IF pc \in Leased THEN {s} \X (1 .. d) ELSE {}
           old == IF scan[s].pc \in Leased THEN scan[s].degree ELSE 0
           new == IF pc \in Leased THEN d ELSE 0
<1>1. /\ Leases = Rest \cup Mine /\ Leases' = Rest \cup Next
      /\ Rest \cap Mine = {} /\ Rest \cap Next = {}
  BY LeasesOf
<1>2. scan[s].degree \in Nat /\ d \in Nat /\ available \in Nat /\ PoolSize \in Nat
  BY PoolAssumption DEF PoolInv, ControlTypes
<1>3. IsFiniteSet(Leases) /\ available + Cardinality(Leases) = PoolSize
  BY DEF PoolInv, LeasesCounted
<1>4. IsFiniteSet(Rest) /\ Cardinality(Rest) \in Nat
  BY <1>3, FS_Subset, FS_CardinalityType
<1>5. IsFiniteSet(Mine) /\ Cardinality(Mine) = old
  BY <1>2, LeaseSize, FS_EmptySet
<1>6. IsFiniteSet(Next) /\ Cardinality(Next) = new
  BY <1>2, LeaseSize, FS_EmptySet
<1> HIDE DEF Rest, Mine, Next
<1>7. IsFiniteSet(Rest \cup Mine) /\ Cardinality(Rest \cup Mine) = Cardinality(Rest) + Cardinality(Mine)
  BY <1>1, <1>4, <1>5, DisjointUnion
<1>8. IsFiniteSet(Rest \cup Next) /\ Cardinality(Rest \cup Next) = Cardinality(Rest) + Cardinality(Next)
  BY <1>1, <1>4, <1>6, DisjointUnion
<1>9. available' = available + old - new
  OBVIOUS
<1>10. Cardinality(Leases) = Cardinality(Rest) + old
  BY <1>1, <1>5, <1>7
<1>11. IsFiniteSet(Leases') /\ Cardinality(Leases') = Cardinality(Rest) + new
  BY <1>1, <1>6, <1>8
<1>12. old \in Nat /\ new \in Nat
  BY <1>2
<1> HIDE DEF old, new
<1>13. available' + Cardinality(Leases') = PoolSize
  BY <1>2, <1>3, <1>4, <1>9, <1>10, <1>11, <1>12
<1> QED
  BY <1>11, <1>13 DEF LeasesCounted

\* The counter never exceeds the pool.
LEMMA AvailableBounded == ASSUME PoolInv PROVE available \in 0 .. PoolSize
<1>1. Cardinality(Leases) \in Nat
  BY FS_CardinalityType DEF PoolInv, LeasesCounted
<1> QED
  BY <1>1, PoolAssumption DEF PoolInv, ControlTypes, LeasesCounted

\* take_from_pool: the grant leaves the counter in the same step.
LEMMA AcquireInv ==
  ASSUME PoolInv, NEW s \in Scans, Acquire(s)
  PROVE  PoolInv'
<1> DEFINE granted == TakeFromPool(Wanted(s))
           pc == CASE granted >= 2 -> "enter" [] granted = 1 -> "giveback" [] OTHER -> "serial"
<1>1. granted \in 0 .. PoolSize /\ granted <= available /\ available \in Nat
  BY WantedIsNat, AvailableBounded, PoolAssumption DEF TakeFromPool, Least
<1>2. /\ scan[s].pc = "start" /\ available' = available - granted
      /\ scan' = [scan EXCEPT ![s].degree = granted, ![s].pc = pc]
      /\ UNCHANGED <<pool, entry, worker>>
  BY DEF Acquire
<1>3. /\ pc \in {"enter", "giveback", "serial"}
      /\ pc \notin Leased => granted = 0
  BY <1>1 DEF Leased
<1> HIDE DEF granted, pc
<1>4. OnlyScan(s, pc, granted)
  BY <1>2 DEF PoolInv, ControlTypes, OnlyScan, ScanFields
<1>5. pc \in ScanPCs \ {"wait"}
  BY <1>3 DEF ScanPCs
<1>6. available' = available + (IF scan[s].pc \in Leased THEN scan[s].degree ELSE 0)
                             - (IF pc \in Leased THEN granted ELSE 0)
  BY <1>1, <1>2, <1>3 DEF Leased
<1>7. available' \in Nat
  BY <1>1, <1>2
<1> QED
  BY <1>1, <1>2, <1>4, <1>5, <1>6, <1>7, LeasesMove, OutsidePool DEF PoolInv

\* acquire returns a single worker.
LEMMA GiveBackInv ==
  ASSUME PoolInv, NEW s \in Scans, GiveBack(s)
  PROVE  PoolInv'
<1>1. available \in Nat /\ scan[s].degree \in Nat /\ 0 \in 0 .. PoolSize
  BY PoolAssumption DEF PoolInv, ControlTypes
<1>2. /\ scan[s].pc = "giveback" /\ available' = available + scan[s].degree
      /\ UNCHANGED <<pool, entry, worker>>
  BY DEF GiveBack
<1>3. OnlyScan(s, "serial", 0)
  BY DEF GiveBack, PoolInv, ControlTypes, OnlyScan, ScanFields
<1>4. available' = available + (IF scan[s].pc \in Leased THEN scan[s].degree ELSE 0)
                             - (IF "serial" \in Leased THEN 0 ELSE 0)
  BY <1>1, <1>2 DEF Leased
<1>5. "serial" \in ScanPCs \ {"wait"} /\ available' \in Nat
  BY <1>1, <1>2 DEF ScanPCs
<1> QED
  BY <1>1, <1>2, <1>3, <1>4, <1>5, LeasesMove, OutsidePool DEF PoolInv

\* A scan without workers has no lease and does not touch the pool.
LEMMA SerialInv ==
  ASSUME PoolInv, NEW s \in Scans, Serial(s)
  PROVE  PoolInv'
<1>1. available \in Nat /\ scan[s].degree \in 0 .. PoolSize
  BY DEF PoolInv, ControlTypes
<1>2. scan[s].pc = "serial" /\ UNCHANGED <<available, pool, entry, worker>>
  BY DEF Serial
<1>3. \/ \E r : scan' = [scan EXCEPT ![s].pc = "done", ![s].result = r]
      \/ scan' = [scan EXCEPT ![s].pc = "done", ![s].err = TRUE]
  BY DEF Serial
<1>4. OnlyScan(s, "done", scan[s].degree)
  <2>1. ASSUME NEW r, scan' = [scan EXCEPT ![s].pc = "done", ![s].result = r]
        PROVE  OnlyScan(s, "done", scan[s].degree)
    BY <2>1 DEF PoolInv, ControlTypes, OnlyScan, ScanFields
  <2>2. CASE scan' = [scan EXCEPT ![s].pc = "done", ![s].err = TRUE]
    BY <2>2 DEF PoolInv, ControlTypes, OnlyScan, ScanFields
  <2> QED
    BY <1>3, <2>1, <2>2
<1>5. available' = available + (IF scan[s].pc \in Leased THEN scan[s].degree ELSE 0)
                             - (IF "done" \in Leased THEN scan[s].degree ELSE 0)
  BY <1>1, <1>2 DEF Leased
<1>6. "done" \in ScanPCs \ {"wait"} /\ available' \in Nat
  BY <1>1, <1>2 DEF ScanPCs
<1> QED
  BY <1>1, <1>2, <1>4, <1>5, <1>6, LeasesMove, OutsidePool DEF PoolInv

\* Dropping the lease returns its workers.
LEMMA MergeInv ==
  ASSUME PoolInv, NEW s \in Scans, Merge(s)
  PROVE  PoolInv'
<1>1. available \in Nat /\ scan[s].degree \in 0 .. PoolSize
  BY DEF PoolInv, ControlTypes
<1>2. /\ scan[s].pc = "merge" /\ available' = available + scan[s].degree
      /\ UNCHANGED <<pool, entry, worker>>
  BY DEF Merge, DropLease
<1>3. OnlyScan(s, "done", scan[s].degree)
  BY DEF Merge, PoolInv, ControlTypes, OnlyScan, ScanFields
<1>4. available' = available + (IF scan[s].pc \in Leased THEN scan[s].degree ELSE 0)
                             - (IF "done" \in Leased THEN scan[s].degree ELSE 0)
  BY <1>1, <1>2 DEF Leased
<1>5. "done" \in ScanPCs \ {"wait"} /\ available' \in Nat
  BY <1>1, <1>2 DEF ScanPCs
<1> QED
  BY <1>1, <1>2, <1>3, <1>4, <1>5, LeasesMove, OutsidePool DEF PoolInv

\* run_in_pool posts a job: nobody has joined the new generation yet.
LEMMA RunInPoolInv ==
  ASSUME PoolInv, NEW s \in Scans, RunInPool(s)
  PROVE  PoolInv'
<1>1. /\ scan[s].pc = "enter" /\ entry = NoScan /\ entry' = s
      /\ pool' = [gen |-> pool.gen + 1, degree |-> Least(scan[s].degree, PoolSize),
                  job |-> s, finished |-> 0]
      /\ UNCHANGED <<available, worker>>
  BY DEF RunInPool, Posted
<1>2. OnlyScan(s, "wait", scan[s].degree)
  BY DEF RunInPool, PoolInv, ControlTypes, OnlyScan, ScanFields
<1>3. pool.gen \in Nat /\ scan[s].degree \in 0 .. PoolSize /\ PoolSize \in Nat
  BY PoolAssumption DEF PoolInv, ControlTypes
<1>4. Least(scan[s].degree, PoolSize) \in 0 .. PoolSize
  BY <1>3 DEF Least
<1>5. \A w \in Threads : worker[w].gen \in Nat /\ worker[w].gen <= pool.gen
  BY DEF PoolInv, ControlTypes
<1>6. ControlTypes'
  <2>1. pool' \in [gen : Nat, degree : 0 .. PoolSize, job : Scans \cup {NoScan}, finished : Nat]
    BY <1>1, <1>3, <1>4
  <2>2. \A w \in Threads : worker[w].gen <= pool'.gen
    BY <1>1, <1>3, <1>5
  <2> QED
    BY <1>1, <1>2, <1>3, <2>1, <2>2 DEF PoolInv, ControlTypes, OnlyScan, ScanPCs
<1>7. EntryHeld'
  BY <1>1, <1>2, ScanAssumption DEF PoolInv, EntryHeld, OnlyScan
<1>8. \A w \in Threads : worker[w].pc = "wait"
  BY <1>1, ScanAssumption DEF PoolInv, WorkersOwned
<1>9. WorkersOwned'
  BY <1>1, <1>8 DEF WorkersOwned
<1>10. Returned' = {}
  BY <1>1, <1>3, <1>5 DEF Returned, Joined
<1>11. FinishedCounted'
  <2>1. Cardinality({}) = 0
    BY FS_EmptySet
  <2> QED
    BY <1>1, <1>10, <2>1, ScanAssumption DEF FinishedCounted
<1>12. LeasesCounted'
  <2>1. available' = available + (IF scan[s].pc \in Leased THEN scan[s].degree ELSE 0)
                               - (IF "wait" \in Leased THEN scan[s].degree ELSE 0)
    BY <1>1, <1>3 DEF PoolInv, ControlTypes, Leased
  <2> QED
    BY <1>2, <1>3, <2>1, LeasesMove DEF ScanPCs
<1> QED
  BY <1>6, <1>7, <1>9, <1>11, <1>12 DEF PoolInv

\* run_in_pool goes on: the count says that every thread below the degree is
\* back, so none is left with the job.
LEMMA AllFinishedInv ==
  ASSUME PoolInv, NEW s \in Scans, AllFinished(s)
  PROVE  PoolInv'
<1>1. /\ scan[s].pc = "wait" /\ entry = s /\ pool.finished >= pool.degree
      /\ pool' = [pool EXCEPT !.job = NoScan] /\ entry' = NoScan
      /\ UNCHANGED <<available, worker>>
  BY DEF AllFinished
<1>2. OnlyScan(s, "merge", scan[s].degree)
  BY DEF AllFinished, PoolInv, ControlTypes, OnlyScan, ScanFields
<1>3. /\ pool' \in [gen : Nat, degree : 0 .. PoolSize, job : Scans \cup {NoScan}, finished : Nat]
      /\ pool'.gen = pool.gen /\ pool'.degree = pool.degree
  BY <1>1 DEF PoolInv, ControlTypes
<1>4. Returned = 0 .. pool.degree - 1
  <2>1. pool.degree \in 0 .. PoolSize /\ PoolSize \in Nat
    BY PoolAssumption DEF PoolInv, ControlTypes
  <2>2. IsFiniteSet(0 .. pool.degree - 1) /\ Cardinality(0 .. pool.degree - 1) = pool.degree
    <3>1. 0 \in Int /\ pool.degree - 1 \in Int
      BY <2>1
    <3>2. /\ IsFiniteSet(0 .. pool.degree - 1)
          /\ Cardinality(0 .. pool.degree - 1) =
               IF 0 > pool.degree - 1 THEN 0 ELSE pool.degree - 1 - 0 + 1
      BY <3>1, FS_Interval
    <3> QED
      BY <2>1, <3>2
  <2>3. Returned \in SUBSET (0 .. pool.degree - 1)
    BY <2>1 DEF Returned, Joined, Threads
  <2>4. pool.finished = Cardinality(Returned)
    BY <1>1 DEF PoolInv, FinishedCounted
  <2>5. Cardinality(Returned) <= pool.degree /\ Cardinality(Returned) \in Nat
    BY <2>2, <2>3, FS_Subset, FS_CardinalityType
  <2>6. Cardinality(Returned) = pool.degree
    BY <1>1, <2>1, <2>4, <2>5
  <2> QED
    BY <2>2, <2>3, <2>6, FS_Subset
<1>5. \A w \in Threads : w < pool.degree => w \in Returned
  BY <1>4 DEF Threads, PoolInv, ControlTypes
<1>6. \A w \in Threads : worker[w].pc = "wait"
  BY <1>5 DEF PoolInv, WorkersOwned, Joined, Returned
<1>7. ControlTypes'
  BY <1>1, <1>2, <1>3 DEF PoolInv, ControlTypes, OnlyScan, ScanPCs
<1>8. EntryHeld'
  BY <1>1, <1>2, ScanAssumption DEF PoolInv, EntryHeld, OnlyScan
<1>9. WorkersOwned'
  BY <1>1, <1>6 DEF WorkersOwned
<1>10. Joined' = Joined
  BY <1>1, <1>3 DEF Joined
<1>11. FinishedCounted'
  BY <1>1, <1>3, <1>5, <1>10, ScanAssumption DEF FinishedCounted, Returned
<1>12. LeasesCounted'
  <2>1. scan[s].degree \in 0 .. PoolSize /\ available \in Nat
    BY DEF PoolInv, ControlTypes
  <2>2. available' = available + (IF scan[s].pc \in Leased THEN scan[s].degree ELSE 0)
                               - (IF "merge" \in Leased THEN scan[s].degree ELSE 0)
    BY <1>1, <2>1 DEF Leased
  <2> QED
    BY <1>2, <2>1, <2>2, LeasesMove DEF ScanPCs
<1> QED
  BY <1>7, <1>8, <1>9, <1>11, <1>12 DEF PoolInv

----------------------------------------------------------------------------
(* The theorems *)

\* The pool before the first query.
LEMMA PoolInit == ParallelInit => PoolInv
<1> SUFFICES ASSUME ParallelInit PROVE PoolInv
  OBVIOUS
<1> USE PoolAssumption, ScanAssumption
<1>1. ControlTypes
  BY DEF ParallelInit, ControlTypes, ScanFields, WorkerFields, ScanPCs, WorkerPCs
<1>2. EntryHeld /\ WorkersOwned /\ FinishedCounted
  BY DEF ParallelInit, EntryHeld, WorkersOwned, FinishedCounted, Threads
<1>3. Leases = {}
  BY DEF ParallelInit, Leases, Leased
<1>4. LeasesCounted
  <2>1. available = PoolSize
    BY DEF ParallelInit
  <2> QED
    BY <1>3, <2>1, FS_EmptySet DEF LeasesCounted
<1> QED
  BY <1>1, <1>2, <1>4 DEF PoolInv

\* Every step of a scan or of a thread keeps the invariant.
LEMMA PoolStep == PoolInv /\ [ParallelNext]_parallelVars => PoolInv'
<1> SUFFICES ASSUME PoolInv, [ParallelNext]_parallelVars PROVE PoolInv'
  OBVIOUS
<1>1. CASE UNCHANGED parallelVars
  BY <1>1 DEF parallelVars, PoolInv, ControlTypes, EntryHeld, WorkersOwned,
     FinishedCounted, Joined, Returned, LeasesCounted, Leases
<1>2. ASSUME NEW s \in Scans, ScanStep(s) PROVE PoolInv'
  BY <1>2, AcquireInv, GiveBackInv, SerialInv, RunInPoolInv, AllFinishedInv, MergeInv
     DEF ScanStep
<1>3. ASSUME NEW w \in Threads, ThreadStep(w) PROVE PoolInv'
  BY <1>3, WakeInv, NextUnitInv, ReadUnitInv, PushPartInv, FinishInv DEF ThreadStep
<1> QED
  BY <1>1, <1>2, <1>3 DEF ParallelNext

\* The inductive invariant holds in every reachable state.
THEOREM PoolInvariance == ParallelSpec => []PoolInv
BY PoolInit, PoolStep, PTL DEF ParallelSpec

\* transmute_job_lifetime and guard.job.unwrap() in worker_main are sound, and
\* no worker is lost from the shared counter.
THEOREM JobsOutliveTheirThreads == ParallelSpec => []JobLifetime
<1>1. PoolInv => JobLifetime
  <2> SUFFICES ASSUME PoolInv PROVE JobLifetime
    OBVIOUS
  <2>1. \A w \in Threads : worker[w].pc # "wait" =>
          worker[w].job \in Scans /\ scan[worker[w].job].pc = "wait"
    BY DEF PoolInv, WorkersOwned, EntryHeld
  <2>2. WorkersReturned
    <3> SUFFICES ASSUME \A s \in Scans : scan[s].pc = "done" PROVE available = PoolSize
      BY DEF WorkersReturned
    <3>1. Leases = {}
      BY DEF Leases, Leased
    <3>2. Cardinality(Leases) = 0
      BY <3>1, FS_EmptySet
    <3> QED
      BY <3>2, PoolAssumption DEF PoolInv, LeasesCounted, ControlTypes
  <2> QED
    BY <2>1, <2>2 DEF JobLifetime
<1> QED
  BY <1>1, PoolInvariance, PTL

\* take_from_pool: the counter of free workers stays within the pool, so an
\* unsigned counter never wraps, whatever the scans ask for and return.
CounterInRange == available \in 0 .. PoolSize

\* The shared counter never leaves its range.
THEOREM CounterNeverWraps == ParallelSpec => []CounterInRange
<1>1. PoolInv => CounterInRange
  BY AvailableBounded DEF CounterInRange
<1> QED
  BY <1>1, PoolInvariance, PTL
=============================================================================
