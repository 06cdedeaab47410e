---------------------------- MODULE ParallelScan ----------------------------
(***************************************************************************)
(* Parallel scans (sql/parallel_scan.rs).  A fixed pool of threads runs    *)
(* the job of one scan at a time; the job borrows the scan's stack, so the *)
(* scan may not go on while a thread still runs it.  A scan first leases   *)
(* workers from a counter shared by all queries, then its workers draw     *)
(* units (pages, row ids or index partitions) from a shared cursor.        *)
(*                                                                         *)
(* A page is the sequence of the rows on it that the snapshot sees; a row  *)
(* is its grouping key, and the rows that match the predicate are those    *)
(* with Matches.  Counters of statistics, prefetching and the wrap of the  *)
(* 64-bit generation are left out.                                         *)
(***************************************************************************)
EXTENDS Integers, Sequences, FiniteSets, SequencesExt, FiniteSetsExt, Functions

CONSTANTS
  Scans,          \* the queries
  Pages(_),       \* the units of a scan
  Kinds,          \* what the scans are: functions from Scans to "count", "count_matching",
                  \* "collect", "group" and "warm"
  Faulty,         \* scans that may meet an unreadable page or their deadline
  Matches(_),     \* the predicate
  Cores, MaxWorkers, MinPages,  \* degree of a scan (MaxWorkers 0: as many as cores)
  PoolSize        \* threads of the pool, and the workers all scans may lease

NoScan == "none"

ASSUME PoolAssumption ==
  /\ {Cores, MaxWorkers, MinPages} \subseteq Nat
  /\ PoolSize \in Nat \ {0}
ASSUME ScanAssumption ==
  /\ NoScan \notin Scans
  /\ \A s \in Scans : Len(Pages(s)) \in Nat

VARIABLES
  kind,       \* what each scan is
  available,  \* AVAILABLE: workers not leased
  pool,       \* PoolState: [gen, degree, job, finished]
  entry,      \* the scan holding the entry lock, or NoScan
  scan,       \* scan -> [pc, degree, cursor, stop, err, total, parts, result]
  worker      \* thread -> [pc, gen, job, unit, local]

parallelVars == <<kind, available, pool, entry, scan, worker>>

Threads == 0..(PoolSize - 1)
Least(a, b) == IF a <= b THEN a ELSE b

ParallelInit ==
  /\ kind \in Kinds
  /\ available = PoolSize
  /\ pool = [gen |-> 0, degree |-> 0, job |-> NoScan, finished |-> 0]
  /\ entry = NoScan
  /\ scan = [s \in Scans |-> [pc |-> "start", degree |-> 0, cursor |-> 1, stop |-> FALSE, err |-> FALSE,
                              total |-> 0, parts |-> <<>>, result |-> <<>>]]
  /\ worker = [w \in Threads |-> [pc |-> "wait", gen |-> 0, job |-> NoScan, unit |-> 0, local |-> <<>>]]

(* degree_for: 0 when the scan is not worth it. *)
DegreeFor(n) ==
  LET cap == IF MaxWorkers = 0 THEN Cores ELSE Least(MaxWorkers, Cores)
      degree == Least(IF cap < 1 THEN 1 ELSE cap, n)
  IN IF n < MinPages \/ degree <= 1 THEN 0 ELSE degree
WarmDegree == IF Cores < 2 THEN 0 ELSE Least(Cores, 8)
Wanted(s) == IF kind[s] = "warm" THEN WarmDegree ELSE DegreeFor(Len(Pages(s)))

(* take_from_pool grants what is left; a single worker is no use and goes  *)
(* back.                                                                   *)
TakeFromPool(want) == Least(want, available)
Acquire(s) ==
  /\ scan[s].pc = "start"
  /\ LET granted == TakeFromPool(Wanted(s)) IN
     /\ available' = available - granted
     /\ scan' = [scan EXCEPT ![s].degree = granted,
                             ![s].pc = CASE granted >= 2 -> "enter" [] granted = 1 -> "giveback" [] OTHER -> "serial"]
  /\ UNCHANGED <<kind, pool, entry, worker>>
GiveBack(s) ==
  /\ scan[s].pc = "giveback"
  /\ available' = available + scan[s].degree
  /\ scan' = [scan EXCEPT ![s].degree = 0, ![s].pc = "serial"]
  /\ UNCHANGED <<kind, pool, entry, worker>>
-----------------------------------------------------------------------------
(* What a unit adds to the worker's own part, and how parts are merged. *)
Matching(page) == SelectSeq(page, Matches)
VisitAfresh(s, local, page) == IF kind[s] \in {"collect", "group"} THEN page ELSE local
Visit(s, local, page) ==
  CASE kind[s] = "collect" -> local \o Matching(page)
    [] kind[s] = "count_matching" -> <<(IF local = <<>> THEN 0 ELSE local[1]) + Len(Matching(page))>>
    [] kind[s] = "group" -> local \o page
    [] OTHER -> local
GroupCounts(rows) == {<<k, Cardinality({i \in DOMAIN rows : rows[i] = k})>> : k \in ToSet(rows)}
MergeParts(s, parts) ==
  CASE kind[s] = "collect" -> FlattenSeq(parts)
    [] kind[s] = "group" -> GroupCounts(FlattenSeq(parts))
    [] OTHER -> <<>>
ResultOf(s, total, parts) == IF kind[s] \in {"count", "count_matching"} THEN total ELSE MergeParts(s, parts)

(* Without workers the query scans on its own thread. *)
Serial(s) ==
  LET all == FlattenSeq(Pages(s))
      total == Len(IF kind[s] = "count" THEN all ELSE Matching(all))
  IN /\ scan[s].pc = "serial"
     /\ \/ scan' = [scan EXCEPT ![s].pc = "done", ![s].result = ResultOf(s, total, <<Visit(s, <<>>, all)>>)]
        \/ s \in Faulty /\ scan' = [scan EXCEPT ![s].pc = "done", ![s].err = TRUE]
     /\ UNCHANGED <<kind, available, pool, entry, worker>>
-----------------------------------------------------------------------------
(* run_in_pool: post the job under the entry lock, wait for the last       *)
(* worker, take the job away.  A lease never exceeds the pool, so the      *)
(* degree is at least 2.                                                   *)
Repost(s) == [pool EXCEPT !.gen = @ + 1, !.degree = Least(scan[s].degree, PoolSize), !.job = s]
Posted(s) == [gen |-> pool.gen + 1, degree |-> Least(scan[s].degree, PoolSize), job |-> s, finished |-> 0]
RunInPool(s) ==
  /\ scan[s].pc = "enter" /\ entry = NoScan
  /\ entry' = s
  /\ pool' = Posted(s)
  /\ scan' = [scan EXCEPT ![s].pc = "wait"]
  /\ UNCHANGED <<kind, available, worker>>
AllFinished(s) ==
  /\ scan[s].pc = "wait" /\ entry = s /\ pool.finished >= pool.degree
  /\ pool' = [pool EXCEPT !.job = NoScan]
  /\ entry' = NoScan
  /\ scan' = [scan EXCEPT ![s].pc = "merge"]
  /\ UNCHANGED <<kind, available, worker>>

(* The scan's answer; dropping the lease returns the workers. *)
DropLease(s) == available + scan[s].degree
Merge(s) ==
  /\ scan[s].pc = "merge"
  /\ scan' = [scan EXCEPT ![s].pc = "done",
                          ![s].result = IF scan[s].err THEN <<>> ELSE ResultOf(s, scan[s].total, scan[s].parts)]
  /\ available' = DropLease(s)
  /\ UNCHANGED <<kind, pool, entry, worker>>

(* worker_main: a thread that sees a new generation joins it if its number *)
(* is below the degree, and otherwise only notes it.                       *)
Wake(w) ==
  /\ worker[w].pc = "wait" /\ pool.gen # worker[w].gen
  /\ worker' = [worker EXCEPT ![w].gen = pool.gen,
                              ![w].pc = IF w < pool.degree THEN "take" ELSE "wait",
                              ![w].job = IF w < pool.degree THEN pool.job ELSE NoScan]
  /\ UNCHANGED <<kind, available, pool, entry, scan>>
NextUnit(w) ==
  LET s == worker[w].job
      i == scan[s].cursor
  IN /\ worker[w].pc = "take"
     /\ IF scan[s].stop \/ kind[s] = "warm" THEN UNCHANGED scan ELSE scan' = [scan EXCEPT ![s].cursor = i + 1]
     /\ worker' = IF scan[s].stop \/ kind[s] = "warm" \/ i > Len(Pages(s))
                  THEN [worker EXCEPT ![w].pc = "push"]
                  ELSE [worker EXCEPT ![w].pc = "read", ![w].unit = i]
     /\ UNCHANGED <<kind, available, pool, entry>>
ReadUnit(w) ==
  LET s == worker[w].job
      page == Pages(s)[worker[w].unit]
  IN /\ worker[w].pc = "read"
     /\ \/ /\ scan' = [scan EXCEPT ![s].total = @ + IF kind[s] = "count" THEN Len(page) ELSE 0]
           /\ worker' = [worker EXCEPT ![w].pc = "take", ![w].local = Visit(s, @, page)]
        \/ /\ s \in Faulty
           /\ scan' = [scan EXCEPT ![s].err = TRUE, ![s].stop = TRUE]
           /\ worker' = [worker EXCEPT ![w].pc = "push"]
     /\ UNCHANGED <<kind, available, pool, entry>>
PushPart(w) ==
  LET s == worker[w].job
      local == worker[w].local
  IN /\ worker[w].pc = "push"
     /\ scan' = CASE kind[s] \in {"collect", "group"} -> [scan EXCEPT ![s].parts = Append(@, local)]
                  [] kind[s] = "count_matching" /\ local # <<>> -> [scan EXCEPT ![s].total = @ + local[1]]
                  [] OTHER -> scan
     /\ worker' = [worker EXCEPT ![w].pc = "finish", ![w].local = <<>>, ![w].unit = 0]
     /\ UNCHANGED <<kind, available, pool, entry>>
CountsUnlessFailed(w) == IF scan[worker[w].job].err THEN 0 ELSE 1
CountsFinished(w) == 1
Finish(w) ==
  /\ worker[w].pc = "finish"
  /\ pool' = [pool EXCEPT !.finished = @ + CountsFinished(w)]
  /\ worker' = [worker EXCEPT ![w].pc = "wait", ![w].job = NoScan]
  /\ UNCHANGED <<kind, available, entry, scan>>

ScanStep(s) == Acquire(s) \/ GiveBack(s) \/ Serial(s) \/ RunInPool(s) \/ AllFinished(s) \/ Merge(s)
ThreadStep(w) == Wake(w) \/ NextUnit(w) \/ ReadUnit(w) \/ PushPart(w) \/ Finish(w)
ParallelNext == (\E s \in Scans : ScanStep(s)) \/ (\E w \in Threads : ThreadStep(w))
(* Threads and queries are scheduled by the operating system. *)
ParallelFairness == /\ \A s \in Scans : WF_parallelVars(ScanStep(s))
                    /\ \A w \in Threads : WF_parallelVars(ThreadStep(w))
ParallelSpec == ParallelInit /\ [][ParallelNext]_parallelVars /\ ParallelFairness
-----------------------------------------------------------------------------
(* What a scan of this kind is to return. *)
Expected(s) ==
  LET all == FlattenSeq(Pages(s)) IN
  CASE kind[s] = "count" -> Len(all)
    [] kind[s] = "count_matching" -> Len(Matching(all))
    [] kind[s] = "collect" -> GroupCounts(Matching(all))
    [] kind[s] = "group" -> GroupCounts(all)
    [] kind[s] = "warm" -> <<>>
(* A scan that reports no error has read every unit exactly once, however  *)
(* its workers, those of other scans and a late-waking thread interleave   *)
(* (parallel_count, parallel_count_matching, parallel_collect_matching,    *)
(* parallel_group_count); rows may come in any order.                      *)
ScanExact ==
  \A s \in Scans : scan[s].pc = "done" /\ ~scan[s].err =>
    Expected(s) = IF kind[s] = "collect" THEN GroupCounts(scan[s].result) ELSE scan[s].result

(* Every worker comes back to the shared counter (take_from_pool, the      *)
(* lease's drop, and the single worker acquire returns).                   *)
WorkersReturned ==
  (\A s \in Scans : scan[s].pc = "done") => available = PoolSize

(* No thread runs the job of a scan that has gone on: the lifetime         *)
(* transmute_job_lifetime erases is respected, a thread that joins a       *)
(* generation finds its job (guard.job.unwrap() in worker_main), and when  *)
(* all scans are over every worker is back.                                *)
JobLifetime ==
  /\ WorkersReturned
  /\ \A w \in Threads : worker[w].pc # "wait" => worker[w].job \in Scans /\ scan[worker[w].job].pc = "wait"

(* Every scan ends, after an error too, and the entry lock is passed on. *)
ScansEnd == \A s \in Scans : <>(scan[s].pc = "done")
=============================================================================
