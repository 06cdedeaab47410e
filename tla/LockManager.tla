---------------------------- MODULE LockManager ----------------------------
(***************************************************************************)
(* The blocking lock manager of src/lockmgr.rs: shared/exclusive locks on  *)
(* records, a Wait / NoWait policy, a Condvar on which blocked requests    *)
(* park, and deadlock detection over a wait-for graph.                     *)
(*                                                                         *)
(* One action is one critical section of the mutex around `LockTable`.     *)
(* `release_all` is two actions, because it drops the mutex before it      *)
(* calls notify_all: another thread may run between the two.               *)
(*                                                                         *)
(* A transaction is driven by one thread at a time (an HTTP session takes  *)
(* its busy mutex for every request, server/txn_session.rs), so a          *)
(* transaction that is parked takes no other step.  Xids are never reused. *)
(***************************************************************************)
EXTENDS Naturals

CONSTANTS Xids,      \* transactions
          Ids,       \* lockable records: rows, unique keys, FK keys
          NoReq      \* "this transaction has no request outstanding"

Modes    == {"Shared", "Exclusive"}
Requests == [id : Ids, mode : Modes]

ASSUME NoReqAssumption == NoReq \notin Requests

VARIABLES
  held,       \* LockEntry.holders: the mode each xid holds on each record
  queue,      \* LockEntry.queue; no code reads its order, so a set
  entries,    \* keys of LockTable.locks
  waitsFor,   \* LockTable.waits_for; no entry and an empty set are the same
  pc,         \* where each transaction's thread is
  req         \* the request a parked or woken thread is still trying to get

vars == <<held, queue, entries, waitsFor, pc, req>>

(***************************************************************************)
(* running    executing statements, holds no request                       *)
(* parked     inside Condvar::wait                                         *)
(* woken      notified, has not yet retaken the mutex                      *)
(* notifying  release_all has dropped the mutex, notify_all is still to do *)
(* ended      committed or aborted                                         *)
(***************************************************************************)
PCs == {"running", "parked", "woken", "notifying", "ended"}

TypeOK ==
  /\ held \in [Ids -> [Xids -> Modes \cup {"none"}]]
  /\ queue \in [Ids -> SUBSET Xids]
  /\ entries \in SUBSET Ids
  /\ waitsFor \in [Xids -> SUBSET Xids]
  /\ pc \in [Xids -> PCs]
  /\ req \in [Xids -> Requests \cup {NoReq}]
  /\ \A x \in Xids : pc[x] \in {"parked", "woken"} <=> req[x] # NoReq

Init ==
  /\ held = [i \in Ids |-> [x \in Xids |-> "none"]]
  /\ queue = [i \in Ids |-> {}]
  /\ entries = {}
  /\ waitsFor = [x \in Xids |-> {}]
  /\ pc = [x \in Xids |-> "running"]
  /\ req = [x \in Xids |-> NoReq]

----------------------------------------------------------------------------
(* LockTable's helpers *)

\* Mutant: a request conflicts with exclusive holders only.
ExclusiveBlockers(i, x, m) == {h \in Xids \ {x} : held[i][h] = "Exclusive"}

\* The other holders of i that keep x from holding it in mode m.
Blockers(i, x, m) ==
  {h \in Xids \ {x} : IF m = "Exclusive" THEN held[i][h] # "none"
                                         ELSE held[i][h] = "Exclusive"}

CanGrant(i, x, m) == Blockers(i, x, m) = {}

\* Does following the edges of wf from start lead back to start?  The DFS of
\* has_cycle visits the least set that holds start's successors and is closed
\* under wf; start is in it iff it is in every such set.
HasCycle(wf, start) ==
  \A S \in SUBSET Xids :
    (wf[start] \subseteq S /\ \A y \in S : wf[y] \subseteq S) => start \in S

\* Mutant: entries are never dropped.
GcNothing(es, hd, q) == es

\* Drop the entries that nobody holds and nobody waits on.
Gc(es, hd, q) ==
  {i \in es : q[i] # {} \/ \E x \in Xids : hd[i][x] # "none"}

\* Condvar::notify_one, for the mutant of release_all below.
NotifyOne(p) ==
  IF \E x \in Xids : p[x] = "parked"
    THEN [p EXCEPT ![CHOOSE x \in Xids : p[x] = "parked"] = "woken"]
    ELSE p

\* Condvar::notify_all: every parked thread is made ready to retake the mutex.
NotifyAll(p) == [x \in Xids |-> IF p[x] = "parked" THEN "woken" ELSE p[x]]

\* The mode x has on i after a grant of m: S becomes X in place, X never shrinks.
Granted(i, x, m) ==
  IF m = "Exclusive" \/ held[i][x] = "none" THEN m ELSE held[i][x]

----------------------------------------------------------------------------
(* One pass of acquire's loop, for a request by x of mode m on i *)

\* Mutant: a grant does not notify the waiters whose blockers it changes.
GrantQuietly(x, i, m) ==
  /\ CanGrant(i, x, m)
  /\ held' = [held EXCEPT ![i][x] = Granted(i, x, m)]
  /\ queue' = [queue EXCEPT ![i] = @ \ {x}]
  /\ entries' = entries \cup {i}
  /\ waitsFor' = [waitsFor EXCEPT ![x] = {}]
  /\ pc' = [pc EXCEPT ![x] = "running"]
  /\ req' = [req EXCEPT ![x] = NoReq]

Grant(x, i, m) ==
  /\ CanGrant(i, x, m)
  /\ held' = [held EXCEPT ![i][x] = Granted(i, x, m)]
  /\ queue' = [queue EXCEPT ![i] = @ \ {x}]
  /\ entries' = entries \cup {i}
  /\ waitsFor' = [waitsFor EXCEPT ![x] = {}]
  /\ pc' = NotifyAll([pc EXCEPT ![x] = "running"])
  /\ req' = [req EXCEPT ![x] = NoReq]

\* WaitPolicy::Wait and the record is not free: park behind its holders.
Park(x, i, m) ==
  LET wf == [waitsFor EXCEPT ![x] = Blockers(i, x, m)] IN
  /\ ~CanGrant(i, x, m)
  /\ ~HasCycle(wf, x)
  /\ waitsFor' = wf
  /\ queue' = [queue EXCEPT ![i] = @ \cup {x}]
  /\ entries' = entries \cup {i}
  /\ pc' = [pc EXCEPT ![x] = "parked"]
  /\ req' = [req EXCEPT ![x] = [id |-> i, mode |-> m]]
  /\ UNCHANGED held

\* Parking would close a cycle: back out and return DbError::Deadlock.
Victim(x, i, m) ==
  /\ ~CanGrant(i, x, m)
  /\ HasCycle([waitsFor EXCEPT ![x] = Blockers(i, x, m)], x)
  /\ queue' = [queue EXCEPT ![i] = @ \ {x}]
  /\ waitsFor' = [waitsFor EXCEPT ![x] = {}]
  /\ entries' = Gc(entries, held, queue')
  /\ pc' = NotifyAll([pc EXCEPT ![x] = "running"])
  /\ req' = [req EXCEPT ![x] = NoReq]
  /\ UNCHANGED held

----------------------------------------------------------------------------
(* The operations *)

\* acquire: the first pass of the loop.  With NoWait only Grant changes the
\* table; a conflict returns WriteConflict and leaves everything as it is.
Acquire(x, i, m) ==
  /\ pc[x] = "running"
  /\ Grant(x, i, m) \/ Park(x, i, m) \/ Victim(x, i, m)

\* acquire: a later pass, after cvar.wait returned.
Recheck(x) ==
  /\ pc[x] = "woken"
  /\ LET i == req[x].id
         m == req[x].mode
     IN  Grant(x, i, m) \/ Park(x, i, m) \/ Victim(x, i, m)

\* Condvar::wait may return without a notification.
SpuriousWake(x) ==
  /\ pc[x] = "parked"
  /\ pc' = [pc EXCEPT ![x] = "woken"]
  /\ UNCHANGED <<held, queue, entries, waitsFor, req>>

\* try_acquire_write_many: every record of `is` or none, and no notify_all.
TryAcquireWriteMany(x, is) ==
  /\ pc[x] = "running"
  /\ is # {}
  /\ \A i \in is : CanGrant(i, x, "Exclusive")
  /\ held' = [i \in Ids |-> IF i \in is THEN [held[i] EXCEPT ![x] = "Exclusive"]
                                        ELSE held[i]]
  /\ queue' = [i \in Ids |-> IF i \in is THEN queue[i] \ {x} ELSE queue[i]]
  /\ entries' = entries \cup is
  /\ waitsFor' = [waitsFor EXCEPT ![x] = {}]
  /\ UNCHANGED <<pc, req>>

\* release_all, under the mutex: called once, by commit or abort.
ReleaseAll(x) ==
  /\ pc[x] = "running"
  /\ held' = [i \in Ids |-> [held[i] EXCEPT ![x] = "none"]]
  /\ queue' = [i \in Ids |-> queue[i] \ {x}]
  /\ entries' = Gc(entries, held', queue')
  /\ waitsFor' = [y \in Xids |-> IF y = x THEN {} ELSE waitsFor[y] \ {x}]
  /\ pc' = [pc EXCEPT ![x] = "notifying"]
  /\ UNCHANGED req

\* Mutant: release_all returns without notify_all.
ReleaseSilently(x) ==
  /\ pc[x] = "notifying"
  /\ pc' = [pc EXCEPT ![x] = "ended"]
  /\ UNCHANGED <<held, queue, entries, waitsFor, req>>

\* Mutant: release_all wakes one waiter.
ReleaseNotifiesOne(x) ==
  /\ pc[x] = "notifying"
  /\ pc' = NotifyOne([pc EXCEPT ![x] = "ended"])
  /\ UNCHANGED <<held, queue, entries, waitsFor, req>>

\* release_all, after the mutex is dropped.
ReleaseNotify(x) ==
  /\ pc[x] = "notifying"
  /\ pc' = NotifyAll([pc EXCEPT ![x] = "ended"])
  /\ UNCHANGED <<held, queue, entries, waitsFor, req>>

\* Every transaction is over: the system may stop.
Finished ==
  /\ \A x \in Xids : pc[x] = "ended"
  /\ UNCHANGED vars

Next ==
  \/ \E x \in Xids, i \in Ids, m \in Modes : Acquire(x, i, m)
  \/ \E x \in Xids : Recheck(x) \/ SpuriousWake(x)
  \/ \E x \in Xids, is \in SUBSET Ids : TryAcquireWriteMany(x, is)
  \/ \E x \in Xids : ReleaseAll(x) \/ ReleaseNotify(x)
  \/ Finished

Spec == Init /\ [][Next]_vars

\* A notified thread gets the mutex, release_all's caller reaches notify_all,
\* and an open transaction that is not blocked is ended by its client or, when
\* the client is gone, aborted by the idle-session reaper.
Fairness ==
  \A x \in Xids :
    WF_vars(Recheck(x)) /\ WF_vars(ReleaseAll(x)) /\ WF_vars(ReleaseNotify(x))

FairSpec == Spec /\ Fairness

----------------------------------------------------------------------------
(* Properties *)

Waiting(x) == pc[x] \in {"parked", "woken"}

NotifyPending == \E x \in Xids : pc[x] = "notifying"

\* LockManager.holders: an exclusive holder of a record is its only holder,
\* whatever grants, upgrades and batch acquisitions led there.
MutualExclusion ==
  \A i \in Ids, x, y \in Xids :
    held[i][x] = "Exclusive" /\ x # y => held[i][y] = "none"

\* A set of transactions each of which waits, along g, for another of the set.
Stuck(S, g) == S # {} /\ \A x \in S : g[x] \cap S # {}

\* has_cycle's comment: "the graph is acyclic before this call", although
\* woken waiters keep edges computed from holders that have changed since.
GraphAcyclic == \A S \in SUBSET Xids : ~Stuck(S, waitsFor)

\* The transactions that really keep x from its outstanding request.
BlockedOn(x) ==
  IF Waiting(x) THEN Blockers(req[x].id, x, req[x].mode) ELSE {}

\* acquire/release_all: a wait-for edge never names a transaction that no
\* longer blocks the waiter, so a transaction is chosen as a deadlock victim
\* only when a real cycle exists.
EdgesAreReal == \A x \in Xids : waitsFor[x] \subseteq BlockedOn(x)

\* acquire: a request that has become grantable is not left parked, unless
\* the notify_all that will wake it is already on its way.
NoLostWakeup ==
  \A x \in Xids : pc[x] = "parked" /\ BlockedOn(x) = {} => NotifyPending

\* The deadlock detector misses nothing: no set of parked transactions waits
\* for one another with nobody left to wake one of them up.
NoSilentDeadlock ==
  ~NotifyPending =>
     \A S \in SUBSET {x \in Xids : pc[x] = "parked"} :
        ~Stuck(S, [x \in Xids |-> BlockedOn(x)])

\* gc: the table has an entry exactly for the records that are held or waited
\* on, and a transaction that ended is in none of them, so it does not grow.
NoTableLeak ==
  /\ entries = {i \in Ids : queue[i] # {} \/ \E x \in Xids : held[i][x] # "none"}
  /\ \A x \in Xids, i \in Ids :
       /\ x \in queue[i] <=> (Waiting(x) /\ req[x].id = i)
       /\ pc[x] \in {"notifying", "ended"} => held[i][x] = "none"

\* acquire/release_all: a blocked request is eventually granted or refused.
WaitersReturn == \A x \in Xids : Waiting(x) ~> ~Waiting(x)
============================================================================
