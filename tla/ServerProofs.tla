---------------------------- MODULE ServerProofs ----------------------------
(***************************************************************************)
(* Proofs about Server for any requests, sessions, cron jobs and workloads.*)
(*                                                                         *)
(* A transaction is in use by at most one request that is still there: in  *)
(* a session that request holds the session's mutex, and outside one the   *)
(* transaction is in no registry.  From this follow that calls on one      *)
(* transaction are serialized, and that a transaction in which a statement *)
(* failed half way is never committed: its only user is about to roll it   *)
(* back.  A second invariant, on top of the first, follows each request's  *)
(* statements into its transaction and to the reply: what the server       *)
(* answers is true.                                                        *)
(***************************************************************************)
EXTENDS Server, FiniteSetTheorems, SequenceTheorems, TLAPS

ReqFields == {"pc", "in", "x", "i", "slots", "reply"}
JobFields == {"op", "x", "plans", "k", "st", "saved", "left", "out"}
Acting    == {"exec", "commit", "abort"}
OneShotKinds == {"begin", "rest", "cron", "admin", "batch", "rpc"}

\* What WorkloadsAssumption says of one input.
InputOK(in) ==
  /\ DOMAIN in = {"kind", "user", "target", "script", "ser", "stop"}
  /\ in.kind \in OneShotKinds => in.target = 0
  /\ in.kind = "cron" => in.user \in CronJobs
  /\ in.kind = "get" => in.script[1].op = "get"

\* A request that is still there has a call, running or returned, on x.
Uses(r, x) == req[r].pc # "gone" /\ job[r].op # "none" /\ job[r].x = x

\* on_engine: the call a waiting handler waits for.
CallOf(pc) == IF pc = "reabort" THEN "abort" ELSE pc

\* on_engine and its callers: which call each handler waits for, and on which
\* transaction; a call whose handler is gone works on a transaction in cut.
CallOK(r) ==
  /\ DOMAIN req[r] = ReqFields
  /\ req[r].pc \in {"new", "slot", "done", "gone"} \cup Waiting
  /\ req[r].pc # "new" => InputOK(req[r].in)
  /\ req[r].pc = "slot" => req[r].in.kind = "batch"
  /\ req[r].pc \in {"new", "slot", "done"} => job[r].op = "none"
  /\ req[r].pc \in Waiting => job[r].op = CallOf(req[r].pc)
  /\ req[r].pc = "edit" => req[r].in.kind = "admin"
  /\ req[r].pc = "begin" => req[r].in.kind # "get"
  /\ req[r].pc = "reabort" => req[r].in.kind # "cron"
  /\ job[r].op # "none" => DOMAIN job[r] = JobFields /\ job[r].op \in {"begin", "edit"} \cup Acting
  /\ job[r].op # "none" /\ req[r].pc = "gone" => job[r].out = "none"
  /\ job[r].op \in Acting =>
       job[r].x \in Xids /\ (IF req[r].pc = "gone" THEN job[r].x \in cut ELSE req[r].x = job[r].x)
  /\ job[r].op = "begin" => IF job[r].out = "ok" THEN job[r].x \in Xids ELSE job[r].x = 0
  /\ job[r].op = "edit" => job[r].x = 0
  /\ req[r].pc \in Waiting /\ InSession(r) =>
       req[r].pc \notin {"begin", "edit"} /\ req[r].x = req[r].in.target
  /\ req[r].pc = "exec" /\ req[r].in.kind = "get" => Plan(r).op = "get" /\ job[r].st = "start"
  /\ job[r].op = "exec" /\ job[r].st \in {"flip", "restore", "swap"} => Plan(r).op \notin Raw

CallsOK ==
  /\ load \in Workloads
  /\ DOMAIN req = Reqs /\ DOMAIN job = Reqs
  /\ \A r \in Reqs : CallOK(r)

\* TxnSessions: a request in a session holds its mutex, any other transaction
\* in use is in no registry, and no transaction is in use by two requests.
OwnersOK ==
  /\ DOMAIN txn = Xids /\ DOMAIN sess = Xids /\ DOMAIN busy = Xids
  /\ \A x \in Xids : DOMAIN txn[x] = {"st", "writes", "ser"}
  /\ idle \subseteq Xids
  /\ \A x \in Xids : x \in reaping => busy[x] = Reaper
  /\ \A x \in Xids : txn[x].st = "free" => sess[x] = NoOne /\ x \notin reaping
  /\ \A r \in Reqs, x \in Xids : Uses(r, x) =>
       /\ txn[x].st # "free"
       /\ InSession(r) => busy[x] = r
       /\ ~InSession(r) => sess[x] = NoOne /\ x \notin reaping
  /\ \A r, q \in Reqs, x \in Xids : Uses(r, x) /\ Uses(q, x) => r = q

\* run_due, run_one: a run of a job in flight, and one that has ended.
LiveRun(r, j) ==
  /\ req[r].pc \notin {"new", "gone", "done"}
  /\ req[r].in.kind = "cron" /\ req[r].in.user = j
EndedRun(r, j) ==
  req[r].pc = "done" /\ req[r].in.kind = "cron" /\ req[r].in.user = j

\* CronState: the guard of a job is set exactly while its one run is in flight.
CronOK ==
  /\ DOMAIN cron = CronJobs
  /\ \A j \in CronJobs :
       /\ DOMAIN cron[j] = {"running", "last"} /\ cron[j].running \in BOOLEAN
       /\ \A r, q \in Reqs : LiveRun(r, j) /\ LiveRun(q, j) => r = q
       /\ cron[j].running <=> \E r \in Reqs : LiveRun(r, j)
       /\ cron[j].last # "none" => \E r \in Reqs : EndedRun(r, j) /\ req[r].reply = cron[j].last

\* The call has failed, or its transaction is to be rolled back: the call may
\* have returned, in vain.
Failing(r) ==
  \/ /\ job[r].op = "exec" /\ req[r].in.kind # "get"
     /\ (job[r].out = "none" /\ job[r].st \in {"restore", "swap"}) \/ job[r].out = "err"
  \/ job[r].op = "abort"

\* TransactionManager::abort failed: the transaction is still active, and out
\* of everybody's reach.
Abandoned(x) == sess[x] = NoOne /\ \A r \in Reqs : ~Uses(r, x)

RollsBack(x) == Abandoned(x) \/ \E r \in Reqs : Uses(r, x) /\ Failing(r)

Part(x) == \E w \in txn[x].writes : w[3] # "full"

\* finish, finish_scoped, post_sql: a transaction with partial effects is rolled
\* back, or its only user is about to, or nobody can reach it any more.
PartsAborted ==
  \A x \in Xids \ cut : Part(x) =>
    txn[x].st = "aborted" \/ (txn[x].st = "open" /\ RollsBack(x))

ServerInv == CallsOK /\ OwnersOK /\ CronOK /\ PartsAborted
-----------------------------------------------------------------------------
(* Steps of one request. *)

LEMMA ZeroIsNoXid == 0 \notin Xids
BY ServerAssumption DEF Xids

LEMMA InputsAreOK ==
  ASSUME load \in Workloads, NEW r \in Reqs, NEW in \in load.inputs[r]
  PROVE  InputOK(in)
BY WorkloadsAssumption DEF InputOK, OneShotKinds

LEMMA CallStays ==
  ASSUME NEW q \in Reqs, CallOK(q), req'[q] = req[q], job'[q] = job[q], cut \subseteq cut'
  PROVE  CallOK(q)'
BY DEF CallOK, InSession, Plan

\* The other requests are where they were.
OthersStay(r) ==
  /\ DOMAIN req' = Reqs /\ DOMAIN job' = Reqs
  /\ \A q \in Reqs : q # r => req'[q] = req[q] /\ job'[q] = job[q]

\* The transactions keep their shape, and no xid is given back.
NoneFreed ==
  /\ DOMAIN txn' = Xids
  /\ \A x \in Xids : DOMAIN txn'[x] = {"st", "writes", "ser"}
  /\ \A x \in Xids : txn'[x].st = "free" => txn[x].st = "free"

\* The registry changes only where r gives a transaction back.
GivesBackOnly(r) ==
  /\ DOMAIN sess' = Xids /\ DOMAIN busy' = Xids
  /\ idle' \subseteq idle /\ reaping' = reaping
  /\ \A x \in Xids : Uses(r, x)' => Uses(r, x) /\ req'[r].in.target = req[r].in.target
  /\ \A x \in Xids : sess'[x] # sess[x] \/ busy'[x] # busy[x] => Uses(r, x) /\ ~Uses(r, x)'

\* A step of a request that takes no transaction into use leaves the others'
\* alone.
LEMMA RequestMoves ==
  ASSUME CallsOK, OwnersOK, NEW r \in Reqs,
         CallOK(r)', OthersStay(r), NoneFreed, GivesBackOnly(r),
         load' = load, cut \subseteq cut'
  PROVE  CallsOK' /\ OwnersOK'
<1> USE DEF OthersStay, NoneFreed, GivesBackOnly
<1>1. ASSUME NEW q \in Reqs, q # r PROVE CallOK(q)'
  <2>1. CallOK(q) /\ req'[q] = req[q] /\ job'[q] = job[q]
    BY <1>1 DEF CallsOK
  <2> QED BY <2>1 DEF CallOK, InSession, Plan
<1>2. CallsOK'
  BY <1>1 DEF CallsOK
<1>3. ASSUME NEW q \in Reqs, NEW x \in Xids, Uses(q, x)'
      PROVE  /\ Uses(q, x) /\ (InSession(q)' <=> InSession(q))
             /\ q # r => sess'[x] = sess[x] /\ busy'[x] = busy[x]
             /\ q = r => sess'[x] = sess[x] /\ busy'[x] = busy[x]
  <2>1. CASE q = r
    BY <1>3, <2>1 DEF InSession
  <2>2. CASE q # r
    <3>1. req'[q] = req[q] /\ job'[q] = job[q]
      BY <2>2
    <3>2. Uses(q, x) /\ (InSession(q)' <=> InSession(q))
      BY <1>3, <3>1 DEF Uses, InSession
    <3>3. ~Uses(r, x)
      BY <3>2, <2>2 DEF OwnersOK
    <3> QED BY <3>2, <3>3, <2>2
  <2> QED BY <2>1, <2>2
<1>4. ASSUME NEW q \in Reqs, NEW x \in Xids, Uses(q, x)'
      PROVE  /\ txn'[x].st # "free"
             /\ InSession(q)' => busy'[x] = q
             /\ ~InSession(q)' => sess'[x] = NoOne /\ x \notin reaping'
  BY <1>3, <1>4 DEF OwnersOK
<1>5. ASSUME NEW q \in Reqs, NEW p \in Reqs, NEW x \in Xids, Uses(q, x)', Uses(p, x)'
      PROVE  q = p
  <2>1. Uses(q, x) /\ Uses(p, x)
    BY <1>3, <1>5
  <2> QED BY <2>1 DEF OwnersOK
<1>6. ASSUME NEW x \in Xids, x \in reaping' PROVE busy'[x] = Reaper
  <2>1. x \in reaping /\ busy[x] = Reaper
    BY <1>6 DEF OwnersOK
  <2>2. ~Uses(r, x)
    BY <2>1, ServerAssumption DEF OwnersOK
  <2> QED BY <2>1, <2>2
<1>7. ASSUME NEW x \in Xids, txn'[x].st = "free" PROVE sess'[x] = NoOne /\ x \notin reaping'
  <2>1. txn[x].st = "free" /\ sess[x] = NoOne /\ x \notin reaping /\ ~Uses(r, x)
    BY <1>7 DEF OwnersOK
  <2> QED BY <2>1
<1>8. idle' \subseteq Xids
  BY DEF OwnersOK
<1>9. OwnersOK'
  BY <1>4, <1>5, <1>6, <1>7, <1>8 DEF OwnersOK
<1> QED BY <1>2, <1>9

\* What the cron jobs' runs are is the same after the step.
RunsStay ==
  \A q \in Reqs, j \in CronJobs :
    /\ LiveRun(q, j)' <=> LiveRun(q, j)
    /\ EndedRun(q, j) => EndedRun(q, j)' /\ req'[q].reply = req[q].reply

LEMMA CronKept ==
  ASSUME CronOK, RunsStay, cron' = cron
  PROVE  CronOK'
<1> SUFFICES ASSUME NEW j \in CronJobs
             PROVE  /\ \A r, q \in Reqs : LiveRun(r, j)' /\ LiveRun(q, j)' => r = q
                    /\ cron[j].running <=> \E r \in Reqs : LiveRun(r, j)'
                    /\ cron[j].last # "none" =>
                         \E r \in Reqs : EndedRun(r, j)' /\ req'[r].reply = cron[j].last
  BY DEF CronOK
<1> QED BY DEF CronOK, RunsStay

\* The transactions that are not cut are rolled back where they change state,
\* gain no partial effects, and one that is to be rolled back still is.
PartsStay ==
  /\ cut \subseteq cut'
  /\ \A x \in Xids \ cut' :
       /\ Part(x)' => Part(x)
       /\ txn'[x].st = txn[x].st \/ txn'[x].st = "aborted"
       /\ txn[x].st = "open" /\ RollsBack(x) => txn'[x].st = "aborted" \/ RollsBack(x)'

LEMMA PartsKept ==
  ASSUME PartsAborted, PartsStay
  PROVE  PartsAborted'
<1> SUFFICES ASSUME NEW x \in Xids \ cut', Part(x)', txn'[x].st # "aborted"
             PROVE  txn'[x].st = "open" /\ RollsBack(x)'
  BY DEF PartsAborted
<1>1. x \in Xids \ cut /\ Part(x) /\ txn'[x].st = txn[x].st
  BY DEF PartsStay
<1>2. txn[x].st = "open" /\ RollsBack(x)
  BY <1>1 DEF PartsAborted
<1> QED BY <1>1, <1>2 DEF PartsStay

\* Nobody takes up a transaction that is out of reach.
LEMMA AbandonedStays ==
  ASSUME NEW x \in Xids, Abandoned(x), sess[x] = NoOne => sess'[x] = NoOne,
         \A q \in Reqs : Uses(q, x)' => Uses(q, x)
  PROVE  Abandoned(x)'
BY DEF Abandoned

LEMMA RollsBackStays ==
  ASSUME NEW x \in Xids, RollsBack(x), sess[x] = NoOne => sess'[x] = NoOne,
         \A q \in Reqs : Uses(q, x)' => Uses(q, x),
         \A q \in Reqs : Uses(q, x) /\ Failing(q) => Uses(q, x)' /\ Failing(q)'
  PROVE  RollsBack(x)'
BY AbandonedStays DEF RollsBack
-----------------------------------------------------------------------------
(* Engine calls. *)

\* The call of r moves on to j, on the same transaction.
CallMoves(r, j) ==
  /\ req' = req /\ job' = [job EXCEPT ![r] = j]
  /\ \/ req[r].pc = "gone" /\ j.op = "none"
     \/ /\ DOMAIN j = JobFields /\ j.op = job[r].op /\ j.x = job[r].x
        /\ req[r].pc = "gone" => j.out = "none"
        /\ req[r].pc = "exec" /\ req[r].in.kind = "get" =>
             j.plans = job[r].plans /\ j.k = job[r].k /\ j.st = job[r].st
        /\ j.op = "exec" /\ j.st \in {"flip", "restore", "swap"} => j.plans[j.k].op \notin Raw

RegistryStays == sess' = sess /\ busy' = busy /\ idle' = idle /\ reaping' = reaping

LEMMA EngineMoves ==
  ASSUME CallsOK, OwnersOK, CronOK, NEW r \in Reqs, job[r].op \in Acting \cup {"edit"},
         NEW j, CallMoves(r, j), NoneFreed, RegistryStays,
         load' = load, cut' = cut, cron' = cron
  PROVE  CallsOK' /\ OwnersOK' /\ CronOK'
<1>1. CallOK(r) /\ DOMAIN req = Reqs /\ DOMAIN job = Reqs
  BY DEF CallsOK
<1>2. req' = req /\ job'[r] = j /\ DOMAIN job' = Reqs
      /\ \A q \in Reqs : q # r => job'[q] = job[q]
  BY <1>1 DEF CallMoves
<1>3. CallOK(r)'
  <2>1. CASE req[r].pc = "gone" /\ j.op = "none"
    BY <1>1, <1>2, <2>1 DEF CallOK, Waiting, Acting, InSession
  <2>2. CASE ~(req[r].pc = "gone" /\ j.op = "none")
    <3>1. /\ DOMAIN j = JobFields /\ j.op = job[r].op /\ j.x = job[r].x
          /\ req[r].pc = "gone" => j.out = "none"
          /\ req[r].pc = "exec" /\ req[r].in.kind = "get" =>
               j.plans = job[r].plans /\ j.k = job[r].k /\ j.st = job[r].st
          /\ j.op = "exec" /\ j.st \in {"flip", "restore", "swap"} => j.plans[j.k].op \notin Raw
      BY <2>2 DEF CallMoves
    <3>2. job[r].op # "begin" /\ job[r].op # "none"
      BY DEF Acting
    <3> QED BY <1>1, <1>2, <3>1, <3>2 DEF CallOK, InSession, Plan
  <2> QED BY <2>1, <2>2
<1>4. OthersStay(r)
  BY <1>1, <1>2 DEF OthersStay
<1>5. GivesBackOnly(r)
  <2>1. ASSUME NEW x \in Xids, Uses(r, x)' PROVE Uses(r, x)
    <3>1. req[r].pc # "gone" /\ job'[r].op # "none" /\ job'[r].x = x
      BY <2>1, <1>2 DEF Uses
    <3>2. j.op = job[r].op /\ j.x = job[r].x
      BY <3>1, <1>2 DEF CallMoves
    <3> QED BY <3>1, <3>2, <1>2 DEF Uses
  <2> QED BY <2>1, <1>2 DEF GivesBackOnly, RegistryStays, OwnersOK
<1>6. CallsOK' /\ OwnersOK'
  BY <1>3, <1>4, <1>5, RequestMoves
<1>7. RunsStay
  BY <1>2 DEF RunsStay, LiveRun, EndedRun
<1> QED BY <1>6, <1>7, CronKept

\* The ways an engine step leaves its call.
LEMMA ReturnMoves ==
  ASSUME CallsOK, NEW r \in Reqs, job[r].op # "none", NEW out, req' = req, job' = Return(r, out)
  PROVE  /\ CallMoves(r, job'[r])
         /\ req[r].pc # "gone" => job'[r].op = job[r].op /\ job'[r].out = out
<1>1. CallOK(r) /\ DOMAIN job = Reqs
  BY DEF CallsOK
<1>2. DOMAIN job[r] = JobFields
  BY <1>1 DEF CallOK
<1>3. job' = [job EXCEPT ![r] = job'[r]]
  BY <1>1 DEF Return
<1>4. CASE req[r].pc = "gone"
  <2>1. job'[r].op = "none"
    BY <1>1, <1>4 DEF Return, NoJob
  <2> QED BY <1>3, <1>4, <2>1 DEF CallMoves
<1>5. CASE req[r].pc # "gone"
  <2>1. job'[r] = [job[r] EXCEPT !.out = out]
    BY <1>1, <1>5 DEF Return
  <2>2. /\ DOMAIN job'[r] = JobFields /\ job'[r].op = job[r].op /\ job'[r].x = job[r].x
        /\ job'[r].plans = job[r].plans /\ job'[r].k = job[r].k /\ job'[r].st = job[r].st
        /\ job'[r].out = out
    BY <1>2, <2>1 DEF JobFields
  <2>3. job[r].op = "exec" /\ job[r].st \in {"flip", "restore", "swap"} =>
          job[r].plans[job[r].k].op \notin Raw
    BY <1>1 DEF CallOK, Plan
  <2> QED BY <1>3, <1>5, <2>2, <2>3 DEF CallMoves
<1> QED BY <1>4, <1>5

\* A call of r that is running at st may go to another place.
Going(r, st) ==
  /\ job[r].out = "none" /\ job[r].op \in {"exec", "edit"} /\ Plan(r).op \notin Raw
  /\ st \in {"plan", "flip", "restore", "swap"}

LEMMA PlaceMoves ==
  ASSUME CallsOK, NEW r \in Reqs, NEW st, Going(r, st), req' = req,
         DOMAIN job'[r] = JobFields, job' = [job EXCEPT ![r] = job'[r]],
         job'[r].op = job[r].op, job'[r].x = job[r].x, job'[r].plans = job[r].plans,
         job'[r].st = st, job'[r].out = "none",
         st = "plan" \/ job'[r].k = job[r].k
  PROVE  CallMoves(r, job'[r])
<1>1. CallOK(r)
  BY DEF CallsOK
<1>2. ~(req[r].pc = "exec" /\ req[r].in.kind = "get")
  BY <1>1 DEF CallOK, Going, Raw
<1>3. st # "plan" => job'[r].plans[job'[r].k].op \notin Raw
  BY DEF Going, Plan
<1> QED BY <1>2, <1>3 DEF CallMoves, Going

LEMMA NextPlanMoves ==
  ASSUME CallsOK, NEW r \in Reqs, Going(r, "plan"), req' = req, job' = NextPlan(r)
  PROVE  CallMoves(r, job'[r])
<1>1. CallOK(r) /\ DOMAIN job = Reqs /\ job[r].op # "none"
  BY DEF CallsOK, Going
<1>2. DOMAIN job[r] = JobFields
  BY <1>1 DEF CallOK
<1>3. CASE job[r].k = Len(job[r].plans)
  BY <1>1, <1>3, ReturnMoves DEF NextPlan
<1>4. CASE job[r].k # Len(job[r].plans)
  <2>1. job' = [job EXCEPT ![r].k = @ + 1, ![r].st = "plan", ![r].left = << >>]
    BY <1>4 DEF NextPlan
  <2>2. /\ DOMAIN job'[r] = JobFields /\ job'[r].op = job[r].op /\ job'[r].x = job[r].x
        /\ job'[r].plans = job[r].plans /\ job'[r].st = "plan" /\ job'[r].out = job[r].out
    BY <1>1, <1>2, <2>1 DEF JobFields
  <2>3. job' = [job EXCEPT ![r] = job'[r]]
    BY <1>1, <2>1
  <2> QED BY <2>2, <2>3, PlaceMoves DEF Going
<1> QED BY <1>3, <1>4

LEMMA FailMoves ==
  ASSUME CallsOK, NEW r \in Reqs, Going(r, "restore"), req' = req, job' = Fail(r)
  PROVE  /\ CallMoves(r, job'[r])
         /\ job[r].op = "exec" /\ req[r].pc # "gone" => Failing(r)'
<1>1. CallOK(r) /\ DOMAIN job = Reqs /\ job[r].op # "none"
  BY DEF CallsOK, Going
<1>2. DOMAIN job[r] = JobFields
  BY <1>1 DEF CallOK
<1>3. CASE job[r].op = "edit"
  <2>1. job' = Return(r, "err")
    BY <1>3 DEF Fail
  <2> QED BY <1>1, <1>3, <2>1, ReturnMoves
<1>4. CASE job[r].op # "edit"
  <2>1. job' = [job EXCEPT ![r].st = "restore", ![r].left = << >>]
    BY <1>4 DEF Fail
  <2>2. /\ DOMAIN job'[r] = JobFields /\ job'[r].op = job[r].op /\ job'[r].x = job[r].x
        /\ job'[r].plans = job[r].plans /\ job'[r].st = "restore" /\ job'[r].out = job[r].out
        /\ job'[r].k = job[r].k
    BY <1>1, <1>2, <2>1 DEF JobFields
  <2>3. job' = [job EXCEPT ![r] = job'[r]]
    BY <1>1, <2>1
  <2>4. CallMoves(r, job'[r])
    BY <2>2, <2>3, PlaceMoves DEF Going
  <2>5. job[r].op = "exec" /\ req[r].pc # "gone" => req[r].in.kind # "get"
    BY <1>1 DEF CallOK, Going, Raw, Waiting, CallOf
  <2> QED BY <2>2, <2>4, <2>5 DEF Failing, Going
<1> QED BY <1>3, <1>4

\* Transactions gain only whole effects and are at most rolled back.
WholeEffects ==
  \A x \in Xids : /\ Part(x)' => Part(x)
                  /\ txn'[x].st = txn[x].st \/ txn'[x].st = "aborted"

LEMMA PartsUnderCall ==
  ASSUME CallsOK, PartsAborted, NEW r \in Reqs, job[r].op # "none",
         NEW j, CallMoves(r, j), cut' = cut, sess' = sess, WholeEffects,
         \A x \in Xids : txn[x].st = "open" /\ Uses(r, x) /\ Failing(r) => Failing(r)'
  PROVE  PartsAborted'
<1>1. req' = req /\ job'[r] = j /\ \A q \in Reqs : q # r => job'[q] = job[q]
  BY DEF CallMoves, CallsOK
<1>2. ASSUME NEW x \in Xids, NEW q \in Reqs, txn[x].st = "open", Uses(q, x), Failing(q)
      PROVE  Uses(q, x)' /\ Failing(q)'
  <2>1. CASE q = r
    <3>1. req[r].pc # "gone"
      BY <1>2, <2>1 DEF Uses
    <3>2. j.op = job[r].op /\ j.x = job[r].x
      BY <3>1 DEF CallMoves
    <3>3. Uses(r, x)'
      BY <1>1, <1>2, <2>1, <3>2 DEF Uses
    <3> QED BY <1>2, <2>1, <3>3
  <2>2. CASE q # r
    <3>1. job'[q] = job[q] /\ req'[q] = req[q]
      BY <1>1, <2>2
    <3> QED BY <1>2, <3>1 DEF Uses, Failing
  <2> QED BY <2>1, <2>2
<1>3. ASSUME NEW x \in Xids, NEW q \in Reqs, Uses(q, x)' PROVE Uses(q, x)
  <2>1. CASE q = r
    BY <1>1, <1>3, <2>1 DEF Uses, CallMoves
  <2>2. CASE q # r
    BY <1>1, <1>3, <2>2 DEF Uses
  <2> QED BY <2>1, <2>2
<1>4. ASSUME NEW x \in Xids, txn[x].st = "open", RollsBack(x) PROVE RollsBack(x)'
  BY <1>2, <1>3, <1>4, RollsBackStays
<1>5. PartsStay
  BY <1>4 DEF PartsStay, WholeEffects
<1> QED BY <1>5, PartsKept

LEMMA WriteIsWhole ==
  ASSUME OwnersOK, NEW r, NEW x,
         txn' = [txn EXCEPT ![x].writes = @ \cup {Token(r, "full")}]
  PROVE  NoneFreed /\ WholeEffects
<1>1. DOMAIN txn' = Xids
  BY DEF OwnersOK
<1>2. ASSUME NEW y \in Xids
      PROVE  /\ DOMAIN txn'[y] = {"st", "writes", "ser"} /\ txn'[y].st = txn[y].st
             /\ txn'[y].writes \subseteq txn[y].writes \cup {Token(r, "full")}
  <2>1. DOMAIN txn[y] = {"st", "writes", "ser"} /\ DOMAIN txn = Xids
    BY DEF OwnersOK
  <2>2. CASE y = x
    <3>1. txn'[y] = [txn[y] EXCEPT !.writes = @ \cup {Token(r, "full")}]
      BY <2>1, <2>2
    <3> QED BY <2>1, <3>1
  <2>3. CASE y # x
    BY <2>1, <2>3
  <2> QED BY <2>2, <2>3
<1>3. Token(r, "full")[3] = "full"
  BY DEF Token
<1>4. ASSUME NEW y \in Xids, Part(y)' PROVE Part(y)
  <2>1. PICK w \in txn'[y].writes : w[3] # "full"
    BY <1>4 DEF Part
  <2>2. w \in txn[y].writes
    BY <1>2, <1>3, <2>1
  <2> QED BY <2>1, <2>2 DEF Part
<1> QED BY <1>1, <1>2, <1>4 DEF NoneFreed, WholeEffects

LEMMA TxnStays ==
  ASSUME OwnersOK, txn' = txn
  PROVE  NoneFreed /\ WholeEffects
BY DEF OwnersOK, NoneFreed, WholeEffects, Part

LEMMA RollbackIsWhole ==
  ASSUME OwnersOK, NEW x \in Xids, Rollback(x) \/ RollbackFails(x)
  PROVE  NoneFreed /\ WholeEffects
<1>1. CASE txn[x].st = "open" /\ txn' = [txn EXCEPT ![x].st = "aborted"]
  <2>1. ASSUME NEW y \in Xids
        PROVE  /\ DOMAIN txn'[y] = {"st", "writes", "ser"} /\ txn'[y].writes = txn[y].writes
               /\ txn'[y].st = IF y = x THEN "aborted" ELSE txn[y].st
    BY <1>1 DEF OwnersOK
  <2>2. NoneFreed
    BY <1>1, <2>1 DEF NoneFreed, OwnersOK
  <2>3. WholeEffects
    BY <2>1 DEF WholeEffects, Part
  <2> QED BY <2>2, <2>3
<1>2. CASE txn' = txn
  BY <1>2, TxnStays
<1> QED BY <1>1, <1>2 DEF Rollback, RollbackFails

\* Everything an engine step does not touch.
EngineFrame == RegistryStays /\ req' = req /\ load' = load /\ cut' = cut /\ cron' = cron

\* The steps of a call on rows or the catalog: the transaction gains whole
\* effects only, and a call that has failed stays so.
LEMMA CallKeeps ==
  ASSUME ServerInv, NEW r \in Reqs, job[r].op \in Acting \cup {"edit"}, EngineFrame,
         NEW j, CallMoves(r, j), NoneFreed, WholeEffects,
         \A x \in Xids : txn[x].st = "open" /\ Uses(r, x) /\ Failing(r) => Failing(r)'
  PROVE  ServerInv'
<1>1. CallsOK' /\ OwnersOK' /\ CronOK'
  BY EngineMoves DEF ServerInv, EngineFrame
<1>2. PartsAborted'
  BY PartsUnderCall DEF ServerInv, EngineFrame, RegistryStays, Acting
<1> QED BY <1>1, <1>2 DEF ServerInv

\* A commit or its checkpoint moves on to another place, or returns.
LEMMA StageMoves ==
  ASSUME CallsOK, NEW r \in Reqs, Running(r, "commit"), req' = req,
         \/ \E out : job' = Return(r, out)
         \/ job' = [job EXCEPT ![r].st = "checkpoint"]
         \/ job' = [job EXCEPT ![r].st = "flush", ![r].saved = Written]
  PROVE  CallMoves(r, job'[r])
<1>1. CallOK(r) /\ DOMAIN job = Reqs /\ job[r].op = "commit" /\ job[r].out = "none"
  BY DEF CallsOK, Running
<1>2. CASE \E out : job' = Return(r, out)
  BY <1>1, <1>2, ReturnMoves
<1>3. CASE \/ job' = [job EXCEPT ![r].st = "checkpoint"]
           \/ job' = [job EXCEPT ![r].st = "flush", ![r].saved = Written]
  <2>1. DOMAIN job[r] = JobFields /\ req[r].pc # "exec"
    BY <1>1 DEF CallOK, Waiting, CallOf
  <2>2. /\ DOMAIN job'[r] = JobFields /\ job'[r].op = job[r].op /\ job'[r].x = job[r].x
        /\ job'[r].out = job[r].out /\ job' = [job EXCEPT ![r] = job'[r]]
    BY <1>1, <1>3, <2>1 DEF JobFields
  <2> QED BY <1>1, <2>1, <2>2 DEF CallMoves
<1> QED BY <1>2, <1>3

LEMMA CommitKeeps ==
  ASSUME ServerInv, NEW r \in Reqs, EngineCommit(r)
  PROVE  ServerInv'
<1> DEFINE x == job[r].x
<1>1. CallsOK /\ OwnersOK /\ CallOK(r) /\ Running(r, "commit")
  BY DEF ServerInv, CallsOK, EngineCommit
<1>2. job[r].op = "commit" /\ x \in Xids /\ ~Failing(r)
  BY <1>1 DEF Running, CallOK, Acting, Failing
<1>3. EngineFrame
  BY DEF EngineCommit, EngineFrame, RegistryStays, sessVars
<1>4. (\E out : job' = Return(r, out)) \/ job' = [job EXCEPT ![r].st = "checkpoint"]
  BY DEF EngineCommit
<1>5. CallMoves(r, job'[r])
  BY <1>1, <1>3, <1>4, StageMoves DEF EngineFrame
<1>6. ASSUME NEW st \in {"committed", "doubt"}, txn' = [txn EXCEPT ![x].st = st],
             txn[x].st = "open"
      PROVE  ServerInv'
  <2>1. ASSUME NEW y \in Xids
        PROVE  /\ DOMAIN txn'[y] = {"st", "writes", "ser"} /\ txn'[y].writes = txn[y].writes
               /\ txn'[y].st = IF y = x THEN st ELSE txn[y].st
    BY <1>1, <1>6 DEF OwnersOK
  <2>2. NoneFreed
    BY <1>1, <1>6, <2>1 DEF NoneFreed, OwnersOK
  <2>3. CallsOK' /\ OwnersOK' /\ CronOK'
    BY <1>2, <1>3, <1>5, <2>2, EngineMoves DEF ServerInv, EngineFrame, Acting
  <2>4. x \notin cut => ~Part(x)
    <3> SUFFICES ASSUME x \notin cut, Part(x) PROVE FALSE
      OBVIOUS
    <3>1. Uses(r, x)
      BY <1>1, <1>2 DEF CallOK, Uses, Acting
    <3>2. PICK q \in Reqs : Uses(q, x) /\ Failing(q)
      BY <1>2, <1>6, <3>1 DEF ServerInv, PartsAborted, RollsBack, Abandoned
    <3> QED BY <1>1, <1>2, <3>1, <3>2 DEF OwnersOK
  <2>5. ASSUME NEW y \in Xids, NEW q \in Reqs
        PROVE  /\ Uses(q, y)' => Uses(q, y)
               /\ Uses(q, y) /\ Failing(q) => Uses(q, y)' /\ Failing(q)'
    <3>1. CASE q = r
      BY <1>1, <1>2, <1>5, <3>1 DEF CallMoves, CallsOK, Uses
    <3>2. CASE q # r
      <4>1. job'[q] = job[q] /\ req'[q] = req[q]
        BY <1>1, <1>5, <3>2 DEF CallMoves, CallsOK
      <4> QED BY <4>1 DEF Uses, Failing
    <3> QED BY <3>1, <3>2
  <2>6. ASSUME NEW y \in Xids \ cut', Part(y)', txn'[y].st # "aborted"
        PROVE  txn'[y].st = "open" /\ RollsBack(y)'
    <3>1. Part(y) /\ y \notin cut /\ sess' = sess
      BY <2>1, <2>6, <1>3 DEF Part, EngineFrame, RegistryStays
    <3>2. y # x
      BY <2>4, <3>1
    <3>3. txn[y].st = "open" /\ RollsBack(y)
      BY <2>1, <2>6, <3>1, <3>2 DEF ServerInv, PartsAborted
    <3>4. RollsBack(y)'
      BY <2>5, <3>1, <3>3, RollsBackStays
    <3> QED BY <2>1, <3>2, <3>3, <3>4
  <2>7. PartsAborted'
    BY <2>6 DEF PartsAborted
  <2> QED BY <2>3, <2>7 DEF ServerInv
<1>7. CASE Rollback(x) \/ RollbackFails(x)
  <2>1. NoneFreed /\ WholeEffects
    BY <1>1, <1>2, <1>7, RollbackIsWhole
  <2> QED BY <1>2, <1>3, <1>5, <2>1, CallKeeps DEF Acting
<1> QED BY <1>6, <1>7 DEF EngineCommit

LEMMA CheckpointKeeps ==
  ASSUME ServerInv, NEW r \in Reqs, AutoCheckpoint(r) \/ CheckpointFlush(r)
  PROVE  ServerInv'
<1>1. Running(r, "commit") /\ EngineFrame /\ txn' = txn
  BY DEF AutoCheckpoint, CheckpointFlush, EngineFrame, RegistryStays, sessVars
<1>2. (\E out : job' = Return(r, out))
      \/ job' = [job EXCEPT ![r].st = "flush", ![r].saved = Written]
  BY DEF AutoCheckpoint, CheckpointFlush
<1>3. CallMoves(r, job'[r]) /\ job[r].op = "commit" /\ ~Failing(r)
  BY <1>1, <1>2, StageMoves DEF ServerInv, EngineFrame, Running, Failing
<1>4. NoneFreed /\ WholeEffects
  BY <1>1, TxnStays DEF ServerInv
<1> QED BY <1>1, <1>3, <1>4, CallKeeps DEF Acting

LEMMA AbortKeeps ==
  ASSUME ServerInv, NEW r \in Reqs, EngineAbort(r)
  PROVE  ServerInv'
<1> DEFINE x == job[r].x
<1>1. CallsOK /\ OwnersOK /\ CallOK(r) /\ Running(r, "abort")
  BY DEF ServerInv, CallsOK, EngineAbort
<1>2. job[r].op = "abort" /\ x \in Xids
  BY <1>1 DEF Running, CallOK, Acting
<1>3. EngineFrame
  BY DEF EngineAbort, EngineFrame, RegistryStays, sessVars
<1>4. PICK out : job' = Return(r, out)
  BY DEF EngineAbort
<1>5. CallMoves(r, job'[r]) /\ (req[r].pc # "gone" => job'[r].op = job[r].op)
  BY <1>1, <1>2, <1>3, <1>4, ReturnMoves DEF EngineFrame
<1>6. NoneFreed /\ WholeEffects
  BY <1>1, <1>2, RollbackIsWhole DEF EngineAbort
<1>7. \A y \in Xids : Uses(r, y) => Failing(r)'
  BY <1>2, <1>5 DEF Uses, Failing
<1> QED BY <1>2, <1>3, <1>5, <1>6, <1>7, CallKeeps DEF Acting

LEMMA SaveRootMoves ==
  ASSUME CallsOK, NEW r \in Reqs, SaveCatalogRoot(r)
  PROVE  /\ CallMoves(r, job'[r]) /\ EngineFrame /\ txn' = txn
         /\ job[r].op = "exec" /\ job[r].out = "none" /\ job[r].st = "start"
         /\ job'[r].k = job[r].k /\ job'[r].plans = job[r].plans /\ job'[r].out = "none"
         /\ job'[r].st = "plan"
<1>1. CallsOK /\ CallOK(r) /\ DOMAIN job = Reqs
  BY DEF CallsOK
<1>2. /\ job[r].op = "exec" /\ job[r].out = "none" /\ job[r].st = "start" /\ Plan(r).op \notin Raw
      /\ job' = [job EXCEPT ![r].saved = root, ![r].st = "plan"]
  BY DEF SaveCatalogRoot, Running
<1>3. EngineFrame /\ txn' = txn
  BY DEF SaveCatalogRoot, EngineFrame, RegistryStays, sessVars
<1>4. DOMAIN job[r] = JobFields
  BY <1>1, <1>2 DEF CallOK
<1>5. /\ DOMAIN job'[r] = JobFields /\ job'[r].op = job[r].op /\ job'[r].x = job[r].x
      /\ job'[r].plans = job[r].plans /\ job'[r].st = "plan" /\ job'[r].out = job[r].out
      /\ job'[r].k = job[r].k /\ job' = [job EXCEPT ![r] = job'[r]]
  BY <1>1, <1>2, <1>4 DEF JobFields
<1>6. CallMoves(r, job'[r])
  BY <1>1, <1>2, <1>3, <1>5, PlaceMoves DEF Going, EngineFrame
<1> QED BY <1>2, <1>3, <1>5, <1>6

LEMMA SaveRootKeeps ==
  ASSUME ServerInv, NEW r \in Reqs, SaveCatalogRoot(r)
  PROVE  ServerInv'
<1>1. /\ CallMoves(r, job'[r]) /\ EngineFrame /\ txn' = txn
      /\ job[r].op = "exec" /\ job[r].out = "none" /\ job[r].st = "start"
  BY SaveRootMoves DEF ServerInv
<1>2. NoneFreed /\ WholeEffects
  BY <1>1, TxnStays DEF ServerInv
<1>3. ~Failing(r)
  BY <1>1 DEF Failing
<1> QED BY <1>1, <1>2, <1>3, CallKeeps DEF Acting

LEMMA ExecDmlKeeps ==
  ASSUME ServerInv, NEW r \in Reqs, ExecDml(r)
  PROVE  ServerInv'
<1> DEFINE x == job[r].x
<1>1. CallsOK /\ OwnersOK /\ CallOK(r) /\ DOMAIN job = Reqs
  BY DEF ServerInv, CallsOK
<1>2. job[r].op = "exec" /\ job[r].out = "none" /\ job[r].st = "plan" /\ Plan(r).op \in Dml
  BY DEF ExecDml, Running
<1>3. EngineFrame
  BY DEF ExecDml, EngineFrame, RegistryStays, sessVars
<1>4. Going(r, "plan") /\ Going(r, "restore") /\ x \in Xids /\ ~Failing(r)
  BY <1>1, <1>2 DEF Going, Dml, Raw, CallOK, Acting, Failing
<1>5. job' = NextPlan(r) \/ job' = Fail(r)
  BY DEF ExecDml
<1>6. CallMoves(r, job'[r])
  BY <1>1, <1>3, <1>4, <1>5, NextPlanMoves, FailMoves DEF EngineFrame
<1>7. CASE txn' = txn \/ txn' = [txn EXCEPT ![x].writes = @ \cup {Token(r, "full")}]
  <2>1. NoneFreed /\ WholeEffects
    BY <1>1, <1>7, TxnStays, WriteIsWhole
  <2> QED BY <1>2, <1>3, <1>4, <1>6, <2>1, CallKeeps DEF Acting
<1>8. CASE /\ txn' = [txn EXCEPT ![x].writes = @ \cup {Token(r, "part")}]
           /\ txn[x].st = "open" /\ job' = Fail(r)
  <2>1. ASSUME NEW y \in Xids
        PROVE  /\ DOMAIN txn'[y] = {"st", "writes", "ser"} /\ txn'[y].st = txn[y].st
               /\ y # x => txn'[y] = txn[y]
    BY <1>1, <1>8 DEF OwnersOK
  <2>2. NoneFreed
    BY <1>1, <1>8, <2>1 DEF NoneFreed, OwnersOK
  <2>3. CallsOK' /\ OwnersOK' /\ CronOK'
    BY <1>2, <1>3, <1>6, <2>2, EngineMoves DEF ServerInv, EngineFrame, Acting
  <2>4. ASSUME NEW y \in Xids \ cut', Part(y)', txn'[y].st # "aborted"
        PROVE  txn'[y].st = "open" /\ RollsBack(y)'
    <3>1. CASE y = x
      <4>1. req[r].pc # "gone"
        BY <1>1, <1>2, <1>3, <2>4, <3>1 DEF CallOK, Acting, EngineFrame
      <4>2. Failing(r)'
        BY <1>1, <1>2, <1>3, <1>4, <1>8, <4>1, FailMoves DEF EngineFrame
      <4>3. Uses(r, y)'
        BY <1>1, <1>2, <1>6, <3>1, <4>1 DEF Uses, CallMoves
      <4> QED BY <1>8, <2>1, <3>1, <4>2, <4>3 DEF RollsBack
    <3>2. CASE y # x
      <4>1. Part(y) /\ y \notin cut /\ txn[y].st # "aborted" /\ sess' = sess
        BY <2>1, <2>4, <3>2, <1>3 DEF Part, EngineFrame, RegistryStays
      <4>2. txn[y].st = "open" /\ RollsBack(y)
        BY <4>1 DEF ServerInv, PartsAborted
      <4>3. ASSUME NEW q \in Reqs
            PROVE  /\ Uses(q, y)' => Uses(q, y)
                   /\ Uses(q, y) /\ Failing(q) => Uses(q, y)' /\ Failing(q)'
        <5>1. CASE q = r
          BY <1>1, <1>4, <1>6, <5>1 DEF CallMoves, CallsOK, Uses
        <5>2. CASE q # r
          <6>1. job'[q] = job[q] /\ req'[q] = req[q]
            BY <1>1, <1>6, <5>2 DEF CallMoves, CallsOK
          <6> QED BY <6>1 DEF Uses, Failing
        <5> QED BY <5>1, <5>2
      <4>4. RollsBack(y)'
        BY <4>1, <4>2, <4>3, RollsBackStays
      <4> QED BY <2>1, <3>2, <4>2, <4>4
    <3> QED BY <3>1, <3>2
  <2>5. PartsAborted'
    BY <2>4 DEF PartsAborted
  <2> QED BY <2>3, <2>5 DEF ServerInv
<1> QED BY <1>7, <1>8 DEF ExecDml

LEMMA EngineRowKeeps ==
  ASSUME ServerInv, NEW r \in Reqs, EngineRow(r)
  PROVE  ServerInv'
<1> DEFINE x == job[r].x
<1>1. CallsOK /\ OwnersOK /\ CallOK(r)
  BY DEF ServerInv, CallsOK
<1>2. job[r].op = "exec" /\ job[r].out = "none" /\ Plan(r).op \in Raw
  BY DEF EngineRow, Running
<1>3. EngineFrame
  BY DEF EngineRow, EngineFrame, RegistryStays, sessVars
<1>4. PICK out : job' = Return(r, out)
  BY DEF EngineRow
<1>5. CallMoves(r, job'[r])
  BY <1>1, <1>2, <1>3, <1>4, ReturnMoves DEF EngineFrame
<1>6. txn' = txn \/ txn' = [txn EXCEPT ![x].writes = @ \cup {Token(r, "full")}]
  BY DEF EngineRow
<1>7. NoneFreed /\ WholeEffects
  BY <1>1, <1>6, TxnStays, WriteIsWhole
<1>8. ~Failing(r)
  BY <1>1, <1>2 DEF Failing, CallOK
<1> QED BY <1>2, <1>3, <1>5, <1>7, <1>8, CallKeeps DEF Acting

LEMMA ExecCatalogMoves ==
  ASSUME CallsOK, NEW r \in Reqs, ExecCatalog(r)
  PROVE  /\ CallMoves(r, job'[r]) /\ EngineFrame /\ txn' = txn
         /\ job[r].op \in {"exec", "edit"} /\ job[r].out = "none" /\ job[r].st \in {"plan", "start"}
         /\ \/ job' = NextPlan(r) \/ job' = Fail(r)
            \/ job'[r].k = job[r].k /\ job'[r].plans = job[r].plans /\ job'[r].out = "none"
<1>1. CallsOK /\ CallOK(r) /\ DOMAIN job = Reqs
  BY DEF CallsOK
<1>2. /\ job[r].op \in {"exec", "edit"} /\ job[r].out = "none" /\ job[r].st \in {"plan", "start"}
      /\ Plan(r).op \notin Raw
  BY DEF ExecCatalog, Running
<1>3. EngineFrame /\ txn' = txn
  BY DEF ExecCatalog, EngineFrame, RegistryStays, sessVars
<1>4. Going(r, "plan") /\ Going(r, "restore") /\ Going(r, "flip")
  BY <1>2 DEF Going
<1>5. CASE job' = NextPlan(r) \/ job' = Fail(r)
  BY <1>1, <1>2, <1>3, <1>4, <1>5, NextPlanMoves, FailMoves DEF EngineFrame
<1>6. CASE job' = [job EXCEPT ![r].st = "flip", ![r].left = Edits(Plan(r))]
  <2>1. DOMAIN job[r] = JobFields
    BY <1>1, <1>2 DEF CallOK
  <2>2. /\ DOMAIN job'[r] = JobFields /\ job'[r].op = job[r].op /\ job'[r].x = job[r].x
        /\ job'[r].plans = job[r].plans /\ job'[r].st = "flip" /\ job'[r].out = job[r].out
        /\ job'[r].k = job[r].k /\ job' = [job EXCEPT ![r] = job'[r]]
    BY <1>1, <1>6, <2>1 DEF JobFields
  <2>3. CallMoves(r, job'[r])
    BY <1>1, <1>2, <1>3, <1>4, <2>2, PlaceMoves DEF EngineFrame
  <2> QED BY <1>2, <1>3, <2>2, <2>3
<1>7. \/ job' = [job EXCEPT ![r].st = "flip", ![r].left = Edits(Plan(r))]
      \/ job' = NextPlan(r) \/ job' = Fail(r)
  BY DEF ExecCatalog
<1> QED BY <1>5, <1>6, <1>7

LEMMA ExecCatalogKeeps ==
  ASSUME ServerInv, NEW r \in Reqs, ExecCatalog(r)
  PROVE  ServerInv'
<1>1. /\ CallMoves(r, job'[r]) /\ EngineFrame /\ txn' = txn
      /\ job[r].op \in {"exec", "edit"} /\ job[r].out = "none" /\ job[r].st \in {"plan", "start"}
  BY ExecCatalogMoves DEF ServerInv
<1>2. NoneFreed /\ WholeEffects
  BY <1>1, TxnStays DEF ServerInv
<1>3. ~Failing(r)
  BY <1>1 DEF Failing
<1> QED BY <1>1, <1>2, <1>3, CallKeeps DEF Acting

LEMMA FlipRootMoves ==
  ASSUME CallsOK, NEW r \in Reqs, FlipRoot(r)
  PROVE  /\ CallMoves(r, job'[r]) /\ EngineFrame
         /\ job[r].op \in {"exec", "edit"} /\ job[r].out = "none" /\ job[r].st = "flip"
         /\ job[r].op = "edit" => job[r].x = 0
         /\ \/ job' = NextPlan(r) \/ job' = Fail(r)
            \/ job'[r].k = job[r].k /\ job'[r].plans = job[r].plans /\ job'[r].out = "none"
<1>1. CallsOK /\ CallOK(r) /\ DOMAIN job = Reqs
  BY DEF CallsOK
<1>2. job[r].op \in {"exec", "edit"} /\ job[r].out = "none" /\ job[r].st = "flip"
  BY DEF FlipRoot, Running
<1>3. EngineFrame
  BY DEF FlipRoot, EngineFrame, RegistryStays, sessVars
<1>4. job[r].op = "edit" => job[r].x = 0
  BY <1>1 DEF CallOK
<1>5. /\ CallMoves(r, job'[r])
      /\ \/ job' = NextPlan(r) \/ job' = Fail(r)
         \/ job'[r].k = job[r].k /\ job'[r].plans = job[r].plans /\ job'[r].out = "none"
  <2>1. \/ job' = [job EXCEPT ![r].left = Tail(job[r].left)]
        \/ job' = NextPlan(r) \/ job' = Fail(r)
    BY DEF FlipRoot
  <2>2. CASE job' = [job EXCEPT ![r].left = Tail(job[r].left)]
    <3>1. DOMAIN job[r] = JobFields
      BY <1>1, <1>2 DEF CallOK
    <3>2. /\ DOMAIN job'[r] = JobFields /\ job'[r].op = job[r].op /\ job'[r].x = job[r].x
          /\ job'[r].plans = job[r].plans /\ job'[r].st = job[r].st /\ job'[r].out = job[r].out
          /\ job'[r].k = job[r].k /\ job' = [job EXCEPT ![r] = job'[r]]
      BY <1>1, <2>2, <3>1 DEF JobFields
    <3>3. job[r].op = "exec" => job[r].plans[job[r].k].op \notin Raw
      BY <1>1, <1>2 DEF CallOK, Plan
    <3> QED BY <1>2, <1>3, <3>2, <3>3 DEF CallMoves, EngineFrame
  <2>3. CASE job' = NextPlan(r) \/ job' = Fail(r)
    <3>1. CASE job[r].op = "exec"
      <4>1. Going(r, "plan") /\ Going(r, "restore")
        BY <1>1, <1>2, <3>1 DEF Going, CallOK
      <4> QED BY <1>1, <1>3, <2>3, <4>1, NextPlanMoves, FailMoves DEF EngineFrame
    <3>2. CASE job[r].op = "edit"
      <4>1. DOMAIN job[r] = JobFields
        BY <1>1, <1>2 DEF CallOK
      <4>2. CASE job' = Return(r, "ok") \/ job' = Return(r, "err")
        BY <1>1, <1>2, <1>3, <2>3, <4>2, ReturnMoves DEF EngineFrame
      <4>3. CASE job' = [job EXCEPT ![r].k = @ + 1, ![r].st = "plan", ![r].left = << >>]
        <5>1. /\ DOMAIN job'[r] = JobFields /\ job'[r].op = job[r].op /\ job'[r].x = job[r].x
              /\ job'[r].out = job[r].out /\ job' = [job EXCEPT ![r] = job'[r]]
          BY <1>1, <4>1, <4>3 DEF JobFields
        <5>2. req[r].pc # "exec"
          BY <1>1, <3>2 DEF CallOK, Waiting, CallOf
        <5> QED BY <1>2, <1>3, <2>3, <3>2, <5>1, <5>2 DEF CallMoves, EngineFrame
      <4> QED BY <2>3, <3>2, <4>2, <4>3 DEF NextPlan, Fail
    <3> QED BY <1>2, <3>1, <3>2
  <2> QED BY <2>1, <2>2, <2>3
<1> QED BY <1>2, <1>3, <1>4, <1>5

LEMMA FlipRootKeeps ==
  ASSUME ServerInv, NEW r \in Reqs, FlipRoot(r)
  PROVE  ServerInv'
<1>1. /\ CallMoves(r, job'[r]) /\ EngineFrame
      /\ job[r].op \in {"exec", "edit"} /\ job[r].out = "none" /\ job[r].st = "flip"
  BY FlipRootMoves DEF ServerInv
<1> DEFINE wrote == [txn EXCEPT ![job[r].x].writes = @ \cup {Token(r, "full")}]
<1>2. txn' = txn \/ txn' = wrote
  BY DEF FlipRoot
<1>3. NoneFreed /\ WholeEffects
  BY <1>2, TxnStays, WriteIsWhole DEF ServerInv
<1>4. ~Failing(r)
  BY <1>1 DEF Failing
<1> QED BY <1>1, <1>3, <1>4, CallKeeps DEF Acting

LEMMA RestoreMoves ==
  ASSUME CallsOK, NEW r \in Reqs, RestoreCatalogRoot(r) \/ SwapCatalog(r)
  PROVE  /\ CallMoves(r, job'[r]) /\ EngineFrame /\ txn' = txn
         /\ job[r].op = "exec" /\ job[r].out = "none" /\ job[r].st \in {"restore", "swap"}
         /\ req[r].pc # "gone" =>
              /\ job'[r].op = "exec" /\ job'[r].k = job[r].k /\ job'[r].plans = job[r].plans
              /\ job'[r].st # "flip"
              /\ job'[r].out = "err" \/ (job'[r].out = "none" /\ job'[r].st = "swap")
<1>1. CallsOK /\ CallOK(r) /\ DOMAIN job = Reqs
  BY DEF CallsOK
<1>2. job[r].op = "exec" /\ job[r].out = "none" /\ job[r].st \in {"restore", "swap"}
  BY DEF RestoreCatalogRoot, SwapCatalog, Running
<1>3. EngineFrame /\ txn' = txn
  BY DEF RestoreCatalogRoot, SwapCatalog, EngineFrame, RegistryStays, sessVars
<1>5. job' = Return(r, "err") \/ job' = [job EXCEPT ![r].st = "swap"]
  BY DEF RestoreCatalogRoot, SwapCatalog
<1>6. Plan(r).op \notin Raw
  BY <1>1, <1>2 DEF CallOK
<1>7. /\ CallMoves(r, job'[r])
      /\ req[r].pc # "gone" =>
           /\ job'[r].op = "exec" /\ job'[r].k = job[r].k /\ job'[r].plans = job[r].plans
           /\ job'[r].st # "flip"
           /\ job'[r].out = "err" \/ (job'[r].out = "none" /\ job'[r].st = "swap")
  <2>0. DOMAIN job[r] = JobFields
    BY <1>1, <1>2 DEF CallOK
  <2>1. CASE job' = Return(r, "err")
    <3>1. /\ CallMoves(r, job'[r])
          /\ req[r].pc # "gone" => job'[r].op = job[r].op /\ job'[r].out = "err"
      BY <1>1, <1>2, <1>3, <2>1, ReturnMoves DEF EngineFrame
    <3>2. req[r].pc # "gone" => /\ job'[r].k = job[r].k /\ job'[r].plans = job[r].plans
                                /\ job'[r].st = job[r].st
      BY <1>1, <2>0, <2>1 DEF Return, JobFields
    <3> QED BY <1>2, <3>1, <3>2
  <2>2. CASE job' = [job EXCEPT ![r].st = "swap"]
    <3>2. /\ DOMAIN job'[r] = JobFields /\ job'[r].op = job[r].op /\ job'[r].x = job[r].x
          /\ job'[r].plans = job[r].plans /\ job'[r].st = "swap" /\ job'[r].out = job[r].out
          /\ job'[r].k = job[r].k /\ job' = [job EXCEPT ![r] = job'[r]]
      BY <1>1, <2>0, <2>2 DEF JobFields
    <3>3. CallMoves(r, job'[r])
      BY <1>1, <1>2, <1>3, <1>6, <3>2, PlaceMoves DEF Going, EngineFrame
    <3> QED BY <1>2, <3>2, <3>3
  <2> QED BY <1>5, <2>1, <2>2
<1> QED BY <1>2, <1>3, <1>7

LEMMA RestoreKeeps ==
  ASSUME ServerInv, NEW r \in Reqs, RestoreCatalogRoot(r) \/ SwapCatalog(r)
  PROVE  ServerInv'
<1>1. /\ CallMoves(r, job'[r]) /\ EngineFrame /\ txn' = txn
      /\ job[r].op = "exec" /\ job[r].out = "none" /\ job[r].st \in {"restore", "swap"}
      /\ req[r].pc # "gone" =>
           /\ job'[r].op = "exec"
           /\ job'[r].out = "err" \/ (job'[r].out = "none" /\ job'[r].st = "swap")
  BY RestoreMoves DEF ServerInv
<1>2. NoneFreed /\ WholeEffects
  BY <1>1, TxnStays DEF ServerInv
<1>3. \A x \in Xids : Uses(r, x) /\ Failing(r) => Failing(r)'
  BY <1>1 DEF Failing, Uses, EngineFrame
<1> QED BY <1>1, <1>2, <1>3, CallKeeps DEF Acting

\* begin_with_isolation fails: the xid is used up, and nobody has it.
LEMMA FailedBeginKeeps ==
  ASSUME ServerInv, NEW r \in Reqs, Running(r, "begin"), NEW x \in Xids, txn[x].st = "free",
         txn' = [txn EXCEPT ![x].st = "aborted"], job' = Return(r, "err"), EngineFrame
  PROVE  ServerInv'
<1>1. CallsOK /\ OwnersOK /\ CallOK(r)
  BY DEF ServerInv, CallsOK
<1>2. job[r].op = "begin" /\ job[r].out = "none" /\ job[r].x = 0
  BY <1>1 DEF Running, CallOK
<1>3. /\ CallMoves(r, job'[r])
      /\ req[r].pc # "gone" => job'[r].op = job[r].op /\ job'[r].out = "err"
  BY <1>1, <1>2, ReturnMoves DEF EngineFrame
<1>4. /\ req' = req /\ DOMAIN job' = Reqs /\ \A q \in Reqs : q # r => job'[q] = job[q]
      /\ job'[r].op = "none" \/ (DOMAIN job'[r] = JobFields /\ job'[r].op = "begin" /\ job'[r].x = 0)
  BY <1>1, <1>2, <1>3 DEF CallMoves, CallsOK
<1>5. CallOK(r)'
  <2>1. CASE req[r].pc = "gone"
    <3>1. job'[r].op = "none"
      BY <1>1, <2>1 DEF Return, NoJob, CallsOK
    <3> QED BY <1>1, <1>4, <2>1, <3>1 DEF CallOK, Waiting, Acting, InSession
  <2>2. CASE req[r].pc # "gone"
    <3>1. DOMAIN job'[r] = JobFields /\ job'[r].op = "begin" /\ job'[r].x = 0 /\ job'[r].out = "err"
      BY <1>2, <1>3, <1>4, <2>2
    <3>2. req[r].pc = "begin"
      BY <1>1, <1>2, <2>2 DEF CallOK, Waiting, CallOf
    <3> QED BY <1>1, <1>4, <3>1, <3>2 DEF CallOK, Waiting, CallOf, Acting, InSession
  <2> QED BY <2>1, <2>2
<1>6. ASSUME NEW y \in Xids PROVE ~Uses(r, y)' /\ ~Uses(r, y)
  BY <1>2, <1>4, ZeroIsNoXid DEF Uses
<1>7. ASSUME NEW y \in Xids
      PROVE  /\ DOMAIN txn'[y] = {"st", "writes", "ser"} /\ txn'[y].writes = txn[y].writes
             /\ txn'[y].st = IF y = x THEN "aborted" ELSE txn[y].st
  BY <1>1 DEF OwnersOK
<1>8. NoneFreed
  BY <1>1, <1>7 DEF NoneFreed, OwnersOK
<1>9. OthersStay(r) /\ GivesBackOnly(r)
  BY <1>1, <1>4, <1>6 DEF OthersStay, GivesBackOnly, EngineFrame, RegistryStays, CallsOK, OwnersOK
<1>10. CallsOK' /\ OwnersOK'
  BY <1>1, <1>5, <1>8, <1>9, RequestMoves DEF EngineFrame
<1>11. CronOK'
  BY <1>4, CronKept DEF RunsStay, LiveRun, EndedRun, ServerInv, EngineFrame
<1>12. ASSUME NEW y \in Xids, RollsBack(y) PROVE RollsBack(y)'
  <2>1. ASSUME NEW q \in Reqs
        PROVE  /\ Uses(q, y)' => Uses(q, y)
               /\ Uses(q, y) /\ Failing(q) => Uses(q, y)' /\ Failing(q)'
    <3>1. CASE q = r
      BY <1>6, <3>1
    <3>2. CASE q # r
      BY <1>4, <3>2 DEF Uses, Failing
    <3> QED BY <3>1, <3>2
  <2>2. sess' = sess
    BY DEF EngineFrame, RegistryStays
  <2> QED BY <1>12, <2>1, <2>2, RollsBackStays
<1>13. PartsStay
  BY <1>7, <1>12 DEF PartsStay, Part, EngineFrame
<1> QED BY <1>10, <1>11, <1>13, PartsKept DEF ServerInv

\* begin_with_isolation: the transaction it hands out was nobody's.
LEMMA BegunKeeps ==
  ASSUME ServerInv, NEW r \in Reqs, Running(r, "begin"), NEW x \in Xids, txn[x].st = "free",
         txn' = [txn EXCEPT ![x] = [st |-> "open", writes |-> {}, ser |-> req[r].in.ser]],
         job' = [Return(r, "ok") EXCEPT ![r] = IF @.op = "none" THEN @ ELSE [@ EXCEPT !.x = x]],
         cut' = IF req[r].pc = "gone" THEN cut \cup {x} ELSE cut,
         RegistryStays, req' = req, load' = load, cron' = cron
  PROVE  ServerInv'
<1>1. CallsOK /\ OwnersOK /\ CallOK(r) /\ DOMAIN job = Reqs
  BY DEF ServerInv, CallsOK
<1>2. job[r].op = "begin" /\ job[r].out = "none" /\ job[r].x = 0 /\ DOMAIN job[r] = JobFields
  BY <1>1 DEF Running, CallOK
<1>3. /\ txn[x].st = "free"
      /\ txn' = [txn EXCEPT ![x] = [st |-> "open", writes |-> {}, ser |-> req[r].in.ser]]
      /\ job' = [Return(r, "ok") EXCEPT ![r] = IF @.op = "none" THEN @ ELSE [@ EXCEPT !.x = x]]
      /\ cut' = IF req[r].pc = "gone" THEN cut \cup {x} ELSE cut
  OBVIOUS
<1>4. RegistryStays /\ req' = req /\ load' = load /\ cron' = cron
  OBVIOUS
<1>5. /\ DOMAIN job' = Reqs /\ \A q \in Reqs : q # r => job'[q] = job[q]
      /\ req[r].pc = "gone" => job'[r].op = "none"
      /\ req[r].pc # "gone" => /\ DOMAIN job'[r] = JobFields /\ job'[r].op = "begin"
                               /\ job'[r].x = x /\ job'[r].out = "ok"
  <2>1. CASE req[r].pc = "gone"
    BY <1>1, <1>3, <2>1 DEF Return, NoJob
  <2>2. CASE req[r].pc # "gone"
    <3>1. Return(r, "ok") = [job EXCEPT ![r] = [job[r] EXCEPT !.out = "ok"]]
      BY <2>2 DEF Return
    <3>2. job' = [job EXCEPT ![r] = [[job[r] EXCEPT !.out = "ok"] EXCEPT !.x = x]]
      BY <1>1, <1>2, <1>3, <3>1 DEF JobFields
    <3> QED BY <1>1, <1>2, <2>2, <3>2 DEF JobFields
  <2> QED BY <2>1, <2>2
<1>6. req[r].pc \in {"begin", "gone"} /\ (req[r].pc = "begin" => ~InSession(r))
  BY <1>1, <1>2 DEF CallOK, Waiting, CallOf
<1>7. CallsOK'
  <2>1. CallOK(r)'
    <3>1. CASE req[r].pc = "gone"
      BY <1>1, <1>4, <1>5, <3>1 DEF CallOK, Waiting, Acting, InSession
    <3>2. CASE req[r].pc = "begin"
      BY <1>1, <1>4, <1>5, <1>6, <3>2 DEF CallOK, Waiting, CallOf, Acting, InSession
    <3> QED BY <1>6, <3>1, <3>2
  <2>2. ASSUME NEW q \in Reqs, q # r PROVE CallOK(q)'
    <3>1. CallOK(q) /\ req'[q] = req[q] /\ job'[q] = job[q] /\ cut \subseteq cut'
      BY <1>1, <1>3, <1>4, <1>5, <2>2 DEF CallsOK
    <3> QED BY <3>1, CallStays
  <2> QED BY <1>1, <1>4, <1>5, <2>1, <2>2 DEF CallsOK
<1>8. ASSUME NEW y \in Xids
      PROVE  /\ DOMAIN txn'[y] = {"st", "writes", "ser"}
             /\ y = x => txn'[y].st = "open" /\ txn'[y].writes = {}
             /\ y # x => txn'[y] = txn[y]
  BY <1>1, <1>3 DEF OwnersOK
<1>9. ASSUME NEW q \in Reqs, NEW y \in Xids, Uses(q, y)'
      PROVE  \/ q # r /\ y # x /\ Uses(q, y)
             \/ q = r /\ y = x /\ req[r].pc = "begin"
  <2>1. CASE q = r
    <3>1. req[r].pc # "gone"
      BY <1>4, <1>9, <2>1 DEF Uses
    <3> QED BY <1>5, <1>6, <1>9, <2>1, <3>1 DEF Uses
  <2>2. CASE q # r
    <3>1. Uses(q, y)
      BY <1>4, <1>5, <1>9, <2>2 DEF Uses
    <3> QED BY <1>1, <1>3, <2>2, <3>1 DEF OwnersOK
  <2> QED BY <2>1, <2>2
<1>10. OwnersOK'
  <2>1. ASSUME NEW q \in Reqs, NEW y \in Xids, Uses(q, y)'
        PROVE  /\ txn'[y].st # "free"
               /\ InSession(q)' => busy'[y] = q
               /\ ~InSession(q)' => sess'[y] = NoOne /\ y \notin reaping'
    <3>1. CASE q # r /\ y # x /\ Uses(q, y)
      BY <1>1, <1>4, <1>8, <3>1 DEF OwnersOK, InSession, RegistryStays
    <3>2. CASE q = r /\ y = x /\ req[r].pc = "begin"
      BY <1>1, <1>3, <1>4, <1>6, <1>8, <3>2 DEF OwnersOK, InSession, RegistryStays
    <3> QED BY <1>9, <2>1, <3>1, <3>2
  <2>2. ASSUME NEW q \in Reqs, NEW p \in Reqs, NEW y \in Xids, Uses(q, y)', Uses(p, y)'
        PROVE  q = p
    <3>1. (q # r /\ y # x /\ Uses(q, y)) \/ (q = r /\ y = x)
      BY <1>9, <2>2
    <3>2. (p # r /\ y # x /\ Uses(p, y)) \/ (p = r /\ y = x)
      BY <1>9, <2>2
    <3> QED BY <1>1, <3>1, <3>2 DEF OwnersOK
  <2>3. DOMAIN txn' = Xids
    BY <1>1, <1>3 DEF OwnersOK
  <2>4. \A y \in Xids : txn'[y].st = "free" => sess'[y] = NoOne /\ y \notin reaping'
    BY <1>1, <1>4, <1>8 DEF OwnersOK, RegistryStays
  <2> QED BY <1>1, <1>4, <1>8, <2>1, <2>2, <2>3, <2>4 DEF OwnersOK, RegistryStays
<1>11. CronOK'
  BY <1>4, CronKept DEF RunsStay, LiveRun, EndedRun, ServerInv
<1>12. PartsAborted'
  <2>1. ASSUME NEW y \in Xids \ cut', Part(y)', txn'[y].st # "aborted"
        PROVE  txn'[y].st = "open" /\ RollsBack(y)'
    <3>1. y # x /\ txn'[y] = txn[y] /\ y \notin cut
      BY <1>3, <1>8, <2>1 DEF Part
    <3>2. txn[y].st = "open" /\ RollsBack(y)
      BY <2>1, <3>1 DEF ServerInv, PartsAborted, Part
    <3>3. ASSUME NEW q \in Reqs, Uses(q, y), Failing(q) PROVE Uses(q, y)' /\ Failing(q)'
      <4>1. q # r
        BY <1>2, <3>3 DEF Failing
      <4> QED BY <1>4, <1>5, <3>3, <4>1 DEF Uses, Failing
    <3>4. sess' = sess /\ \A q \in Reqs : Uses(q, y)' => Uses(q, y)
      BY <1>4, <1>9, <3>1 DEF RegistryStays
    <3>5. RollsBack(y)'
      BY <3>2, <3>3, <3>4, RollsBackStays
    <3> QED BY <3>1, <3>2, <3>5
  <2> QED BY <2>1 DEF PartsAborted
<1> QED BY <1>7, <1>10, <1>11, <1>12 DEF ServerInv

LEMMA BeginKeeps ==
  ASSUME ServerInv, NEW r \in Reqs, EngineBegin(r)
  PROVE  ServerInv'
<1>1. Running(r, "begin") /\ RegistryStays /\ req' = req /\ load' = load /\ cron' = cron
  BY DEF EngineBegin, RegistryStays, sessVars
<1>2. PICK x \in Xids :
        /\ txn[x].st = "free"
        /\ \/ /\ txn' = [txn EXCEPT ![x] = [st |-> "open", writes |-> {}, ser |-> req[r].in.ser]]
              /\ job' = [Return(r, "ok") EXCEPT ![r] = IF @.op = "none" THEN @ ELSE [@ EXCEPT !.x = x]]
              /\ cut' = IF req[r].pc = "gone" THEN cut \cup {x} ELSE cut
           \/ txn' = [txn EXCEPT ![x].st = "aborted"] /\ job' = Return(r, "err") /\ cut' = cut
  BY DEF EngineBegin
<1> QED BY <1>1, <1>2, BegunKeeps, FailedBeginKeeps DEF EngineFrame

LEMMA EngineStepKeeps ==
  ASSUME ServerInv, NEW r \in Reqs, EngineStep(r)
  PROVE  ServerInv'
BY BeginKeeps, CommitKeeps, CheckpointKeeps, AbortKeeps, SaveRootKeeps, ExecDmlKeeps, EngineRowKeeps,
   ExecCatalogKeeps, FlipRootKeeps, RestoreKeeps DEF EngineStep
-----------------------------------------------------------------------------
(* Handlers. *)

\* The handler of r moves on: its record, its call and the registry of what it
\* gives back change, and no transaction does.
HandlerFrame(r) ==
  /\ OthersStay(r) /\ load' = load /\ txn' = txn /\ reaping' = reaping
  /\ idle' \subseteq idle /\ DOMAIN sess' = Xids /\ DOMAIN busy' = Xids

\* A run of a cron job that is in flight stays in flight; no other request is
\* taken for one.
NoRunEnds(r) ==
  /\ req'[r].in.kind = "cron" /\ req'[r].pc \notin {"new", "gone", "done"} <=>
     req[r].in.kind = "cron" /\ req[r].pc \notin {"new", "gone", "done"}
  /\ req[r].pc \notin {"new", "gone"} => req'[r].in.kind = req[r].in.kind
                                         /\ req'[r].in.user = req[r].in.user
  /\ req[r].pc # "done"

LEMMA HandlerMoves ==
  ASSUME ServerInv, NEW r \in Reqs, HandlerFrame(r), CallOK(r)', cut' = cut,
         \A x \in Xids : Uses(r, x)' => Uses(r, x) /\ req'[r].in.target = req[r].in.target,
         \A x \in Xids : sess'[x] # sess[x] \/ busy'[x] # busy[x] => Uses(r, x) /\ ~Uses(r, x)',
         \A x \in Xids : Uses(r, x) /\ Failing(r) /\ Part(x) /\ x \notin cut =>
            \/ txn[x].st # "open" \/ (Uses(r, x)' /\ Failing(r)')
            \/ ~Uses(r, x)' /\ sess'[x] = NoOne
  PROVE  CallsOK' /\ OwnersOK' /\ PartsAborted'
<1>1. NoneFreed
  BY TxnStays DEF HandlerFrame, ServerInv
<1>2. GivesBackOnly(r)
  BY DEF HandlerFrame, GivesBackOnly
<1>3. CallsOK' /\ OwnersOK'
  BY <1>1, <1>2, RequestMoves DEF HandlerFrame, ServerInv
<1>4. ASSUME NEW x \in Xids \ cut', Part(x)', txn'[x].st # "aborted"
      PROVE  txn'[x].st = "open" /\ RollsBack(x)'
  <2>1. txn' = txn /\ Part(x) /\ x \notin cut
    BY <1>4 DEF HandlerFrame, Part
  <2>2. txn[x].st = "open" /\ RollsBack(x)
    BY <1>4, <2>1 DEF ServerInv, PartsAborted
  <2>3. ASSUME NEW q \in Reqs, q # r
        PROVE  (Uses(q, x)' <=> Uses(q, x)) /\ (Failing(q)' <=> Failing(q))
    BY <2>3 DEF HandlerFrame, OthersStay, Uses, Failing
  <2>4. CASE Abandoned(x)
    BY <2>1, <2>2, <2>3, <2>4 DEF RollsBack, Abandoned
  <2>5. CASE ~Abandoned(x)
    <3>1. PICK q \in Reqs : Uses(q, x) /\ Failing(q)
      BY <2>2, <2>5 DEF RollsBack
    <3>2. CASE q # r
      BY <2>1, <2>2, <2>3, <3>1, <3>2 DEF RollsBack
    <3>3. CASE q = r /\ Uses(r, x)' /\ Failing(r)'
      BY <2>1, <2>2, <3>3 DEF RollsBack
    <3>4. CASE q = r /\ ~Uses(r, x)' /\ sess'[x] = NoOne
      <4>1. \A p \in Reqs : ~Uses(p, x)'
        BY <2>3, <3>1, <3>4 DEF ServerInv, OwnersOK
      <4> QED BY <2>1, <2>2, <3>4, <4>1 DEF RollsBack, Abandoned
    <3> QED BY <2>1, <2>2, <3>1, <3>2, <3>3, <3>4
  <2> QED BY <2>4, <2>5
<1>5. PartsAborted'
  BY <1>4 DEF PartsAborted
<1> QED BY <1>3, <1>5

LEMMA RunsContinue ==
  ASSUME CronOK, NEW r \in Reqs, OthersStay(r), NoRunEnds(r), cron' = cron
  PROVE  CronOK'
<1>1. ASSUME NEW q \in Reqs, NEW j \in CronJobs
      PROVE  /\ LiveRun(q, j)' <=> LiveRun(q, j)
             /\ EndedRun(q, j) => EndedRun(q, j)' /\ req'[q].reply = req[q].reply
  <2>1. CASE q = r
    BY <2>1 DEF NoRunEnds, LiveRun, EndedRun
  <2>2. CASE q # r
    BY <2>2 DEF OthersStay, LiveRun, EndedRun
  <2> QED BY <2>1, <2>2
<1> QED BY <1>1, CronKept DEF RunsStay

LEMMA CallEffect ==
  ASSUME CallsOK, NEW r \in Reqs, NEW op, NEW x, NEW plans, job' = Call(r, op, x, plans)
  PROVE  /\ DOMAIN job' = Reqs /\ \A q \in Reqs : q # r => job'[q] = job[q]
         /\ DOMAIN job'[r] = JobFields /\ job'[r].op = op /\ job'[r].x = x
         /\ job'[r].plans = plans /\ job'[r].k = 1 /\ job'[r].st = "start"
         /\ job'[r].out = "none"
BY DEF CallsOK, Call, JobFields

LEMMA IdleEffect ==
  ASSUME CallsOK, NEW r \in Reqs, job' = Idle(r)
  PROVE  /\ DOMAIN job' = Reqs /\ \A q \in Reqs : q # r => job'[q] = job[q]
         /\ job'[r].op = "none"
BY DEF CallsOK, Idle, NoJob

\* A request arrives that needs no session: it is turned down, or starts with
\* a transaction of its own, a catalog edit or the slots of a batch.
Arrived(r, in) ==
  /\ DOMAIN req' = Reqs /\ \A q \in Reqs : q # r => req'[q] = req[q]
  /\ DOMAIN req'[r] = ReqFields /\ req'[r].in = in
  /\ \/ job' = job /\ req'[r].pc = "done"
     \/ job' = job /\ req'[r].pc = "slot" /\ in.kind = "batch"
     \/ /\ job' = Call(r, "begin", 0, << >>) /\ req'[r].pc = "begin"
        /\ in.target = 0 /\ in.kind # "get"
     \/ job' = Call(r, "edit", 0, in.script) /\ req'[r].pc = "edit" /\ in.kind = "admin"

SameRegistry ==
  /\ load' = load /\ txn' = txn /\ sess' = sess /\ reaping' = reaping /\ cut' = cut
  /\ idle' \subseteq idle /\ DOMAIN busy' = Xids /\ \A x \in Xids : busy'[x] = busy[x]

LEMMA PlainArrival ==
  ASSUME ServerInv, NEW r \in Reqs, req[r].pc = "new", NEW in, InputOK(in),
         Arrived(r, in), SameRegistry
  PROVE  /\ CallsOK' /\ OwnersOK' /\ PartsAborted' /\ OthersStay(r)
         /\ in.kind # "cron" /\ cron' = cron => CronOK'
<1>1. CallsOK /\ OwnersOK /\ CallOK(r) /\ DOMAIN job = Reqs
  BY DEF ServerInv, CallsOK
<1>2. job[r].op = "none"
  BY <1>1 DEF CallOK
<1>3. OthersStay(r) /\ CallOK(r)' /\ (job'[r].op = "none" \/ job'[r].x = 0)
  <2>1. CASE job' = job
    <3>1. req'[r].pc \in {"done", "slot"} /\ (req'[r].pc = "slot" => in.kind = "batch")
      BY <1>1, <1>2, <2>1, CallEffect DEF Arrived
    <3>2. CallOK(r)'
      BY <1>2, <2>1, <3>1 DEF CallOK, Arrived, Waiting, Acting, InSession
    <3> QED BY <1>1, <1>2, <2>1, <3>2 DEF OthersStay, Arrived
  <2>2. CASE /\ job' = Call(r, "begin", 0, << >>) /\ req'[r].pc = "begin"
             /\ in.target = 0 /\ in.kind # "get"
    <3>1. /\ OthersStay(r) /\ DOMAIN job'[r] = JobFields /\ job'[r].op = "begin" /\ job'[r].x = 0
          /\ job'[r].out = "none"
      BY <1>1, <2>2, CallEffect DEF OthersStay, Arrived
    <3>2. CallOK(r)'
      BY <2>2, <3>1 DEF CallOK, Arrived, Waiting, Acting, InSession, CallOf
    <3> QED BY <3>1, <3>2
  <2>3. CASE job' = Call(r, "edit", 0, in.script) /\ req'[r].pc = "edit" /\ in.kind = "admin"
    <3>1. /\ OthersStay(r) /\ DOMAIN job'[r] = JobFields /\ job'[r].op = "edit" /\ job'[r].x = 0
          /\ job'[r].out = "none"
      BY <1>1, <2>3, CallEffect DEF OthersStay, Arrived
    <3>2. in.target = 0
      BY <2>3 DEF InputOK, OneShotKinds
    <3>3. CallOK(r)'
      BY <2>3, <3>1, <3>2 DEF CallOK, Arrived, Waiting, Acting, InSession, CallOf
    <3> QED BY <3>1, <3>3
  <2> QED BY <2>1, <2>2, <2>3 DEF Arrived
<1>4. \A x \in Xids : ~Uses(r, x) /\ ~Uses(r, x)'
  BY <1>2, <1>3, ZeroIsNoXid DEF Uses
<1>5. HandlerFrame(r)
  BY <1>1, <1>3 DEF HandlerFrame, SameRegistry, OwnersOK
<1>6. CallsOK' /\ OwnersOK' /\ PartsAborted'
  BY <1>3, <1>4, <1>5, HandlerMoves DEF SameRegistry
<1>7. in.kind # "cron" => NoRunEnds(r)
  BY DEF NoRunEnds, Arrived
<1> QED BY <1>3, <1>6, <1>7, RunsContinue DEF ServerInv

\* TxnSessions::checkout: a request takes a session nobody has.
LEMMA SessionArrival ==
  ASSUME ServerInv, NEW r \in Reqs, req[r].pc = "new", NEW in, InputOK(in),
         NEW u, CanCheckout(in.target, u), busy' = [busy EXCEPT ![in.target] = r],
         NEW op \in Acting, NEW plans, Accept(r, in, op), job' = Call(r, op, in.target, plans),
         op = "exec" /\ in.kind = "get" => plans[1].op = "get",
         load' = load, txn' = txn, sess' = sess, idle' = idle, reaping' = reaping,
         cut' = cut, cron' = cron
  PROVE  ServerInv'
<1> DEFINE x == in.target
<1>1. CallsOK /\ OwnersOK /\ CallOK(r) /\ DOMAIN job = Reqs /\ DOMAIN req = Reqs
  BY DEF ServerInv, CallsOK
<1>2. job[r].op = "none" /\ x \in Xids /\ sess[x] # NoOne /\ busy[x] = NoOne /\ x # 0
  BY <1>1, ZeroIsNoXid DEF CallOK, CanCheckout
<1>3. /\ DOMAIN req' = Reqs /\ \A q \in Reqs : q # r => req'[q] = req[q]
      /\ DOMAIN req'[r] = ReqFields /\ req'[r].in = in /\ req'[r].pc = op /\ req'[r].x = x
  BY <1>1 DEF Accept, CallOK, ReqFields
<1>4. /\ DOMAIN job' = Reqs /\ \A q \in Reqs : q # r => job'[q] = job[q]
      /\ DOMAIN job'[r] = JobFields /\ job'[r].op = op /\ job'[r].x = x
      /\ job'[r].plans = plans /\ job'[r].k = 1 /\ job'[r].st = "start" /\ job'[r].out = "none"
  BY <1>1, CallEffect
<1>5. CallOK(r)'
  <2>1. op # "none" /\ op # "begin" /\ op # "edit" /\ op # "reabort" /\ op \in Waiting
        /\ op \notin {"new", "slot", "done", "gone"}
    BY DEF Acting, Waiting
  <2>2. in.kind = "get" /\ op = "exec" => (Plan(r).op)' = "get"
    BY <1>4 DEF Plan
  <2> QED BY <1>2, <1>3, <1>4, <2>1, <2>2 DEF CallOK, InSession, CallOf
<1>6. ASSUME NEW q \in Reqs, q # r PROVE CallOK(q)'
  <2>1. CallOK(q) /\ req'[q] = req[q] /\ job'[q] = job[q]
    BY <1>1, <1>3, <1>4, <1>6 DEF CallsOK
  <2> QED BY <2>1 DEF CallOK, InSession, Plan
<1>7. CallsOK'
  BY <1>1, <1>3, <1>4, <1>5, <1>6 DEF CallsOK
<1>8. ASSUME NEW q \in Reqs, NEW y \in Xids, Uses(q, y)'
      PROVE  (q = r /\ y = x) \/ (q # r /\ y # x /\ Uses(q, y))
  <2>1. CASE q = r
    BY <1>4, <1>8, <2>1 DEF Uses
  <2>2. CASE q # r
    <3>1. Uses(q, y)
      BY <1>3, <1>4, <1>8, <2>2 DEF Uses
    <3>2. y # x
      BY <1>1, <1>2, <3>1, ServerAssumption DEF OwnersOK
    <3> QED BY <2>2, <3>1, <3>2
  <2> QED BY <2>1, <2>2
<1>9. \A y \in Xids : busy'[y] = IF y = x THEN r ELSE busy[y]
  BY <1>1 DEF OwnersOK
<1>10. OwnersOK'
  <2>1. ASSUME NEW q \in Reqs, NEW y \in Xids, Uses(q, y)'
        PROVE  /\ txn'[y].st # "free"
               /\ InSession(q)' => busy'[y] = q
               /\ ~InSession(q)' => sess'[y] = NoOne /\ y \notin reaping'
    <3>1. CASE q # r /\ y # x /\ Uses(q, y)
      BY <1>1, <1>3, <1>9, <3>1 DEF OwnersOK, InSession
    <3>2. CASE q = r /\ y = x
      BY <1>1, <1>2, <1>3, <1>9, <3>2 DEF OwnersOK, InSession
    <3> QED BY <1>8, <2>1, <3>1, <3>2
  <2>2. ASSUME NEW q \in Reqs, NEW p \in Reqs, NEW y \in Xids, Uses(q, y)', Uses(p, y)'
        PROVE  q = p
    <3>1. (q # r /\ y # x /\ Uses(q, y)) \/ (q = r /\ y = x)
      BY <1>8, <2>2
    <3>2. (p # r /\ y # x /\ Uses(p, y)) \/ (p = r /\ y = x)
      BY <1>8, <2>2
    <3> QED BY <1>1, <3>1, <3>2 DEF OwnersOK
  <2>3. ASSUME NEW y \in Xids, y \in reaping' PROVE busy'[y] = Reaper
    BY <1>1, <1>2, <1>9, <2>3, ServerAssumption DEF OwnersOK
  <2>4. DOMAIN busy' = Xids
    BY <1>1 DEF OwnersOK
  <2> QED BY <1>1, <2>1, <2>2, <2>3, <2>4 DEF OwnersOK
<1>11. CronOK'
  <2>1. in.kind # "cron"
    BY <1>2 DEF InputOK, OneShotKinds
  <2>2. NoRunEnds(r)
    BY <1>3, <2>1 DEF NoRunEnds
  <2>3. OthersStay(r)
    BY <1>3, <1>4 DEF OthersStay
  <2> QED BY <2>2, <2>3, RunsContinue DEF ServerInv
<1>12. PartsAborted'
  <2>1. ASSUME NEW y \in Xids, RollsBack(y) PROVE RollsBack(y)'
    <3>1. ASSUME NEW q \in Reqs, Uses(q, y), Failing(q) PROVE Uses(q, y)' /\ Failing(q)'
      <4>1. q # r
        BY <1>2, <3>1 DEF Uses
      <4> QED BY <1>3, <1>4, <3>1, <4>1 DEF Uses, Failing
    <3>2. CASE Abandoned(y)
      <4>1. y # x
        BY <1>2, <3>2 DEF Abandoned
      <4> QED BY <1>8, <3>2, <4>1 DEF Abandoned, RollsBack
    <3>3. CASE ~Abandoned(y)
      BY <2>1, <3>1, <3>3 DEF RollsBack
    <3> QED BY <3>2, <3>3
  <2>2. PartsStay
    BY <2>1 DEF PartsStay, Part
  <2> QED BY <2>2, PartsKept DEF ServerInv
<1> QED BY <1>7, <1>10, <1>11, <1>12 DEF ServerInv

LEMMA AcceptEffect ==
  ASSUME CallsOK, NEW r \in Reqs, NEW in, NEW pc, Accept(r, in, pc)
  PROVE  /\ DOMAIN req' = Reqs /\ \A q \in Reqs : q # r => req'[q] = req[q]
         /\ DOMAIN req'[r] = ReqFields /\ req'[r].in = in /\ req'[r].pc = pc
<1>1. DOMAIN req = Reqs /\ DOMAIN req[r] = ReqFields
  BY DEF CallsOK, CallOK
<1> QED BY <1>1 DEF Accept, ReqFields

LEMMA RejectEffect ==
  ASSUME CallsOK, NEW r \in Reqs, NEW in, Reject(r, in)
  PROVE  /\ DOMAIN req' = Reqs /\ \A q \in Reqs : q # r => req'[q] = req[q]
         /\ DOMAIN req'[r] = ReqFields /\ req'[r].in = in /\ req'[r].pc = "done"
<1>1. DOMAIN req = Reqs /\ DOMAIN req[r] = ReqFields
  BY DEF CallsOK, CallOK
<1> QED BY <1>1 DEF Reject, ReqFields

\* Everything an arrival outside sessions leaves alone.
ArrivalFrame == load' = load /\ txn' = txn /\ RegistryStays /\ cut' = cut

LEMMA OutsideArrival ==
  ASSUME ServerInv, NEW r \in Reqs, req[r].pc = "new", NEW in, InputOK(in), in.kind # "cron",
         Arrived(r, in), ArrivalFrame, cron' = cron
  PROVE  ServerInv'
<1>1. SameRegistry
  BY DEF SameRegistry, ArrivalFrame, RegistryStays, ServerInv, OwnersOK
<1> QED BY <1>1, PlainArrival DEF ServerInv

LEMMA OutsideArrivals ==
  ASSUME ServerInv, NEW r \in Reqs,
         PostTxnBegin(r) \/ OneShot(r) \/ AdminEdit(r) \/ PostBatchSql(r)
  PROVE  ServerInv'
<1>1. CallsOK /\ ArrivalFrame /\ cron' = cron
  BY DEF PostTxnBegin, OneShot, AdminEdit, PostBatchSql, ArrivalFrame, RegistryStays, sessVars,
         ServerInv
<1>2. PICK in \in load.inputs[r] :
        /\ Arrives(r, in)
        /\ \/ in.kind = "begin" /\ Accept(r, in, "begin") /\ job' = Call(r, "begin", 0, << >>)
           \/ /\ in.target = 0 /\ in.kind \in {"sql", "rows", "rpc"}
              /\ \/ Accept(r, in, "begin") /\ job' = Call(r, "begin", 0, << >>)
                 \/ Reject(r, in) /\ job' = job
           \/ in.kind = "admin" /\ Accept(r, in, "edit") /\ job' = Call(r, "edit", 0, in.script)
           \/ in.kind = "batch" /\ Accept(r, in, "slot") /\ job' = job
  BY DEF PostTxnBegin, OneShot, AdminEdit, PostBatchSql
<1>3. InputOK(in) /\ req[r].pc = "new" /\ in.kind # "cron"
  BY <1>1, <1>2, InputsAreOK DEF CallsOK, Arrives
<1>4. in.kind = "begin" => in.target = 0
  BY <1>3 DEF InputOK, OneShotKinds
<1>5. Arrived(r, in)
  BY <1>1, <1>2, <1>4, AcceptEffect, RejectEffect DEF Arrived
<1> QED BY <1>1, <1>3, <1>5, OutsideArrival

LEMMA RestWriteKeeps ==
  ASSUME ServerInv, NEW r \in Reqs, RestWrite(r)
  PROVE  ServerInv'
<1>1. CallsOK /\ ArrivalFrame /\ cron' = cron
  BY DEF RestWrite, ArrivalFrame, RegistryStays, sessVars, ServerInv
<1>2. PICK in \in load.inputs[r] :
        /\ Arrives(r, in) /\ in.kind = "rest"
        /\ LET sql == [in EXCEPT !.script = RestStatements(in.script[1])]
           IN \/ Accept(r, sql, "begin") /\ job' = Call(r, "begin", 0, << >>)
              \/ Reject(r, sql) /\ job' = job
  BY DEF RestWrite
<1> DEFINE sql == [in EXCEPT !.script = RestStatements(in.script[1])]
<1>3. InputOK(in) /\ req[r].pc = "new" /\ in.kind = "rest"
  BY <1>1, <1>2, InputsAreOK DEF CallsOK, Arrives
<1>4. /\ DOMAIN sql = {"kind", "user", "target", "script", "ser", "stop"}
      /\ sql.kind = "rest" /\ sql.target = in.target /\ in.target = 0
  BY <1>3 DEF InputOK, OneShotKinds
<1>5. InputOK(sql) /\ sql.kind \notin {"cron", "get"} /\ sql.target = 0
  BY <1>4 DEF InputOK
<1>6. \/ Accept(r, sql, "begin") /\ job' = Call(r, "begin", 0, << >>)
      \/ Reject(r, sql) /\ job' = job
  BY <1>2
<1> HIDE DEF sql
<1>7. Arrived(r, sql)
  BY <1>1, <1>5, <1>6, AcceptEffect, RejectEffect DEF Arrived
<1> QED BY <1>1, <1>3, <1>5, <1>7, OutsideArrival

\* post_txn_commit, post_txn_rollback: with the session, or turned down.
LEMMA PostTxnEndKeeps ==
  ASSUME ServerInv, NEW r \in Reqs, PostTxnEnd(r)
  PROVE  ServerInv'
<1>1. CallsOK
  BY DEF ServerInv
<1>2. PICK in \in load.inputs[r] :
        /\ Arrives(r, in) /\ in.kind \in {"commit", "rollback"}
        /\ \/ /\ CanCheckout(in.target, in.user)
              /\ busy' = [busy EXCEPT ![in.target] = r]
              /\ LET op == IF in.kind = "commit" THEN "commit" ELSE "abort" IN
                   Accept(r, in, op) /\ job' = Call(r, op, in.target, << >>)
           \/ Reject(r, in) /\ busy' = busy /\ job' = job
        /\ load' = load /\ txn' = txn /\ sess' = sess /\ idle' = idle /\ reaping' = reaping
        /\ cut' = cut /\ cron' = cron
  BY DEF PostTxnEnd
<1>3. InputOK(in) /\ req[r].pc = "new" /\ in.kind # "cron"
  BY <1>1, <1>2, InputsAreOK DEF CallsOK, Arrives
<1>4. CASE Reject(r, in) /\ busy' = busy /\ job' = job
  <2>1. Arrived(r, in)
    BY <1>1, <1>4, RejectEffect DEF Arrived
  <2>2. ArrivalFrame
    BY <1>2, <1>4 DEF ArrivalFrame, RegistryStays
  <2> QED BY <1>2, <1>3, <2>1, <2>2, OutsideArrival
<1>5. CASE /\ CanCheckout(in.target, in.user)
           /\ busy' = [busy EXCEPT ![in.target] = r]
           /\ LET op == IF in.kind = "commit" THEN "commit" ELSE "abort" IN
                Accept(r, in, op) /\ job' = Call(r, op, in.target, << >>)
  <2>1. PICK op \in {"commit", "abort"} :
          Accept(r, in, op) /\ job' = Call(r, op, in.target, << >>)
    BY <1>5
  <2>2. op \in Acting /\ op # "exec"
    BY DEF Acting
  <2> QED BY <1>2, <1>3, <1>5, <2>1, <2>2, SessionArrival
<1> QED BY <1>2, <1>4, <1>5

\* post_sql, begin_scoped, get_row with a session.
LEMMA SessionStatementKeeps ==
  ASSUME ServerInv, NEW r \in Reqs, SessionStatement(r)
  PROVE  ServerInv'
<1>1. CallsOK /\ OwnersOK
  BY DEF ServerInv
<1>2. PICK in \in load.inputs[r] :
        /\ Arrives(r, in) /\ in.kind \in {"sql", "rows", "get"}
        /\ \/ /\ CanCheckout(in.target, in.user)
              /\ busy' = [busy EXCEPT ![in.target] = r]
              /\ Accept(r, in, "exec") /\ job' = Call(r, "exec", in.target, PlansOf(in, 1))
              /\ idle' = idle
           \/ /\ CanCheckout(in.target, in.user) /\ Reject(r, in)
              /\ DropGuard(in.target) /\ job' = job
           \/ Reject(r, in) /\ busy' = busy /\ idle' = idle /\ job' = job
        /\ load' = load /\ txn' = txn /\ sess' = sess /\ reaping' = reaping
        /\ cut' = cut /\ cron' = cron
  BY DEF SessionStatement
<1>3. InputOK(in) /\ req[r].pc = "new" /\ in.kind # "cron"
  BY <1>1, <1>2, InputsAreOK DEF CallsOK, Arrives
<1>4. CASE /\ CanCheckout(in.target, in.user)
           /\ busy' = [busy EXCEPT ![in.target] = r]
           /\ Accept(r, in, "exec") /\ job' = Call(r, "exec", in.target, PlansOf(in, 1))
           /\ idle' = idle
  <2> DEFINE plans == PlansOf(in, 1)
  <2>1. in.kind = "get" => plans[1].op = "get"
    BY <1>3 DEF PlansOf, InputOK
  <2>2. "exec" \in Acting
    BY DEF Acting
  <2>3. job' = Call(r, "exec", in.target, plans)
    BY <1>4
  <2> HIDE DEF plans
  <2> QED BY <1>2, <1>3, <1>4, <2>1, <2>2, <2>3, SessionArrival
<1>5. CASE /\ Reject(r, in) /\ job' = job
           /\ \/ CanCheckout(in.target, in.user) /\ DropGuard(in.target)
              \/ busy' = busy /\ idle' = idle
  <2>1. Arrived(r, in)
    BY <1>1, <1>5, RejectEffect DEF Arrived
  <2>2. DOMAIN busy' = Xids /\ (\A x \in Xids : busy'[x] = busy[x]) /\ idle' \subseteq idle
    BY <1>1, <1>5 DEF CanCheckout, DropGuard, OwnersOK
  <2>3. SameRegistry
    BY <1>2, <2>2 DEF SameRegistry
  <2> QED BY <1>2, <1>3, <2>1, <2>3, PlainArrival DEF ServerInv
<1> QED BY <1>2, <1>4, <1>5

\* run_due: the run that starts is the only one of its job.
LEMMA CronDueKeeps ==
  ASSUME ServerInv, NEW r \in Reqs, CronDue(r)
  PROVE  ServerInv'
<1>1. CallsOK /\ CronOK /\ DOMAIN req = Reqs /\ DOMAIN req[r] = ReqFields
  BY DEF ServerInv, CallsOK, CallOK
<1>2. PICK in \in load.inputs[r] :
        /\ Arrives(r, in) /\ in.kind = "cron"
        /\ \/ /\ TryStart(in.user)
              /\ cron' = [cron EXCEPT ![in.user].running = TRUE]
              /\ Accept(r, in, "begin") /\ job' = Call(r, "begin", 0, << >>)
           \/ /\ req' = [req EXCEPT ![r].in = in, ![r].pc = "done", ![r].reply = "skipped"]
              /\ cron' = cron /\ job' = job
        /\ ArrivalFrame
  BY DEF CronDue, ArrivalFrame, RegistryStays, sessVars
<1>3. InputOK(in) /\ req[r].pc = "new" /\ in.user \in CronJobs /\ in.target = 0
  BY <1>1, <1>2, InputsAreOK DEF CallsOK, Arrives, InputOK, OneShotKinds
<1>4. SameRegistry
  BY <1>2 DEF SameRegistry, ArrivalFrame, RegistryStays, ServerInv, OwnersOK
<1>5. CASE /\ TryStart(in.user)
           /\ cron' = [cron EXCEPT ![in.user].running = TRUE]
           /\ Accept(r, in, "begin") /\ job' = Call(r, "begin", 0, << >>)
  <2>1. /\ DOMAIN req' = Reqs /\ \A q \in Reqs : q # r => req'[q] = req[q]
        /\ DOMAIN req'[r] = ReqFields /\ req'[r].in = in /\ req'[r].pc = "begin"
    BY <1>1, <1>5, AcceptEffect
  <2>2. Arrived(r, in)
    BY <1>2, <1>3, <1>5, <2>1 DEF Arrived
  <2>3. CallsOK' /\ OwnersOK' /\ PartsAborted'
    BY <1>3, <1>4, <2>2, PlainArrival
  <2>4. ASSUME NEW j \in CronJobs
        PROVE  /\ DOMAIN cron'[j] = {"running", "last"} /\ cron'[j].last = cron[j].last
               /\ cron'[j].running = IF j = in.user THEN TRUE ELSE cron[j].running
    BY <1>1, <1>5 DEF CronOK
  <2>5. ASSUME NEW q \in Reqs, NEW j \in CronJobs
        PROVE  /\ LiveRun(q, j)' <=> IF q = r THEN j = in.user ELSE LiveRun(q, j)
               /\ EndedRun(q, j) => q # r /\ EndedRun(q, j)' /\ req'[q].reply = req[q].reply
    BY <1>2, <1>3, <2>1 DEF LiveRun, EndedRun
  <2>6. \A q \in Reqs : ~LiveRun(q, in.user)
    BY <1>1, <1>3, <1>5 DEF CronOK, TryStart
  <2>7. ASSUME NEW j \in CronJobs
        PROVE  /\ \A p, q \in Reqs : LiveRun(p, j)' /\ LiveRun(q, j)' => p = q
               /\ cron'[j].running <=> \E q \in Reqs : LiveRun(q, j)'
               /\ cron'[j].last # "none" =>
                    \E q \in Reqs : EndedRun(q, j)' /\ req'[q].reply = cron'[j].last
    <3>1. \A p, q \in Reqs : LiveRun(p, j)' /\ LiveRun(q, j)' => p = q
      BY <1>1, <2>5, <2>6 DEF CronOK
    <3>2. cron'[j].running <=> \E q \in Reqs : LiveRun(q, j)'
      <4>1. CASE j = in.user
        BY <2>4, <2>5, <4>1
      <4>2. CASE j # in.user
        <5>1. \A q \in Reqs : LiveRun(q, j) => q # r
          BY <1>3 DEF LiveRun
        <5>2. cron'[j].running = cron[j].running
          BY <2>4, <4>2
        <5>3. cron[j].running <=> \E q \in Reqs : LiveRun(q, j)
          BY <1>1 DEF CronOK
        <5>4. \A q \in Reqs : LiveRun(q, j)' <=> LiveRun(q, j)
          BY <2>5, <4>2, <5>1
        <5> QED BY <5>2, <5>3, <5>4
      <4> QED BY <4>1, <4>2
    <3>3. cron'[j].last # "none" =>
            \E q \in Reqs : EndedRun(q, j)' /\ req'[q].reply = cron'[j].last
      <4> SUFFICES ASSUME cron'[j].last # "none"
                   PROVE  \E q \in Reqs : EndedRun(q, j)' /\ req'[q].reply = cron'[j].last
        OBVIOUS
      <4>1. cron'[j].last = cron[j].last
        BY <2>4
      <4>2. PICK q \in Reqs : EndedRun(q, j) /\ req[q].reply = cron[j].last
        BY <1>1, <4>1 DEF CronOK
      <4>3. EndedRun(q, j)' /\ req'[q].reply = req[q].reply
        BY <2>5, <4>2
      <4> QED BY <4>1, <4>2, <4>3
    <3> QED BY <3>1, <3>2, <3>3
  <2>8. DOMAIN cron' = CronJobs /\ \A j \in CronJobs : cron'[j].running \in BOOLEAN
    BY <1>1, <1>5, <2>4 DEF CronOK
  <2>9. CronOK'
    BY <2>4, <2>7, <2>8 DEF CronOK
  <2> QED BY <2>3, <2>9 DEF ServerInv
<1>6. CASE /\ req' = [req EXCEPT ![r].in = in, ![r].pc = "done", ![r].reply = "skipped"]
           /\ cron' = cron /\ job' = job
  <2>1. /\ DOMAIN req' = Reqs /\ \A q \in Reqs : q # r => req'[q] = req[q]
        /\ DOMAIN req'[r] = ReqFields /\ req'[r].in = in /\ req'[r].pc = "done"
    BY <1>1, <1>6 DEF ReqFields
  <2>2. Arrived(r, in)
    BY <1>6, <2>1 DEF Arrived
  <2>3. CallsOK' /\ OwnersOK' /\ PartsAborted'
    BY <1>3, <1>4, <2>2, PlainArrival
  <2>4. ASSUME NEW q \in Reqs, NEW j \in CronJobs
        PROVE  /\ LiveRun(q, j)' <=> LiveRun(q, j)
               /\ EndedRun(q, j) => EndedRun(q, j)' /\ req'[q].reply = req[q].reply
    BY <1>3, <2>1 DEF LiveRun, EndedRun
  <2> QED BY <1>1, <1>6, <2>3, <2>4, CronKept DEF RunsStay, ServerInv
<1> QED BY <1>2, <1>5, <1>6

LEMMA ArriveKeeps ==
  ASSUME ServerInv, NEW r \in Reqs, Arrive(r)
  PROVE  ServerInv'
BY OutsideArrivals, RestWriteKeeps, PostTxnEndKeeps, SessionStatementKeeps, CronDueKeeps DEF Arrive

\* The handler of r is at pc, with the request it had.
Moved(r, pc) ==
  /\ DOMAIN req' = Reqs /\ \A q \in Reqs : q # r => req'[q] = req[q]
  /\ DOMAIN req'[r] = ReqFields /\ req'[r].in = req[r].in /\ req'[r].pc = pc

LEMMA ReplyEffect ==
  ASSUME CallsOK, NEW r \in Reqs, NEW what, req' = Reply(r, what)
  PROVE  Moved(r, "done") /\ req'[r].reply = what
<1>1. DOMAIN req = Reqs /\ DOMAIN req[r] = ReqFields
  BY DEF CallsOK, CallOK
<1> QED BY <1>1 DEF Reply, ReqFields, Moved

LEMMA GotoEffect ==
  ASSUME CallsOK, NEW r \in Reqs, NEW pc, req' = Goto(r, pc)
  PROVE  Moved(r, pc) /\ req'[r].x = req[r].x
<1>1. DOMAIN req = Reqs /\ DOMAIN req[r] = ReqFields
  BY DEF CallsOK, CallOK
<1> QED BY <1>1 DEF Goto, ReqFields, Moved

LEMMA SlotDoneEffect ==
  ASSUME CallsOK, NEW r \in Reqs, NEW res, req' = SlotDone(r, res)
  PROVE  Moved(r, "done") \/ Moved(r, "slot")
<1>1. DOMAIN req = Reqs /\ DOMAIN req[r] = ReqFields
  BY DEF CallsOK, CallOK
<1> DEFINE n     == Len(req[r].in.script)
           rest  == IF res # "ok" /\ req[r].in.stop THEN [j \in 1 .. (n - req[r].i) |-> "skipped"]
                    ELSE << >>
           slots == req[r].slots \o <<res>> \o rest
           i     == Len(slots) + 1
           pc    == IF Len(slots) = n THEN "done" ELSE "slot"
           reply == IF Len(slots) = n THEN "ok" ELSE "none"
<1>2. req' = [req EXCEPT ![r].slots = slots, ![r].x = 0, ![r].i = i,
                         ![r].pc = pc, ![r].reply = reply]
  BY DEF SlotDone
<1>3. pc \in {"done", "slot"}
  OBVIOUS
<1> HIDE DEF n, rest, slots, i, pc, reply
<1> QED BY <1>1, <1>2, <1>3 DEF ReqFields, Moved

\* A handler whose call has returned makes the next one on the same
\* transaction.
LEMMA Continues ==
  ASSUME ServerInv, NEW r \in Reqs, NEW p, Returned(r, p), p \in Waiting, p # "edit",
         NEW pc \in {"exec", "commit", "abort", "reabort"}, Moved(r, pc), req'[r].x = job[r].x,
         NEW plans, job' = Call(r, CallOf(pc), job[r].x, plans),
         job[r].op = "begin" => job[r].out = "ok",
         pc = "exec" => req[r].in.kind # "get", pc = "reabort" => req[r].in.kind # "cron",
         CallOf(pc) = "abort" \/ ~Failing(r),
         ArrivalFrame, cron' = cron
  PROVE  ServerInv'
<1>1. CallsOK /\ OwnersOK /\ CallOK(r)
  BY DEF ServerInv, CallsOK
<1>2. /\ req[r].pc = p /\ job[r].op # "none" /\ job[r].out # "none" /\ job[r].op = CallOf(p)
      /\ req[r].pc \notin {"new", "gone", "done", "slot"} /\ InputOK(req[r].in)
  BY <1>1 DEF Returned, CallOK, Waiting
<1>3. job[r].x \in Xids /\ (InSession(r) => job[r].x = req[r].in.target)
  <2>1. CASE job[r].op \in Acting
    BY <1>1, <1>2, <2>1 DEF CallOK, Acting
  <2>2. CASE job[r].op \notin Acting
    <3>1. job[r].op = "begin" /\ req[r].pc = "begin"
      BY <1>1, <1>2, <2>2 DEF CallOK, CallOf, Waiting, Acting
    <3> QED BY <1>1, <1>2, <3>1 DEF CallOK
  <2> QED BY <2>1, <2>2
<1>4. /\ DOMAIN job' = Reqs /\ \A q \in Reqs : q # r => job'[q] = job[q]
      /\ DOMAIN job'[r] = JobFields /\ job'[r].op = CallOf(pc) /\ job'[r].x = job[r].x
      /\ job'[r].st = "start" /\ job'[r].out = "none"
  BY <1>1, CallEffect
<1>5. CallOf(pc) \in Acting /\ pc \in Waiting
  BY DEF CallOf, Acting, Waiting
<1>6. CallOK(r)'
  BY <1>2, <1>3, <1>4, <1>5 DEF CallOK, Moved, InSession, Acting
<1>7. OthersStay(r) /\ HandlerFrame(r)
  BY <1>1, <1>4 DEF OthersStay, HandlerFrame, Moved, ArrivalFrame, RegistryStays, OwnersOK
<1>8. ASSUME NEW x \in Xids PROVE Uses(r, x)' <=> Uses(r, x)
  BY <1>2, <1>4, <1>5 DEF Uses, Moved, Acting
<1>9. Failing(r) => Failing(r)'
  BY <1>4 DEF Failing
<1>10. CallsOK' /\ OwnersOK' /\ PartsAborted'
  BY <1>6, <1>7, <1>8, <1>9, HandlerMoves DEF ArrivalFrame, RegistryStays, Moved
<1>11. NoRunEnds(r)
  BY <1>2 DEF NoRunEnds, Moved
<1> QED BY <1>7, <1>10, <1>11, RunsContinue DEF ServerInv

\* A handler whose call has returned is through with its transaction.
LEMMA Ends ==
  ASSUME ServerInv, NEW r \in Reqs, NEW p, Returned(r, p), p \in Waiting,
         NEW pc \in {"done", "slot"}, Moved(r, pc), pc = "slot" => req[r].in.kind = "batch",
         job' = Idle(r), Failing(r) => sess'[job[r].x] = NoOne,
         load' = load, txn' = txn, reaping' = reaping, idle' \subseteq idle, cut' = cut,
         DOMAIN sess' = Xids, DOMAIN busy' = Xids,
         \A x \in Xids : sess'[x] # sess[x] \/ busy'[x] # busy[x] => x = job[r].x
  PROVE  /\ CallsOK' /\ OwnersOK' /\ PartsAborted' /\ OthersStay(r)
         /\ req[r].in.kind # "cron" /\ cron' = cron => CronOK'
<1>1. CallsOK /\ OwnersOK /\ CallOK(r)
  BY DEF ServerInv, CallsOK
<1>2. /\ req[r].pc = p /\ job[r].op # "none"
      /\ req[r].pc \notin {"new", "gone", "done", "slot"} /\ InputOK(req[r].in)
  BY <1>1 DEF Returned, CallOK, Waiting
<1>3. /\ DOMAIN job' = Reqs /\ \A q \in Reqs : q # r => job'[q] = job[q]
      /\ job'[r].op = "none"
  BY <1>1, IdleEffect
<1>4. CallOK(r)'
  BY <1>2, <1>3 DEF CallOK, Moved, InSession, Acting, Waiting
<1>5. OthersStay(r) /\ HandlerFrame(r)
  BY <1>3 DEF OthersStay, HandlerFrame, Moved
<1>6. ASSUME NEW x \in Xids
      PROVE  ~Uses(r, x)' /\ (x = job[r].x => Uses(r, x))
  BY <1>2, <1>3 DEF Uses
<1>7. ASSUME NEW x \in Xids, Uses(r, x), Failing(r) PROVE ~Uses(r, x)' /\ sess'[x] = NoOne
  BY <1>6, <1>7 DEF Uses
<1>8. CallsOK' /\ OwnersOK' /\ PartsAborted'
  BY <1>4, <1>5, <1>6, <1>7, HandlerMoves
<1>9. req[r].in.kind # "cron" => NoRunEnds(r)
  BY <1>2 DEF NoRunEnds, Moved
<1> QED BY <1>5, <1>8, <1>9, RunsContinue DEF ServerInv

\* run_one: the run that ends was the only one of its job.
LEMMA RunEnds ==
  ASSUME CallsOK, CronOK, NEW r \in Reqs, OthersStay(r), Moved(r, "done"),
         req[r].pc \in Waiting, req[r].in.kind = "cron",
         NEW out, req'[r].reply = out,
         cron' = [cron EXCEPT ![req[r].in.user] = [running |-> FALSE, last |-> out]]
  PROVE  CronOK'
<1> DEFINE u == req[r].in.user
<1>1. CallOK(r)
  BY DEF CallsOK
<1>2. u \in CronJobs /\ req[r].pc \notin {"new", "gone", "done"}
  BY <1>1 DEF CallOK, InputOK, Waiting
<1>3. LiveRun(r, u)
  BY <1>2 DEF LiveRun
<1> SUFFICES ASSUME NEW j \in CronJobs
             PROVE  /\ DOMAIN cron'[j] = {"running", "last"} /\ cron'[j].running \in BOOLEAN
                    /\ \A p, q \in Reqs : LiveRun(p, j)' /\ LiveRun(q, j)' => p = q
                    /\ cron'[j].running <=> \E q \in Reqs : LiveRun(q, j)'
                    /\ cron'[j].last # "none" =>
                         \E q \in Reqs : EndedRun(q, j)' /\ req'[q].reply = cron'[j].last
  BY DEF CronOK
<1>4. ASSUME NEW q \in Reqs
      PROVE  /\ LiveRun(q, j)' <=> q # r /\ LiveRun(q, j)
             /\ EndedRun(q, j) => q # r /\ EndedRun(q, j)' /\ req'[q].reply = req[q].reply
  <2>1. CASE q = r
    BY <1>2, <2>1 DEF Moved, LiveRun, EndedRun
  <2>2. CASE q # r
    BY <2>2 DEF OthersStay, LiveRun, EndedRun
  <2> QED BY <2>1, <2>2
<1>5. CASE j = u
  <2>1. cron'[j] = [running |-> FALSE, last |-> out]
    BY <1>5 DEF CronOK
  <2>2. \A q \in Reqs : ~LiveRun(q, j)'
    BY <1>2, <1>3, <1>4, <1>5 DEF CronOK
  <2>3. EndedRun(r, j)' /\ req'[r].reply = cron'[j].last
    BY <1>5, <2>1 DEF Moved, EndedRun
  <2>4. DOMAIN cron'[j] = {"running", "last"} /\ cron'[j].running = FALSE
    BY <2>1
  <2> QED BY <2>2, <2>3, <2>4
<1>6. CASE j # u
  <2>1. cron'[j] = cron[j]
    BY <1>6 DEF CronOK
  <2>2. \A q \in Reqs : LiveRun(q, j) => q # r
    BY <1>6 DEF LiveRun
  <2>3. cron[j].running <=> \E q \in Reqs : LiveRun(q, j)
    BY DEF CronOK
  <2>4. cron'[j].running <=> \E q \in Reqs : LiveRun(q, j)'
    BY <1>4, <2>1, <2>2, <2>3
  <2>5. \A x, q \in Reqs : LiveRun(x, j)' /\ LiveRun(q, j)' => x = q
    BY <1>4 DEF CronOK
  <2>6. ASSUME cron[j].last # "none"
        PROVE  \E q \in Reqs : EndedRun(q, j)' /\ req'[q].reply = cron[j].last
    <3>1. PICK q \in Reqs : EndedRun(q, j) /\ req[q].reply = cron[j].last
      BY <2>6 DEF CronOK
    <3> QED BY <1>4, <3>1
  <2>7. DOMAIN cron'[j] = {"running", "last"} /\ cron'[j].running \in BOOLEAN
    BY <2>1 DEF CronOK
  <2> QED BY <2>1, <2>4, <2>5, <2>6, <2>7
<1> QED BY <1>5, <1>6

LEMMA BatchSlotKeeps ==
  ASSUME ServerInv, NEW r \in Reqs, BatchSlot(r)
  PROVE  ServerInv'
<1>1. CallsOK /\ OwnersOK /\ CallOK(r) /\ DOMAIN job = Reqs
  BY DEF ServerInv, CallsOK
<1>2. req[r].pc = "slot" /\ req[r].in.kind = "batch" /\ job[r].op = "none" /\ InputOK(req[r].in)
  BY <1>1 DEF BatchSlot, CallOK
<1>3. ArrivalFrame /\ cron' = cron
  BY DEF BatchSlot, ArrivalFrame, RegistryStays, sessVars
<1>4. \/ (Moved(r, "done") \/ Moved(r, "slot")) /\ job' = job
      \/ Moved(r, "begin") /\ job' = Call(r, "begin", 0, << >>)
  <2>1. \/ (\E res : req' = SlotDone(r, res)) /\ job' = job
        \/ req' = Reply(r, "err") /\ job' = job
        \/ req' = Goto(r, "begin") /\ job' = Call(r, "begin", 0, << >>)
    BY DEF BatchSlot
  <2> QED BY <1>1, <2>1, SlotDoneEffect, ReplyEffect, GotoEffect
<1>5. OthersStay(r) /\ CallOK(r)' /\ (job'[r].op = "none" \/ job'[r].x = 0)
  <2>1. CASE (Moved(r, "done") \/ Moved(r, "slot")) /\ job' = job
    <3>1. OthersStay(r)
      BY <1>1, <2>1 DEF OthersStay, Moved
    <3> QED BY <1>2, <2>1, <3>1 DEF CallOK, Moved, Waiting, Acting, InSession
  <2>2. CASE Moved(r, "begin") /\ job' = Call(r, "begin", 0, << >>)
    <3>1. /\ OthersStay(r) /\ DOMAIN job'[r] = JobFields /\ job'[r].op = "begin" /\ job'[r].x = 0
          /\ job'[r].out = "none"
      BY <1>1, <2>2, CallEffect DEF OthersStay, Moved
    <3>2. req[r].in.target = 0
      BY <1>2 DEF InputOK, OneShotKinds
    <3> QED BY <1>2, <2>2, <3>1, <3>2 DEF CallOK, Moved, Waiting, Acting, InSession, CallOf
  <2> QED BY <1>4, <2>1, <2>2
<1>6. \A x \in Xids : ~Uses(r, x) /\ ~Uses(r, x)'
  BY <1>2, <1>5, ZeroIsNoXid DEF Uses
<1>7. HandlerFrame(r)
  BY <1>1, <1>3, <1>5 DEF HandlerFrame, ArrivalFrame, RegistryStays, OwnersOK
<1>8. CallsOK' /\ OwnersOK' /\ PartsAborted'
  BY <1>3, <1>5, <1>6, <1>7, HandlerMoves DEF ArrivalFrame, RegistryStays
<1>9. NoRunEnds(r)
  BY <1>2, <1>4 DEF NoRunEnds, Moved
<1> QED BY <1>3, <1>5, <1>8, <1>9, RunsContinue DEF ServerInv

LEMMA AfterBeginKeeps ==
  ASSUME ServerInv, NEW r \in Reqs, AfterBegin(r)
  PROVE  ServerInv'
<1>1. CallsOK /\ OwnersOK /\ CallOK(r) /\ DOMAIN req = Reqs /\ DOMAIN req[r] = ReqFields
  BY DEF ServerInv, CallsOK, CallOK
<1>2. Returned(r, "begin") /\ "begin" \in Waiting
  BY DEF AfterBegin, Waiting
<1>3. /\ req[r].pc = "begin" /\ job[r].op = "begin" /\ (job[r].out = "ok" => job[r].x \in Xids)
      /\ req[r].in.kind # "get" /\ ~Failing(r)
  BY <1>1, <1>2 DEF Returned, CallOK, CallOf, Failing
<1>4. /\ load' = load /\ txn' = txn /\ busy' = busy /\ idle' = idle /\ reaping' = reaping
      /\ cut' = cut
  BY DEF AfterBegin
<1>5. CASE /\ sess' = [sess EXCEPT ![job[r].x] = req[r].in.user] /\ req[r].in.kind = "begin"
           /\ req' = [Reply(r, "ok") EXCEPT ![r].x = job[r].x] /\ job' = Idle(r)
           /\ job[r].out = "ok" /\ cron' = cron
  <2>1. Moved(r, "done")
    BY <1>1, <1>5 DEF Reply, ReqFields, Moved
  <2>2. /\ DOMAIN sess' = Xids /\ DOMAIN busy' = Xids
        /\ \A x \in Xids : sess'[x] # sess[x] \/ busy'[x] # busy[x] => x = job[r].x
    BY <1>1, <1>4, <1>5 DEF OwnersOK
  <2> QED BY <1>2, <1>3, <1>4, <1>5, <2>1, <2>2, Ends DEF ServerInv
<1>6. CASE /\ req' = [Goto(r, "exec") EXCEPT ![r].x = job[r].x] /\ sess' = sess
           /\ job' = Call(r, "exec", job[r].x, PlansOf(req[r].in, req[r].i))
           /\ job[r].out = "ok" /\ cron' = cron
  <2>1. Moved(r, "exec") /\ req'[r].x = job[r].x
    BY <1>1, <1>6 DEF Goto, ReqFields, Moved
  <2>2. ArrivalFrame /\ CallOf("exec") = "exec"
    BY <1>4, <1>6 DEF ArrivalFrame, RegistryStays, CallOf
  <2> QED BY <1>2, <1>3, <1>4, <1>6, <2>1, <2>2, Continues
<1>7. CASE /\ req' = [Goto(r, "abort") EXCEPT ![r].x = job[r].x] /\ sess' = sess
           /\ job' = Call(r, "abort", job[r].x, << >>)
           /\ job[r].out = "ok" /\ cron' = cron
  <2>1. Moved(r, "abort") /\ req'[r].x = job[r].x
    BY <1>1, <1>7 DEF Goto, ReqFields, Moved
  <2>2. ArrivalFrame /\ CallOf("abort") = "abort"
    BY <1>4, <1>7 DEF ArrivalFrame, RegistryStays, CallOf
  <2> QED BY <1>2, <1>3, <1>4, <1>7, <2>1, <2>2, Continues
<1>8. CASE /\ req' = Reply(r, "err") /\ job' = Idle(r) /\ sess' = sess /\ CronFinish(r, "err")
  <2>1. Moved(r, "done") /\ req'[r].reply = "err"
    BY <1>1, <1>8, ReplyEffect
  <2>2. /\ CallsOK' /\ OwnersOK' /\ PartsAborted' /\ OthersStay(r)
        /\ req[r].in.kind # "cron" /\ cron' = cron => CronOK'
    BY <1>1, <1>2, <1>3, <1>4, <1>8, <2>1, Ends DEF OwnersOK
  <2>3. CASE req[r].in.kind # "cron"
    BY <1>8, <2>2, <2>3 DEF CronFinish, ServerInv
  <2>4. CASE req[r].in.kind = "cron"
    <3>1. cron' = [cron EXCEPT ![req[r].in.user] = [running |-> FALSE, last |-> "err"]]
      BY <1>8, <2>4 DEF CronFinish
    <3>2. CronOK'
      BY <1>1, <1>2, <1>3, <2>1, <2>2, <2>4, <3>1, RunEnds DEF ServerInv
    <3> QED BY <2>2, <3>2 DEF ServerInv
  <2> QED BY <2>3, <2>4
<1> QED BY <1>5, <1>6, <1>7, <1>8 DEF AfterBegin

LEMMA AfterExecKeeps ==
  ASSUME ServerInv, NEW r \in Reqs, AfterExec(r)
  PROVE  ServerInv'
<1> DEFINE next == req[r].in.script[req[r].i + 1]
<1>1. CallsOK /\ OwnersOK /\ CallOK(r) /\ DOMAIN req = Reqs /\ DOMAIN req[r] = ReqFields
  BY DEF ServerInv, CallsOK, CallOK
<1>2. Returned(r, "exec") /\ "exec" \in Waiting
  BY DEF AfterExec, Waiting
<1>3. /\ req[r].pc = "exec" /\ job[r].op = "exec" /\ job[r].out # "none"
      /\ job[r].x \in Xids /\ req[r].x = job[r].x
  BY <1>1, <1>2 DEF Returned, CallOK, CallOf, Acting
<1>4. /\ load' = load /\ txn' = txn /\ sess' = sess /\ reaping' = reaping
      /\ cut' = cut /\ cron' = cron
  BY DEF AfterExec
<1>5. CASE /\ job[r].out = "ok" /\ More(r) /\ req' = [req EXCEPT ![r].i = @ + 1]
           /\ job' = Call(r, "exec", req[r].x, <<next>>) /\ busy' = busy /\ idle' = idle
  <2>1. Moved(r, "exec") /\ req'[r].x = job[r].x
    BY <1>1, <1>3, <1>5 DEF ReqFields, Moved
  <2>2. ArrivalFrame /\ CallOf("exec") = "exec"
    BY <1>4, <1>5 DEF ArrivalFrame, RegistryStays, CallOf
  <2>3. req[r].in.kind # "get" /\ ~Failing(r)
    BY <1>3, <1>5 DEF More, Failing
  <2>4. job' = Call(r, CallOf("exec"), job[r].x, <<next>>)
    BY <1>3, <1>5, <2>2
  <2> HIDE DEF next
  <2> QED BY <1>2, <1>3, <1>4, <2>1, <2>2, <2>3, <2>4, Continues
<1>6. CASE /\ req' = Goto(r, "abort") /\ job' = Call(r, "abort", req[r].x, << >>)
           /\ busy' = busy /\ idle' = idle
  <2>1. Moved(r, "abort") /\ req'[r].x = job[r].x
    BY <1>1, <1>3, <1>6, GotoEffect
  <2>2. ArrivalFrame /\ CallOf("abort") = "abort"
    BY <1>4, <1>6 DEF ArrivalFrame, RegistryStays, CallOf
  <2>3. job' = Call(r, CallOf("abort"), job[r].x, << >>)
    BY <1>3, <1>6, <2>2
  <2> QED BY <1>2, <1>3, <1>4, <2>1, <2>2, <2>3, Continues
<1>7. CASE /\ job[r].out = "ok" /\ req' = Goto(r, "commit")
           /\ job' = Call(r, "commit", req[r].x, << >>) /\ busy' = busy /\ idle' = idle
  <2>1. Moved(r, "commit") /\ req'[r].x = job[r].x
    BY <1>1, <1>3, <1>7, GotoEffect
  <2>2. ArrivalFrame /\ CallOf("commit") = "commit"
    BY <1>4, <1>7 DEF ArrivalFrame, RegistryStays, CallOf
  <2>3. job' = Call(r, CallOf("commit"), job[r].x, << >>)
    BY <1>3, <1>7, <2>2
  <2>4. ~Failing(r)
    BY <1>3, <1>7 DEF Failing
  <2> QED BY <1>2, <1>3, <1>4, <2>1, <2>2, <2>3, <2>4, Continues
<1>8. CASE /\ InSession(r) /\ (IF job[r].out = "ok" THEN ~More(r) ELSE ~AbortsOnError(r))
           /\ req' = Reply(r, job[r].out) /\ job' = Idle(r) /\ DropGuard(req[r].x)
  <2>1. Moved(r, "done")
    BY <1>1, <1>8, ReplyEffect
  <2>2. ~Failing(r)
    BY <1>3, <1>8 DEF Failing, AbortsOnError
  <2>3. /\ DOMAIN sess' = Xids /\ DOMAIN busy' = Xids /\ idle' \subseteq idle
        /\ \A x \in Xids : sess'[x] # sess[x] \/ busy'[x] # busy[x] => x = job[r].x
    BY <1>1, <1>3, <1>4, <1>8 DEF OwnersOK, DropGuard
  <2>4. req[r].in.kind # "cron"
    BY <1>1, <1>3, <1>8 DEF CallOK, InSession, InputOK, OneShotKinds
  <2> QED BY <1>2, <1>4, <1>8, <2>1, <2>2, <2>3, <2>4, Ends DEF ServerInv
<1> QED BY <1>5, <1>6, <1>7, <1>8 DEF AfterExec

\* finish, post_txn_commit and the ends of a session: with the outcome.
LEMMA AfterEnd ==
  ASSUME ServerInv, NEW r \in Reqs, NEW p \in {"commit", "abort", "reabort"}, Returned(r, p),
         job' = Idle(r), NEW out,
         IF req[r].in.kind = "batch" THEN \E res : req' = SlotDone(r, res)
                                     ELSE req' = Reply(r, out),
         \/ EndSession(req[r].x)
         \/ ~InSession(r) /\ sess' = sess /\ busy' = busy /\ idle' = idle,
         NEW last, CronFinish(r, last), req[r].in.kind = "cron" => last = out,
         load' = load, txn' = txn, reaping' = reaping, cut' = cut
  PROVE  ServerInv'
<1>1. CallsOK /\ OwnersOK /\ CallOK(r)
  BY DEF ServerInv, CallsOK
<1>2. p \in Waiting /\ req[r].x = job[r].x /\ job[r].x \in Xids /\ Uses(r, job[r].x)
  BY <1>1 DEF Returned, CallOK, CallOf, Acting, Waiting, Uses
<1>3. PICK pc \in {"done", "slot"} : Moved(r, pc) /\ (pc = "slot" => req[r].in.kind = "batch")
  BY <1>1, SlotDoneEffect, ReplyEffect
<1>4. /\ DOMAIN sess' = Xids /\ DOMAIN busy' = Xids /\ idle' \subseteq idle
      /\ \A x \in Xids : sess'[x] # sess[x] \/ busy'[x] # busy[x] => x = job[r].x
  BY <1>1, <1>2 DEF OwnersOK, EndSession, DropGuard
<1>8. sess'[job[r].x] = NoOne
  BY <1>1, <1>2 DEF OwnersOK, EndSession
<1>5. /\ CallsOK' /\ OwnersOK' /\ PartsAborted' /\ OthersStay(r)
      /\ req[r].in.kind # "cron" /\ cron' = cron => CronOK'
  BY <1>2, <1>3, <1>4, <1>8, Ends
<1>6. CASE req[r].in.kind # "cron"
  BY <1>5, <1>6 DEF CronFinish, ServerInv
<1>7. CASE req[r].in.kind = "cron"
  <2>1. Moved(r, "done") /\ req'[r].reply = out
    BY <1>1, <1>7, ReplyEffect
  <2>2. cron' = [cron EXCEPT ![req[r].in.user] = [running |-> FALSE, last |-> out]]
    BY <1>7 DEF CronFinish
  <2>3. req[r].pc \in Waiting
    BY <1>2 DEF Returned
  <2>4. CronOK'
    BY <1>1, <1>5, <1>7, <2>1, <2>2, <2>3, RunEnds DEF ServerInv
  <2> QED BY <1>5, <2>4 DEF ServerInv
<1> QED BY <1>6, <1>7

LEMMA AfterCommitKeeps ==
  ASSUME ServerInv, NEW r \in Reqs, AfterCommit(r)
  PROVE  ServerInv'
<1>1. CallsOK /\ CallOK(r)
  BY DEF ServerInv, CallsOK
<1>2. Returned(r, "commit") /\ "commit" \in Waiting /\ CronFinish(r, job[r].out)
  BY DEF AfterCommit, Waiting
<1>3. load' = load /\ txn' = txn /\ reaping' = reaping /\ cut' = cut
  BY DEF AfterCommit
<1>4. req[r].pc = "commit" /\ job[r].op = "commit" /\ req[r].x = job[r].x /\ InputOK(req[r].in)
  BY <1>1, <1>2 DEF Returned, CallOK, CallOf, Acting
<1>5. InSession(r) => req[r].in.kind \notin {"cron", "batch"}
  BY <1>4 DEF InputOK, OneShotKinds, InSession
<1>6. CASE /\ InSession(r) /\ job[r].out = "ok" /\ req' = Reply(r, "ok") /\ job' = Idle(r)
           /\ EndSession(req[r].x)
  BY <1>2, <1>3, <1>5, <1>6, AfterEnd
<1>7. CASE /\ InSession(r) /\ req' = [Goto(r, "reabort") EXCEPT ![r].reply = job[r].out]
           /\ job' = Call(r, "abort", req[r].x, << >>)
           /\ sess' = sess /\ busy' = busy /\ idle' = idle
  <2>0. DOMAIN req = Reqs /\ DOMAIN req[r] = ReqFields
    BY <1>1 DEF CallsOK, CallOK
  <2>1. Moved(r, "reabort") /\ req'[r].x = job[r].x
    BY <1>4, <1>7, <2>0 DEF Goto, Moved, ReqFields
  <2>2. ArrivalFrame /\ CallOf("reabort") = "abort" /\ cron' = cron
    BY <1>2, <1>3, <1>5, <1>7 DEF ArrivalFrame, RegistryStays, CallOf, CronFinish
  <2>3. job' = Call(r, CallOf("reabort"), job[r].x, << >>)
    BY <1>4, <1>7, <2>2
  <2>4. CallOf("reabort") = "abort" /\ job[r].op # "begin"
    BY <1>4 DEF CallOf
  <2> QED BY <1>2, <1>5, <1>7, <2>1, <2>2, <2>3, <2>4, Continues
<1>8. CASE /\ ~InSession(r)
           /\ req' = IF req[r].in.kind = "batch" THEN SlotDone(r, FinishReply(r))
                                                 ELSE Reply(r, FinishReply(r))
           /\ job' = Idle(r) /\ sess' = sess /\ busy' = busy /\ idle' = idle
  <2>1. IF req[r].in.kind = "batch" THEN \E res : req' = SlotDone(r, res)
                                    ELSE req' = Reply(r, job[r].out)
    BY <1>8 DEF FinishReply
  <2> QED BY <1>2, <1>3, <1>8, <2>1, AfterEnd
<1> QED BY <1>6, <1>7, <1>8 DEF AfterCommit

LEMMA AfterAbortKeeps ==
  ASSUME ServerInv, NEW r \in Reqs, AfterAbort(r)
  PROVE  ServerInv'
<1> DEFINE out == IF req[r].in.kind = "rollback" THEN job[r].out
                  ELSE IF req[r].pc = "reabort" THEN req[r].reply ELSE "err"
<1>1. Returned(r, "abort") \/ Returned(r, "reabort")
  BY DEF AfterAbort
<1>2. /\ job' = Idle(r) /\ CronFinish(r, "err")
      /\ load' = load /\ txn' = txn /\ reaping' = reaping /\ cut' = cut
  BY DEF AfterAbort
<1>3. \/ EndSession(req[r].x)
      \/ ~InSession(r) /\ sess' = sess /\ busy' = busy /\ idle' = idle
  BY DEF AfterAbort
<1>4. IF req[r].in.kind = "batch" THEN \E res : req' = SlotDone(r, res)
                                  ELSE req' = Reply(r, out)
  BY DEF AfterAbort
<1>5. req[r].in.kind = "cron" => "err" = out
  <2>1. CallOK(r)
    BY DEF ServerInv, CallsOK
  <2> QED BY <1>1, <2>1 DEF CallOK, Returned
<1> HIDE DEF out
<1> QED BY <1>1, <1>2, <1>3, <1>4, <1>5, AfterEnd

LEMMA AfterEditKeeps ==
  ASSUME ServerInv, NEW r \in Reqs, AfterEdit(r)
  PROVE  ServerInv'
<1>1. CallsOK /\ OwnersOK /\ CallOK(r)
  BY DEF ServerInv, CallsOK
<1>2. Returned(r, "edit") /\ "edit" \in Waiting
  BY DEF AfterEdit, Waiting
<1>3. req[r].in.kind # "cron" /\ ~Failing(r)
  BY <1>1, <1>2 DEF Returned, CallOK, CallOf, Failing
<1>4. Moved(r, "done") /\ job' = Idle(r)
  BY <1>1, ReplyEffect DEF AfterEdit
<1>5. ArrivalFrame /\ cron' = cron
  BY DEF AfterEdit, ArrivalFrame, RegistryStays, sessVars
<1> QED BY <1>1, <1>2, <1>3, <1>4, <1>5, Ends DEF ArrivalFrame, RegistryStays, OwnersOK, ServerInv

LEMMA HandlerStepKeeps ==
  ASSUME ServerInv, NEW r \in Reqs, HandlerStep(r)
  PROVE  ServerInv'
BY BatchSlotKeeps, AfterBeginKeeps, AfterExecKeeps, AfterCommitKeeps, AfterAbortKeeps,
   AfterEditKeeps DEF HandlerStep

\* The request timeout or a lost client: what the call works on is cut.
LEMMA DropRequestKeeps ==
  ASSUME ServerInv, NEW r \in Reqs, DropRequest(r)
  PROVE  ServerInv'
<1>1. CallsOK /\ OwnersOK /\ CallOK(r) /\ DOMAIN job = Reqs
  BY DEF ServerInv, CallsOK
<1>2. req[r].pc \in Waiting /\ req[r].in.kind # "cron" /\ InputOK(req[r].in) /\ job[r].op # "none"
  BY <1>1 DEF DropRequest, CallOK, Waiting, CallOf
<1>3. Moved(r, "gone") /\ req'[r].x = req[r].x
  BY <1>1, GotoEffect DEF DropRequest
<1>4. /\ load' = load /\ txn' = txn /\ sess' = sess /\ reaping' = reaping /\ cron' = cron
      /\ cut \subseteq cut' /\ (job[r].x # 0 => job[r].x \in cut')
  BY DEF DropRequest
<1>5. /\ DOMAIN job' = Reqs /\ \A q \in Reqs : q # r => job'[q] = job[q]
      /\ IF job[r].out = "none" THEN job'[r] = job[r] ELSE job'[r].op = "none"
  <2>1. CASE job[r].out = "none"
    BY <1>1, <2>1 DEF DropRequest
  <2>2. CASE job[r].out # "none"
    <3>1. job' = Idle(r)
      BY <2>2 DEF DropRequest
    <3> QED BY <1>1, <2>2, <3>1, IdleEffect
  <2> QED BY <2>1, <2>2
<1>6. CallOK(r)'
  <2>1. CASE job[r].out = "none"
    <3>1. job'[r] = job[r] /\ job[r].out = "none"
      BY <1>5, <2>1
    <3>2. job[r].op \in Acting => job[r].x \in Xids /\ job[r].x \in cut'
      BY <1>1, <1>4, ZeroIsNoXid DEF CallOK
    <3>3. (Plan(r).op)' = Plan(r).op
      BY <3>1 DEF Plan
    <3> QED BY <1>1, <1>2, <1>3, <3>1, <3>2, <3>3 DEF CallOK, Moved, Waiting, InSession
  <2>2. CASE job[r].out # "none"
    BY <1>2, <1>3, <1>5, <2>2 DEF CallOK, Moved, Waiting, InSession, Acting
  <2> QED BY <2>1, <2>2
<1>7. OthersStay(r)
  BY <1>3, <1>5 DEF OthersStay, Moved
<1>8. \A x \in Xids : ~Uses(r, x)'
  BY <1>3 DEF Uses, Moved
<1>9. /\ DOMAIN busy' = Xids /\ idle' \subseteq idle
      /\ \A x \in Xids : busy'[x] # busy[x] => Uses(r, x)
  <2>1. CASE InSession(r)
    <3>1. DropGuard(req[r].x)
      BY <2>1 DEF DropRequest
    <3>2. job[r].op \in Acting
      BY <1>1, <1>2, <2>1 DEF CallOK, CallOf, Waiting, Acting
    <3>3. req[r].x = job[r].x /\ req[r].pc # "gone"
      BY <1>1, <1>2, <3>2 DEF CallOK, Waiting
    <3> QED BY <1>1, <1>2, <3>1, <3>3 DEF DropGuard, OwnersOK, Uses
  <2>2. CASE ~InSession(r)
    BY <1>1, <2>2 DEF DropRequest, OwnersOK
  <2> QED BY <2>1, <2>2
<1>10. GivesBackOnly(r)
  BY <1>1, <1>4, <1>8, <1>9 DEF GivesBackOnly, OwnersOK
<1>11. CallsOK' /\ OwnersOK'
  BY <1>1, <1>4, <1>6, <1>7, <1>10, TxnStays, RequestMoves
<1>12. CronOK'
  <2>1. NoRunEnds(r)
    BY <1>2, <1>3 DEF NoRunEnds, Moved, Waiting
  <2> QED BY <1>4, <1>7, <2>1, RunsContinue DEF ServerInv
<1>13. PartsAborted'
  <2>1. ASSUME NEW x \in Xids \ cut', NEW q \in Reqs, Uses(q, x), Failing(q)
        PROVE  Uses(q, x)' /\ Failing(q)'
    <3>1. q # r
      BY <1>4, <2>1, ZeroIsNoXid DEF Uses
    <3> QED BY <1>7, <2>1, <3>1 DEF OthersStay, Uses, Failing
  <2>2. ASSUME NEW x \in Xids, NEW q \in Reqs, Uses(q, x)' PROVE Uses(q, x)
    <3>1. q # r
      BY <1>8, <2>2
    <3> QED BY <1>7, <2>2, <3>1 DEF OthersStay, Uses
  <2>3. ASSUME NEW x \in Xids \ cut', RollsBack(x) PROVE RollsBack(x)'
    BY <1>4, <2>1, <2>2, <2>3, RollsBackStays
  <2>4. PartsStay
    BY <1>4, <2>3 DEF PartsStay, Part
  <2> QED BY <2>4, PartsKept DEF ServerInv
<1> QED BY <1>11, <1>12, <1>13 DEF ServerInv

-----------------------------------------------------------------------------
(* The reaper, the clock and a restart. *)

\* No request moves.
RequestsStay == load' = load /\ req' = req /\ job' = job /\ cut' = cut /\ cron' = cron

LEMMA RegistryMoves ==
  ASSUME ServerInv, RequestsStay, NoneFreed, WholeEffects,
         DOMAIN sess' = Xids, DOMAIN busy' = Xids, idle' \subseteq Xids,
         \A x \in Xids : x \in reaping' => busy'[x] = Reaper,
         \A x \in Xids : sess[x] = NoOne => sess'[x] = NoOne,
         \A x \in Xids : txn[x].st = "free" => sess'[x] = NoOne /\ x \notin reaping',
         \A r \in Reqs, x \in Xids : Uses(r, x) =>
            /\ InSession(r) => busy'[x] = r
            /\ ~InSession(r) => sess'[x] = NoOne /\ x \notin reaping'
  PROVE  ServerInv'
<1>1. ASSUME NEW r \in Reqs PROVE CallOK(r)'
  <2>1. CallOK(r)
    BY DEF ServerInv, CallsOK
  <2> QED BY <2>1 DEF CallOK, RequestsStay, InSession, Plan
<1>2. CallsOK'
  BY <1>1 DEF ServerInv, CallsOK, RequestsStay
<1>3. ASSUME NEW r \in Reqs, NEW x \in Xids
      PROVE  (Uses(r, x)' <=> Uses(r, x)) /\ (InSession(r)' <=> InSession(r))
             /\ (Failing(r)' <=> Failing(r))
  BY DEF Uses, InSession, RequestsStay, Failing
<1>4. OwnersOK'
  BY <1>3 DEF ServerInv, OwnersOK, NoneFreed
<1>5. CronOK'
  BY CronKept DEF RunsStay, LiveRun, EndedRun, RequestsStay, ServerInv
<1>6. ASSUME NEW x \in Xids, RollsBack(x) PROVE RollsBack(x)'
  BY <1>3, <1>6, RollsBackStays
<1>7. PartsStay
  BY <1>6 DEF PartsStay, WholeEffects, RequestsStay
<1> QED BY <1>2, <1>4, <1>5, <1>7, PartsKept DEF ServerInv

LEMMA ExpireKeeps ==
  ASSUME ServerInv, NEW x \in Xids, Expire(x)
  PROVE  ServerInv'
<1>1. OwnersOK
  BY DEF ServerInv
<1>2. /\ RequestsStay /\ txn' = txn /\ sess' = sess /\ busy' = busy /\ reaping' = reaping
      /\ idle' = idle \cup {x}
  BY DEF Expire, RequestsStay
<1>3. NoneFreed /\ WholeEffects
  BY <1>1, <1>2, TxnStays
<1> QED BY <1>1, <1>2, <1>3, RegistryMoves DEF OwnersOK

\* claim_expired: only sessions that nobody has checked out.
LEMMA ClaimExpiredKeeps ==
  ASSUME ServerInv, ClaimExpired
  PROVE  ServerInv'
<1> DEFINE claimed == {x \in idle : sess[x] # NoOne /\ busy[x] = NoOne}
<1>1. OwnersOK
  BY DEF ServerInv
<1>2. /\ RequestsStay /\ txn' = txn /\ idle' = idle /\ reaping' = claimed
      /\ sess' = [x \in Xids |-> IF x \in claimed THEN NoOne ELSE sess[x]]
      /\ busy' = [x \in Xids |-> IF x \in claimed THEN Reaper ELSE busy[x]]
  BY DEF ClaimExpired, RequestsStay
<1>3. NoneFreed /\ WholeEffects
  BY <1>1, <1>2, TxnStays
<1>4. \A x \in claimed : sess[x] # NoOne /\ busy[x] = NoOne
  OBVIOUS
<1> HIDE DEF claimed
<1>5. ASSUME NEW r \in Reqs, NEW x \in Xids, Uses(r, x)
      PROVE  /\ InSession(r) => busy'[x] = r
             /\ ~InSession(r) => sess'[x] = NoOne /\ x \notin reaping'
  <2>1. x \notin claimed
    BY <1>1, <1>4, <1>5, ServerAssumption DEF OwnersOK
  <2> QED BY <1>1, <1>2, <1>5, <2>1 DEF OwnersOK
<1>6. ASSUME NEW x \in Xids, txn[x].st = "free" PROVE sess'[x] = NoOne /\ x \notin reaping'
  BY <1>1, <1>2, <1>4, <1>6 DEF OwnersOK
<1>7. \A x \in Xids : x \in reaping' => busy'[x] = Reaper
  BY <1>2
<1>8. DOMAIN sess' = Xids /\ DOMAIN busy' = Xids /\ idle' \subseteq Xids
  BY <1>1, <1>2 DEF OwnersOK
<1>9. \A x \in Xids : sess[x] = NoOne => sess'[x] = NoOne
  BY <1>2
<1> QED BY <1>2, <1>3, <1>5, <1>6, <1>7, <1>8, <1>9, RegistryMoves

LEMMA ReaperAbortKeeps ==
  ASSUME ServerInv, NEW x \in Xids, ReaperAbort(x)
  PROVE  ServerInv'
<1>1. OwnersOK
  BY DEF ServerInv
<1>2. /\ RequestsStay /\ (Rollback(x) \/ RollbackFails(x)) /\ sess' = sess /\ idle' = idle
      /\ x \in reaping /\ reaping' = reaping \ {x} /\ busy' = [busy EXCEPT ![x] = NoOne]
  BY DEF ReaperAbort, RequestsStay
<1>3. NoneFreed /\ WholeEffects
  BY <1>1, <1>2, RollbackIsWhole
<1>4. DOMAIN sess' = Xids /\ DOMAIN busy' = Xids /\ idle' \subseteq Xids
      /\ \A y \in Xids : y # x => busy'[y] = busy[y]
  BY <1>1, <1>2 DEF OwnersOK
<1>5. \A y \in Xids : y \in reaping' => busy'[y] = Reaper
  BY <1>1, <1>2, <1>4 DEF OwnersOK
<1>6. \A y \in Xids : txn[y].st = "free" => sess'[y] = NoOne /\ y \notin reaping'
  BY <1>1, <1>2 DEF OwnersOK
<1>7. ASSUME NEW r \in Reqs, NEW y \in Xids, Uses(r, y)
      PROVE  /\ InSession(r) => busy'[y] = r
             /\ ~InSession(r) => sess'[y] = NoOne /\ y \notin reaping'
  <2>1. y # x
    BY <1>1, <1>2, <1>7, ServerAssumption DEF OwnersOK
  <2> QED BY <1>1, <1>2, <1>4, <1>7, <2>1 DEF OwnersOK
<1> QED BY <1>2, <1>3, <1>4, <1>5, <1>6, <1>7, RegistryMoves

\* Engine::open after a crash: no request, session or run is left.
LEMMA RestartKeeps ==
  ASSUME ServerInv, Restart
  PROVE  ServerInv'
<1>1. CallsOK /\ OwnersOK /\ DOMAIN req = Reqs
  BY DEF ServerInv, CallsOK
<1>2. /\ load' = load /\ cut' = cut /\ idle' = {} /\ reaping' = {}
      /\ sess' = [x \in Xids |-> NoOne] /\ busy' = [x \in Xids |-> NoOne]
      /\ req' = [r \in Reqs |-> IF req[r].pc \in {"new", "done"} THEN req[r]
                                ELSE [req[r] EXCEPT !.pc = "gone"]]
      /\ job' = [r \in Reqs |-> NoJob]
      /\ cron' = [j \in CronJobs |-> [running |-> FALSE, last |-> "none"]]
  BY DEF Restart
<1>3. ASSUME NEW r \in Reqs
      PROVE  /\ DOMAIN req'[r] = ReqFields /\ req'[r].in = req[r].in /\ job'[r].op = "none"
             /\ req'[r].pc \in {"new", "done", "gone"} /\ (req'[r].pc = "new" => req[r].pc = "new")
             /\ (req[r].pc = "new" => req'[r].pc = "new") /\ CallOK(r)
  <2>1. CallOK(r) /\ DOMAIN req[r] = ReqFields
    BY <1>1 DEF CallsOK, CallOK
  <2>2. job'[r].op = "none"
    BY <1>2 DEF NoJob
  <2> QED BY <1>2, <2>1, <2>2 DEF ReqFields
<1>4. ASSUME NEW r \in Reqs PROVE CallOK(r)'
  BY <1>3 DEF CallOK, Waiting, Acting, InSession
<1>5. CallsOK'
  BY <1>1, <1>2, <1>4 DEF CallsOK
<1>6. ASSUME NEW x \in Xids
      PROVE  /\ DOMAIN txn'[x] = {"st", "writes", "ser"} /\ txn'[x].writes = txn[x].writes
             /\ txn'[x].st = "free" => txn[x].st = "free"
             /\ txn[x].st = "open" => txn'[x].st = "aborted"
             /\ txn[x].st = "aborted" => txn'[x].st = "aborted"
  <2>1. PICK kept \in SUBSET {y \in Xids : txn[y].st = "doubt"} :
          txn' = [y \in Xids |->
                    IF y \in kept THEN [txn[y] EXCEPT !.st = "committed"]
                    ELSE IF txn[y].st \in {"open", "doubt"} THEN [txn[y] EXCEPT !.st = "aborted"]
                    ELSE txn[y]]
    BY DEF Restart
  <2> QED BY <1>1, <2>1 DEF OwnersOK
<1>7. \A r \in Reqs, x \in Xids : ~Uses(r, x)'
  BY <1>3 DEF Uses
<1>8. OwnersOK'
  <2>1. DOMAIN txn' = Xids
    BY DEF Restart
  <2> QED BY <1>2, <1>6, <1>7, <2>1 DEF OwnersOK
<1>9. CronOK'
  <2>1. \A r \in Reqs, j \in CronJobs : ~LiveRun(r, j)'
    BY <1>3 DEF LiveRun
  <2>2. ASSUME NEW j \in CronJobs
        PROVE  /\ DOMAIN cron'[j] = {"running", "last"} /\ cron'[j].running = FALSE
               /\ cron'[j].last = "none"
    BY <1>2
  <2>3. DOMAIN cron' = CronJobs
    BY <1>2
  <2> QED BY <2>1, <2>2, <2>3 DEF CronOK
<1>10. PartsAborted'
  <2>1. ASSUME NEW x \in Xids \ cut', Part(x)' PROVE txn'[x].st = "aborted"
    <3>1. Part(x) /\ x \notin cut
      BY <1>2, <1>6, <2>1 DEF Part
    <3> QED BY <1>6, <3>1 DEF ServerInv, PartsAborted
  <2> QED BY <2>1 DEF PartsAborted
<1> QED BY <1>5, <1>8, <1>9, <1>10 DEF ServerInv

-----------------------------------------------------------------------------
LEMMA InitEstablishes == Init => ServerInv
<1> SUFFICES ASSUME Init PROVE ServerInv
  OBVIOUS
<1>1. ASSUME NEW r \in Reqs
      PROVE  DOMAIN req[r] = ReqFields /\ req[r].pc = "new" /\ job[r].op = "none"
  BY DEF Init, ReqFields, NoJob
<1>2. CallsOK
  <2>1. ASSUME NEW r \in Reqs PROVE CallOK(r)
    BY <1>1 DEF CallOK, Waiting, Acting
  <2> QED BY <2>1 DEF CallsOK, Init
<1>3. ASSUME NEW x \in Xids
      PROVE  /\ DOMAIN txn[x] = {"st", "writes", "ser"} /\ txn[x].writes = {}
             /\ sess[x] = NoOne
  BY DEF Init
<1>4. OwnersOK
  <2>1. \A r \in Reqs, x \in Xids : ~Uses(r, x)
    BY <1>1 DEF Uses
  <2>2. /\ DOMAIN txn = Xids /\ DOMAIN sess = Xids /\ DOMAIN busy = Xids
        /\ idle = {} /\ reaping = {}
    BY DEF Init
  <2> QED BY <1>3, <2>1, <2>2 DEF OwnersOK
<1>5. CronOK
  <2>1. \A r \in Reqs, j \in CronJobs : ~LiveRun(r, j)
    BY <1>1 DEF LiveRun
  <2>2. ASSUME NEW j \in CronJobs
        PROVE  DOMAIN cron[j] = {"running", "last"} /\ cron[j].running = FALSE /\ cron[j].last = "none"
    BY DEF Init
  <2>3. DOMAIN cron = CronJobs
    BY DEF Init
  <2> QED BY <2>1, <2>2, <2>3 DEF CronOK
<1>6. PartsAborted
  BY <1>3 DEF PartsAborted, Part
<1> QED BY <1>2, <1>4, <1>5, <1>6 DEF ServerInv

LEMMA StutterKeeps ==
  ASSUME ServerInv, UNCHANGED vars
  PROVE  ServerInv'
<1>1. RequestsStay /\ txn' = txn /\ sess' = sess /\ busy' = busy /\ idle' = idle /\ reaping' = reaping
  BY DEF vars, sessVars, RequestsStay
<1>2. NoneFreed /\ WholeEffects
  BY <1>1, TxnStays DEF ServerInv
<1> QED BY <1>1, <1>2, RegistryMoves DEF ServerInv, OwnersOK

LEMMA StepKeeps == ServerInv /\ [Next]_vars => ServerInv'
<1> SUFFICES ASSUME ServerInv, [Next]_vars PROVE ServerInv'
  OBVIOUS
<1>1. ASSUME NEW r \in Reqs, Arrive(r) \/ HandlerStep(r) \/ EngineStep(r) \/ DropRequest(r)
      PROVE  ServerInv'
  BY <1>1, ArriveKeeps, HandlerStepKeeps, EngineStepKeeps, DropRequestKeeps
<1>2. ASSUME NEW x \in Xids, Expire(x) \/ ReaperAbort(x) PROVE ServerInv'
  BY <1>2, ExpireKeeps, ReaperAbortKeeps
<1>3. CASE ClaimExpired
  BY <1>3, ClaimExpiredKeeps
<1>4. CASE Restart
  BY <1>4, RestartKeeps
<1>5. CASE Quiet \/ UNCHANGED vars
  BY <1>5, StutterKeeps DEF Quiet
<1> QED BY <1>1, <1>2, <1>3, <1>4, <1>5 DEF Next

\* The inductive invariant of the server holds in every reachable state.
THEOREM ServerInvariance == Spec => []ServerInv
BY InitEstablishes, StepKeeps, PTL DEF Spec

LEMMA AtMostOne ==
  ASSUME NEW S, \A a, b \in S : a = b
  PROVE  Cardinality(S) <= 1
<1>1. CASE S = {}
  BY <1>1, FS_EmptySet
<1>2. CASE S # {}
  <2>1. PICK a : S = {a}
    BY <1>2
  <2> QED BY <2>1, FS_Singleton
<1> QED BY <1>1, <1>2

\* TxnSessions::checkout, claim_expired, CronState::try_start: calls on one
\* transaction and runs of one cron job never overlap, however requests arrive,
\* time out, are dropped or race with the reaper.
THEOREM NothingOverlaps == Spec => []OneAtATime
<1>1. ServerInv => CallsSerialized
  <2> SUFFICES ASSUME ServerInv, NEW x \in Xids \ cut
               PROVE  LET using == {r \in Reqs : job[r].op \in {"exec", "commit", "abort"}
                                                 /\ job[r].out = "none" /\ job[r].x = x}
                      IN Cardinality(using) <= 1 /\ (x \in reaping => using = {})
    BY DEF CallsSerialized
  <2> DEFINE using == {r \in Reqs : job[r].op \in {"exec", "commit", "abort"}
                                    /\ job[r].out = "none" /\ job[r].x = x}
  <2>1. ASSUME NEW r \in using PROVE r \in Reqs /\ Uses(r, x)
    <3>1. CallOK(r)
      BY DEF ServerInv, CallsOK
    <3> QED BY <3>1 DEF CallOK, Acting, Uses
  <2>2. \A r, q \in using : r = q
    BY <2>1 DEF ServerInv, OwnersOK
  <2>3. x \in reaping => using = {}
    <3> SUFFICES ASSUME x \in reaping, NEW r \in using PROVE FALSE
      OBVIOUS
    <3> QED BY <2>1, ServerAssumption DEF ServerInv, OwnersOK
  <2> HIDE DEF using
  <2>4. Cardinality(using) <= 1
    BY <2>2, AtMostOne
  <2> QED BY <2>3, <2>4 DEF using
<1>2. ServerInv => RunsDontOverlap
  <2> SUFFICES ASSUME ServerInv, NEW j \in CronJobs
               PROVE  LET runs == {r \in Reqs : req[r].pc \notin {"new", "gone"}
                                     /\ req[r].in.kind = "cron" /\ req[r].in.user = j}
                          live == {r \in runs : req[r].pc # "done"}
                      IN /\ Cardinality(live) <= 1
                         /\ cron[j].running <=> live # {}
                         /\ cron[j].last # "none" => \E r \in runs \ live : req[r].reply = cron[j].last
    BY DEF RunsDontOverlap
  <2> DEFINE runs == {r \in Reqs : req[r].pc \notin {"new", "gone"}
                                   /\ req[r].in.kind = "cron" /\ req[r].in.user = j}
             live == {r \in runs : req[r].pc # "done"}
  <2>1. \A r : r \in live <=> r \in Reqs /\ LiveRun(r, j)
    BY DEF LiveRun
  <2>2. \A r : r \in runs \ live <=> r \in Reqs /\ EndedRun(r, j)
    BY DEF EndedRun
  <2> HIDE DEF live, runs
  <2>3. Cardinality(live) <= 1
    BY <2>1, AtMostOne DEF ServerInv, CronOK
  <2>4. cron[j].running <=> live # {}
    BY <2>1 DEF ServerInv, CronOK
  <2>5. cron[j].last # "none" => \E r \in runs \ live : req[r].reply = cron[j].last
    BY <2>2 DEF ServerInv, CronOK
  <2> QED BY <2>3, <2>4, <2>5 DEF live, runs
<1>3. ServerInv => OneAtATime
  BY <1>1, <1>2 DEF OneAtATime
<1> QED BY <1>3, ServerInvariance, PTL

\* finish, finish_scoped, post_sql: no transaction in which a statement failed
\* half way is committed, by its client, another request or a later statement,
\* unless one of its requests was dropped.
THEOREM PartsAreNeverCommitted == Spec => []NoPartialCommit
<1>1. ServerInv => NoPartialCommit
  <2> SUFFICES ASSUME ServerInv, NEW x \in Xids \ cut, txn[x].st \in {"committed", "doubt"},
                      NEW w \in txn[x].writes
               PROVE  w[3] = "full"
    BY DEF NoPartialCommit
  <2>1. ~Part(x)
    BY DEF ServerInv, PartsAborted
  <2> QED BY <2>1 DEF Part
<1> QED BY <1>1, ServerInvariance, PTL
-----------------------------------------------------------------------------
(***************************************************************************)
(* What the server answers is true.  The proof follows a request through   *)
(* its life: which of its statements have taken effect, in which           *)
(* transaction, and what that transaction's state is when the handler      *)
(* composes the reply.  A transaction outside a session is in no one       *)
(* else's hands, so between two steps of its request its state stays.      *)
(***************************************************************************)

\* Statement j of r took effect in x, as a whole.
Has(x, r, j) == <<r, j, "full">> \in txn[x].writes
NoTrace(r) == \A x \in Xids : \A w \in txn[x].writes : w[1] # r

OwnKinds == {"sql", "rows", "rpc", "rest", "cron", "batch"}
TextKinds == {"sql", "cron"}
Outs == {"none", "ok", "err", "late"}
InBatch(r) == req[r].in.kind = "batch"

\* The first statement of the transaction r works in, and the one it is at.
First(r) == IF InBatch(r) THEN req[r].i ELSE 1
At(r) == req[r].i + job[r].k - 1

\* What ScriptsAssumption says of the statements of one input.
ScriptOK(in) ==
  /\ Len(in.script) \in Nat /\ DOMAIN in.script = 1..Len(in.script)
  /\ in.kind \in TextKinds => \A i \in DOMAIN in.script : in.script[i].op \notin Raw

\* x has been rolled back, or could not be and is out of everybody's reach.
Dead(x) == txn[x].st = "aborted" \/ (txn[x].st = "open" /\ Abandoned(x) /\ x \notin cut)

\* finish: a statement answered with success is durable, any other is lost.
Lost(r, j) == \A x \in Xids : Has(x, r, j) => Dead(x)
Decided(r, j, ok) == IF ok THEN Durable(r, j) ELSE Lost(r, j)

\* The statements of r have taken effect in one transaction, and only there.
Together(r) ==
  \E x \in Xids : \A j \in Writes(r) :
    Has(x, r, j) /\ \A y \in Xids : Has(y, r, j) => y = x

\* The statements before n of the transaction at hand have taken effect in it.
Covered(r, n) ==
  \A j \in Writes(r) : First(r) <= j /\ j < n => Has(req[r].x, r, j)

\* The statements at hand have taken effect in no other transaction.
OnlyHere(r) ==
  \A x \in Xids : \A j \in Writes(r) :
    Has(x, r, j) /\ First(r) <= j => x = req[r].x /\ (InBatch(r) => j = req[r].i)

\* execute_sql_inner: the call runs the statements the handler is at.
ExecOK(r) ==
  /\ job[r].plans = PlansOf(req[r].in, req[r].i)
  /\ job[r].k \in 1..Len(job[r].plans)
  /\ job[r].st = "flip" => Plan(r).op \notin Dml
  /\ Covered(r, IF job[r].out = "ok" THEN req[r].i + Len(job[r].plans) ELSE At(r))

\* post_batch_sql: the slots filled so far say what became of their statements.
SlotsOK(r) ==
  /\ req[r].slots \in Seq({"ok", "err", "late", "skipped"})
  /\ Len(req[r].slots) = IF req[r].pc = "done" /\ req[r].reply = "ok"
                           THEN Len(req[r].in.script) ELSE req[r].i - 1
  /\ \A j \in Writes(r) : j <= Len(req[r].slots) /\ req[r].slots[j] # "late" =>
       Decided(r, j, req[r].slots[j] = "ok")

\* Engine::commit, Engine::abort: once the call has ended the transaction, it
\* is in state st; the call may still have a checkpoint to run.
AcksEnd(r, st) ==
  job[r].out = "ok" \/ (job[r].out = "none" /\ job[r].st # "start") => txn[job[r].x].st = st

\* Before that it is open, and an error leaves it open or rolled back; an abort
\* has nothing left to do once the transaction has ended.
EndedAs(r, st) ==
  /\ st = "aborted" => job[r].out # "late"
  /\ AcksEnd(r, st)
  /\ job[r].out = "none" /\ job[r].st = "start" => txn[job[r].x].st = "open"
  /\ job[r].out = "err" => txn[job[r].x].st \in {"open", "aborted"}

\* A request with transactions of its own.
AloneOK(r) ==
  /\ req[r].pc \in {"slot", "begin", "exec", "commit", "abort", "done"}
  /\ InBatch(r) => SlotsOK(r)
  /\ req[r].pc \in {"slot", "begin"} =>
       \A x \in Xids : \A j \in Writes(r) : Has(x, r, j) => j < First(r)
  /\ req[r].pc = "begin" => First(r) = req[r].i
  /\ req[r].pc = "begin" /\ job[r].out = "ok" => txn[job[r].x].st = "open"
  /\ req[r].pc \in {"exec", "commit", "abort"} => OnlyHere(r)
  /\ req[r].pc = "exec" => txn[req[r].x].st = "open"
  /\ req[r].pc = "commit" =>
       /\ Covered(r, IF InBatch(r) THEN req[r].i + 1 ELSE Len(req[r].in.script) + 1)
       /\ EndedAs(r, "committed")
  /\ req[r].pc = "abort" => EndedAs(r, "aborted")
  /\ req[r].pc = "done" /\ ~InBatch(r) =>
       IF req[r].reply = "late" THEN Together(r)
       ELSE \A j \in Writes(r) : Decided(r, j, req[r].reply = "ok")

\* A statement of a session.
HeldOK(r) ==
  /\ req[r].pc \in {"exec", "abort", "done"} /\ req[r].in.target \in Xids
  /\ \A x \in Xids : \A j \in Writes(r) : Has(x, r, j) => x = req[r].in.target
  /\ req[r].pc = "done" /\ req[r].reply = "ok" =>
       \A j \in Writes(r) : Has(req[r].in.target, r, j)

\* The end of a session.
EndOK(r) ==
  LET st == IF req[r].in.kind = "commit" THEN "committed" ELSE "aborted" IN
  /\ req[r].pc \in IF req[r].in.kind = "commit" THEN {"commit", "reabort", "done"}
                                                ELSE {"abort", "done"}
  /\ req[r].pc # "done" => InSession(r)
  /\ req[r].pc \in {"commit", "abort"} => AcksEnd(r, st)
  /\ req[r].pc = "reabort" => req[r].reply # "ok"
  /\ req[r].pc = "done" /\ req[r].reply = "ok" =>
       req[r].in.target \in Xids /\ txn[req[r].in.target].st = st

OwnOK(r) ==
  /\ ScriptOK(req[r].in)
  /\ req[r].pc # "done" => /\ req[r].i \in 1..Len(req[r].in.script)
                           /\ req[r].in.kind \in TextKinds => req[r].i = 1
  /\ req[r].pc \in Waiting => job[r].out \in Outs
  /\ req[r].pc = "exec" => ExecOK(r)
  /\ IF InSession(r) THEN HeldOK(r) ELSE AloneOK(r)

Told(r) ==
  /\ req[r].pc = "new" => NoTrace(r) /\ req[r].i = 1 /\ req[r].slots = << >>
  /\ req[r].pc \notin {"new", "gone"} =>
       /\ req[r].in.kind \in OwnKinds => OwnOK(r)
       /\ req[r].in.kind \in {"commit", "rollback"} => EndOK(r)

\* A transaction outside a session is touched by no call that outlived its
\* request; a transaction not begun has no effects.
CutOK ==
  /\ \A x \in Xids : txn[x].st = "free" => x \notin cut /\ txn[x].writes = {}
  /\ \A r \in Reqs, x \in Xids : Uses(r, x) /\ ~InSession(r) => x \notin cut

ToldInv == CutOK /\ \A r \in Reqs : Told(r)

LEMMA ScriptsAreOK ==
  ASSUME load \in Workloads, NEW r \in Reqs, NEW in \in load.inputs[r]
  PROVE  /\ in.kind \in OwnKinds \ {"rest"} => ScriptOK(in) /\ Len(in.script) # 0
         /\ in.kind = "rest" =>
              LET stmts == RestStatements(in.script[1]) IN
              \/ stmts = << >>
              \/ Len(stmts) \in Nat \ {0} /\ DOMAIN stmts = 1..Len(stmts)
BY ScriptsAssumption DEF ScriptOK, OwnKinds, TextKinds, Raw

\* What has ended stays so.
EndsStay ==
  \A x \in Xids : /\ txn[x].st \in {"committed", "aborted"} => txn'[x].st = txn[x].st
                  /\ Dead(x) => Dead(x)'

\* Nobody takes up a transaction that is out of reach.
LEMMA DeadStays ==
  ASSUME NEW x \in Xids, Dead(x), txn'[x].st \in {txn[x].st, "aborted"},
         txn[x].st # "aborted" /\ Abandoned(x) /\ x \notin cut =>
           /\ sess'[x] = NoOne /\ x \notin cut'
           /\ \A q \in Reqs : Uses(q, x)' => Uses(q, x)
  PROVE  Dead(x)'
<1>1. CASE txn'[x].st = "aborted"
  BY <1>1 DEF Dead
<1>2. CASE txn'[x].st # "aborted"
  <2>1. txn'[x].st = "open" /\ txn[x].st = "open" /\ Abandoned(x) /\ x \notin cut
    BY <1>2 DEF Dead
  <2>2. Abandoned(x)'
    BY <2>1 DEF Abandoned
  <2> QED BY <2>1, <2>2 DEF Dead
<1> QED BY <1>1, <1>2

\* The transactions, as far as q's replies are about them: q's effects stay,
\* what has ended stays so, and q's own transaction does not change state.
KeptFor(q) ==
  /\ \A x \in Xids : \A w : w[1] = q => (w \in txn'[x].writes <=> w \in txn[x].writes)
  /\ EndsStay
  /\ \A x \in Xids : Uses(q, x) /\ ~InSession(q) => txn'[x].st = txn[x].st

\* q does not move, nor does the call it waits for.
Same(q) == req'[q] = req[q] /\ (req[q].pc \in Waiting => job'[q] = job[q])

LEMMA HasStays ==
  ASSUME NEW q, KeptFor(q)
  PROVE  \A x \in Xids : \A j : Has(x, q, j)' <=> Has(x, q, j)
<1> SUFFICES ASSUME NEW x \in Xids, NEW j PROVE Has(x, q, j)' <=> Has(x, q, j)
  OBVIOUS
<1>1. <<q, j, "full">>[1] = q
  OBVIOUS
<1> QED BY <1>1 DEF KeptFor, Has

LEMMA SameWrites ==
  ASSUME NEW q, req'[q].in = req[q].in
  PROVE  Writes(q)' = Writes(q)
BY DEF Writes

LEMMA DecidedStays ==
  ASSUME NEW q, NEW j, NEW ok, \A x \in Xids : Has(x, q, j)' <=> Has(x, q, j), EndsStay,
         Decided(q, j, ok)
  PROVE  Decided(q, j, ok)'
<1>2. CASE ok
  <2>1. PICK x \in Xids : txn[x].st = "committed" /\ <<q, j, "full">> \in txn[x].writes
    BY <1>2 DEF Decided, Durable
  <2>2. txn'[x].st = "committed" /\ <<q, j, "full">> \in txn'[x].writes
    BY <2>1 DEF EndsStay, Has
  <2> QED BY <1>2, <2>2 DEF Decided, Durable
<1>3. CASE ~ok
  BY <1>3 DEF Decided, Lost, EndsStay
<1> QED BY <1>2, <1>3

\* The slots of a batch that are filled stay true while the next one runs.
LEMMA SlotsStay ==
  ASSUME NEW r, SlotsOK(r), req[r].pc # "done", req'[r].pc # "done" \/ req'[r].reply # "ok",
         req'[r].in = req[r].in, req'[r].slots = req[r].slots, req'[r].i = req[r].i,
         \A x \in Xids : \A j \in Writes(r) : j <= Len(req[r].slots) => (Has(x, r, j)' <=> Has(x, r, j)),
         EndsStay
  PROVE  SlotsOK(r)'
<1>1. Writes(r)' = Writes(r)
  BY SameWrites
<1>2. ASSUME NEW j \in Writes(r), j <= Len(req[r].slots), req[r].slots[j] # "late"
      PROVE  Decided(r, j, req[r].slots[j] = "ok")'
  <2> DEFINE ok == req[r].slots[j] = "ok"
  <2>1. Decided(r, j, ok) /\ ok' = ok
    BY <1>2 DEF SlotsOK
  <2>2. \A x \in Xids : Has(x, r, j)' <=> Has(x, r, j)
    BY <1>2
  <2> HIDE DEF ok
  <2>3. Decided(r, j, ok)'
    BY <2>1, <2>2, DecidedStays
  <2> QED BY <2>3 DEF ok
<1> QED BY <1>1, <1>2 DEF SlotsOK

LEMMA ExecStays ==
  ASSUME NEW q, KeptFor(q), Same(q), ExecOK(q), req[q].x \in Xids, req[q].pc = "exec"
  PROVE  ExecOK(q)'
<1>1. \A j : Has(req[q].x, q, j)' <=> Has(req[q].x, q, j)
  BY HasStays DEF Has, Same
<1>2. req'[q] = req[q] /\ job'[q] = job[q]
  BY DEF Same, Waiting
<1>3. Writes(q)' = Writes(q) /\ First(q)' = First(q) /\ At(q)' = At(q)
  BY <1>2, SameWrites DEF First, InBatch, At
<1> QED BY <1>1, <1>2, <1>3 DEF ExecOK, Covered, Has, Plan

\* A request that does not move keeps what it was told, whatever the others do.
LEMMA AloneStays ==
  ASSUME NEW q \in Reqs, KeptFor(q), Same(q), CallOK(q), AloneOK(q), ~InSession(q)
  PROVE  AloneOK(q)'
<1>1. \A x \in Xids : \A j : Has(x, q, j)' <=> Has(x, q, j)
  BY HasStays
<1>2. /\ Writes(q)' = Writes(q) /\ First(q)' = First(q) /\ InBatch(q)' = InBatch(q)
      /\ req'[q] = req[q] /\ (req[q].pc \in {"begin", "exec", "commit", "abort"} => job'[q] = job[q])
  BY SameWrites DEF Same, First, InBatch, Waiting
<1>3. InBatch(q) => SlotsOK(q)'
  <2> SUFFICES ASSUME InBatch(q) PROVE SlotsOK(q)'
    OBVIOUS
  <2>1. SlotsOK(q)
    BY DEF AloneOK
  <2>2. CASE req[q].pc # "done"
    BY <1>1, <1>2, <2>1, <2>2, SlotsStay DEF KeptFor
  <2>3. CASE req[q].pc = "done"
    <3>1. ASSUME NEW j \in Writes(q), j <= Len(req[q].slots), req[q].slots[j] # "late"
          PROVE  Decided(q, j, req[q].slots[j] = "ok")'
      <4> DEFINE ok == req[q].slots[j] = "ok"
      <4>1. Decided(q, j, ok) /\ ok' = ok
        BY <1>2, <2>1, <3>1 DEF SlotsOK
      <4>2. \A x \in Xids : Has(x, q, j)' <=> Has(x, q, j)
        BY <1>1
      <4> HIDE DEF ok
      <4>3. Decided(q, j, ok)'
        BY <4>1, <4>2, DecidedStays DEF KeptFor
      <4> QED BY <4>3 DEF ok
    <3> QED BY <1>2, <2>1, <3>1 DEF SlotsOK
  <2> QED BY <2>2, <2>3
<1>4. /\ req[q].pc \in {"slot", "begin"} =>
           \A x \in Xids : \A j \in Writes(q) : Has(x, q, j)' => j < First(q)
      /\ req[q].pc \in {"exec", "commit", "abort"} => OnlyHere(q)'
  BY <1>1, <1>2 DEF AloneOK, OnlyHere
<1>5. /\ req[q].pc = "begin" /\ job[q].out = "ok" => Uses(q, job[q].x) /\ job[q].x \in Xids
      /\ req[q].pc \in {"exec", "commit", "abort"} =>
           Uses(q, req[q].x) /\ req[q].x \in Xids /\ job[q].x = req[q].x
  BY DEF CallOK, Waiting, CallOf, Uses, Acting
<1>6. /\ req[q].pc = "begin" /\ job[q].out = "ok" => txn'[job[q].x].st = txn[job[q].x].st
      /\ req[q].pc \in {"exec", "commit", "abort"} =>
           txn'[req[q].x].st = txn[req[q].x].st /\ txn'[job[q].x].st = txn[job[q].x].st
  BY <1>5 DEF KeptFor
<1>6a. /\ req[q].pc = "commit" => EndedAs(q, "committed")'
       /\ req[q].pc = "abort" => EndedAs(q, "aborted")'
  BY <1>2, <1>6 DEF AloneOK, EndedAs, AcksEnd
<1>7. ASSUME NEW n, req[q].x \in Xids, Covered(q, n) PROVE Covered(q, n)'
  BY <1>1, <1>2, <1>7 DEF Covered, Has
<1>8. req[q].pc = "commit" =>
        Covered(q, IF InBatch(q) THEN req[q].i + 1 ELSE Len(req[q].in.script) + 1)'
  <2> DEFINE n == IF InBatch(q) THEN req[q].i + 1 ELSE Len(req[q].in.script) + 1
  <2> SUFFICES ASSUME req[q].pc = "commit" PROVE Covered(q, n)'
    OBVIOUS
  <2>1. Covered(q, n) /\ req[q].x \in Xids /\ n' = n
    BY <1>2, <1>5 DEF AloneOK
  <2> HIDE DEF n
  <2> QED BY <1>7, <2>1
<1>9. req[q].pc = "done" /\ ~InBatch(q) /\ req[q].reply # "late" =>
        \A j \in Writes(q) : Decided(q, j, req[q].reply = "ok")'
  <2> DEFINE ok == req[q].reply = "ok"
  <2> SUFFICES ASSUME req[q].pc = "done", ~InBatch(q), req[q].reply # "late", NEW j \in Writes(q)
               PROVE  Decided(q, j, ok)'
    OBVIOUS
  <2>1. Decided(q, j, ok) /\ ok' = ok
    BY <1>2 DEF AloneOK
  <2>2. \A x \in Xids : Has(x, q, j)' <=> Has(x, q, j)
    BY <1>1
  <2> HIDE DEF ok
  <2> QED BY <2>1, <2>2, DecidedStays DEF KeptFor
<1>10. req[q].pc = "done" /\ ~InBatch(q) /\ req[q].reply = "late" => Together(q)'
  BY <1>1, <1>2 DEF AloneOK, Together
<1> QED BY <1>2, <1>3, <1>4, <1>6, <1>6a, <1>8, <1>9, <1>10 DEF AloneOK

LEMMA OtherStays ==
  ASSUME NEW q \in Reqs, KeptFor(q), Same(q), CallOK(q), Told(q)
  PROVE  Told(q)'
<1>1. \A x \in Xids : \A j : Has(x, q, j)' <=> Has(x, q, j)
  BY HasStays
<1>2. /\ Writes(q)' = Writes(q) /\ req'[q] = req[q] /\ (req[q].pc \in Waiting => job'[q] = job[q])
      /\ (InSession(q)' <=> InSession(q))
  BY SameWrites DEF Same, InSession
<1>3. ASSUME req[q].pc = "new" PROVE NoTrace(q)'
  <2> SUFFICES ASSUME NEW x \in Xids, NEW w \in txn'[x].writes, w[1] = q PROVE FALSE
    BY DEF NoTrace
  <2>1. w \in txn[x].writes
    BY DEF KeptFor
  <2> QED BY <1>3, <2>1 DEF Told, NoTrace
<1>4. ASSUME req[q].pc \notin {"new", "gone"}, req[q].in.kind \in OwnKinds PROVE OwnOK(q)'
  <2>1. OwnOK(q)
    BY <1>4 DEF Told
  <2>2. req[q].pc = "exec" => ExecOK(q)'
    <3>1. req[q].pc = "exec" => req[q].x \in Xids /\ ExecOK(q)
      BY <2>1 DEF CallOK, OwnOK, Waiting, CallOf, Acting
    <3> QED BY <3>1, ExecStays
  <2>3. CASE InSession(q)
    <3>1. HeldOK(q)
      BY <2>1, <2>3 DEF OwnOK
    <3>2. HeldOK(q)'
      BY <1>1, <1>2, <3>1 DEF HeldOK, Has
    <3> QED BY <1>2, <2>1, <2>2, <2>3, <3>2 DEF OwnOK
  <2>4. CASE ~InSession(q)
    <3>1. AloneOK(q)'
      BY <2>1, <2>4, AloneStays DEF OwnOK
    <3> QED BY <1>2, <2>1, <2>2, <2>4, <3>1 DEF OwnOK
  <2> QED BY <2>3, <2>4
<1>5. ASSUME req[q].pc \notin {"new", "gone"}, req[q].in.kind \in {"commit", "rollback"}
      PROVE  EndOK(q)'
  <2>1. EndOK(q)
    BY <1>5 DEF Told
  <2>2. req[q].pc \in {"commit", "abort"} => job[q].x \in Xids
    BY DEF CallOK, Waiting, CallOf, Acting
  <2>3. req[q].pc \in {"commit", "abort"} => job'[q] = job[q]
    BY <1>2 DEF Waiting
  <2>4. req[q].pc \in {"commit", "abort"} =>
          AcksEnd(q, IF req[q].in.kind = "commit" THEN "committed" ELSE "aborted")'
    BY <1>2, <2>1, <2>2, <2>3 DEF EndOK, KeptFor, EndsStay, AcksEnd
  <2> QED BY <1>2, <2>1, <2>4 DEF EndOK, KeptFor, EndsStay
<1> QED BY <1>2, <1>3, <1>4, <1>5 DEF Told

\* What a step of r may do to the transactions: it touches the one its call
\* works on, adds effects of its own, and may end it.
TouchesOnly(r) ==
  \A x \in Xids :
    /\ x # job[r].x => txn'[x] = txn[x]
    /\ \A w : w \in txn[x].writes => w \in txn'[x].writes
    /\ \A w : w \in txn'[x].writes => w \in txn[x].writes \/ w[1] = r
    /\ \/ txn'[x].st = txn[x].st
       \/ txn[x].st = "open" /\ txn'[x].st \in {"committed", "aborted", "doubt"}

\* No transaction is taken into use outside a session.
NoneTaken ==
  \A q \in Reqs, x \in Xids : Uses(q, x)' /\ ~InSession(q)' => Uses(q, x) /\ ~InSession(q)

LEMMA CutStays ==
  ASSUME CutOK, NoneTaken, cut' = cut,
         \A x \in Xids : txn'[x].st = "free" => txn[x].st = "free" /\ txn'[x].writes = txn[x].writes
  PROVE  CutOK'
BY DEF CutOK, NoneTaken

\* A call on a transaction is by its user, or has outlived its request.
LEMMA CallOnBegun ==
  ASSUME ServerInv, CutOK, NEW r \in Reqs, job[r].op \in Acting
  PROVE  /\ job[r].x \in Xids /\ txn[job[r].x].st # "free"
         /\ IF req[r].pc = "gone" THEN job[r].x \in cut ELSE Uses(r, job[r].x)
<1>1. CallOK(r) /\ OwnersOK /\ job[r].op # "none"
  BY DEF ServerInv, CallsOK, Acting
<1>2. job[r].x \in Xids /\ IF req[r].pc = "gone" THEN job[r].x \in cut ELSE Uses(r, job[r].x)
  BY <1>1 DEF CallOK, Uses
<1> QED BY <1>1, <1>2 DEF OwnersOK, CutOK

\* A call touches no transaction that is out of reach.
LEMMA CallEnds ==
  ASSUME ServerInv, CutOK, NEW r \in Reqs, job[r].op \in Acting \cup {"edit"},
         NEW j, CallMoves(r, j), TouchesOnly(r), sess' = sess, cut' = cut
  PROVE  EndsStay
<1>1. req' = req /\ job'[r] = j /\ \A q \in Reqs : q # r => job'[q] = job[q]
  BY DEF ServerInv, CallMoves, CallsOK
<1>2. ASSUME NEW x \in Xids, NEW q \in Reqs, Uses(q, x)' PROVE Uses(q, x)
  <2>1. CASE q = r
    <3>1. req[r].pc # "gone" /\ j.op # "none" /\ j.x = x
      BY <1>1, <1>2, <2>1 DEF Uses
    <3>2. j.op = job[r].op /\ j.x = job[r].x
      BY <3>1 DEF CallMoves
    <3> QED BY <2>1, <3>1, <3>2 DEF Uses
  <2>2. CASE q # r
    BY <1>1, <1>2, <2>2 DEF Uses
  <2> QED BY <2>1, <2>2
<1>3. ASSUME NEW x \in Xids, Dead(x) PROVE Dead(x)'
  <2>1. txn'[x].st \in {txn[x].st, "aborted"}
    <3>1. CASE txn[x].st = "aborted"
      BY <3>1 DEF TouchesOnly
    <3>2. CASE txn[x].st # "aborted"
      <4>1. Abandoned(x) /\ x \notin cut
        BY <1>3, <3>2 DEF Dead
      <4>2. x # job[r].x
        <5>1. CASE job[r].op = "edit"
          <6>1. CallOK(r)
            BY DEF ServerInv, CallsOK
          <6> QED BY <5>1, <6>1, ZeroIsNoXid DEF CallOK
        <5>2. CASE job[r].op \in Acting
          <6>1. IF req[r].pc = "gone" THEN job[r].x \in cut ELSE Uses(r, job[r].x)
            BY <5>2, CallOnBegun
          <6> QED BY <4>1, <6>1 DEF Abandoned
        <5> QED BY <5>1, <5>2
      <4> QED BY <4>2 DEF TouchesOnly
    <3> QED BY <3>1, <3>2
  <2>2. Abandoned(x) /\ x \notin cut =>
          sess'[x] = NoOne /\ x \notin cut' /\ \A q \in Reqs : Uses(q, x)' => Uses(q, x)
    BY <1>2 DEF Abandoned
  <2> QED BY <1>3, <2>1, <2>2, DeadStays
<1> QED BY <1>3 DEF EndsStay, TouchesOnly

LEMMA TouchKept ==
  ASSUME ServerInv, CutOK, NEW r \in Reqs, job[r].op \in Acting \cup {"edit"}, TouchesOnly(r),
         EndsStay
  PROVE  /\ \A q \in Reqs : q # r => KeptFor(q)
         /\ \A x \in Xids : txn'[x].st = "free" => txn[x].st = "free" /\ txn'[x].writes = txn[x].writes
<1>1. ASSUME NEW q \in Reqs, q # r, NEW x \in Xids, Uses(q, x), ~InSession(q) PROVE x # job[r].x
  <2>1. CASE job[r].op = "edit"
    <3>1. CallOK(r)
      BY DEF ServerInv, CallsOK
    <3> QED BY <2>1, <3>1, ZeroIsNoXid DEF CallOK
  <2>2. CASE job[r].op \in Acting
    <3>1. IF req[r].pc = "gone" THEN job[r].x \in cut ELSE Uses(r, job[r].x)
      BY <2>2, CallOnBegun
    <3> QED BY <1>1, <3>1 DEF ServerInv, OwnersOK, CutOK
  <2> QED BY <2>1, <2>2
<1>2. ASSUME NEW q \in Reqs, q # r PROVE KeptFor(q)
  <2>1. \A x \in Xids : \A w : w[1] = q => (w \in txn'[x].writes <=> w \in txn[x].writes)
    BY <1>2 DEF TouchesOnly
  <2>3. \A x \in Xids : Uses(q, x) /\ ~InSession(q) => txn'[x].st = txn[x].st
    BY <1>1, <1>2 DEF TouchesOnly
  <2> QED BY <2>1, <2>3 DEF KeptFor
<1>3. ASSUME NEW x \in Xids, txn'[x].st = "free" PROVE txn[x].st = "free" /\ txn'[x].writes = txn[x].writes
  <2>1. txn[x].st = "free"
    BY <1>3 DEF TouchesOnly
  <2>2. x # job[r].x
    <3>1. CASE job[r].op = "edit"
      <4>1. CallOK(r)
        BY DEF ServerInv, CallsOK
      <4> QED BY <3>1, <4>1, ZeroIsNoXid DEF CallOK
    <3>2. CASE job[r].op \in Acting
      BY <2>1, <3>2, CallOnBegun
    <3> QED BY <3>1, <3>2
  <2> QED BY <2>1, <2>2 DEF TouchesOnly
<1> QED BY <1>2, <1>3

\* A step of an engine call: what is left to show is about its own request.
LEMMA CallTold ==
  ASSUME ServerInv, ToldInv, NEW r \in Reqs, job[r].op \in Acting \cup {"edit"},
         NEW j, CallMoves(r, j), TouchesOnly(r), EndsStay, cut' = cut,
         req[r].pc # "gone" => Told(r)'
  PROVE  ToldInv'
<1>1. CallsOK /\ OwnersOK /\ CutOK
  BY DEF ServerInv, ToldInv
<1>2. req' = req /\ job'[r] = j /\ \A q \in Reqs : q # r => job'[q] = job[q]
  BY <1>1 DEF CallMoves, CallsOK
<1>3. NoneTaken
  <2> SUFFICES ASSUME NEW q \in Reqs, NEW x \in Xids, Uses(q, x)', ~InSession(q)'
               PROVE  Uses(q, x) /\ ~InSession(q)
    BY DEF NoneTaken
  <2>1. CASE q = r
    <3>1. req[r].pc # "gone" /\ j.op # "none" /\ j.x = x
      BY <1>2, <2>1 DEF Uses
    <3>2. j.op = job[r].op /\ j.x = job[r].x
      BY <3>1 DEF CallMoves
    <3> QED BY <1>2, <2>1, <3>1, <3>2 DEF Uses, InSession
  <2>2. CASE q # r
    BY <1>2, <2>2 DEF Uses, InSession
  <2> QED BY <2>1, <2>2
<1>4. CutOK'
  BY <1>1, <1>3, TouchKept, CutStays
<1>5. ASSUME NEW q \in Reqs, q # r PROVE Told(q)'
  <2>1. KeptFor(q) /\ Same(q) /\ CallOK(q) /\ Told(q)
    BY <1>1, <1>2, <1>5, TouchKept DEF Same, ToldInv, CallsOK
  <2> QED BY <2>1, OtherStays
<1>6. Told(r)'
  BY <1>2 DEF Told
<1> QED BY <1>4, <1>5, <1>6 DEF ToldInv

LEMMA WriteTouches ==
  ASSUME OwnersOK, NEW r, NEW how, job[r].x \in Xids,
         txn' = [txn EXCEPT ![job[r].x].writes = @ \cup {Token(r, how)}]
  PROVE  /\ TouchesOnly(r) /\ \A x \in Xids : txn'[x].st = txn[x].st
         /\ \A x \in Xids : txn'[x].writes = IF x = job[r].x THEN txn[x].writes \cup {Token(r, how)}
                                                              ELSE txn[x].writes
<1>1. ASSUME NEW x \in Xids
      PROVE  /\ txn'[x].st = txn[x].st /\ (x # job[r].x => txn'[x] = txn[x])
             /\ txn'[x].writes = IF x = job[r].x THEN txn[x].writes \cup {Token(r, how)}
                                                 ELSE txn[x].writes
  BY DEF OwnersOK
<1>2. Token(r, how)[1] = r
  BY DEF Token
<1> QED BY <1>1, <1>2 DEF TouchesOnly

LEMMA EndTouches ==
  ASSUME OwnersOK, NEW r, job[r].x \in Xids, txn[job[r].x].st = "open",
         NEW st \in {"committed", "aborted", "doubt"}, txn' = [txn EXCEPT ![job[r].x].st = st]
  PROVE  /\ TouchesOnly(r) /\ txn'[job[r].x].st = st
         /\ \A x \in Xids : txn'[x].writes = txn[x].writes
<1>1. ASSUME NEW x \in Xids
      PROVE  /\ txn'[x].writes = txn[x].writes /\ (x # job[r].x => txn'[x] = txn[x])
             /\ txn'[x].st = IF x = job[r].x THEN st ELSE txn[x].st
  BY DEF OwnersOK
<1> QED BY <1>1 DEF TouchesOnly

LEMMA StayTouches ==
  ASSUME NEW r, txn' = txn
  PROVE  TouchesOnly(r)
BY DEF TouchesOnly

\* Engine::commit and Engine::abort, for the request that waits for them.
LEMMA EndCallTold ==
  ASSUME ServerInv, ToldInv, NEW r \in Reqs, NEW op \in {"commit", "abort"}, Running(r, op),
         req[r].pc # "gone", req' = req, job'[r].op = op, job'[r].x = job[r].x,
         job'[r].out \in Outs, EndsStay,
         \A x \in Xids : txn'[x].writes = txn[x].writes,
         NEW st, st = IF op = "commit" THEN "committed" ELSE "aborted",
         AcksEnd(r, st) => AcksEnd(r, st)', EndedAs(r, st) => EndedAs(r, st)'
  PROVE  Told(r)'
<1>1. CallOK(r) /\ Told(r)
  BY DEF ServerInv, CallsOK, ToldInv
<1>2. /\ req[r].pc \in {op, "reabort"} /\ job[r].op = op /\ job[r].out = "none"
      /\ (req[r].pc = "reabort" => op = "abort") /\ req[r].x = job[r].x /\ job[r].x \in Xids
  BY <1>1 DEF Running, CallOK, CallOf, Waiting, Acting
<1>3. \A x \in Xids : \A j : Has(x, r, j)' <=> Has(x, r, j)
  BY DEF Has
<1>4. /\ Writes(r)' = Writes(r) /\ First(r)' = First(r) /\ InBatch(r)' = InBatch(r)
      /\ InSession(r)' = InSession(r)
  BY SameWrites DEF First, InBatch, InSession
<1>5. ASSUME req[r].in.kind \in OwnKinds PROVE OwnOK(r)'
  <2>1. OwnOK(r)
    BY <1>1, <1>2, <1>5 DEF Told
  <2>2. CASE InSession(r)
    <3>1. HeldOK(r)
      BY <2>1, <2>2 DEF OwnOK
    <3>2. HeldOK(r)'
      BY <1>2, <1>3, <1>4, <3>1 DEF HeldOK
    <3> QED BY <1>2, <1>4, <2>1, <2>2, <3>2 DEF OwnOK, Outs
  <2>3. CASE ~InSession(r)
    <3>1. AloneOK(r)
      BY <2>1, <2>3 DEF OwnOK
    <3>2. req[r].pc = op
      BY <1>2, <3>1 DEF AloneOK
    <3>3. InBatch(r) => SlotsOK(r)'
      <4> SUFFICES ASSUME InBatch(r) PROVE SlotsOK(r)'
        OBVIOUS
      <4>1. SlotsOK(r)
        BY <3>1 DEF AloneOK
      <4> QED BY <1>2, <1>3, <4>1, SlotsStay
    <3>4. OnlyHere(r)'
      BY <1>3, <1>4, <3>1, <3>2 DEF OnlyHere, AloneOK
    <3>6. EndedAs(r, st)'
      BY <1>2, <3>1, <3>2 DEF AloneOK
    <3>7. ASSUME NEW n, Covered(r, n) PROVE Covered(r, n)'
      BY <1>2, <1>3, <1>4, <3>7 DEF Covered, Has
    <3>8. req[r].pc = "commit" =>
            Covered(r, IF InBatch(r) THEN req[r].i + 1 ELSE Len(req[r].in.script) + 1)'
      <4> DEFINE n == IF InBatch(r) THEN req[r].i + 1 ELSE Len(req[r].in.script) + 1
      <4> SUFFICES ASSUME req[r].pc = "commit" PROVE Covered(r, n)'
        OBVIOUS
      <4>1. Covered(r, n) /\ n' = n
        BY <1>4, <3>1 DEF AloneOK
      <4> HIDE DEF n
      <4> QED BY <3>7, <4>1
    <3>9. AloneOK(r)'
      BY <1>2, <1>4, <3>2, <3>3, <3>4, <3>6, <3>8 DEF AloneOK
    <3> QED BY <1>2, <1>4, <2>1, <2>3, <3>2, <3>9 DEF OwnOK, Outs
  <2> QED BY <2>2, <2>3
<1>6. ASSUME req[r].in.kind \in {"commit", "rollback"} PROVE EndOK(r)'
  <2>1. EndOK(r)
    BY <1>1, <1>2, <1>6 DEF Told
  <2>2. req[r].pc = op => AcksEnd(r, st)'
    BY <1>2, <1>6, <2>1 DEF EndOK
  <2> QED BY <1>2, <1>4, <1>6, <2>1, <2>2 DEF EndOK
<1> QED BY <1>2, <1>5, <1>6 DEF Told

LEMMA CommitTold ==
  ASSUME ServerInv, ToldInv, NEW r \in Reqs, EngineCommit(r)
  PROVE  ToldInv'
<1>1. /\ CallsOK /\ OwnersOK /\ CallOK(r) /\ CutOK /\ Running(r, "commit") /\ job[r].st = "start"
      /\ req' = req /\ cut' = cut /\ sess' = sess
  BY DEF ServerInv, CallsOK, EngineCommit, ToldInv, sessVars
<1>2. /\ job[r].op = "commit" /\ job[r].out = "none" /\ job[r].op \in Acting /\ job[r].x \in Xids
      /\ DOMAIN job = Reqs /\ DOMAIN job[r] = JobFields
  BY <1>1 DEF Running, CallOK, CallsOK, Acting
<1>3. \/ /\ job' = Return(r, "err")
         /\ \/ txn[job[r].x].st = "open" /\ txn' = [txn EXCEPT ![job[r].x].st = "aborted"]
            \/ txn' = txn
      \/ /\ job' = [job EXCEPT ![r].st = "checkpoint"] \/ job' = Return(r, "ok")
         /\ txn[job[r].x].st = "open" /\ txn' = [txn EXCEPT ![job[r].x].st = "committed"]
      \/ /\ job' = Return(r, "late")
         /\ txn[job[r].x].st = "open" /\ txn' = [txn EXCEPT ![job[r].x].st = "doubt"]
  BY DEF EngineCommit, Rollback, RollbackFails
<1>4. TouchesOnly(r) /\ (\A x \in Xids : txn'[x].writes = txn[x].writes)
  <2>1. CASE txn' = txn
    BY <2>1, StayTouches
  <2>2. ASSUME NEW s \in {"committed", "aborted", "doubt"}, txn[job[r].x].st = "open",
               txn' = [txn EXCEPT ![job[r].x].st = s]
        PROVE  TouchesOnly(r) /\ (\A x \in Xids : txn'[x].writes = txn[x].writes)
    BY <1>1, <1>2, <2>2, EndTouches
  <2> QED BY <1>3, <2>1, <2>2
<1>5. /\ CallMoves(r, job'[r])
      /\ req[r].pc # "gone" => job'[r].op = job[r].op /\ job'[r].x = job[r].x
  BY <1>1, <1>2, <1>3, ReturnMoves, StageMoves DEF CallMoves
<1>6. EndsStay
  BY <1>1, <1>2, <1>4, <1>5, CallEnds
<1>7. ASSUME req[r].pc # "gone"
      PROVE  /\ job'[r].out \in Outs
             /\ AcksEnd(r, "committed")'
             /\ txn[job[r].x].st = "open" => EndedAs(r, "committed")'
  <2>1. CASE job' = Return(r, "err")
    <3>1. job'[r].out = "err" /\ job'[r].x = job[r].x
      BY <1>1, <1>2, <1>5, <1>7, <2>1, ReturnMoves
    <3>2. job' # Return(r, "ok") /\ job' # Return(r, "late") /\ job' # [job EXCEPT ![r].st = "checkpoint"]
      <4>1. \A out : job' = Return(r, out) => job'[r].out = out
        BY <1>1, <1>2, <1>7, ReturnMoves
      <4>2. job' = [job EXCEPT ![r].st = "checkpoint"] => job'[r].out = "none"
        BY <1>2 DEF JobFields
      <4> QED BY <3>1, <4>1, <4>2
    <3>3. txn[job[r].x].st = "open" => txn'[job[r].x].st \in {"open", "aborted"}
      BY <1>1, <1>2, <1>3, <3>2 DEF OwnersOK
    <3> QED BY <3>1, <3>3 DEF Outs, AcksEnd, EndedAs
  <2>2. CASE job' = Return(r, "late")
    <3>1. job'[r].out = "late"
      BY <1>1, <1>2, <1>7, <2>2, ReturnMoves
    <3> QED BY <3>1 DEF Outs, AcksEnd, EndedAs
  <2>3. CASE job' = [job EXCEPT ![r].st = "checkpoint"] \/ job' = Return(r, "ok")
    <3>1. /\ job'[r].out \in {"none", "ok"} /\ job'[r].x = job[r].x
          /\ job'[r].out = "none" => job'[r].st = "checkpoint"
      BY <1>1, <1>2, <1>7, <2>3 DEF Return, JobFields
    <3>2. txn'[job[r].x].st = "committed"
      <4>1. txn' = [txn EXCEPT ![job[r].x].st = "committed"]
        BY <1>3, <3>1, <2>1, <2>2, <1>2, <1>7 DEF Return, JobFields
      <4> QED BY <1>1, <1>2, <4>1 DEF OwnersOK
    <3> QED BY <3>1, <3>2 DEF Outs, AcksEnd, EndedAs
  <2> QED BY <1>3, <2>1, <2>2, <2>3
<1>8. req[r].pc # "gone" => Told(r)'
  <2> SUFFICES ASSUME req[r].pc # "gone" PROVE Told(r)'
    OBVIOUS
  <2>1. EndedAs(r, "committed") => EndedAs(r, "committed")'
    BY <1>1, <1>2, <1>7 DEF EndedAs
  <2> QED BY <1>1, <1>2, <1>4, <1>5, <1>6, <1>7, <2>1, EndCallTold
<1> QED BY <1>1, <1>2, <1>4, <1>5, <1>6, <1>8, CallTold

LEMMA CheckpointTold ==
  ASSUME ServerInv, ToldInv, NEW r \in Reqs, AutoCheckpoint(r) \/ CheckpointFlush(r)
  PROVE  ToldInv'
<1>1. /\ CallsOK /\ CallOK(r) /\ CutOK /\ Running(r, "commit") /\ job[r].st # "start"
      /\ req' = req /\ cut' = cut /\ sess' = sess /\ txn' = txn
  BY DEF ServerInv, CallsOK, AutoCheckpoint, CheckpointFlush, ToldInv, sessVars
<1>2. /\ job[r].op = "commit" /\ job[r].out = "none" /\ job[r].op \in Acting
      /\ DOMAIN job = Reqs /\ DOMAIN job[r] = JobFields
  BY <1>1 DEF Running, CallOK, CallsOK, Acting
<1>3. \/ \E out \in {"ok", "late"} : job' = Return(r, out)
      \/ job' = [job EXCEPT ![r].st = "flush", ![r].saved = Written]
  BY DEF AutoCheckpoint, CheckpointFlush
<1>4. /\ CallMoves(r, job'[r])
      /\ req[r].pc # "gone" => job'[r].op = job[r].op /\ job'[r].x = job[r].x
  BY <1>1, <1>2, <1>3, ReturnMoves, StageMoves DEF CallMoves
<1>5. TouchesOnly(r) /\ EndsStay
  BY <1>1, <1>2, <1>4, StayTouches, CallEnds
<1>6. req[r].pc # "gone" =>
        /\ job'[r].out \in {"none", "ok", "late"}
        /\ job'[r].out = "none" => job'[r].st = "flush"
  BY <1>2, <1>3 DEF Return, JobFields
<1>7. req[r].pc # "gone" => Told(r)'
  <2> SUFFICES ASSUME req[r].pc # "gone" PROVE Told(r)'
    OBVIOUS
  <2>1. AcksEnd(r, "committed") => AcksEnd(r, "committed")'
    BY <1>1, <1>2, <1>4, <1>6 DEF AcksEnd
  <2>2. EndedAs(r, "committed") => EndedAs(r, "committed")'
    BY <1>6, <2>1 DEF EndedAs
  <2> QED BY <1>1, <1>2, <1>4, <1>5, <1>6, <2>1, <2>2, EndCallTold DEF Outs
<1> QED BY <1>1, <1>2, <1>4, <1>5, <1>7, CallTold

LEMMA AbortTold ==
  ASSUME ServerInv, ToldInv, NEW r \in Reqs, EngineAbort(r)
  PROVE  ToldInv'
<1>1. /\ CallsOK /\ OwnersOK /\ CallOK(r) /\ CutOK /\ Running(r, "abort")
      /\ req' = req /\ cut' = cut /\ sess' = sess
  BY DEF ServerInv, CallsOK, EngineAbort, ToldInv, sessVars
<1>2. job[r].op = "abort" /\ job[r].out = "none" /\ job[r].op \in Acting /\ job[r].x \in Xids
  BY <1>1 DEF Running, CallOK, Acting
<1>3. PICK out \in {"ok", "err"} :
        /\ job' = Return(r, out)
        /\ \/ out = "ok" /\ txn[job[r].x].st = "open" /\ txn' = [txn EXCEPT ![job[r].x].st = "aborted"]
           \/ out = "err" /\ txn' = txn
  BY DEF EngineAbort, Rollback, RollbackFails
<1>4. /\ CallMoves(r, job'[r])
      /\ req[r].pc # "gone" => job'[r].op = job[r].op /\ job'[r].out = out /\ job'[r].x = job[r].x
  BY <1>1, <1>2, <1>3, ReturnMoves DEF CallMoves
<1>5. TouchesOnly(r) /\ (\A x \in Xids : txn'[x].writes = txn[x].writes)
      /\ (out = "ok" => txn'[job[r].x].st = "aborted")
      /\ (out = "err" => txn'[job[r].x].st = txn[job[r].x].st)
  BY <1>1, <1>2, <1>3, EndTouches, StayTouches
<1>6. EndsStay
  BY <1>1, <1>2, <1>4, <1>5, CallEnds
<1>7. req[r].pc # "gone" => Told(r)'
  <2> SUFFICES ASSUME req[r].pc # "gone" PROVE Told(r)'
    OBVIOUS
  <2>1. AcksEnd(r, "aborted")' /\ job'[r].out \in Outs
    BY <1>3, <1>4, <1>5 DEF AcksEnd, Outs
  <2>2. EndedAs(r, "aborted") => EndedAs(r, "aborted")'
    BY <1>2, <1>3, <1>4, <1>5, <2>1 DEF EndedAs, AcksEnd
  <2> QED BY <1>1, <1>2, <1>4, <1>5, <1>6, <2>1, <2>2, EndCallTold
<1> QED BY <1>1, <1>2, <1>4, <1>5, <1>6, <1>7, CallTold

\* The statement a call is at is the one its request says it is at.
LEMMA StatementAt ==
  ASSUME NEW r, req[r].pc = "exec", req[r].in.kind \in OwnKinds, OwnOK(r)
  PROVE  /\ At(r) \in DOMAIN req[r].in.script /\ Plan(r) = req[r].in.script[At(r)]
         /\ req[r].i \in Nat \ {0} /\ job[r].k \in Nat \ {0} /\ Len(job[r].plans) \in Nat \ {0}
         /\ job[r].k <= Len(job[r].plans)
         /\ IF req[r].in.kind \in TextKinds
              THEN req[r].i = 1 /\ Len(job[r].plans) = Len(req[r].in.script) /\ Plan(r).op \notin Raw
              ELSE Len(job[r].plans) = 1 /\ At(r) = req[r].i
         /\ At(r) \in Nat /\ First(r) \in Nat /\ First(r) <= At(r) /\ (InBatch(r) => At(r) = req[r].i)
         /\ At(r) < req[r].i + Len(job[r].plans)
         /\ (job[r].k = Len(job[r].plans) => At(r) + 1 = req[r].i + Len(job[r].plans))
         /\ Writes(r) \subseteq Nat
<1>1. /\ Len(req[r].in.script) \in Nat /\ DOMAIN req[r].in.script = 1..Len(req[r].in.script)
      /\ req[r].i \in 1..Len(req[r].in.script)
      /\ req[r].in.kind \in TextKinds => req[r].i = 1
      /\ req[r].in.kind \in TextKinds =>
           \A i \in DOMAIN req[r].in.script : req[r].in.script[i].op \notin Raw
      /\ job[r].plans = PlansOf(req[r].in, req[r].i) /\ job[r].k \in 1..Len(job[r].plans)
  BY DEF OwnOK, ScriptOK, ExecOK
<1>2. CASE req[r].in.kind \in TextKinds
  <2>1. job[r].plans = req[r].in.script /\ ~InBatch(r)
    BY <1>1, <1>2 DEF PlansOf, TextKinds, InBatch
  <2>2. At(r) = job[r].k /\ Plan(r) = req[r].in.script[job[r].k] /\ First(r) = 1
    BY <1>1, <1>2, <2>1 DEF At, Plan, First
  <2>3. Writes(r) \subseteq Nat
    BY <1>1 DEF Writes
  <2> QED BY <1>1, <1>2, <2>1, <2>2, <2>3
<1>3. CASE req[r].in.kind \notin TextKinds
  <2>1. job[r].plans = <<req[r].in.script[req[r].i]>>
    BY <1>1, <1>3 DEF PlansOf, TextKinds
  <2>2. Len(job[r].plans) = 1 /\ job[r].k = 1 /\ job[r].plans[1] = req[r].in.script[req[r].i]
    BY <1>1, <2>1
  <2>3. At(r) = req[r].i /\ Plan(r) = req[r].in.script[req[r].i]
    BY <1>1, <2>2 DEF At, Plan
  <2> QED BY <1>1, <1>3, <2>2, <2>3 DEF First, Writes
<1> QED BY <1>2, <1>3

\* One step of a running call: the statement it is at may take effect, and the
\* call goes on with the next one only if it did.
Flips(r) ==
  job'[r].st = "flip" => job'[r].k = job[r].k /\ (job[r].st = "flip" \/ Plan(r).op \notin Dml)

ExecMoves(r) ==
  /\ job'[r].op = "exec" /\ job'[r].x = job[r].x /\ job'[r].plans = job[r].plans
  /\ Flips(r) /\ \A x \in Xids : txn'[x].st = txn[x].st
  /\ \A x \in Xids : \A j : Has(x, r, j) => Has(x, r, j)'
  /\ \A x \in Xids : \A j : Has(x, r, j)' => Has(x, r, j) \/ (x = job[r].x /\ j = At(r))
  /\ \/ job'[r].k = job[r].k /\ job'[r].out \in {"none", "err"}
     \/ /\ At(r) \in Writes(r) => <<r, At(r), "full">> \in txn'[job[r].x].writes
        /\ \/ job[r].k = Len(job[r].plans) /\ job'[r].k = job[r].k /\ job'[r].out = "ok"
           \/ job[r].k # Len(job[r].plans) /\ job'[r].k = job[r].k + 1 /\ job'[r].out = "none"

LEMMA ExecTold ==
  ASSUME ServerInv, ToldInv, NEW r \in Reqs, Running(r, "exec"), req[r].pc # "gone",
         req' = req, EndsStay, req[r].in.kind \in OwnKinds => ExecMoves(r)
  PROVE  Told(r)'
<1>1. CallOK(r) /\ Told(r)
  BY DEF ServerInv, CallsOK, ToldInv
<1>2. req[r].pc = "exec" /\ job[r].out = "none" /\ req[r].x = job[r].x /\ job[r].x \in Xids
  BY <1>1 DEF Running, CallOK, CallOf, Waiting, Acting
<1>3. /\ Writes(r)' = Writes(r) /\ First(r)' = First(r) /\ InBatch(r)' = InBatch(r)
      /\ InSession(r)' = InSession(r)
  BY SameWrites DEF First, InBatch, InSession
<1>4. req[r].in.kind \notin {"commit", "rollback"}
  BY <1>1, <1>2 DEF Told, EndOK
<1>5. ASSUME req[r].in.kind \in OwnKinds PROVE OwnOK(r)'
  <2>1. OwnOK(r) /\ ExecMoves(r) /\ ExecOK(r)
    BY <1>1, <1>2, <1>5 DEF Told, OwnOK
  <2>2. /\ At(r) \in Nat /\ First(r) \in Nat /\ First(r) <= At(r) /\ (InBatch(r) => At(r) = req[r].i)
        /\ (job[r].k = Len(job[r].plans) => At(r) + 1 = req[r].i + Len(job[r].plans))
        /\ Writes(r) \subseteq Nat
        /\ req[r].i \in Nat \ {0} /\ job[r].k \in Nat \ {0} /\ Len(job[r].plans) \in Nat \ {0}
        /\ job[r].k <= Len(job[r].plans)
    BY <1>2, <1>5, <2>1, StatementAt
  <2>3. /\ \A x \in Xids : \A j : Has(x, r, j) => Has(x, r, j)'
        /\ \A x \in Xids : \A j : Has(x, r, j)' => Has(x, r, j) \/ (x = req[r].x /\ j = At(r))
        /\ \A x \in Xids : txn'[x].st = txn[x].st
        /\ job'[r].plans = job[r].plans /\ job'[r].out \in Outs
    BY <1>2, <2>1 DEF ExecMoves, Outs
  <2>4. \A j \in Writes(r) : First(r) <= j /\ j < At(r) => Has(req[r].x, r, j)'
    BY <1>2, <2>1, <2>3 DEF ExecOK, Covered
  <2>5. ExecOK(r)'
    <3>0. job'[r].st = "flip" => (Plan(r).op)' \notin Dml
      BY <2>1 DEF ExecMoves, Flips, ExecOK, Plan
    <3>1. CASE job'[r].k = job[r].k /\ job'[r].out \in {"none", "err"}
      <4>1. At(r)' = At(r)
        BY <3>1 DEF At
      <4>2. Covered(r, At(r))'
        BY <1>3, <2>4, <4>1 DEF Covered, Has
      <4> QED BY <2>1, <2>3, <3>0, <3>1, <4>2 DEF ExecOK
    <3>2. CASE At(r) \in Writes(r) => <<r, At(r), "full">> \in txn'[req[r].x].writes
      <4>1. \A j \in Writes(r) : First(r) <= j /\ j < At(r) + 1 => Has(req[r].x, r, j)'
        <5> SUFFICES ASSUME NEW j \in Writes(r), First(r) <= j, j < At(r) + 1
                     PROVE  Has(req[r].x, r, j)'
          OBVIOUS
        <5>1. CASE j = At(r)
          BY <3>2, <5>1 DEF Has
        <5>2. CASE j # At(r)
          <6>1. j < At(r)
            BY <2>2, <5>2
          <6> QED BY <2>4, <6>1
        <5> QED BY <5>1, <5>2
      <4>2. CASE job[r].k = Len(job[r].plans) /\ job'[r].k = job[r].k /\ job'[r].out = "ok"
        <5>1. Covered(r, req[r].i + Len(job[r].plans))'
          BY <1>3, <2>2, <2>3, <4>1, <4>2 DEF Covered, Has
        <5> QED BY <2>1, <2>3, <3>0, <4>2, <5>1 DEF ExecOK
      <4>3. CASE job[r].k # Len(job[r].plans) /\ job'[r].k = job[r].k + 1 /\ job'[r].out = "none"
        <5>1. At(r)' = At(r) + 1 /\ job'[r].k \in 1..Len(job[r].plans)
          <6>1. job'[r].k = job[r].k + 1 /\ req'[r].i = req[r].i /\ job[r].k # Len(job[r].plans)
            BY <4>3
          <6> DEFINE k == job[r].k
                     i == req[r].i
          <6>2. At(r) = i + k - 1 /\ At(r)' = i + (k + 1) - 1
            BY <6>1 DEF At
          <6>3. i \in Nat /\ k \in Nat
            BY <2>2
          <6> HIDE DEF i, k
          <6>4. At(r)' = At(r) + 1
            BY <6>2, <6>3
          <6> QED BY <2>2, <6>1, <6>4
        <5>2. Covered(r, At(r))'
          BY <1>3, <4>1, <5>1 DEF Covered, Has
        <5> QED BY <2>1, <2>3, <3>0, <4>3, <5>1, <5>2 DEF ExecOK
      <4>4. CASE job'[r].k = job[r].k /\ job'[r].out \in {"none", "err"}
        BY <3>1, <4>4
      <4> QED BY <2>1, <4>2, <4>3, <4>4 DEF ExecMoves
    <3> QED BY <1>2, <2>1, <3>1, <3>2 DEF ExecMoves
  <2>6. CASE InSession(r)
    <3>1. HeldOK(r) /\ req[r].x = req[r].in.target
      BY <1>1, <1>2, <2>1, <2>6 DEF OwnOK, CallOK, Waiting
    <3>2. HeldOK(r)'
      BY <1>2, <1>3, <2>3, <3>1 DEF HeldOK
    <3> QED BY <1>2, <1>3, <2>1, <2>3, <2>5, <2>6, <3>2 DEF OwnOK
  <2>7. CASE ~InSession(r)
    <3>1. AloneOK(r)
      BY <2>1, <2>7 DEF OwnOK
    <3>2. InBatch(r) => SlotsOK(r)'
      <4> SUFFICES ASSUME InBatch(r) PROVE SlotsOK(r)'
        OBVIOUS
      <4>1. SlotsOK(r) /\ Len(req[r].slots) = req[r].i - 1
        BY <1>2, <3>1 DEF AloneOK, SlotsOK
      <4>2. ASSUME NEW x \in Xids, NEW j \in Writes(r), j <= Len(req[r].slots)
            PROVE  Has(x, r, j)' <=> Has(x, r, j)
        <5>1. j # At(r)
          BY <2>2, <4>1, <4>2
        <5> QED BY <2>3, <5>1
      <4> QED BY <1>2, <4>1, <4>2, SlotsStay
    <3>3. OnlyHere(r)'
      BY <1>2, <1>3, <2>2, <2>3, <3>1 DEF OnlyHere, AloneOK
    <3>4. AloneOK(r)'
      BY <1>2, <1>3, <2>3, <3>1, <3>2, <3>3 DEF AloneOK
    <3> QED BY <1>2, <1>3, <2>1, <2>3, <2>5, <2>7, <3>4 DEF OwnOK
  <2> QED BY <2>6, <2>7
<1> QED BY <1>2, <1>4, <1>5 DEF Told

\* The ways a call goes on: with the next statement, or not.
GoesOn(r) ==
  /\ job'[r].op = "exec" /\ job'[r].x = job[r].x /\ job'[r].plans = job[r].plans /\ Flips(r)
  /\ \/ job[r].k = Len(job[r].plans) /\ job'[r].k = job[r].k /\ job'[r].out = "ok"
     \/ job[r].k # Len(job[r].plans) /\ job'[r].k = job[r].k + 1 /\ job'[r].out = "none"
GoesNowhere(r) ==
  /\ job'[r].op = "exec" /\ job'[r].x = job[r].x /\ job'[r].plans = job[r].plans /\ Flips(r)
  /\ job'[r].k = job[r].k /\ job'[r].out \in {"none", "err"}

LEMMA CallGoes ==
  ASSUME CallsOK, NEW r \in Reqs, Running(r, "exec"), req[r].pc # "gone"
  PROVE  /\ job' = NextPlan(r) => GoesOn(r)
         /\ job' = Fail(r) => GoesNowhere(r)
         /\ job' = Return(r, "err") => GoesNowhere(r)
         /\ job' = Return(r, "ok") /\ job[r].k = Len(job[r].plans) => GoesOn(r)
<1>1. DOMAIN job = Reqs /\ job[r].op = "exec" /\ job[r].out = "none" /\ DOMAIN job[r] = JobFields
  BY DEF CallsOK, CallOK, Running
<1>2. ASSUME NEW out, job' = Return(r, out)
      PROVE  /\ job'[r].op = "exec" /\ job'[r].x = job[r].x /\ job'[r].plans = job[r].plans
             /\ job'[r].k = job[r].k /\ job'[r].out = out /\ Flips(r)
  BY <1>1, <1>2 DEF Return, JobFields, Flips
<1>3. job' = Return(r, "err") => GoesNowhere(r)
  BY <1>2 DEF GoesNowhere
<1>4. job' = Return(r, "ok") /\ job[r].k = Len(job[r].plans) => GoesOn(r)
  BY <1>2 DEF GoesOn
<1>5. job' = Fail(r) => GoesNowhere(r)
  <2> SUFFICES ASSUME job' = Fail(r) PROVE GoesNowhere(r)
    OBVIOUS
  <2>1. job' = [job EXCEPT ![r].st = "restore", ![r].left = << >>]
    BY <1>1 DEF Fail
  <2> QED BY <1>1, <2>1 DEF GoesNowhere, JobFields, Flips
<1>6. job' = NextPlan(r) => GoesOn(r)
  <2> SUFFICES ASSUME job' = NextPlan(r) PROVE GoesOn(r)
    OBVIOUS
  <2>1. CASE job[r].k = Len(job[r].plans)
    BY <1>4, <2>1 DEF NextPlan
  <2>2. CASE job[r].k # Len(job[r].plans)
    <3>1. job' = [job EXCEPT ![r].k = @ + 1, ![r].st = "plan", ![r].left = << >>]
      BY <2>2 DEF NextPlan
    <3>2. /\ job'[r].op = "exec" /\ job'[r].x = job[r].x /\ job'[r].plans = job[r].plans
          /\ job'[r].k = job[r].k + 1 /\ job'[r].out = "none" /\ Flips(r)
      BY <1>1, <3>1 DEF JobFields, Flips
    <3> QED BY <2>2, <3>2 DEF GoesOn
  <2> QED BY <2>1, <2>2
<1> QED BY <1>3, <1>4, <1>5, <1>6

\* A step of a call whose statement has no effect on rows, or has not yet.
LEMMA QuietExec ==
  ASSUME ServerInv, ToldInv, NEW r \in Reqs, Running(r, "exec"), req[r].pc # "gone", EndsStay,
         req' = req, txn' = txn,
         \/ GoesNowhere(r)
         \/ GoesOn(r) /\ Plan(r).op \notin {"write", "row", "insert_serial"}
  PROVE  Told(r)'
<1>1. CallOK(r) /\ Told(r)
  BY DEF ServerInv, CallsOK, ToldInv
<1>2. req[r].pc = "exec"
  BY <1>1 DEF Running, CallOK, CallOf, Waiting
<1>3. ASSUME req[r].in.kind \in OwnKinds PROVE ExecMoves(r)
  <2>1. OwnOK(r)
    BY <1>1, <1>2, <1>3 DEF Told
  <2>2. Plan(r) = req[r].in.script[At(r)]
    BY <1>2, <1>3, <2>1, StatementAt
  <2>3. Plan(r).op \notin {"write", "row", "insert_serial"} => At(r) \notin Writes(r)
    BY <2>2 DEF Writes
  <2>4. /\ \A x \in Xids : txn'[x].st = txn[x].st
        /\ \A x \in Xids : \A j : Has(x, r, j)' <=> Has(x, r, j)
    BY DEF Has
  <2> QED BY <2>3, <2>4 DEF ExecMoves, GoesOn, GoesNowhere
<1> QED BY <1>2, <1>3, ExecTold

\* A step of a call that gives its transaction a token of the statement it is at.
LEMMA WritingExec ==
  ASSUME ServerInv, ToldInv, NEW r \in Reqs, Running(r, "exec"), req[r].pc # "gone", EndsStay,
         req' = req, NEW how, txn' = [txn EXCEPT ![job[r].x].writes = @ \cup {Token(r, how)}],
         GoesNowhere(r) \/ (GoesOn(r) /\ how = "full")
  PROVE  Told(r)'
<1>1. CallOK(r) /\ Told(r) /\ OwnersOK
  BY DEF ServerInv, CallsOK, ToldInv
<1>2. req[r].pc = "exec" /\ job[r].x \in Xids
  BY <1>1 DEF Running, CallOK, CallOf, Waiting, Acting
<1>3. /\ \A x \in Xids : txn'[x].st = txn[x].st
      /\ \A x \in Xids : txn'[x].writes = IF x = job[r].x THEN txn[x].writes \cup {Token(r, how)}
                                                           ELSE txn[x].writes
  BY <1>1, <1>2, WriteTouches
<1>4. Token(r, how) = <<r, At(r), how>>
  BY DEF Token, At
<1>5. \A x \in Xids : \A j : Has(x, r, j) => Has(x, r, j)'
  BY <1>3 DEF Has
<1>6. ASSUME NEW x \in Xids, NEW j, Has(x, r, j)'
      PROVE  Has(x, r, j) \/ (x = job[r].x /\ j = At(r))
  <2>1. CASE <<r, j, "full">> = <<r, At(r), how>>
    BY <1>3, <1>6, <2>1, <1>4 DEF Has
  <2>2. CASE <<r, j, "full">> # <<r, At(r), how>>
    BY <1>3, <1>4, <1>6, <2>2 DEF Has
  <2> QED BY <2>1, <2>2
<1>7. how = "full" => <<r, At(r), "full">> \in txn'[job[r].x].writes
  <2>1. txn'[job[r].x].writes = txn[job[r].x].writes \cup {Token(r, how)}
    BY <1>2, <1>3
  <2> QED BY <1>4, <2>1
<1>8. ExecMoves(r)
  BY <1>3, <1>5, <1>6, <1>7 DEF ExecMoves, GoesOn, GoesNowhere
<1> QED BY <1>8, ExecTold

\* A request whose call is a catalog edit was promised nothing.
LEMMA EditTold ==
  ASSUME ServerInv, NEW r \in Reqs, job[r].op = "edit", req' = req
  PROVE  Told(r)'
<1>1. CallOK(r)
  BY DEF ServerInv, CallsOK
<1>2. req[r].pc = "gone" \/ (req[r].pc = "edit" /\ req[r].in.kind = "admin")
  BY <1>1 DEF CallOK, Waiting, CallOf
<1> QED BY <1>2 DEF Told, OwnKinds

LEMMA SaveRootTold ==
  ASSUME ServerInv, ToldInv, NEW r \in Reqs, SaveCatalogRoot(r)
  PROVE  ToldInv'
<1>1. /\ CallMoves(r, job'[r]) /\ EngineFrame /\ txn' = txn /\ job[r].op = "exec" /\ job[r].out = "none"
      /\ job'[r].k = job[r].k /\ job'[r].plans = job[r].plans /\ job'[r].out = "none"
      /\ job'[r].st = "plan"
  BY SaveRootMoves DEF ServerInv
<1>2. req[r].pc # "gone" => GoesNowhere(r)
  BY <1>1 DEF GoesNowhere, CallMoves, Flips
<1>3. TouchesOnly(r) /\ EndsStay
  BY <1>1, StayTouches, CallEnds DEF EngineFrame, RegistryStays, Acting, ToldInv
<1>4. req[r].pc # "gone" => Told(r)'
  BY <1>1, <1>2, <1>3, QuietExec DEF EngineFrame, Running
<1> QED BY <1>1, <1>3, <1>4, CallTold DEF EngineFrame, Acting

LEMMA RestoreTold ==
  ASSUME ServerInv, ToldInv, NEW r \in Reqs, RestoreCatalogRoot(r) \/ SwapCatalog(r)
  PROVE  ToldInv'
<1>1. /\ CallMoves(r, job'[r]) /\ EngineFrame /\ txn' = txn /\ job[r].op = "exec" /\ job[r].out = "none"
      /\ req[r].pc # "gone" =>
           /\ job'[r].op = "exec" /\ job'[r].k = job[r].k /\ job'[r].plans = job[r].plans
           /\ job'[r].out \in {"none", "err"} /\ job'[r].st # "flip"
  BY RestoreMoves DEF ServerInv
<1>2. req[r].pc # "gone" => GoesNowhere(r)
  BY <1>1 DEF GoesNowhere, CallMoves, Flips
<1>3. TouchesOnly(r) /\ EndsStay
  BY <1>1, StayTouches, CallEnds DEF EngineFrame, RegistryStays, Acting, ToldInv
<1>4. req[r].pc # "gone" => Told(r)'
  BY <1>1, <1>2, <1>3, QuietExec DEF EngineFrame, Running
<1> QED BY <1>1, <1>3, <1>4, CallTold DEF EngineFrame, Acting

LEMMA ExecCatalogTold ==
  ASSUME ServerInv, ToldInv, NEW r \in Reqs, ExecCatalog(r)
  PROVE  ToldInv'
<1>1. /\ CallMoves(r, job'[r]) /\ EngineFrame /\ txn' = txn
      /\ job[r].op \in {"exec", "edit"} /\ job[r].out = "none"
      /\ \/ job' = NextPlan(r) \/ job' = Fail(r)
         \/ job'[r].k = job[r].k /\ job'[r].plans = job[r].plans /\ job'[r].out = "none"
  BY ExecCatalogMoves DEF ServerInv
<1>2. ASSUME req[r].pc # "gone", job[r].op = "exec"
      PROVE  \/ GoesNowhere(r)
             \/ GoesOn(r) /\ Plan(r).op \notin {"write", "row", "insert_serial"}
  <2>1. CASE job'[r].k = job[r].k /\ job'[r].plans = job[r].plans /\ job'[r].out = "none"
    <3>1. Plan(r).op \notin Dml
      BY DEF ExecCatalog
    <3> QED BY <1>1, <1>2, <2>1, <3>1 DEF GoesNowhere, CallMoves, Flips
  <2>2. CASE job' = Fail(r)
    BY <1>1, <1>2, <2>2, CallGoes DEF ServerInv, Running
  <2>3. CASE job' = NextPlan(r) /\ ~GoesNowhere(r)
    <3>1. GoesOn(r)
      BY <1>1, <1>2, <2>3, CallGoes DEF ServerInv, Running
    <3>2. job' # Fail(r) /\ job' # [job EXCEPT ![r].st = "flip", ![r].left = Edits(Plan(r))]
      <4>1. job' = Fail(r) => GoesNowhere(r)
        BY <1>1, <1>2, CallGoes DEF ServerInv, Running
      <4>2. job' = [job EXCEPT ![r].st = "flip", ![r].left = Edits(Plan(r))] => GoesNowhere(r)
        <5>1. DOMAIN job = Reqs /\ DOMAIN job[r] = JobFields
          BY <1>2 DEF ServerInv, CallsOK, CallOK
        <5>2. Plan(r).op \notin Dml
          BY DEF ExecCatalog
        <5> QED BY <1>1, <1>2, <5>1, <5>2 DEF GoesNowhere, JobFields, Flips
      <4> QED BY <2>3, <4>1, <4>2
    <3>3. IfExists(mem, Plan(r)) /\ Plan(r).op \notin Dml \cup Raw
      BY <3>2 DEF ExecCatalog
    <3>4. Plan(r).op # "insert_serial"
      BY <3>3 DEF IfExists
    <3> QED BY <3>1, <3>3, <3>4 DEF Dml, Raw
  <2> QED BY <1>1, <2>1, <2>2, <2>3
<1>3. TouchesOnly(r) /\ EndsStay
  BY <1>1, StayTouches, CallEnds DEF EngineFrame, RegistryStays, Acting, ToldInv
<1>4. req[r].pc # "gone" => Told(r)'
  BY <1>1, <1>2, <1>3, QuietExec, EditTold DEF EngineFrame, Running
<1> QED BY <1>1, <1>3, <1>4, CallTold DEF EngineFrame, Acting

LEMMA FlipRootTold ==
  ASSUME ServerInv, ToldInv, NEW r \in Reqs, FlipRoot(r)
  PROVE  ToldInv'
<1>1. /\ CallMoves(r, job'[r]) /\ EngineFrame
      /\ job[r].op \in {"exec", "edit"} /\ job[r].out = "none"
      /\ job[r].op = "edit" => job[r].x = 0
      /\ \/ job' = NextPlan(r) \/ job' = Fail(r)
         \/ job'[r].k = job[r].k /\ job'[r].plans = job[r].plans /\ job'[r].out = "none"
  BY FlipRootMoves DEF ServerInv
<1> DEFINE wrote == [txn EXCEPT ![job[r].x].writes = @ \cup {Token(r, "full")}]
<1>2. \/ txn' = txn /\ job' = [job EXCEPT ![r].left = Tail(job[r].left)]
      \/ txn' = txn /\ job' = Fail(r)
      \/ job' = NextPlan(r) /\ IF Plan(r).op = "insert_serial" THEN txn' = wrote ELSE txn' = txn
  BY DEF FlipRoot
<1>3. CallOK(r) /\ OwnersOK /\ DOMAIN job = Reqs /\ DOMAIN job[r] = JobFields
  BY <1>1 DEF ServerInv, CallsOK, CallOK
<1>4. TouchesOnly(r)
  <2>1. CASE txn' = txn
    BY <2>1, StayTouches
  <2>2. CASE txn' = wrote /\ job[r].op = "exec"
    <3>1. job[r].x \in Xids
      BY <1>3, <2>2 DEF CallOK, Acting
    <3> QED BY <1>3, <2>2, <3>1, WriteTouches
  <2>3. CASE txn' = wrote /\ job[r].op = "edit"
    <3>1. \A x \in Xids : txn'[x] = txn[x]
      BY <1>1, <1>3, <2>3, ZeroIsNoXid DEF OwnersOK
    <3> QED BY <3>1 DEF TouchesOnly
  <2> QED BY <1>1, <1>2, <2>1, <2>2, <2>3
<1>4a. EndsStay
  BY <1>1, <1>4, CallEnds DEF EngineFrame, RegistryStays, Acting, ToldInv
<1>5. ASSUME req[r].pc # "gone", job[r].op = "exec" PROVE Told(r)'
  <2>0. Running(r, "exec") /\ CallsOK /\ req' = req
    BY <1>1, <1>5 DEF Running, ServerInv, EngineFrame
  <2>1. CASE txn' = txn /\ job' = [job EXCEPT ![r].left = Tail(job[r].left)]
    <3>1. GoesNowhere(r)
      BY <1>1, <1>3, <1>5, <2>1 DEF GoesNowhere, JobFields, Flips
    <3> QED BY <1>4a, <1>5, <2>0, <2>1, <3>1, QuietExec
  <2>2. CASE txn' = txn /\ job' = Fail(r)
    <3>1. GoesNowhere(r)
      BY <1>4a, <1>5, <2>0, <2>2, CallGoes
    <3> QED BY <1>4a, <1>5, <2>0, <2>2, <3>1, QuietExec
  <2>3. CASE job' = NextPlan(r) /\ Plan(r).op = "insert_serial" /\ txn' = wrote
    <3>1. GoesOn(r)
      BY <1>4a, <1>5, <2>0, <2>3, CallGoes
    <3> QED BY <1>4a, <1>5, <2>0, <2>3, <3>1, WritingExec
  <2>4. CASE job' = NextPlan(r) /\ Plan(r).op # "insert_serial" /\ txn' = txn
    <3>1. GoesOn(r)
      BY <1>4a, <1>5, <2>0, <2>4, CallGoes
    <3>2. CASE req[r].in.kind \in OwnKinds
      <4>1. Told(r) /\ req[r].pc = "exec" /\ job[r].st = "flip"
        BY <1>3, <1>5 DEF ToldInv, CallOK, Waiting, CallOf, FlipRoot
      <4>2. Plan(r).op \notin Dml \cup Raw
        BY <1>3, <1>5, <3>2, <4>1 DEF Told, OwnOK, ExecOK, CallOK
      <4> QED BY <1>4a, <1>5, <2>0, <2>4, <3>1, <4>2, QuietExec DEF Dml, Raw
    <3>3. CASE req[r].in.kind \notin OwnKinds
      BY <1>4a, <1>5, <2>0, <3>3, ExecTold
    <3> QED BY <3>2, <3>3
  <2> QED BY <1>2, <2>1, <2>2, <2>3, <2>4
<1>6. req[r].pc # "gone" => Told(r)'
  BY <1>1, <1>5, EditTold DEF EngineFrame
<1> QED BY <1>1, <1>4, <1>4a, <1>6, CallTold DEF EngineFrame, Acting

LEMMA ExecDmlTold ==
  ASSUME ServerInv, ToldInv, NEW r \in Reqs, ExecDml(r)
  PROVE  ToldInv'
<1>1. CallsOK /\ OwnersOK /\ CallOK(r) /\ Running(r, "exec") /\ req' = req
      /\ cut' = cut /\ sess' = sess /\ CutOK
  BY DEF ServerInv, CallsOK, ExecDml, sessVars, ToldInv
<1>2. /\ job[r].op = "exec" /\ job[r].op \in Acting /\ job[r].x \in Xids
      /\ job[r].out = "none" /\ Plan(r).op \in Dml
  BY <1>1 DEF Running, CallOK, Acting, ExecDml
<1>3. Going(r, "plan") /\ Going(r, "restore")
  BY <1>2 DEF Going, Dml, Raw
<1>4. CallMoves(r, job'[r])
  <2>1. job' = NextPlan(r) \/ job' = Fail(r)
    BY DEF ExecDml
  <2> QED BY <1>1, <1>3, <2>1, NextPlanMoves, FailMoves
<1> DEFINE wrote(how) == [txn EXCEPT ![job[r].x].writes = @ \cup {Token(r, how)}]
<1>5. \/ Plan(r).op = "write" /\ txn' = wrote("full") /\ job' = NextPlan(r)
      \/ txn' = wrote("part") /\ job' = Fail(r)
      \/ Plan(r).op = "read" /\ txn' = txn /\ job' \in {NextPlan(r), Fail(r)}
      \/ txn' = txn /\ job' = Fail(r)
  BY DEF ExecDml
<1>6. TouchesOnly(r)
  BY <1>1, <1>2, <1>5, StayTouches, WriteTouches
<1>6a. EndsStay
  BY <1>1, <1>2, <1>4, <1>6, CallEnds
<1>7. ASSUME req[r].pc # "gone" PROVE Told(r)'
  <2>1. (job' = NextPlan(r) => GoesOn(r)) /\ (job' = Fail(r) => GoesNowhere(r))
    BY <1>1, <1>7, CallGoes
  <2>2. CASE Plan(r).op = "write" /\ txn' = wrote("full") /\ job' = NextPlan(r)
    BY <1>1, <1>6a, <1>7, <2>1, <2>2, WritingExec
  <2>3. CASE txn' = wrote("part") /\ job' = Fail(r)
    BY <1>1, <1>6a, <1>7, <2>1, <2>3, WritingExec
  <2>4. CASE Plan(r).op = "read" /\ txn' = txn /\ job' \in {NextPlan(r), Fail(r)}
    <3>1. GoesNowhere(r) \/ (GoesOn(r) /\ Plan(r).op \notin {"write", "row", "insert_serial"})
      BY <2>1, <2>4
    <3> QED BY <1>1, <1>6a, <1>7, <2>4, <3>1, QuietExec
  <2>5. CASE txn' = txn /\ job' = Fail(r)
    BY <1>1, <1>6a, <1>7, <2>1, <2>5, QuietExec
  <2> QED BY <1>5, <2>2, <2>3, <2>4, <2>5
<1> QED BY <1>1, <1>2, <1>4, <1>6, <1>6a, <1>7, CallTold

LEMMA EngineRowTold ==
  ASSUME ServerInv, ToldInv, NEW r \in Reqs, EngineRow(r)
  PROVE  ToldInv'
<1>1. CallsOK /\ OwnersOK /\ CallOK(r) /\ Running(r, "exec") /\ req' = req
      /\ cut' = cut /\ sess' = sess /\ CutOK
  BY DEF ServerInv, CallsOK, EngineRow, sessVars, ToldInv
<1>2. /\ job[r].op = "exec" /\ job[r].op \in Acting /\ job[r].x \in Xids
      /\ job[r].out = "none" /\ Plan(r).op \in Raw
  BY <1>1 DEF Running, CallOK, Acting, EngineRow
<1>3. PICK out \in {"ok", "err"} : job' = Return(r, out)
  BY DEF EngineRow
<1>4. CallMoves(r, job'[r])
  BY <1>1, <1>2, <1>3, ReturnMoves
<1> DEFINE wrote == [txn EXCEPT ![job[r].x].writes = @ \cup {Token(r, "full")}]
<1>5. \/ txn' = wrote
      \/ txn' = txn /\ (Plan(r).op = "get" \/ job' = Return(r, "err"))
  BY DEF EngineRow
<1>6. TouchesOnly(r)
  BY <1>1, <1>2, <1>5, StayTouches, WriteTouches
<1>6a. EndsStay
  BY <1>1, <1>2, <1>4, <1>6, CallEnds
<1>7. ASSUME req[r].pc # "gone" PROVE Told(r)'
  <2>1. CASE req[r].in.kind \notin OwnKinds
    BY <1>1, <1>6a, <1>7, <2>1, ExecTold
  <2>2. CASE req[r].in.kind \in OwnKinds
    <3>1. req[r].pc = "exec" /\ OwnOK(r)
      BY <1>1, <1>2, <1>7, <2>2 DEF CallOK, CallOf, Waiting, ToldInv, Told
    <3>2. job[r].k = Len(job[r].plans)
      <4>1. /\ job[r].k \in Nat \ {0} /\ job[r].k <= Len(job[r].plans)
            /\ IF req[r].in.kind \in TextKinds THEN Plan(r).op \notin Raw ELSE Len(job[r].plans) = 1
        BY <2>2, <3>1, StatementAt
      <4>2. Len(job[r].plans) = 1
        BY <1>2, <4>1
      <4> QED BY <4>1, <4>2
    <3>3. /\ job' = Return(r, "ok") => GoesOn(r)
          /\ job' = Return(r, "err") => GoesNowhere(r)
      BY <1>1, <1>7, <3>2, CallGoes
    <3>4. CASE txn' = wrote
      BY <1>1, <1>6a, <1>3, <1>7, <3>3, <3>4, WritingExec
    <3>5. CASE txn' = txn /\ (Plan(r).op = "get" \/ job' = Return(r, "err"))
      <4>1. GoesNowhere(r) \/ (GoesOn(r) /\ Plan(r).op \notin {"write", "row", "insert_serial"})
        BY <1>3, <3>3, <3>5
      <4> QED BY <1>1, <1>6a, <1>7, <3>5, <4>1, QuietExec
    <3> QED BY <1>5, <3>4, <3>5
  <2> QED BY <2>1, <2>2
<1> QED BY <1>1, <1>2, <1>4, <1>6, <1>6a, <1>7, CallTold

\* begin_with_isolation: the transaction handed out had no effects.
LEMMA BeginTold ==
  ASSUME ServerInv, ToldInv, NEW r \in Reqs, EngineBegin(r)
  PROVE  ToldInv'
<1>1. CallsOK /\ OwnersOK /\ CallOK(r) /\ DOMAIN job = Reqs /\ CutOK /\ Told(r)
  BY DEF ServerInv, CallsOK, ToldInv
<1>2. /\ job[r].op = "begin" /\ job[r].out = "none" /\ job[r].x = 0 /\ DOMAIN job[r] = JobFields
      /\ req' = req
  BY <1>1 DEF EngineBegin, Running, CallOK
<1>3. PICK x \in Xids, out \in {"ok", "err"} :
        /\ txn[x].st = "free"
        /\ IF out = "ok"
             THEN /\ txn' = [txn EXCEPT ![x] = [st |-> "open", writes |-> {}, ser |-> req[r].in.ser]]
                  /\ job' = [Return(r, "ok") EXCEPT ![r] = IF @.op = "none" THEN @ ELSE [@ EXCEPT !.x = x]]
                  /\ cut' = IF req[r].pc = "gone" THEN cut \cup {x} ELSE cut
             ELSE txn' = [txn EXCEPT ![x].st = "aborted"] /\ job' = Return(r, "err") /\ cut' = cut
  <2>1. "ok" \in {"ok", "err"} /\ "err" \in {"ok", "err"} /\ "err" # "ok"
    OBVIOUS
  <2> QED BY <2>1 DEF EngineBegin
<1>4. ASSUME NEW y \in Xids
      PROVE  /\ txn'[y].writes = txn[y].writes
             /\ y = x => txn'[y].st \in {"open", "aborted"} /\ (out = "ok" => txn'[y].st = "open")
             /\ y # x => txn'[y].st = txn[y].st
  <2>1. CASE out = "ok"
    <3>1. txn' = [txn EXCEPT ![x] = [st |-> "open", writes |-> {}, ser |-> req[r].in.ser]]
      BY <1>3, <2>1
    <3>2. txn[x].writes = {}
      BY <1>1, <1>3 DEF CutOK
    <3> QED BY <1>1, <3>1, <3>2 DEF OwnersOK
  <2>2. CASE out # "ok"
    <3>1. txn' = [txn EXCEPT ![x].st = "aborted"]
      BY <1>3, <2>2
    <3> QED BY <1>1, <2>2, <3>1 DEF OwnersOK
  <2> QED BY <2>1, <2>2
<1>5. /\ \A q \in Reqs : q # r => job'[q] = job[q]
      /\ req[r].pc = "gone" => job'[r].op = "none"
      /\ req[r].pc # "gone" =>
           job'[r].op = "begin" /\ job'[r].out = out /\ job'[r].x = IF out = "ok" THEN x ELSE 0
      /\ \A y \in Xids : y \in cut' <=> y \in cut \/ (y = x /\ out = "ok" /\ req[r].pc = "gone")
      /\ sess' = sess
  <2>0. sess' = sess
    BY DEF EngineBegin, sessVars
  <2>1. CASE req[r].pc = "gone" /\ out = "ok"
    BY <1>1, <1>3, <2>0, <2>1 DEF Return, NoJob
  <2>2. CASE req[r].pc # "gone" /\ out = "ok"
    <3>1. Return(r, "ok") = [job EXCEPT ![r] = [job[r] EXCEPT !.out = "ok"]]
      BY <2>2 DEF Return
    <3>2. job' = [job EXCEPT ![r] = [[job[r] EXCEPT !.out = "ok"] EXCEPT !.x = x]]
      BY <1>1, <1>2, <1>3, <2>2, <3>1 DEF JobFields
    <3> QED BY <1>1, <1>2, <1>3, <2>0, <2>2, <3>2 DEF JobFields
  <2>3. CASE out # "ok"
    <3>1. out = "err" /\ job' = Return(r, "err") /\ cut' = cut
      BY <1>3, <2>3
    <3> QED BY <1>1, <1>2, <2>0, <3>1 DEF Return, NoJob, JobFields
  <2> QED BY <2>1, <2>2, <2>3
<1>5a. EndsStay
  <2>1. ASSUME NEW y \in Xids, Dead(y) PROVE Dead(y)'
    <3>1. y # x /\ y # 0
      BY <1>3, <2>1, ZeroIsNoXid DEF Dead
    <3>2. ASSUME NEW q \in Reqs, Uses(q, y)' PROVE Uses(q, y)
      BY <1>2, <1>5, <3>1, <3>2 DEF Uses
    <3>3. txn'[y].st = txn[y].st /\ (y \in cut' <=> y \in cut) /\ sess'[y] = sess[y]
      BY <1>4, <1>5, <3>1
    <3> QED BY <2>1, <3>2, <3>3, DeadStays DEF Abandoned
  <2> QED BY <1>3, <1>4, <2>1 DEF EndsStay
<1>6. ASSUME NEW q \in Reqs, q # r PROVE Told(q)'
  <2>1. \A y \in Xids : Uses(q, y) => y # x
    BY <1>1, <1>3 DEF OwnersOK
  <2>3. KeptFor(q)
    BY <1>4, <1>5a, <2>1 DEF KeptFor
  <2>4. Same(q) /\ CallOK(q) /\ Told(q)
    BY <1>1, <1>2, <1>5, <1>6 DEF Same, CallsOK, ToldInv
  <2> QED BY <2>3, <2>4, OtherStays
<1>7. Told(r)'
  <2>1. CASE req[r].pc = "gone"
    BY <1>2, <2>1 DEF Told
  <2>2. CASE req[r].pc # "gone"
    <3>1. req[r].pc = "begin" /\ ~InSession(r)
      BY <1>1, <1>2, <2>2 DEF CallOK, CallOf, Waiting
    <3>2. \A y \in Xids : \A j : Has(y, r, j)' <=> Has(y, r, j)
      BY <1>4 DEF Has
    <3>3. /\ Writes(r)' = Writes(r) /\ First(r)' = First(r) /\ InBatch(r)' = InBatch(r)
          /\ InSession(r)' = InSession(r)
      BY <1>2, SameWrites DEF First, InBatch, InSession
    <3>4. req[r].in.kind \notin {"commit", "rollback"}
      BY <1>1, <3>1 DEF Told, EndOK
    <3>5. ASSUME req[r].in.kind \in OwnKinds PROVE OwnOK(r)'
      <4>1. OwnOK(r) /\ AloneOK(r)
        BY <1>1, <3>1, <3>5 DEF Told, OwnOK
      <4>2. InBatch(r) => SlotsOK(r)'
        BY <1>2, <1>5a, <3>1, <3>2, <4>1, SlotsStay DEF AloneOK
      <4>3. AloneOK(r)'
        BY <1>2, <1>4, <1>5, <2>2, <3>1, <3>2, <3>3, <4>1, <4>2 DEF AloneOK
      <4> QED BY <1>2, <1>5, <2>2, <3>1, <3>3, <4>1, <4>3 DEF OwnOK, Outs
    <3> QED BY <1>2, <3>1, <3>4, <3>5 DEF Told
  <2> QED BY <2>1, <2>2
<1>8. CutOK'
  <2>1. ASSUME NEW y \in Xids, txn'[y].st = "free" PROVE y \notin cut' /\ txn'[y].writes = {}
    <3>1. y # x /\ txn[y].st = "free"
      BY <1>4, <2>1
    <3> QED BY <1>1, <1>4, <1>5, <3>1 DEF CutOK
  <2>2. ASSUME NEW q \in Reqs, NEW y \in Xids, Uses(q, y)', ~InSession(q)' PROVE y \notin cut'
    <3>1. CASE q = r
      <4>1. req[r].pc # "gone" /\ y = x
        BY <1>2, <1>5, <2>2, <3>1, ZeroIsNoXid DEF Uses
      <4> QED BY <1>1, <1>3, <1>5, <4>1 DEF CutOK
    <3>2. CASE q # r
      <4>1. Uses(q, y) /\ ~InSession(q)
        BY <1>2, <1>5, <2>2, <3>2 DEF Uses, InSession
      <4>2. y # x
        BY <1>1, <1>3, <4>1 DEF OwnersOK
      <4> QED BY <1>1, <1>5, <4>1, <4>2 DEF CutOK
    <3> QED BY <3>1, <3>2
  <2> QED BY <2>1, <2>2 DEF CutOK
<1> QED BY <1>6, <1>7, <1>8 DEF ToldInv

LEMMA EngineStepTold ==
  ASSUME ServerInv, ToldInv, NEW r \in Reqs, EngineStep(r)
  PROVE  ToldInv'
BY BeginTold, CommitTold, AbortTold, CheckpointTold, SaveRootTold, ExecDmlTold, EngineRowTold,
   ExecCatalogTold, FlipRootTold, RestoreTold DEF EngineStep

-----------------------------------------------------------------------------
(* Handlers: no transaction changes. *)

\* A handler takes no transaction outside a session into use.
TakesNone(r) ==
  \A x \in Xids : Uses(r, x)' /\ ~InSession(r)' => Uses(r, x) /\ ~InSession(r)

\* Nor does it find one that is out of reach.
LeavesAlone(r) == \A x \in Xids : Abandoned(x) => sess'[x] = NoOne /\ ~(Uses(r, x)')

LEMMA HandlerEnds ==
  ASSUME NEW r \in Reqs, OthersStay(r), txn' = txn, cut' = cut, LeavesAlone(r)
  PROVE  EndsStay
<1> SUFFICES ASSUME NEW x \in Xids, Dead(x) PROVE Dead(x)'
  BY DEF EndsStay
<1>1. ASSUME Abandoned(x), NEW q \in Reqs, Uses(q, x)' PROVE Uses(q, x)
  BY <1>1 DEF LeavesAlone, OthersStay, Uses
<1>2. Abandoned(x) => sess'[x] = NoOne
  BY DEF LeavesAlone
<1> QED BY <1>1, <1>2, DeadStays

LEMMA HandlerTold ==
  ASSUME ServerInv, ToldInv, NEW r \in Reqs, OthersStay(r), txn' = txn, cut' = cut,
         TakesNone(r), LeavesAlone(r), Told(r)'
  PROVE  ToldInv'
<1>1. NoneTaken
  <2> SUFFICES ASSUME NEW q \in Reqs, NEW x \in Xids, Uses(q, x)', ~InSession(q)'
               PROVE  Uses(q, x) /\ ~InSession(q)
    BY DEF NoneTaken
  <2>1. CASE q = r
    BY <2>1 DEF TakesNone
  <2>2. CASE q # r
    BY <2>2 DEF OthersStay, Uses, InSession
  <2> QED BY <2>1, <2>2
<1>2. CutOK'
  BY <1>1, CutStays DEF ToldInv
<1>2a. EndsStay
  BY HandlerEnds
<1>3. ASSUME NEW q \in Reqs, q # r PROVE Told(q)'
  <2>1. KeptFor(q) /\ Same(q) /\ CallOK(q) /\ Told(q)
    BY <1>2a, <1>3 DEF KeptFor, Same, OthersStay, ServerInv, CallsOK, ToldInv
  <2> QED BY <2>1, OtherStays
<1> QED BY <1>2, <1>3 DEF ToldInv

\* A request as it arrives: nothing of it has been run.
Fresh(r, in) ==
  /\ req[r].pc = "new" /\ InputOK(in) /\ NoTrace(r) /\ OthersStay(r)
  /\ req'[r].in = in /\ req'[r].i = 1 /\ req'[r].slots = << >>
  /\ in.kind \in OwnKinds => ScriptOK(in)
  /\ in.target # 0 => in.target \in Xids
  /\ txn' = txn /\ cut' = cut /\ sess' = sess

LEMMA FreshHasNothing ==
  ASSUME NEW r, NEW in, Fresh(r, in)
  PROVE  \A x \in Xids : \A j : ~(Has(x, r, j)')
<1> SUFFICES ASSUME NEW x \in Xids, NEW j, <<r, j, "full">> \in txn[x].writes PROVE FALSE
  BY DEF Has, Fresh
<1>1. <<r, j, "full">>[1] = r
  OBVIOUS
<1> QED BY <1>1 DEF Fresh, NoTrace

\* A request that is turned down has no effects.
LEMMA RejectTold ==
  ASSUME ServerInv, ToldInv, NEW r \in Reqs, NEW in, Fresh(r, in),
         req'[r].pc = "done", req'[r].reply \notin {"ok", "late"}, job'[r].op = "none", in.kind # "batch"
  PROVE  ToldInv'
<1>1. \A x \in Xids : \A j : ~(Has(x, r, j)')
  BY FreshHasNothing
<1>2. TakesNone(r) /\ LeavesAlone(r)
  BY DEF TakesNone, LeavesAlone, Abandoned, Uses, Fresh
<1>3. ASSUME in.kind \in OwnKinds PROVE OwnOK(r)'
  <2>1. InSession(r)' => HeldOK(r)'
    BY <1>1 DEF HeldOK, Fresh, InSession
  <2>2. \A j : Decided(r, j, req[r].reply = "ok")'
    BY <1>1 DEF Decided, Lost
  <2>3. AloneOK(r)'
    BY <2>2 DEF AloneOK, Fresh, InBatch
  <2> QED BY <1>3, <2>1, <2>3 DEF OwnOK, Fresh, Waiting
<1>4. in.kind \in {"commit", "rollback"} => EndOK(r)'
  BY DEF EndOK, Fresh
<1>5. Told(r)'
  BY <1>3, <1>4 DEF Told, Fresh
<1> QED BY <1>2, <1>5, HandlerTold DEF Fresh

\* A request that begins a transaction, a catalog edit or the slots of a batch.
LEMMA StartTold ==
  ASSUME ServerInv, ToldInv, NEW r \in Reqs, NEW in, Fresh(r, in), in.target = 0,
         in.kind \in OwnKinds => Len(in.script) # 0,
         \/ req'[r].pc = "slot" /\ in.kind = "batch" /\ job'[r].op = "none"
         \/ /\ req'[r].pc = "begin" /\ in.kind \notin {"batch", "commit", "rollback"}
            /\ job'[r].x = 0 /\ job'[r].out = "none"
         \/ req'[r].pc = "edit" /\ in.kind = "admin" /\ job'[r].x = 0
  PROVE  ToldInv'
<1>1. \A x \in Xids : \A j : ~(Has(x, r, j)')
  BY FreshHasNothing
<1>2. TakesNone(r) /\ LeavesAlone(r)
  BY ZeroIsNoXid DEF TakesNone, LeavesAlone, Abandoned, Uses, Fresh
<1>3. ~InSession(r)' /\ (InBatch(r)' <=> in.kind = "batch")
  BY DEF InSession, InBatch, Fresh
<1>4. ASSUME in.kind \in OwnKinds PROVE OwnOK(r)'
  <2>1. req'[r].pc \in {"slot", "begin"}
    BY <1>4 DEF OwnKinds
  <2>2. ScriptOK(in) /\ 1 \in 1..Len(in.script)
    BY <1>4 DEF Fresh, ScriptOK
  <2>3. in.kind = "batch" => SlotsOK(r)'
    <3> SUFFICES ASSUME in.kind = "batch" PROVE SlotsOK(r)'
      OBVIOUS
    <3>1. Writes(r)' \subseteq Nat \ {0}
      BY <2>2 DEF Writes, ScriptOK, Fresh
    <3>2. << >> \in Seq({"ok", "err", "late", "skipped"}) /\ Len(<< >>) = 0 /\ 1 - 1 = 0
      OBVIOUS
    <3> QED BY <2>1, <3>1, <3>2 DEF SlotsOK, Fresh
  <2>4. AloneOK(r)'
    <3>1. req'[r].pc = "begin" => First(r)' = req'[r].i
      BY <1>3 DEF First, Fresh
    <3> QED BY <1>1, <1>3, <2>1, <2>3, <3>1 DEF AloneOK
  <2> QED BY <1>3, <2>1, <2>2, <2>4 DEF OwnOK, Fresh, Waiting, Outs
<1>5. in.kind \notin {"commit", "rollback"}
  OBVIOUS
<1>6. Told(r)'
  BY <1>4, <1>5 DEF Told, Fresh
<1> QED BY <1>2, <1>6, HandlerTold DEF Fresh

\* A statement or the end of a session.
LEMMA HeldTold ==
  ASSUME ServerInv, ToldInv, NEW r \in Reqs, NEW in, Fresh(r, in), in.target # 0,
         in.kind \in OwnKinds => Len(in.script) # 0,
         job'[r].out = "none", job'[r].st = "start", job'[r].x = in.target, sess[in.target] # NoOne,
         \/ /\ req'[r].pc = "exec" /\ in.kind \in {"sql", "rows", "get"}
            /\ job'[r].plans = PlansOf(in, 1) /\ job'[r].k = 1
         \/ req'[r].pc = "commit" /\ in.kind = "commit"
         \/ req'[r].pc = "abort" /\ in.kind = "rollback"
  PROVE  ToldInv'
<1>1. \A x \in Xids : \A j : ~(Has(x, r, j)')
  BY FreshHasNothing
<1>2. TakesNone(r) /\ InSession(r)' /\ LeavesAlone(r)
  BY DEF TakesNone, LeavesAlone, Abandoned, Uses, InSession, Fresh
<1>4. ASSUME in.kind \in OwnKinds PROVE OwnOK(r)'
  <2>1. /\ req'[r].pc = "exec" /\ in.kind \in {"sql", "rows"}
        /\ job'[r].plans = PlansOf(in, 1) /\ job'[r].k = 1 /\ job'[r].st = "start"
    BY <1>4 DEF OwnKinds
  <2>2. ScriptOK(in) /\ Len(in.script) \in Nat \ {0} /\ 1 \in 1..Len(in.script)
    BY <1>4 DEF Fresh, ScriptOK
  <2>3. HeldOK(r)'
    BY <1>1, <2>1 DEF HeldOK, Fresh
  <2>4. 1 \in 1..Len(PlansOf(in, 1))
    BY <2>2 DEF PlansOf
  <2>5. First(r)' = 1 /\ At(r)' = 1 /\ Writes(r)' \subseteq Nat
    BY <2>1, <2>2 DEF First, At, InBatch, Fresh, Writes, ScriptOK
  <2>6. Covered(r, At(r))'
    BY <2>5 DEF Covered
  <2>7. ExecOK(r)'
    BY <2>1, <2>4, <2>6 DEF ExecOK, Fresh
  <2> QED BY <1>2, <2>1, <2>2, <2>3, <2>7 DEF OwnOK, Fresh, Waiting, Outs
<1>5. in.kind \in {"commit", "rollback"} => EndOK(r)'
  BY <1>2 DEF EndOK, AcksEnd, Fresh
<1>6. Told(r)'
  BY <1>4, <1>5 DEF Told, Fresh
<1> QED BY <1>2, <1>6, HandlerTold DEF Fresh

\* The request is taken in, its place in the script and its slots untouched.
TakenIn(r, in, pc) ==
  /\ DOMAIN req' = Reqs /\ \A q \in Reqs : q # r => req'[q] = req[q]
  /\ req'[r].in = in /\ req'[r].pc = pc /\ req'[r].i = req[r].i /\ req'[r].slots = req[r].slots

LEMMA AcceptTakesIn ==
  ASSUME CallsOK, NEW r \in Reqs, NEW in, NEW pc, Accept(r, in, pc)
  PROVE  TakenIn(r, in, pc)
<1>1. DOMAIN req = Reqs /\ DOMAIN req[r] = ReqFields
  BY DEF CallsOK, CallOK
<1> QED BY <1>1 DEF Accept, ReqFields, TakenIn

LEMMA TurnDownTakesIn ==
  ASSUME CallsOK, NEW r \in Reqs, NEW in, NEW what,
         req' = [req EXCEPT ![r].in = in, ![r].pc = "done", ![r].reply = what]
  PROVE  TakenIn(r, in, "done") /\ req'[r].reply = what
<1>1. DOMAIN req = Reqs /\ DOMAIN req[r] = ReqFields
  BY DEF CallsOK, CallOK
<1> QED BY <1>1 DEF ReqFields, TakenIn

\* What the request asks for is the workload's, or the statements of a write on
\* a collection.
LEMMA ArrivesFresh ==
  ASSUME ServerInv, ToldInv, NEW r \in Reqs, req[r].pc = "new", NEW in, NEW pc, TakenIn(r, in, pc),
         \/ job' = job
         \/ \E op, x, plans : job' = Call(r, op, x, plans),
         txn' = txn, cut' = cut, sess' = sess, InputOK(in), in.target # 0 => in.target \in Xids,
         in.kind \in OwnKinds => ScriptOK(in)
  PROVE  Fresh(r, in)
<1>1. CallsOK /\ Told(r) /\ DOMAIN job = Reqs
  BY DEF ServerInv, ToldInv, CallsOK
<1>2. OthersStay(r)
  BY <1>1, CallEffect DEF OthersStay, TakenIn
<1> QED BY <1>1, <1>2 DEF Fresh, Told, TakenIn

LEMMA InputFacts ==
  ASSUME ServerInv, NEW r \in Reqs, NEW in \in load.inputs[r], Arrives(r, in)
  PROVE  /\ CallsOK /\ req[r].pc = "new" /\ InputOK(in) /\ job[r].op = "none"
         /\ in.target # 0 => in.target \in Xids
         /\ in.kind \in OwnKinds \ {"rest"} => ScriptOK(in) /\ Len(in.script) # 0
<1>1. CallsOK /\ load \in Workloads /\ req[r].pc = "new" /\ CallOK(r)
  BY DEF ServerInv, CallsOK, Arrives
<1> QED BY <1>1, InputsAreOK, ScriptsAreOK DEF Arrives, CallOK

LEMMA OutsideArrivalsTold ==
  ASSUME ServerInv, ToldInv, NEW r \in Reqs,
         PostTxnBegin(r) \/ OneShot(r) \/ AdminEdit(r) \/ PostBatchSql(r)
  PROVE  ToldInv'
<1>1. txn' = txn /\ cut' = cut /\ sess' = sess
  BY DEF PostTxnBegin, OneShot, AdminEdit, PostBatchSql, sessVars
<1>2. PICK in \in load.inputs[r] :
        /\ Arrives(r, in)
        /\ \/ in.kind = "begin" /\ Accept(r, in, "begin") /\ job' = Call(r, "begin", 0, << >>)
           \/ /\ in.target = 0 /\ in.kind \in {"sql", "rows", "rpc"}
              /\ \/ Accept(r, in, "begin") /\ job' = Call(r, "begin", 0, << >>)
                 \/ Reject(r, in) /\ job' = job
           \/ in.kind = "admin" /\ Accept(r, in, "edit") /\ job' = Call(r, "edit", 0, in.script)
           \/ in.kind = "batch" /\ Accept(r, in, "slot") /\ job' = job
  BY DEF PostTxnBegin, OneShot, AdminEdit, PostBatchSql
<1>3. /\ CallsOK /\ req[r].pc = "new" /\ InputOK(in) /\ job[r].op = "none"
      /\ in.target # 0 => in.target \in Xids
      /\ in.kind \in OwnKinds => ScriptOK(in) /\ Len(in.script) # 0
      /\ in.target = 0
  BY <1>2, InputFacts DEF InputOK, OneShotKinds, OwnKinds
<1>4. CASE /\ Accept(r, in, "begin") /\ job' = Call(r, "begin", 0, << >>)
           /\ in.kind \in {"begin", "sql", "rows", "rpc"}
  <2>1. TakenIn(r, in, "begin") /\ job'[r].x = 0 /\ job'[r].out = "none"
    BY <1>3, <1>4, AcceptTakesIn, CallEffect
  <2>2. Fresh(r, in)
    BY <1>1, <1>3, <1>4, <2>1, ArrivesFresh
  <2> QED BY <1>3, <1>4, <2>1, <2>2, StartTold DEF TakenIn
<1>5. CASE in.kind \in {"sql", "rows", "rpc"} /\ Reject(r, in) /\ job' = job
  <2>1. TakenIn(r, in, "done") /\ req'[r].reply = "err"
    BY <1>3, <1>5, TurnDownTakesIn DEF Reject
  <2>2. Fresh(r, in)
    BY <1>1, <1>3, <1>5, <2>1, ArrivesFresh
  <2> QED BY <1>3, <1>5, <2>1, <2>2, RejectTold DEF TakenIn
<1>6. CASE in.kind = "admin" /\ Accept(r, in, "edit") /\ job' = Call(r, "edit", 0, in.script)
  <2>1. TakenIn(r, in, "edit") /\ job'[r].x = 0
    BY <1>3, <1>6, AcceptTakesIn, CallEffect
  <2>2. Fresh(r, in)
    BY <1>1, <1>3, <1>6, <2>1, ArrivesFresh
  <2> QED BY <1>3, <1>6, <2>1, <2>2, StartTold DEF TakenIn
<1>7. CASE in.kind = "batch" /\ Accept(r, in, "slot") /\ job' = job
  <2>1. TakenIn(r, in, "slot")
    BY <1>3, <1>7, AcceptTakesIn
  <2>2. Fresh(r, in)
    BY <1>1, <1>3, <1>7, <2>1, ArrivesFresh
  <2> QED BY <1>3, <1>7, <2>1, <2>2, StartTold DEF TakenIn
<1> QED BY <1>2, <1>4, <1>5, <1>6, <1>7

\* post_collection and its like: the write is turned down, or its statements run.
LEMMA RestWriteTold ==
  ASSUME ServerInv, ToldInv, NEW r \in Reqs, RestWrite(r)
  PROVE  ToldInv'
<1>1. txn' = txn /\ cut' = cut /\ sess' = sess
  BY DEF RestWrite, sessVars
<1>2. PICK in \in load.inputs[r] :
        /\ Arrives(r, in) /\ in.kind = "rest"
        /\ LET stmts == RestStatements(in.script[1])
               sql   == [in EXCEPT !.script = stmts]
           IN \/ stmts # << >> /\ Accept(r, sql, "begin") /\ job' = Call(r, "begin", 0, << >>)
              \/ Reject(r, sql) /\ job' = job
  BY DEF RestWrite
<1> DEFINE stmts == RestStatements(in.script[1])
           sql   == [in EXCEPT !.script = stmts]
<1>3. CallsOK /\ req[r].pc = "new" /\ InputOK(in) /\ in.target = 0 /\ job[r].op = "none"
  BY <1>2, InputFacts DEF InputOK, OneShotKinds
<1>4. stmts = << >> \/ (Len(stmts) \in Nat \ {0} /\ DOMAIN stmts = 1..Len(stmts))
  <2>1. load \in Workloads
    BY <1>3 DEF CallsOK
  <2> QED BY <1>2, <2>1, ScriptsAreOK
<1>5. \/ stmts # << >> /\ Accept(r, sql, "begin") /\ job' = Call(r, "begin", 0, << >>)
      \/ Reject(r, sql) /\ job' = job
  BY <1>2
<1>6. /\ sql.script = stmts /\ sql.kind = "rest" /\ sql.target = 0
      /\ DOMAIN sql = {"kind", "user", "target", "script", "ser", "stop"}
  <2> HIDE DEF stmts
  <2> QED BY <1>2, <1>3 DEF InputOK
<1> HIDE DEF sql, stmts
<1>7. InputOK(sql) /\ sql.kind \notin {"cron", "get"}
  BY <1>6 DEF InputOK
<1>8. ScriptOK(sql) /\ (stmts # << >> => Len(sql.script) # 0)
  BY <1>4, <1>6 DEF ScriptOK, TextKinds
<1>9. CASE stmts # << >> /\ Accept(r, sql, "begin") /\ job' = Call(r, "begin", 0, << >>)
  <2>1. TakenIn(r, sql, "begin") /\ job'[r].x = 0 /\ job'[r].out = "none"
    BY <1>3, <1>9, AcceptTakesIn, CallEffect
  <2>2. Fresh(r, sql)
    BY <1>1, <1>3, <1>6, <1>7, <1>8, <1>9, <2>1, ArrivesFresh
  <2> QED BY <1>6, <1>8, <1>9, <2>1, <2>2, StartTold DEF TakenIn
<1>10. CASE Reject(r, sql) /\ job' = job
  <2>1. TakenIn(r, sql, "done") /\ req'[r].reply = "err"
    BY <1>3, <1>10, TurnDownTakesIn DEF Reject
  <2>2. Fresh(r, sql)
    BY <1>1, <1>3, <1>6, <1>7, <1>8, <1>10, <2>1, ArrivesFresh
  <2> QED BY <1>3, <1>6, <1>10, <2>1, <2>2, RejectTold DEF TakenIn
<1> QED BY <1>5, <1>9, <1>10

LEMMA CronDueTold ==
  ASSUME ServerInv, ToldInv, NEW r \in Reqs, CronDue(r)
  PROVE  ToldInv'
<1>1. PICK in \in load.inputs[r] :
        /\ Arrives(r, in) /\ in.kind = "cron"
        /\ \/ Accept(r, in, "begin") /\ job' = Call(r, "begin", 0, << >>)
           \/ /\ req' = [req EXCEPT ![r].in = in, ![r].pc = "done", ![r].reply = "skipped"]
              /\ job' = job
        /\ txn' = txn /\ cut' = cut /\ sess' = sess
  BY DEF CronDue, sessVars
<1>2. /\ CallsOK /\ req[r].pc = "new" /\ InputOK(in) /\ job[r].op = "none" /\ in.target = 0
      /\ ScriptOK(in) /\ Len(in.script) # 0
  BY <1>1, InputFacts DEF InputOK, OneShotKinds, OwnKinds
<1>3. CASE Accept(r, in, "begin") /\ job' = Call(r, "begin", 0, << >>)
  <2>1. TakenIn(r, in, "begin") /\ job'[r].x = 0 /\ job'[r].out = "none"
    BY <1>2, <1>3, AcceptTakesIn, CallEffect
  <2>2. Fresh(r, in)
    BY <1>1, <1>2, <1>3, <2>1, ArrivesFresh
  <2> QED BY <1>1, <1>2, <2>1, <2>2, StartTold DEF TakenIn
<1>4. CASE /\ req' = [req EXCEPT ![r].in = in, ![r].pc = "done", ![r].reply = "skipped"]
           /\ job' = job
  <2>1. TakenIn(r, in, "done") /\ req'[r].reply = "skipped"
    BY <1>2, <1>4, TurnDownTakesIn
  <2>2. Fresh(r, in)
    BY <1>1, <1>2, <1>4, <2>1, ArrivesFresh
  <2> QED BY <1>1, <1>2, <1>4, <2>1, <2>2, RejectTold DEF TakenIn
<1> QED BY <1>1, <1>3, <1>4

LEMMA SessionArrivalsTold ==
  ASSUME ServerInv, ToldInv, NEW r \in Reqs, PostTxnEnd(r) \/ SessionStatement(r)
  PROVE  ToldInv'
<1>1. PICK in \in load.inputs[r] :
        /\ Arrives(r, in) /\ in.kind \in {"commit", "rollback", "sql", "rows", "get"}
        /\ \/ /\ in.kind \in {"sql", "rows", "get"} /\ CanCheckout(in.target, in.user)
              /\ Accept(r, in, "exec") /\ job' = Call(r, "exec", in.target, PlansOf(in, 1))
           \/ /\ in.kind = "commit" /\ CanCheckout(in.target, in.user)
              /\ Accept(r, in, "commit") /\ job' = Call(r, "commit", in.target, << >>)
           \/ /\ in.kind = "rollback" /\ CanCheckout(in.target, in.user)
              /\ Accept(r, in, "abort") /\ job' = Call(r, "abort", in.target, << >>)
           \/ Reject(r, in) /\ job' = job
        /\ txn' = txn /\ cut' = cut /\ sess' = sess
  <2>1. CASE PostTxnEnd(r)
    BY <2>1 DEF PostTxnEnd
  <2>2. CASE SessionStatement(r)
    BY <2>2 DEF SessionStatement
  <2> QED BY <2>1, <2>2
<1>2. /\ CallsOK /\ req[r].pc = "new" /\ InputOK(in) /\ job[r].op = "none"
      /\ in.target # 0 => in.target \in Xids
      /\ in.kind \in OwnKinds => ScriptOK(in) /\ Len(in.script) # 0
  BY <1>1, InputFacts DEF OwnKinds
<1>3. CanCheckout(in.target, in.user) => in.target # 0 /\ sess[in.target] # NoOne
  BY ZeroIsNoXid DEF CanCheckout
<1>4. CASE Reject(r, in) /\ job' = job
  <2>1. TakenIn(r, in, "done") /\ req'[r].reply = "err"
    BY <1>2, <1>4, TurnDownTakesIn DEF Reject
  <2>2. Fresh(r, in)
    BY <1>1, <1>2, <1>4, <2>1, ArrivesFresh
  <2> QED BY <1>1, <1>2, <1>4, <2>1, <2>2, RejectTold DEF TakenIn
<1>5. CASE /\ in.kind \in {"sql", "rows", "get"} /\ CanCheckout(in.target, in.user)
           /\ Accept(r, in, "exec") /\ job' = Call(r, "exec", in.target, PlansOf(in, 1))
  <2> DEFINE plans == PlansOf(in, 1)
  <2>1. job' = Call(r, "exec", in.target, plans)
    BY <1>5
  <2> HIDE DEF plans
  <2>2. /\ TakenIn(r, in, "exec") /\ job'[r].out = "none" /\ job'[r].plans = plans
        /\ job'[r].k = 1 /\ job'[r].st = "start" /\ job'[r].x = in.target
    BY <1>2, <1>5, <2>1, AcceptTakesIn, CallEffect
  <2>3. Fresh(r, in)
    BY <1>1, <1>2, <2>1, <2>2, ArrivesFresh
  <2> QED BY <1>2, <1>3, <1>5, <2>2, <2>3, HeldTold DEF TakenIn, plans
<1>6. CASE /\ in.kind = "commit" /\ CanCheckout(in.target, in.user)
           /\ Accept(r, in, "commit") /\ job' = Call(r, "commit", in.target, << >>)
  <2>1. /\ TakenIn(r, in, "commit") /\ job'[r].out = "none"
        /\ job'[r].st = "start" /\ job'[r].x = in.target
    BY <1>2, <1>6, AcceptTakesIn, CallEffect
  <2>2. Fresh(r, in)
    BY <1>1, <1>2, <1>6, <2>1, ArrivesFresh
  <2> QED BY <1>2, <1>3, <1>6, <2>1, <2>2, HeldTold DEF TakenIn
<1>7. CASE /\ in.kind = "rollback" /\ CanCheckout(in.target, in.user)
           /\ Accept(r, in, "abort") /\ job' = Call(r, "abort", in.target, << >>)
  <2>1. /\ TakenIn(r, in, "abort") /\ job'[r].out = "none"
        /\ job'[r].st = "start" /\ job'[r].x = in.target
    BY <1>2, <1>7, AcceptTakesIn, CallEffect
  <2>2. Fresh(r, in)
    BY <1>1, <1>2, <1>7, <2>1, ArrivesFresh
  <2> QED BY <1>2, <1>3, <1>7, <2>1, <2>2, HeldTold DEF TakenIn
<1> QED BY <1>1, <1>4, <1>5, <1>6, <1>7

LEMMA ArriveTold ==
  ASSUME ServerInv, ToldInv, NEW r \in Reqs, Arrive(r)
  PROVE  ToldInv'
BY OutsideArrivalsTold, RestWriteTold, CronDueTold, SessionArrivalsTold DEF Arrive

\* post_batch_sql: slot i is filled, and with it, once stopped, all later ones.
Filling(slots, n, i, res, stop, rest, new) ==
  /\ slots \in Seq({"ok", "err", "late", "skipped"}) /\ n \in Nat /\ i \in 1..n /\ Len(slots) = i - 1
  /\ res \in {"ok", "err", "late"} /\ stop \in BOOLEAN
  /\ rest = IF stop THEN [j \in 1..(n - i) |-> "skipped"] ELSE << >>
  /\ new = slots \o <<res>> \o rest

LEMMA FilledSlots ==
  ASSUME NEW slots, NEW n, NEW i, NEW res, NEW stop, NEW rest, NEW new,
         Filling(slots, n, i, res, stop, rest, new)
  PROVE  /\ new \in Seq({"ok", "err", "late", "skipped"})
         /\ Len(new) = IF stop THEN n ELSE i
         /\ \A j \in 1..Len(new) : new[j] = IF j < i THEN slots[j] ELSE IF j = i THEN res ELSE "skipped"
<1> USE DEF Filling
<1> DEFINE S    == {"ok", "err", "late", "skipped"}
           upto == slots \o <<res>>
<1>1. slots \in Seq(S) /\ <<res>> \in Seq(S) /\ Len(<<res>>) = 1 /\ <<res>>[1] = res
  OBVIOUS
<1>2. /\ rest \in Seq(S) /\ Len(rest) = IF stop THEN n - i ELSE 0
      /\ \A j \in 1..Len(rest) : rest[j] = "skipped"
  <2>1. CASE stop
    <3>1. n - i \in Nat
      OBVIOUS
    <3>2. rest = [j \in 1..(n - i) |-> "skipped"]
      BY <2>1
    <3> QED BY <2>1, <3>1, <3>2
  <2>2. CASE ~stop
    BY <2>2
  <2> QED BY <2>1, <2>2
<1> HIDE DEF S
<1>3. /\ upto \in Seq(S) /\ Len(upto) = Len(slots) + 1
      /\ \A j \in 1..(Len(slots) + 1) :
           upto[j] = IF j <= Len(slots) THEN slots[j] ELSE <<res>>[j - Len(slots)]
  BY <1>1, ConcatProperties
<1> HIDE DEF upto
<1>4. /\ upto \o rest \in Seq(S) /\ Len(upto \o rest) = Len(upto) + Len(rest)
      /\ \A j \in 1..(Len(upto) + Len(rest)) :
           (upto \o rest)[j] = IF j <= Len(upto) THEN upto[j] ELSE rest[j - Len(upto)]
  <2>1. upto \in Seq(S) /\ rest \in Seq(S)
    BY <1>2, <1>3
  <2> QED BY ONLY <2>1, ConcatProperties
<1>5. new = upto \o rest
  BY DEF upto
<1>6. Len(upto) = i /\ Len(new) = IF stop THEN n ELSE i
  <2>1. Len(upto) = i
    BY <1>3
  <2>2. Len(new) = i + Len(rest)
    BY <1>4, <1>5, <2>1
  <2>3. CASE stop
    BY <1>2, <2>1, <2>2, <2>3
  <2>4. CASE ~stop
    BY <1>2, <2>1, <2>2, <2>4
  <2> QED BY <2>3, <2>4
<1>7. ASSUME NEW j \in 1..Len(new)
      PROVE  new[j] = IF j < i THEN slots[j] ELSE IF j = i THEN res ELSE "skipped"
  <2>1. new[j] = IF j <= i THEN upto[j] ELSE rest[j - i]
    BY <1>4, <1>5, <1>6
  <2>2. CASE j < i
    BY <1>3, <2>1, <2>2
  <2>3. CASE j = i
    <3>1. upto[j] = <<res>>[j - Len(slots)] /\ j - Len(slots) = 1
      BY <1>3, <2>3
    <3> QED BY <1>1, <2>1, <2>3, <3>1
  <2>4. CASE j > i
    <3>1. j - i \in 1..Len(rest)
      BY <1>2, <1>6, <2>4
    <3> QED BY <1>2, <2>1, <2>4, <3>1
  <2> QED BY <2>2, <2>3, <2>4
<1> QED BY <1>4, <1>5, <1>6, <1>7 DEF S

\* What SlotDone does to the request.
Filled(r, res) ==
  LET n    == Len(req[r].in.script)
      stop == res # "ok" /\ req[r].in.stop
      len  == IF stop THEN n ELSE req[r].i
  IN /\ req'[r].slots \in Seq({"ok", "err", "late", "skipped"}) /\ Len(req'[r].slots) = len
     /\ \A j \in 1..len :
          req'[r].slots[j] = IF j < req[r].i THEN req[r].slots[j]
                             ELSE IF j = req[r].i THEN res ELSE "skipped"
     /\ req'[r].i = len + 1
     /\ len = n => req'[r].reply = "ok"
     /\ Moved(r, IF len = n THEN "done" ELSE "slot")

LEMMA SlotDoneFills ==
  ASSUME CallsOK, NEW r \in Reqs, NEW res \in {"ok", "err", "late"}, req' = SlotDone(r, res),
         ScriptOK(req[r].in), req[r].i \in 1..Len(req[r].in.script),
         req[r].slots \in Seq({"ok", "err", "late", "skipped"}), Len(req[r].slots) = req[r].i - 1
  PROVE  Filled(r, res)
<1>1. DOMAIN req = Reqs /\ DOMAIN req[r] = ReqFields
  BY DEF CallsOK, CallOK
<1> DEFINE n     == Len(req[r].in.script)
           stop  == res # "ok" /\ req[r].in.stop
           rest  == IF stop THEN [j \in 1 .. (n - req[r].i) |-> "skipped"] ELSE << >>
           slots == req[r].slots \o <<res>> \o rest
           len   == IF stop THEN n ELSE req[r].i
<1>2. req' = [req EXCEPT ![r].slots = slots, ![r].x = 0, ![r].i = Len(slots) + 1,
                         ![r].pc = IF Len(slots) = n THEN "done" ELSE "slot",
                         ![r].reply = IF Len(slots) = n THEN "ok" ELSE "none"]
  BY DEF SlotDone
<1>3. n \in Nat /\ req[r].i \in 1..n /\ stop \in BOOLEAN
  BY DEF ScriptOK
<1>4. /\ slots = req[r].slots \o <<res>> \o rest
      /\ rest = IF stop THEN [j \in 1 .. (n - req[r].i) |-> "skipped"] ELSE << >>
  OBVIOUS
<1> HIDE DEF n, stop, slots, rest
<1>5. /\ slots \in Seq({"ok", "err", "late", "skipped"}) /\ Len(slots) = len
      /\ \A j \in 1..Len(slots) :
           slots[j] = IF j < req[r].i THEN req[r].slots[j] ELSE IF j = req[r].i THEN res ELSE "skipped"
  <2>1. /\ req[r].slots \in Seq({"ok", "err", "late", "skipped"}) /\ Len(req[r].slots) = req[r].i - 1
        /\ res \in {"ok", "err", "late"} /\ req[r].i \in 1..n
    BY <1>3
  <2>2. Filling(req[r].slots, n, req[r].i, res, stop, rest, slots)
    BY <1>3, <1>4, <2>1 DEF Filling
  <2> QED BY <2>2, FilledSlots DEF len
<1>6. /\ req'[r].slots = slots /\ req'[r].i = len + 1 /\ (len = n => req'[r].reply = "ok")
      /\ Moved(r, IF len = n THEN "done" ELSE "slot")
  BY <1>1, <1>2, <1>5 DEF ReqFields, Moved
<1> HIDE DEF len
<1>7. /\ req'[r].slots \in Seq({"ok", "err", "late", "skipped"}) /\ Len(req'[r].slots) = len
      /\ \A j \in 1..len :
           req'[r].slots[j] = IF j < req[r].i THEN req[r].slots[j]
                              ELSE IF j = req[r].i THEN res ELSE "skipped"
  BY <1>5, <1>6
<1> QED BY <1>6, <1>7 DEF Filled, len, n, stop

\* A slot is filled with what became of its statement.
LEMMA SlotTold ==
  ASSUME ServerInv, NEW r \in Reqs, OwnOK(r), AloneOK(r), InBatch(r), ~InSession(r),
         req[r].pc # "done", NEW res \in {"ok", "err", "late"}, req' = SlotDone(r, res),
         txn' = txn, job'[r].op = "none", EndsStay,
         \A x \in Xids : \A j \in Writes(r) : Has(x, r, j) => j <= req[r].i,
         \A j \in Writes(r) : j = req[r].i /\ res # "late" =>
           IF res = "ok" THEN Durable(r, j)' ELSE Lost(r, j)'
  PROVE  Told(r)' /\ (Moved(r, "done") \/ Moved(r, "slot"))
<1> DEFINE n    == Len(req[r].in.script)
           stop == res # "ok" /\ req[r].in.stop
           len  == IF stop THEN n ELSE req[r].i
<1>1. /\ ScriptOK(req[r].in) /\ req[r].i \in 1..n /\ SlotsOK(r) /\ n \in Nat
      /\ req[r].slots \in Seq({"ok", "err", "late", "skipped"}) /\ Len(req[r].slots) = req[r].i - 1
  BY DEF OwnOK, ScriptOK, AloneOK, SlotsOK
<1>2. Filled(r, res)
  BY <1>1, SlotDoneFills DEF ServerInv
<1>3. /\ req'[r].slots \in Seq({"ok", "err", "late", "skipped"}) /\ Len(req'[r].slots) = len
      /\ \A j \in 1..len :
           req'[r].slots[j] = IF j < req[r].i THEN req[r].slots[j]
                              ELSE IF j = req[r].i THEN res ELSE "skipped"
      /\ req'[r].i = len + 1 /\ (len = n => req'[r].reply = "ok")
      /\ Moved(r, IF len = n THEN "done" ELSE "slot")
  BY <1>2 DEF Filled
<1>4. len \in 1..n /\ req[r].i <= len
  BY <1>1
<1>5. len # n => len = req[r].i
  OBVIOUS
<1> HIDE DEF len, n
<1>6. /\ req'[r].in = req[r].in /\ Writes(r)' = Writes(r) /\ InBatch(r)'
      /\ Writes(r) \subseteq 1..n /\ ~InSession(r)'
      /\ req'[r].pc = IF len = n THEN "done" ELSE "slot"
  BY <1>1, <1>3, SameWrites DEF Moved, InBatch, InSession, Writes, ScriptOK, n
<1>7. \A x \in Xids : \A j : Has(x, r, j)' <=> Has(x, r, j)
  BY DEF Has
<1>8. ASSUME NEW j \in Writes(r), j <= len, req'[r].slots[j] # "late"
      PROVE  Decided(r, j, req[r].slots[j] = "ok")'
  <2>1. j \in 1..len /\ j \in Nat
    BY <1>4, <1>6, <1>8
  <2>2. CASE j < req[r].i
    <3> DEFINE ok == req[r].slots[j] = "ok"
    <3>1. req'[r].slots[j] = req[r].slots[j] /\ j <= Len(req[r].slots)
      BY <1>1, <1>3, <2>1, <2>2
    <3>2. Decided(r, j, ok) /\ ok' = ok
      BY <1>1, <1>8, <3>1 DEF SlotsOK
    <3> HIDE DEF ok
    <3>3. Decided(r, j, ok)'
      BY <1>7, <3>2, DecidedStays
    <3> QED BY <3>3 DEF ok
  <2>3. CASE j = req[r].i
    <3>1. req'[r].slots[j] = res
      BY <1>1, <1>3, <2>1, <2>3
    <3> QED BY <1>8, <2>3, <3>1 DEF Decided
  <2>4. CASE j > req[r].i
    <3>1. req'[r].slots[j] = "skipped"
      BY <1>1, <1>3, <2>1, <2>4
    <3>2. \A x \in Xids : ~(Has(x, r, j)')
      BY <1>1, <1>7, <2>1, <2>4
    <3> QED BY <3>1, <3>2 DEF Decided, Lost
  <2> QED BY <1>1, <2>1, <2>2, <2>3, <2>4
<1>9. SlotsOK(r)'
  <2>1. Len(req'[r].slots) = IF req'[r].pc = "done" /\ req'[r].reply = "ok"
                               THEN Len(req'[r].in.script) ELSE req'[r].i - 1
    BY <1>1, <1>3, <1>4, <1>6 DEF n
  <2> QED BY <1>3, <1>6, <1>8, <2>1 DEF SlotsOK
<1>10. AloneOK(r)'
  <2>1. req'[r].pc = "slot" => \A x \in Xids : \A j \in Writes(r) : Has(x, r, j)' => j < First(r)'
    <3>1. req'[r].pc = "slot" => First(r)' = req[r].i + 1
      BY <1>3, <1>5, <1>6 DEF First
    <3> QED BY <1>1, <1>6, <1>7, <3>1
  <2> QED BY <1>6, <1>9, <2>1 DEF AloneOK
<1>11. OwnOK(r)'
  <2>1. req'[r].pc # "done" => req'[r].i \in 1..Len(req'[r].in.script)
    BY <1>1, <1>3, <1>4, <1>5, <1>6 DEF n
  <2>2. req[r].in.kind \notin TextKinds /\ req'[r].pc \notin Waiting /\ req'[r].pc # "exec"
    BY <1>6 DEF InBatch, TextKinds, Waiting
  <2> QED BY <1>1, <1>6, <1>10, <2>1, <2>2 DEF OwnOK
<1>12. Told(r)'
  BY <1>6, <1>11 DEF Told, InBatch
<1> QED BY <1>3, <1>12

\* The handler goes on to pc: the script, the place in it and the slots stay.
WentOn(r, pc) ==
  /\ Moved(r, pc) /\ req'[r].i = req[r].i /\ req'[r].slots = req[r].slots

LEMMA GotoGoesOn ==
  ASSUME CallsOK, NEW r \in Reqs, NEW pc, req' = Goto(r, pc)
  PROVE  WentOn(r, pc) /\ req'[r].x = req[r].x
<1>1. DOMAIN req = Reqs /\ DOMAIN req[r] = ReqFields
  BY DEF CallsOK, CallOK
<1> QED BY <1>1 DEF Goto, ReqFields, Moved, WentOn

LEMMA ReplyGoesOn ==
  ASSUME CallsOK, NEW r \in Reqs, NEW what, req' = Reply(r, what)
  PROVE  WentOn(r, "done") /\ req'[r].reply = what
<1>1. DOMAIN req = Reqs /\ DOMAIN req[r] = ReqFields
  BY DEF CallsOK, CallOK
<1> QED BY <1>1 DEF Reply, ReqFields, Moved, WentOn

\* What stays with the place in the script.
LEMMA GoneOnSame ==
  ASSUME NEW r, NEW pc, WentOn(r, pc), txn' = txn, EndsStay
  PROVE  /\ Writes(r)' = Writes(r) /\ First(r)' = First(r) /\ (InBatch(r)' <=> InBatch(r))
         /\ (InSession(r)' <=> InSession(r)) /\ req'[r].in = req[r].in /\ req'[r].pc = pc
         /\ req'[r].i = req[r].i
         /\ \A x \in Xids : \A j : Has(x, r, j)' <=> Has(x, r, j)
         /\ \A x \in Xids : txn'[x].st = txn[x].st
         /\ InBatch(r) /\ SlotsOK(r) /\ req[r].pc # "done" /\ (pc # "done" \/ req'[r].reply # "ok")
              => SlotsOK(r)'
<1>1. req'[r].in = req[r].in /\ req'[r].i = req[r].i /\ req'[r].pc = pc /\ req'[r].slots = req[r].slots
  BY DEF WentOn, Moved
<1>2. \A x \in Xids : \A j : Has(x, r, j)' <=> Has(x, r, j)
  BY DEF Has
<1>4. SlotsOK(r) /\ req[r].pc # "done" /\ (pc # "done" \/ req'[r].reply # "ok") => SlotsOK(r)'
  BY <1>1, <1>2, SlotsStay
<1> QED BY <1>1, <1>2, <1>4, SameWrites DEF First, InBatch, InSession

\* A handler is left with the call it had, a new one on the same transaction,
\* or none, and the registry changes only where it has a call or ends a session.
HandlerMoved(r, pc) ==
  /\ Moved(r, pc) /\ req[r].pc # "gone" /\ txn' = txn /\ cut' = cut
  /\ \A x \in Xids : sess'[x] \in {sess[x], NoOne} \/ Uses(r, x)
  /\ \/ job' = job
     \/ \E op, plans : job' = Call(r, op, job[r].x, plans) /\ job[r].op # "none"
     \/ \E op, plans : job' = Call(r, op, 0, plans)
     \/ job' = Idle(r)

LEMMA MovedAlone ==
  ASSUME ServerInv, NEW r \in Reqs, NEW pc, HandlerMoved(r, pc)
  PROVE  OthersStay(r) /\ TakesNone(r) /\ LeavesAlone(r) /\ EndsStay
<1>0. /\ Moved(r, pc) /\ req[r].pc # "gone" /\ txn' = txn /\ cut' = cut
      /\ \A x \in Xids : sess'[x] \in {sess[x], NoOne} \/ Uses(r, x)
  BY DEF HandlerMoved
<1>1. CallsOK /\ DOMAIN job = Reqs
  BY DEF ServerInv, CallsOK
<1>2. /\ OthersStay(r)
      /\ \/ job'[r] = job[r]
         \/ job'[r].x = job[r].x /\ job[r].op # "none"
         \/ job'[r].x = 0
         \/ job'[r].op = "none"
  <2>1. CASE job' = job
    BY <1>0, <1>1, <2>1 DEF OthersStay, Moved
  <2>2. CASE \E op, plans : job' = Call(r, op, job[r].x, plans) /\ job[r].op # "none"
    BY <1>0, <1>1, <2>2, CallEffect DEF OthersStay, Moved
  <2>3. CASE \E op, plans : job' = Call(r, op, 0, plans)
    BY <1>0, <1>1, <2>3, CallEffect DEF OthersStay, Moved
  <2>4. CASE job' = Idle(r)
    BY <1>0, <1>1, <2>4, IdleEffect DEF OthersStay, Moved
  <2> QED BY <2>1, <2>2, <2>3, <2>4 DEF HandlerMoved
<1>3. ASSUME NEW x \in Xids, Uses(r, x)' PROVE Uses(r, x)
  BY <1>0, <1>2, <1>3, ZeroIsNoXid DEF Uses
<1>4. TakesNone(r)
  BY <1>0, <1>3 DEF TakesNone, InSession, Moved
<1>5. LeavesAlone(r)
  BY <1>0, <1>3 DEF LeavesAlone, Abandoned
<1> QED BY <1>0, <1>2, <1>4, <1>5, HandlerEnds

LEMMA MovedTold ==
  ASSUME ServerInv, ToldInv, NEW r \in Reqs, NEW pc, HandlerMoved(r, pc), Told(r)'
  PROVE  ToldInv'
<1>1. txn' = txn /\ cut' = cut
  BY DEF HandlerMoved
<1> QED BY <1>1, MovedAlone, HandlerTold

LEMMA BatchSlotTold ==
  ASSUME ServerInv, ToldInv, NEW r \in Reqs, BatchSlot(r)
  PROVE  ToldInv'
<1>1. CallsOK /\ CallOK(r) /\ Told(r)
  BY DEF ServerInv, CallsOK, ToldInv
<1>2. /\ req[r].pc = "slot" /\ req[r].in.kind = "batch" /\ job[r].op = "none" /\ InBatch(r)
      /\ ~InSession(r) /\ txn' = txn /\ cut' = cut /\ sess' = sess
  BY <1>1 DEF BatchSlot, sessVars, CallOK, InBatch, InSession, InputOK, OneShotKinds
<1>3. /\ OwnOK(r) /\ AloneOK(r) /\ First(r) = req[r].i /\ ScriptOK(req[r].in)
      /\ req[r].i \in 1..Len(req[r].in.script)
      /\ \A x \in Xids : \A j \in Writes(r) : Has(x, r, j) => j < req[r].i
  BY <1>1, <1>2 DEF Told, OwnKinds, OwnOK, AloneOK, First
<1>4. Writes(r) \subseteq Nat /\ req[r].i \in Nat
  BY <1>3 DEF Writes, ScriptOK
<1>5. CASE /\ req[r].in.script[req[r].i].op \in {"denied", "read"}
           /\ \E res \in {"ok", "err"} : req' = SlotDone(r, res) /\ job' = job
  <2>1. PICK res \in {"ok", "err"} : req' = SlotDone(r, res) /\ job' = job
    BY <1>5
  <2>2. req[r].i \notin Writes(r)
    BY <1>5 DEF Writes
  <2>3. \A x \in Xids : \A j \in Writes(r) : Has(x, r, j) => j <= req[r].i
    BY <1>3, <1>4
  <2>4. \E pc \in {"done", "slot"} : HandlerMoved(r, pc)
    <3>1. \E pc \in {"done", "slot"} : Moved(r, pc)
      BY <1>1, <2>1, SlotDoneEffect
    <3> QED BY <1>2, <2>1, <3>1 DEF HandlerMoved
  <2>5. Told(r)'
    BY <1>2, <1>3, <2>1, <2>2, <2>3, <2>4, MovedAlone, SlotTold
  <2> QED BY <2>4, <2>5, MovedTold
<1>6. CASE req' = Goto(r, "begin") /\ job' = Call(r, "begin", 0, << >>)
  <2>1. WentOn(r, "begin") /\ Moved(r, "begin") /\ job'[r].out = "none"
    BY <1>1, <1>6, GotoGoesOn, CallEffect DEF WentOn
  <2>1a. HandlerMoved(r, "begin") /\ EndsStay
    <3>1. HandlerMoved(r, "begin")
      BY <1>2, <1>6, <2>1 DEF HandlerMoved
    <3> QED BY <3>1, MovedAlone
  <2>2. /\ Writes(r)' = Writes(r) /\ First(r)' = First(r) /\ InBatch(r)'
        /\ ~InSession(r)' /\ req'[r].in = req[r].in /\ req'[r].pc = "begin"
        /\ req'[r].i = req[r].i
        /\ \A x \in Xids : \A j : Has(x, r, j)' <=> Has(x, r, j)
        /\ SlotsOK(r)'
    BY <1>2, <1>3, <2>1, <2>1a, GoneOnSame DEF AloneOK
  <2>3. AloneOK(r)'
    BY <1>3, <2>1, <2>2 DEF AloneOK
  <2>4. OwnOK(r)'
    BY <1>2, <1>3, <2>1, <2>2, <2>3 DEF OwnOK, Outs, TextKinds
  <2>5. Told(r)'
    BY <1>2, <2>2, <2>4 DEF Told
  <2> QED BY <2>1a, <2>5, MovedTold
<1>7. CASE req' = Reply(r, "err") /\ job' = job
  <2>1. WentOn(r, "done") /\ Moved(r, "done") /\ req'[r].reply = "err"
    BY <1>1, <1>7, ReplyGoesOn DEF WentOn
  <2>2. HandlerMoved(r, "done") /\ EndsStay
    <3>1. HandlerMoved(r, "done")
      BY <1>2, <1>7, <2>1 DEF HandlerMoved
    <3> QED BY <3>1, MovedAlone
  <2>3. /\ InBatch(r)' /\ ~InSession(r)' /\ req'[r].in = req[r].in /\ req'[r].pc = "done"
        /\ SlotsOK(r)'
    BY <1>2, <1>3, <2>1, <2>2, GoneOnSame DEF AloneOK
  <2>4. OwnOK(r)'
    BY <1>3, <2>3 DEF OwnOK, AloneOK, Waiting
  <2>5. Told(r)'
    BY <1>2, <2>3, <2>4 DEF Told
  <2> QED BY <2>2, <2>5, MovedTold
<1> QED BY <1>5, <1>6, <1>7 DEF BatchSlot

LEMMA AfterBeginTold ==
  ASSUME ServerInv, ToldInv, NEW r \in Reqs, AfterBegin(r)
  PROVE  ToldInv'
<1>1. CallsOK /\ CallOK(r) /\ Told(r) /\ DOMAIN req = Reqs /\ DOMAIN req[r] = ReqFields
  BY DEF ServerInv, CallsOK, CallOK, ToldInv
<1>2. /\ req[r].pc = "begin" /\ job[r].op = "begin" /\ (job[r].out = "ok" => job[r].x \in Xids)
      /\ txn' = txn /\ cut' = cut /\ ~InSession(r)
      /\ \A x \in Xids : sess'[x] = sess[x] \/ Uses(r, x)
  <2>1. /\ req[r].pc = "begin" /\ job[r].op = "begin" /\ (job[r].out = "ok" => job[r].x \in Xids)
        /\ txn' = txn /\ cut' = cut /\ ~InSession(r)
    BY <1>1 DEF AfterBegin, Returned, CallOK, CallOf, Waiting
  <2>2. sess' = sess \/ sess' = [sess EXCEPT ![job[r].x] = req[r].in.user]
    BY DEF AfterBegin
  <2>3. DOMAIN sess = Xids
    BY DEF ServerInv, OwnersOK
  <2> QED BY <2>1, <2>2, <2>3 DEF Uses
<1>3. req[r].in.kind \notin {"commit", "rollback"}
  BY <1>1, <1>2 DEF Told, EndOK
<1>4. CASE /\ req[r].in.kind = "begin"
           /\ req' = [Reply(r, "ok") EXCEPT ![r].x = job[r].x] /\ job' = Idle(r)
  <2>1. Moved(r, "done") /\ HandlerMoved(r, "done")
    <3>1. Moved(r, "done")
      BY <1>1, <1>4 DEF Reply, ReqFields, Moved
    <3> QED BY <1>2, <1>4, <3>1 DEF HandlerMoved
  <2>2. Told(r)'
    BY <1>4, <2>1 DEF Told, Moved, OwnKinds
  <2> QED BY <2>1, <2>2, MovedTold
<1>5. ASSUME job[r].out = "ok", NEW pc \in {"exec", "abort"}, req' = [Goto(r, pc) EXCEPT ![r].x = job[r].x],
             NEW plans, job' = Call(r, pc, job[r].x, plans),
             pc = "exec" => plans = PlansOf(req[r].in, req[r].i)
      PROVE  ToldInv'
  <2>1. WentOn(r, pc) /\ Moved(r, pc) /\ req'[r].x = job[r].x
    BY <1>1, <1>5 DEF Goto, ReqFields, Moved, WentOn
  <2>2. /\ job'[r].op = pc /\ job'[r].x = job[r].x /\ job'[r].plans = plans /\ job'[r].k = 1
        /\ job'[r].st = "start" /\ job'[r].out = "none"
    BY <1>1, <1>5, CallEffect
  <2>2a. HandlerMoved(r, pc) /\ EndsStay
    <3>1. HandlerMoved(r, pc)
      BY <1>2, <1>5, <2>1 DEF HandlerMoved
    <3> QED BY <3>1, MovedAlone
  <2>3. /\ Writes(r)' = Writes(r) /\ First(r)' = First(r) /\ (InBatch(r)' <=> InBatch(r))
        /\ ~InSession(r)' /\ req'[r].in = req[r].in /\ req'[r].pc = pc /\ req'[r].i = req[r].i
        /\ \A x \in Xids : \A j : Has(x, r, j)' <=> Has(x, r, j)
        /\ \A x \in Xids : txn'[x].st = txn[x].st
        /\ InBatch(r) /\ SlotsOK(r) => SlotsOK(r)'
    BY <1>2, <2>1, <2>2a, GoneOnSame
  <2>4. ASSUME req[r].in.kind \in OwnKinds PROVE OwnOK(r)'
    <3>1. OwnOK(r) /\ AloneOK(r)
      BY <1>1, <1>2, <2>4 DEF Told, OwnOK
    <3>2. /\ \A x \in Xids : \A j \in Writes(r) : Has(x, r, j) => j < First(r)
          /\ txn[job[r].x].st = "open" /\ First(r) = req[r].i
          /\ ScriptOK(req[r].in) /\ req[r].i \in 1..Len(req[r].in.script)
      BY <1>2, <1>5, <3>1 DEF AloneOK, OwnOK
    <3>3. Writes(r) \subseteq Nat /\ First(r) \in Nat /\ req[r].i \in Nat
      BY <3>2 DEF Writes, ScriptOK
    <3>4. OnlyHere(r)'
      BY <2>3, <3>2, <3>3 DEF OnlyHere
    <3>5. AloneOK(r)'
      <4>1. EndedAs(r, "aborted")'
        BY <1>2, <2>2, <3>2 DEF EndedAs, AcksEnd
      <4> QED BY <1>2, <1>5, <2>1, <2>2, <2>3, <3>1, <3>2, <3>4, <4>1 DEF AloneOK
    <3>6. pc = "exec" => ExecOK(r)'
      <4> SUFFICES ASSUME pc = "exec" PROVE ExecOK(r)'
        OBVIOUS
      <4>1. job'[r].plans = PlansOf(req'[r].in, req'[r].i)
        BY <1>5, <2>2, <2>3
      <4>2. 1 \in 1..Len(plans)
        <5>1. Len(req[r].in.script) \in Nat \ {0}
          BY <3>2 DEF ScriptOK
        <5>2. plans = req[r].in.script \/ plans = <<req[r].in.script[req[r].i]>>
          BY <1>5 DEF PlansOf
        <5>3. Len(plans) \in Nat \ {0}
          BY <5>1, <5>2
        <5> QED BY <5>3
      <4>3. At(r)' = req[r].i
        BY <2>2, <2>3, <3>3 DEF At
      <4>4. Covered(r, At(r))'
        BY <2>3, <3>2, <3>3, <4>3 DEF Covered
      <4> QED BY <2>2, <4>1, <4>2, <4>4 DEF ExecOK
    <3> QED BY <1>2, <2>2, <2>3, <3>1, <3>2, <3>5, <3>6 DEF OwnOK, Outs
  <2>5. Told(r)'
    BY <1>3, <2>3, <2>4 DEF Told
  <2> QED BY <2>2a, <2>5, MovedTold
<1>6. CASE req' = Reply(r, "err") /\ job' = Idle(r)
  <2>1. WentOn(r, "done") /\ Moved(r, "done") /\ req'[r].reply = "err"
    BY <1>1, <1>6, ReplyGoesOn DEF WentOn
  <2>2. HandlerMoved(r, "done") /\ EndsStay
    <3>1. HandlerMoved(r, "done")
      BY <1>2, <1>6, <2>1 DEF HandlerMoved
    <3> QED BY <3>1, MovedAlone
  <2>3. /\ Writes(r)' = Writes(r) /\ (InBatch(r)' <=> InBatch(r))
        /\ ~InSession(r)' /\ req'[r].in = req[r].in /\ req'[r].pc = "done"
        /\ \A x \in Xids : \A j : Has(x, r, j)' <=> Has(x, r, j)
        /\ InBatch(r) /\ SlotsOK(r) => SlotsOK(r)'
    BY <1>2, <2>1, <2>2, GoneOnSame
  <2>4. ASSUME req[r].in.kind \in OwnKinds PROVE OwnOK(r)'
    <3>1. OwnOK(r) /\ AloneOK(r)
      BY <1>1, <1>2, <2>4 DEF Told, OwnOK
    <3>2. ASSUME ~InBatch(r), NEW j \in Writes(r) PROVE Lost(r, j)'
      <4>1. j \in Nat \ {0} /\ First(r) = 1
        BY <3>1, <3>2 DEF OwnOK, ScriptOK, Writes, First
      <4>2. \A x \in Xids : Has(x, r, j) => j < First(r)
        BY <1>2, <3>1, <3>2 DEF AloneOK
      <4>3. \A x \in Xids : ~Has(x, r, j)
        BY <4>1, <4>2
      <4> QED BY <2>3, <4>3 DEF Lost
    <3>3. AloneOK(r)'
      BY <2>1, <2>3, <3>1, <3>2 DEF AloneOK, Decided
    <3> QED BY <2>3, <3>1, <3>3 DEF OwnOK, Waiting
  <2>5. Told(r)'
    BY <1>3, <2>3, <2>4 DEF Told
  <2> QED BY <2>2, <2>5, MovedTold
<1> QED BY <1>4, <1>5, <1>6 DEF AfterBegin

\* finish, finish_scoped and the tail of post_sql.
LEMMA AfterExecTold ==
  ASSUME ServerInv, ToldInv, NEW r \in Reqs, AfterExec(r)
  PROVE  ToldInv'
<1> DEFINE next == req[r].in.script[req[r].i + 1]
<1>1. CallsOK /\ CallOK(r) /\ Told(r) /\ DOMAIN req = Reqs /\ DOMAIN req[r] = ReqFields
  BY DEF ServerInv, CallsOK, CallOK, ToldInv
<1>2. /\ req[r].pc = "exec" /\ job[r].op = "exec" /\ job[r].out # "none" /\ job[r].x \in Xids
      /\ req[r].x = job[r].x /\ txn' = txn /\ cut' = cut /\ sess' = sess
  BY <1>1 DEF AfterExec, Returned, CallOK, CallOf, Acting, Waiting
<1>3. req[r].in.kind \notin {"commit", "rollback"}
  BY <1>1, <1>2 DEF Told, EndOK
<1>4. ASSUME req[r].in.kind \in OwnKinds
      PROVE  /\ OwnOK(r) /\ ScriptOK(req[r].in) /\ req[r].i \in 1..Len(req[r].in.script)
             /\ Writes(r) \subseteq 1..Len(req[r].in.script) /\ Len(req[r].in.script) \in Nat
             /\ job[r].out = "ok" => Covered(r, req[r].i + Len(job[r].plans))
             /\ IF req[r].in.kind \in TextKinds
                  THEN req[r].i = 1 /\ Len(job[r].plans) = Len(req[r].in.script)
                  ELSE Len(job[r].plans) = 1
             /\ ~InSession(r) => AloneOK(r) /\ OnlyHere(r) /\ txn[req[r].x].st = "open"
             /\ InSession(r) => HeldOK(r) /\ ~InBatch(r) /\ req[r].x = req[r].in.target
  <2>1. OwnOK(r) /\ ExecOK(r)
    BY <1>1, <1>2, <1>4 DEF Told, OwnOK
  <2>2. /\ ScriptOK(req[r].in) /\ req[r].i \in 1..Len(req[r].in.script)
        /\ job[r].out = "ok" => Covered(r, req[r].i + Len(job[r].plans))
        /\ ~InSession(r) => AloneOK(r)
        /\ InSession(r) => HeldOK(r)
    BY <1>2, <2>1 DEF OwnOK, ExecOK
  <2>3. IF req[r].in.kind \in TextKinds
          THEN req[r].i = 1 /\ Len(job[r].plans) = Len(req[r].in.script)
          ELSE Len(job[r].plans) = 1
    BY <1>2, <1>4, <2>1, StatementAt
  <2>4. ~InSession(r) => OnlyHere(r) /\ txn[req[r].x].st = "open"
    BY <1>2, <2>2 DEF AloneOK
  <2>5. InSession(r) => ~InBatch(r) /\ req[r].x = req[r].in.target
    BY <1>1, <1>2 DEF CallOK, InputOK, OneShotKinds, InSession, InBatch, Waiting
  <2>6. Writes(r) \subseteq 1..Len(req[r].in.script) /\ Len(req[r].in.script) \in Nat
    BY <2>2 DEF Writes, ScriptOK
  <2> QED BY <2>1, <2>2, <2>3, <2>4, <2>5, <2>6
<1>5. CASE /\ job[r].out = "ok" /\ More(r) /\ req' = [req EXCEPT ![r].i = @ + 1]
           /\ job' = Call(r, "exec", req[r].x, <<next>>)
  <2>1. /\ Moved(r, "exec") /\ req'[r].x = req[r].x /\ req'[r].i = req[r].i + 1
        /\ req'[r].slots = req[r].slots
    BY <1>1, <1>2, <1>5 DEF ReqFields, Moved
  <2>2. /\ job'[r].op = "exec" /\ job'[r].x = job[r].x /\ job'[r].plans = <<next>> /\ job'[r].k = 1
        /\ job'[r].st = "start" /\ job'[r].out = "none"
    <3> HIDE DEF next
    <3> QED BY <1>1, <1>2, <1>5, CallEffect
  <2>3. /\ req[r].in.kind \in {"rows", "rpc", "rest"} /\ req[r].in.kind \in OwnKinds \ TextKinds
        /\ ~InBatch(r) /\ req[r].i < Len(req[r].in.script)
    BY <1>5 DEF More, OwnKinds, TextKinds, InBatch
  <2>4. /\ Writes(r)' = Writes(r) /\ First(r)' = 1 /\ First(r) = 1 /\ ~InBatch(r)'
        /\ (InSession(r)' <=> InSession(r)) /\ req'[r].in = req[r].in /\ req'[r].pc = "exec"
        /\ \A x \in Xids : \A j : Has(x, r, j)' <=> Has(x, r, j)
    BY <1>2, <2>1, <2>3, SameWrites DEF First, InBatch, InSession, Moved, Has
  <2>5. At(r)' = req[r].i + 1 /\ req[r].i + 1 \in 1..Len(req[r].in.script)
    BY <1>4, <2>1, <2>2, <2>3 DEF At
  <2>6. ExecOK(r)'
    <3>1. job'[r].plans = PlansOf(req'[r].in, req'[r].i)
      BY <2>1, <2>2, <2>3, <2>4 DEF PlansOf, TextKinds
    <3>2. job'[r].k \in 1..Len(job'[r].plans)
      BY <2>2
    <3>3. Covered(r, req[r].i + 1)
      BY <1>4, <1>5, <2>3
    <3>4. Covered(r, At(r))'
      BY <1>2, <2>1, <2>4, <2>5, <3>3 DEF Covered, Has
    <3> QED BY <2>2, <3>1, <3>2, <3>4 DEF ExecOK
  <2>7. InSession(r) => HeldOK(r)'
    BY <1>2, <1>4, <2>3, <2>4 DEF HeldOK
  <2>8. ~InSession(r) => AloneOK(r)'
    <3>1. ~InSession(r) => OnlyHere(r)'
      BY <1>4, <2>1, <2>3, <2>4 DEF OnlyHere
    <3> QED BY <1>2, <1>4, <2>1, <2>3, <2>4, <3>1 DEF AloneOK
  <2>9. OwnOK(r)'
    BY <1>4, <2>1, <2>2, <2>3, <2>4, <2>5, <2>6, <2>7, <2>8 DEF OwnOK, Outs
  <2>10. Told(r)'
    BY <1>3, <2>4, <2>9 DEF Told
  <2>11. HandlerMoved(r, "exec")
    BY <1>2, <1>5, <2>1 DEF HandlerMoved
  <2> QED BY <2>10, <2>11, MovedTold
<1>6. ASSUME NEW pc \in {"abort", "commit"}, req' = Goto(r, pc), job' = Call(r, pc, req[r].x, << >>),
             pc = "commit" => job[r].out = "ok" /\ ~More(r) /\ ~InSession(r)
      PROVE  ToldInv'
  <2>1. WentOn(r, pc) /\ Moved(r, pc) /\ req'[r].x = req[r].x
    BY <1>1, <1>6, GotoGoesOn DEF WentOn
  <2>2. /\ job'[r].op = pc /\ job'[r].x = job[r].x /\ job'[r].out = "none"
        /\ job'[r].st = "start"
    BY <1>1, <1>2, <1>6, CallEffect
  <2>2a. HandlerMoved(r, pc) /\ EndsStay
    <3>1. HandlerMoved(r, pc)
      BY <1>2, <1>6, <2>1 DEF HandlerMoved
    <3> QED BY <3>1, MovedAlone
  <2>3. /\ Writes(r)' = Writes(r) /\ First(r)' = First(r) /\ (InBatch(r)' <=> InBatch(r))
        /\ (InSession(r)' <=> InSession(r)) /\ req'[r].in = req[r].in /\ req'[r].pc = pc
        /\ req'[r].i = req[r].i
        /\ \A x \in Xids : \A j : Has(x, r, j)' <=> Has(x, r, j)
        /\ \A x \in Xids : txn'[x].st = txn[x].st
        /\ InBatch(r) /\ SlotsOK(r) => SlotsOK(r)'
    BY <1>2, <2>1, <2>2a, GoneOnSame
  <2>4. ASSUME req[r].in.kind \in OwnKinds PROVE OwnOK(r)'
    <3>1. InSession(r) => HeldOK(r)'
      <4> SUFFICES ASSUME InSession(r) PROVE HeldOK(r)'
        OBVIOUS
      <4>1. pc = "abort" /\ HeldOK(r)
        BY <1>4, <1>6, <2>4
      <4> QED BY <1>2, <2>3, <4>1 DEF HeldOK
    <3>2. ~InSession(r) => AloneOK(r)'
      <4> SUFFICES ASSUME ~InSession(r) PROVE AloneOK(r)'
        OBVIOUS
      <4>1. AloneOK(r) /\ OnlyHere(r) /\ txn[req[r].x].st = "open"
        BY <1>4, <2>4
      <4>2. OnlyHere(r)'
        BY <2>1, <2>3, <4>1 DEF OnlyHere
      <4> DEFINE n == IF InBatch(r) THEN req[r].i + 1 ELSE Len(req[r].in.script) + 1
      <4>3. pc = "commit" => Covered(r, n)
        <5> SUFFICES ASSUME pc = "commit" PROVE Covered(r, n)
          OBVIOUS
        <5>1. Covered(r, req[r].i + Len(job[r].plans))
          BY <1>4, <1>6, <2>4
        <5>2. CASE req[r].in.kind \in TextKinds
          <6>1. n = req[r].i + Len(job[r].plans)
            BY <1>4, <2>4, <5>2 DEF InBatch, TextKinds
          <6> QED BY <5>1, <6>1
        <5>3. CASE InBatch(r)
          <6>1. n = req[r].i + Len(job[r].plans)
            BY <1>4, <2>4, <5>3 DEF InBatch, TextKinds
          <6> QED BY <5>1, <6>1
        <5>4. CASE req[r].in.kind \in {"rows", "rpc", "rest"}
          <6>1. req[r].i = Len(req[r].in.script) /\ Len(job[r].plans) = 1 /\ ~InBatch(r)
            BY <1>4, <1>6, <2>4, <5>4 DEF More, TextKinds, InBatch
          <6>2. n = req[r].i + Len(job[r].plans)
            BY <6>1
          <6> QED BY <5>1, <6>2
        <5> QED BY <2>4, <5>2, <5>3, <5>4 DEF OwnKinds, TextKinds, InBatch
      <4>4. pc = "commit" =>
              Covered(r, IF InBatch(r) THEN req[r].i + 1 ELSE Len(req[r].in.script) + 1)'
        BY <1>2, <2>1, <2>3, <4>3 DEF Covered, Has
      <4> HIDE DEF n
      <4>5. EndedAs(r, "committed")' /\ EndedAs(r, "aborted")'
        BY <1>2, <2>2, <4>1 DEF EndedAs, AcksEnd
      <4> QED BY <1>2, <2>1, <2>2, <2>3, <4>1, <4>2, <4>4, <4>5 DEF AloneOK
    <3> QED BY <1>2, <1>4, <2>2, <2>3, <2>4, <3>1, <3>2 DEF OwnOK, Outs
  <2>5. Told(r)'
    BY <1>3, <2>3, <2>4 DEF Told
  <2> QED BY <2>2a, <2>5, MovedTold
<1>7. CASE /\ InSession(r) /\ (IF job[r].out = "ok" THEN ~More(r) ELSE ~AbortsOnError(r))
           /\ req' = Reply(r, job[r].out) /\ job' = Idle(r)
  <2>1. WentOn(r, "done") /\ Moved(r, "done") /\ req'[r].reply = job[r].out
    BY <1>1, <1>7, ReplyGoesOn DEF WentOn
  <2>1a. HandlerMoved(r, "done") /\ EndsStay
    <3>1. HandlerMoved(r, "done")
      BY <1>2, <1>7, <2>1 DEF HandlerMoved
    <3> QED BY <3>1, MovedAlone
  <2>2. /\ Writes(r)' = Writes(r) /\ (InSession(r)' <=> InSession(r)) /\ req'[r].in = req[r].in
        /\ req'[r].pc = "done" /\ \A x \in Xids : \A j : Has(x, r, j)' <=> Has(x, r, j)
    BY <1>2, <2>1, <2>1a, GoneOnSame
  <2>3. ASSUME req[r].in.kind \in OwnKinds PROVE OwnOK(r)'
    <3>1. /\ HeldOK(r) /\ ~InBatch(r) /\ req[r].x = req[r].in.target /\ First(r) = 1
          /\ req[r].i \in 1..Len(req[r].in.script)
          /\ Writes(r) \subseteq 1..Len(req[r].in.script) /\ Len(req[r].in.script) \in Nat
      BY <1>4, <1>7, <2>3 DEF First
    <3>2. ASSUME job[r].out = "ok", NEW j \in Writes(r) PROVE Has(req[r].in.target, r, j)
      <4>1. Covered(r, req[r].i + Len(job[r].plans))
        BY <1>4, <2>3, <3>2
      <4>2. req[r].i + Len(job[r].plans) = Len(req[r].in.script) + 1
        <5>1. CASE req[r].in.kind \in TextKinds
          BY <1>4, <2>3, <3>1, <5>1
        <5>2. CASE req[r].in.kind \in {"rows", "rpc", "rest"}
          <6>1. req[r].i = Len(req[r].in.script) /\ Len(job[r].plans) = 1
            BY <1>4, <1>7, <2>3, <3>1, <3>2, <5>2 DEF More, TextKinds
          <6> QED BY <6>1
        <5> QED BY <2>3, <3>1, <5>1, <5>2 DEF OwnKinds, TextKinds, InBatch
      <4> QED BY <3>1, <3>2, <4>1, <4>2 DEF Covered
    <3>3. HeldOK(r)'
      BY <1>7, <2>1, <2>2, <3>1, <3>2 DEF HeldOK
    <3> QED BY <1>4, <1>7, <2>2, <2>3, <3>3 DEF OwnOK, Waiting
  <2>4. Told(r)'
    BY <1>3, <2>2, <2>3 DEF Told
  <2> QED BY <2>1a, <2>4, MovedTold
<1> QED BY <1>5, <1>6, <1>7 DEF AfterExec

\* finish: what the end of the transaction at hand means for its statements.
LEMMA EndDecides ==
  ASSUME ServerInv, ToldInv, NEW r \in Reqs, NEW p \in {"commit", "abort"}, Returned(r, p),
         ~InSession(r), req[r].in.kind \in OwnKinds,
         NEW pc, HandlerMoved(r, pc), sess' = sess, job'[r].op = "none"
  PROVE  /\ OwnOK(r) /\ AloneOK(r) /\ job[r].out \in {"ok", "err", "late"}
         /\ Writes(r) \subseteq Nat \ {0} /\ req[r].i \in Nat
         /\ \A j \in Writes(r) : First(r) <= j /\ (InBatch(r) => j = req[r].i) =>
              /\ p = "commit" /\ job[r].out = "ok" => Durable(r, j)'
              /\ p = "abort" \/ job[r].out = "err" => Lost(r, j)'
         /\ p = "commit" /\ job[r].out = "late" /\ ~InBatch(r) => Together(r)'
         /\ InBatch(r) => \A x \in Xids : \A j \in Writes(r) : Has(x, r, j) => j <= req[r].i
<1>1. CallsOK /\ OwnersOK /\ CutOK /\ CallOK(r) /\ Told(r)
  BY DEF ServerInv, CallsOK, ToldInv
<1>2. req[r].pc = p /\ job[r].op = p /\ job[r].out # "none" /\ job[r].x \in Xids /\ req[r].x = job[r].x
  BY <1>1 DEF Returned, CallOK, CallOf, Acting, Waiting
<1>3. OwnOK(r) /\ AloneOK(r) /\ job[r].out \in {"ok", "err", "late"}
  BY <1>1, <1>2 DEF Told, OwnOK, Waiting, Outs
<1>4. OnlyHere(r) /\ ScriptOK(req[r].in) /\ req[r].i \in 1..Len(req[r].in.script)
  BY <1>2, <1>3 DEF AloneOK, OwnOK
<1>5. /\ Writes(r) \subseteq 1..Len(req[r].in.script) /\ First(r) \in Nat /\ req[r].i \in Nat
      /\ Len(req[r].in.script) \in Nat
  BY <1>4 DEF Writes, ScriptOK, First
<1>6. /\ txn' = txn /\ cut' = cut /\ OthersStay(r) /\ req'[r].in = req[r].in
      /\ \A x \in Xids : \A j : Has(x, r, j)' <=> Has(x, r, j)
  BY MovedAlone DEF HandlerMoved, Moved, Has
<1>7. p = "commit" =>
        /\ EndedAs(r, "committed")
        /\ Covered(r, IF InBatch(r) THEN req[r].i + 1 ELSE Len(req[r].in.script) + 1)
  BY <1>2, <1>3 DEF AloneOK
<1>8. p = "abort" => EndedAs(r, "aborted")
  BY <1>2, <1>3 DEF AloneOK
<1>9. ASSUME p = "abort" \/ job[r].out = "err", NEW y \in Xids, y = req[r].x PROVE Dead(y)'
  <2>1. txn[y].st \in {"open", "aborted"}
    BY <1>2, <1>3, <1>7, <1>8, <1>9 DEF EndedAs, AcksEnd
  <2>2. Uses(r, y)
    BY <1>2, <1>9 DEF Uses
  <2>3. sess[y] = NoOne /\ y \notin cut
    BY <1>1, <2>2 DEF OwnersOK, CutOK
  <2>4. ASSUME NEW q \in Reqs, Uses(q, y)' PROVE FALSE
    <3>1. q # r
      BY <2>4 DEF Uses
    <3>2. Uses(q, y)
      BY <1>6, <2>4, <3>1 DEF OthersStay, Uses
    <3> QED BY <1>1, <2>2, <3>1, <3>2 DEF OwnersOK
  <2> QED BY <1>6, <2>1, <2>3, <2>4 DEF Dead, Abandoned
<1>10. ASSUME p = "commit", NEW j \in Writes(r), First(r) <= j, InBatch(r) => j = req[r].i
       PROVE  Has(req[r].x, r, j)
  <2>1. j < IF InBatch(r) THEN req[r].i + 1 ELSE Len(req[r].in.script) + 1
    BY <1>5, <1>10
  <2> QED BY <1>7, <1>10, <2>1 DEF Covered
<1>11. ASSUME NEW j \in Writes(r), First(r) <= j, InBatch(r) => j = req[r].i
       PROVE  /\ p = "commit" /\ job[r].out = "ok" => Durable(r, j)'
              /\ p = "abort" \/ job[r].out = "err" => Lost(r, j)'
  <2>1. ASSUME p = "commit", job[r].out = "ok" PROVE Durable(r, j)'
    <3>1. txn[req[r].x].st = "committed" /\ Has(req[r].x, r, j)
      BY <1>2, <1>7, <1>10, <1>11, <2>1 DEF EndedAs, AcksEnd
    <3> QED BY <1>2, <1>6, <3>1 DEF Durable, Has
  <2>2. ASSUME p = "abort" \/ job[r].out = "err" PROVE Lost(r, j)'
    <3>1. \A x \in Xids : Has(x, r, j) => x = req[r].x
      BY <1>4, <1>11 DEF OnlyHere
    <3>2. \A x \in Xids : x = req[r].x => Dead(x)'
      BY <1>9, <2>2
    <3> QED BY <1>6, <3>1, <3>2 DEF Lost
  <2> QED BY <2>1, <2>2
<1>12. ASSUME p = "commit", ~InBatch(r) PROVE Together(r)'
  <2>1. Writes(r)' = Writes(r) /\ First(r) = 1
    BY <1>6, <1>12, SameWrites DEF First
  <2>2. ASSUME NEW j \in Writes(r)
        PROVE  Has(req[r].x, r, j) /\ \A y \in Xids : Has(y, r, j) => y = req[r].x
    <3>1. First(r) <= j
      BY <1>5, <2>1, <2>2
    <3> QED BY <1>4, <1>10, <1>12, <2>2, <3>1 DEF OnlyHere
  <2> QED BY <1>2, <1>6, <2>1, <2>2 DEF Together
<1>13. ASSUME InBatch(r), NEW x \in Xids, NEW j \in Writes(r), Has(x, r, j) PROVE j <= req[r].i
  <2>1. First(r) = req[r].i /\ j \in Nat
    BY <1>5, <1>13 DEF First
  <2>2. First(r) <= j => j = req[r].i
    BY <1>4, <1>13 DEF OnlyHere
  <2> QED BY <1>5, <2>1, <2>2
<1>14. Writes(r) \subseteq Nat \ {0}
  BY <1>5
<1> QED BY <1>3, <1>5, <1>11, <1>12, <1>13, <1>14

\* The reply of a request outside sessions, and of a slot.
LEMMA AnswerTold ==
  ASSUME ServerInv, ToldInv, NEW r \in Reqs, NEW p \in {"commit", "abort"}, Returned(r, p),
         ~InSession(r), NEW res,
         res = IF p = "commit" THEN job[r].out ELSE "err",
         req' = IF req[r].in.kind = "batch" THEN SlotDone(r, res) ELSE Reply(r, res),
         job' = Idle(r), txn' = txn, cut' = cut, sess' = sess
  PROVE  ToldInv'
<1>1. CallsOK /\ Told(r) /\ CallOK(r) /\ req[r].pc = p
  BY DEF ServerInv, CallsOK, ToldInv, Returned
<1>2. job'[r].op = "none" /\ req[r].pc \notin {"new", "gone", "done"}
  BY <1>1, IdleEffect
<1>3. req[r].in.kind \notin {"commit", "rollback"}
  BY <1>1 DEF Told, EndOK
<1>4. CASE req[r].in.kind = "batch"
  <2>1. InBatch(r) /\ req[r].in.kind \in OwnKinds /\ First(r) = req[r].i /\ req' = SlotDone(r, res)
    BY <1>4 DEF InBatch, OwnKinds, First
  <2>2. PICK pc \in {"done", "slot"} : HandlerMoved(r, pc)
    <3>1. \E pc \in {"done", "slot"} : Moved(r, pc)
      BY <1>1, <2>1, SlotDoneEffect
    <3> QED BY <1>2, <3>1 DEF HandlerMoved
  <2>3. /\ OwnOK(r) /\ AloneOK(r) /\ job[r].out \in {"ok", "err", "late"} /\ req[r].i \in Nat
        /\ \A x \in Xids : \A j \in Writes(r) : Has(x, r, j) => j <= req[r].i
        /\ \A j \in Writes(r) : First(r) <= j /\ (InBatch(r) => j = req[r].i) =>
             /\ p = "commit" /\ job[r].out = "ok" => Durable(r, j)'
             /\ p = "abort" \/ job[r].out = "err" => Lost(r, j)'
    BY <1>2, <2>1, <2>2, EndDecides
  <2>4. res \in {"ok", "err", "late"}
    BY <2>3
  <2>5. ASSUME NEW j \in Writes(r), j = req[r].i, res # "late"
        PROVE  IF res = "ok" THEN Durable(r, j)' ELSE Lost(r, j)'
    BY <2>1, <2>3, <2>5
  <2>6. EndsStay
    BY <2>2, MovedAlone
  <2>7. Told(r)'
    BY <1>2, <2>1, <2>3, <2>4, <2>5, <2>6, SlotTold
  <2> QED BY <2>2, <2>7, MovedTold
<1>5. CASE req[r].in.kind # "batch"
  <2>1. WentOn(r, "done") /\ Moved(r, "done") /\ req'[r].reply = res
    BY <1>1, <1>5, ReplyGoesOn DEF WentOn
  <2>2. HandlerMoved(r, "done") /\ EndsStay
    <3>1. HandlerMoved(r, "done")
      BY <1>2, <2>1 DEF HandlerMoved
    <3> QED BY <3>1, MovedAlone
  <2>3. /\ Writes(r)' = Writes(r) /\ ~InSession(r)' /\ req'[r].in = req[r].in
        /\ req'[r].pc = "done" /\ ~InBatch(r)' /\ ~InBatch(r) /\ First(r) = 1
    BY <1>5, <2>1, <2>2, GoneOnSame DEF InBatch, First
  <2>4. ASSUME req[r].in.kind \in OwnKinds PROVE OwnOK(r)'
    <3>1. /\ OwnOK(r) /\ job[r].out \in {"ok", "err", "late"} /\ Writes(r) \subseteq Nat \ {0}
          /\ \A j \in Writes(r) : First(r) <= j /\ (InBatch(r) => j = req[r].i) =>
               /\ p = "commit" /\ job[r].out = "ok" => Durable(r, j)'
               /\ p = "abort" \/ job[r].out = "err" => Lost(r, j)'
          /\ p = "commit" /\ job[r].out = "late" /\ ~InBatch(r) => Together(r)'
      BY <1>2, <2>2, <2>4, EndDecides
    <3>2. ASSUME NEW j \in Writes(r), res # "late" PROVE IF res = "ok" THEN Durable(r, j)' ELSE Lost(r, j)'
      <4>1. First(r) <= j
        BY <2>3, <3>1
      <4> QED BY <2>3, <3>1, <3>2, <4>1
    <3>3. res = "late" => Together(r)'
      BY <2>3, <3>1
    <3>4. AloneOK(r)'
      BY <2>1, <2>3, <3>2, <3>3 DEF AloneOK, Decided
    <3> QED BY <2>3, <3>1, <3>4 DEF OwnOK, Waiting
  <2>5. Told(r)'
    BY <1>3, <2>3, <2>4 DEF Told
  <2> QED BY <2>2, <2>5, MovedTold
<1> QED BY <1>4, <1>5

\* post_txn_commit, post_txn_rollback: the reply that ends a session.
LEMMA EndTold ==
  ASSUME ServerInv, ToldInv, NEW r \in Reqs, NEW p \in {"commit", "abort", "reabort"}, Returned(r, p),
         InSession(r), NEW res, req' = Reply(r, res), job' = Idle(r), txn' = txn, cut' = cut,
         \A x \in Xids : sess'[x] \in {sess[x], NoOne},
         req[r].in.kind \in OwnKinds \cup {"commit", "rollback"} /\ res = "ok" =>
           /\ p # "reabort" /\ job[r].out = "ok"
           /\ req[r].in.kind = IF p = "commit" THEN "commit" ELSE "rollback"
  PROVE  ToldInv'
<1>1. CallsOK /\ Told(r) /\ CallOK(r) /\ req[r].pc = p
  BY DEF ServerInv, CallsOK, ToldInv, Returned
<1>2. /\ req[r].x = job[r].x /\ job[r].x \in Xids /\ req[r].x = req[r].in.target
      /\ req[r].pc \notin {"new", "gone", "done"}
  BY <1>1 DEF CallOK, CallOf, Acting, Waiting
<1>3. WentOn(r, "done") /\ Moved(r, "done") /\ req'[r].reply = res
  BY <1>1, ReplyGoesOn DEF WentOn
<1>3a. HandlerMoved(r, "done") /\ EndsStay
  <2>1. HandlerMoved(r, "done")
    BY <1>2, <1>3 DEF HandlerMoved
  <2> QED BY <2>1, MovedAlone
<1>4. /\ Writes(r)' = Writes(r) /\ InSession(r)' /\ req'[r].in = req[r].in /\ req'[r].pc = "done"
      /\ \A x \in Xids : \A j : Has(x, r, j)' <=> Has(x, r, j)
  BY <1>3, <1>3a, GoneOnSame
<1>5. ASSUME req[r].in.kind \in OwnKinds PROVE OwnOK(r)'
  <2>1. OwnOK(r) /\ HeldOK(r)
    BY <1>1, <1>2, <1>5 DEF Told, OwnOK
  <2>2. res # "ok"
    BY <1>5 DEF OwnKinds
  <2>3. HeldOK(r)'
    BY <1>3, <1>4, <2>1, <2>2 DEF HeldOK
  <2> QED BY <1>4, <2>1, <2>3 DEF OwnOK, Waiting
<1>6. ASSUME req[r].in.kind \in {"commit", "rollback"} PROVE EndOK(r)'
  <2>1. EndOK(r)
    BY <1>1, <1>2, <1>6 DEF Told
  <2>2. res = "ok" => txn[req[r].x].st = IF req[r].in.kind = "commit" THEN "committed" ELSE "aborted"
    BY <1>1, <1>2, <1>6, <2>1 DEF EndOK, AcksEnd
  <2> QED BY <1>2, <1>3, <1>4, <2>2 DEF EndOK
<1>7. Told(r)'
  BY <1>4, <1>5, <1>6 DEF Told
<1> QED BY <1>3a, <1>7, MovedTold

LEMMA AfterCommitTold ==
  ASSUME ServerInv, ToldInv, NEW r \in Reqs, AfterCommit(r)
  PROVE  ToldInv'
<1>1. /\ CallsOK /\ Told(r) /\ CallOK(r) /\ Returned(r, "commit") /\ txn' = txn /\ cut' = cut
      /\ DOMAIN req = Reqs /\ DOMAIN req[r] = ReqFields
  BY DEF ServerInv, CallsOK, CallOK, ToldInv, AfterCommit
<1>2. /\ req[r].pc = "commit" /\ req[r].x = job[r].x /\ job[r].op # "none" /\ job[r].out # "none"
      /\ \A x \in Xids : sess'[x] \in {sess[x], NoOne}
  <2>1. DOMAIN sess = Xids
    BY DEF ServerInv, OwnersOK
  <2>2. sess' = sess \/ sess' = [sess EXCEPT ![req[r].x] = NoOne]
    BY DEF AfterCommit, EndSession
  <2> QED BY <1>1, <2>1, <2>2 DEF CallOK, CallOf, Acting, Waiting, Returned
<1>3. InSession(r) => req[r].in.kind \notin OwnKinds \cup {"rollback"}
  BY <1>1, <1>2 DEF Told, OwnOK, HeldOK, EndOK
<1>4. CASE InSession(r) /\ job[r].out = "ok" /\ req' = Reply(r, "ok") /\ job' = Idle(r)
  <2>1. CASE req[r].in.kind = "commit"
    BY <1>1, <1>2, <1>4, <2>1, EndTold DEF OwnKinds
  <2>2. CASE req[r].in.kind # "commit"
    <3>1. Moved(r, "done")
      BY <1>1, <1>4, ReplyEffect
    <3>2. Told(r)'
      BY <1>3, <1>4, <2>2, <3>1 DEF Told, Moved
    <3>3. HandlerMoved(r, "done")
      BY <1>1, <1>2, <1>4, <3>1 DEF HandlerMoved
    <3> QED BY <3>2, <3>3, MovedTold
  <2> QED BY <2>1, <2>2
<1>5. CASE /\ InSession(r) /\ job[r].out # "ok"
           /\ req' = [Goto(r, "reabort") EXCEPT ![r].reply = job[r].out]
           /\ job' = Call(r, "abort", req[r].x, << >>)
  <2>1. Moved(r, "reabort") /\ req'[r].reply # "ok"
    BY <1>1, <1>5 DEF Goto, ReqFields, Moved
  <2>2. EndOK(r)' \/ req[r].in.kind # "commit"
    BY <1>5, <2>1 DEF EndOK, Moved, InSession
  <2>3. Told(r)'
    BY <1>3, <1>5, <2>1, <2>2 DEF Told, Moved
  <2>4. HandlerMoved(r, "reabort")
    BY <1>1, <1>2, <1>5, <2>1 DEF HandlerMoved
  <2> QED BY <2>3, <2>4, MovedTold
<1>6. CASE /\ ~InSession(r) /\ job' = Idle(r) /\ sess' = sess
           /\ req' = IF req[r].in.kind = "batch" THEN SlotDone(r, FinishReply(r))
                                                 ELSE Reply(r, FinishReply(r))
  <2>1. PICK res : res = job[r].out
    OBVIOUS
  <2>2. req' = IF req[r].in.kind = "batch" THEN SlotDone(r, res) ELSE Reply(r, res)
    BY <1>6, <2>1 DEF FinishReply
  <2> QED BY <1>1, <1>6, <2>1, <2>2, AnswerTold
<1> QED BY <1>4, <1>5, <1>6 DEF AfterCommit

LEMMA AfterAbortTold ==
  ASSUME ServerInv, ToldInv, NEW r \in Reqs, AfterAbort(r)
  PROVE  ToldInv'
<1>1. CallsOK /\ Told(r) /\ CallOK(r) /\ txn' = txn /\ cut' = cut /\ job' = Idle(r)
  BY DEF ServerInv, CallsOK, ToldInv, AfterAbort
<1>2. PICK p \in {"abort", "reabort"} : Returned(r, p)
  BY DEF AfterAbort
<1>3. /\ req[r].pc = p /\ InputOK(req[r].in) /\ req[r].pc \notin {"new", "gone", "done"}
  BY <1>1, <1>2 DEF Returned, CallOK
<1>4. CASE InSession(r)
  <2>1. req[r].in.kind # "batch"
    BY <1>3, <1>4 DEF InputOK, OneShotKinds, InSession
  <2>2. PICK res :
          /\ req' = Reply(r, res)
          /\ res = IF req[r].in.kind = "rollback" THEN job[r].out
                   ELSE IF req[r].pc = "reabort" THEN req[r].reply ELSE "err"
    BY <2>1 DEF AfterAbort
  <2>3. /\ req[r].in.kind = "rollback" => p = "abort"
        /\ req[r].in.kind = "commit" => p = "reabort" /\ req[r].reply # "ok"
        /\ req[r].in.kind \in OwnKinds => p = "abort"
    BY <1>1, <1>3, <1>4 DEF Told, EndOK, OwnOK, HeldOK
  <2>4. ASSUME req[r].in.kind \in OwnKinds \cup {"commit", "rollback"}, res = "ok"
        PROVE  p = "abort" /\ job[r].out = "ok" /\ req[r].in.kind = "rollback"
    BY <1>3, <2>2, <2>3, <2>4
  <2>5. \A x \in Xids : sess'[x] \in {sess[x], NoOne}
    <3>1. DOMAIN sess = Xids /\ sess' = [sess EXCEPT ![req[r].x] = NoOne]
      BY <1>4 DEF ServerInv, OwnersOK, AfterAbort, EndSession
    <3> QED BY <3>1
  <2> QED BY <1>1, <1>2, <1>4, <2>2, <2>4, <2>5, EndTold
<1>5. CASE ~InSession(r)
  <2>1. req[r].in.kind \notin {"commit", "rollback"}
    BY <1>1, <1>3, <1>5 DEF Told, EndOK
  <2>2. sess' = sess
    BY <1>5 DEF AfterAbort
  <2>3. CASE p = "abort"
    <3>1. req' = IF req[r].in.kind = "batch" THEN SlotDone(r, "err") ELSE Reply(r, "err")
      BY <1>3, <2>1, <2>3 DEF AfterAbort
    <3> QED BY <1>1, <1>2, <1>5, <2>2, <2>3, <3>1, AnswerTold
  <2>4. CASE p = "reabort"
    <3>1. req[r].in.kind \notin OwnKinds
      BY <1>1, <1>3, <1>5, <2>4 DEF Told, OwnOK, AloneOK
    <3>2. Moved(r, "done")
      <4>1. \E res : req' = Reply(r, res)
        BY <3>1 DEF AfterAbort, OwnKinds
      <4> QED BY <1>1, <4>1, ReplyEffect
    <3>3. Told(r)'
      BY <2>1, <3>1, <3>2 DEF Told, Moved
    <3>4. HandlerMoved(r, "done")
      BY <1>1, <1>3, <2>2, <3>2 DEF HandlerMoved
    <3> QED BY <3>3, <3>4, MovedTold
  <2> QED BY <2>3, <2>4
<1> QED BY <1>4, <1>5

LEMMA AfterEditTold ==
  ASSUME ServerInv, ToldInv, NEW r \in Reqs, AfterEdit(r)
  PROVE  ToldInv'
<1>1. /\ CallsOK /\ CallOK(r) /\ req[r].pc = "edit" /\ txn' = txn /\ cut' = cut
      /\ sess' = sess /\ job' = Idle(r) /\ req' = Reply(r, job[r].out)
  BY DEF ServerInv, CallsOK, AfterEdit, Returned, sessVars
<1>2. Moved(r, "done") /\ req[r].in.kind = "admin"
  BY <1>1, ReplyEffect DEF CallOK
<1>3. Told(r)'
  BY <1>2 DEF Told, Moved, OwnKinds
<1>4. HandlerMoved(r, "done")
  BY <1>1, <1>2 DEF HandlerMoved
<1> QED BY <1>3, <1>4, MovedTold

LEMMA HandlerStepTold ==
  ASSUME ServerInv, ToldInv, NEW r \in Reqs, HandlerStep(r)
  PROVE  ToldInv'
BY BatchSlotTold, AfterBeginTold, AfterExecTold, AfterCommitTold, AfterAbortTold, AfterEditTold
   DEF HandlerStep

\* A request dropped at an await: its transaction, now cut, was no one else's.
LEMMA DropRequestTold ==
  ASSUME ServerInv, ToldInv, NEW r \in Reqs, DropRequest(r)
  PROVE  ToldInv'
<1>1. CallsOK /\ OwnersOK /\ CallOK(r) /\ CutOK /\ DOMAIN job = Reqs
  BY DEF ServerInv, CallsOK, ToldInv
<1>2. /\ req[r].pc \in Waiting /\ req' = Goto(r, "gone") /\ txn' = txn
      /\ job' = IF job[r].out = "none" THEN job ELSE Idle(r)
      /\ cut' = IF job[r].x = 0 THEN cut ELSE cut \cup {job[r].x}
      /\ sess' = sess
  BY DEF DropRequest
<1>3. Moved(r, "gone")
  BY <1>1, <1>2, GotoEffect
<1>4. \A q \in Reqs : q # r => req'[q] = req[q] /\ job'[q] = job[q]
  <2>1. job' = job \/ job' = Idle(r)
    BY <1>2
  <2> QED BY <1>1, <1>3, <2>1, IdleEffect DEF Moved
<1>5. req[r].pc # "gone" /\ job[r].op # "none"
  BY <1>1, <1>2 DEF CallOK, Waiting, CallOf
<1>6. \A x \in Xids : x \in cut' => x \in cut \/ Uses(r, x)
  BY <1>2, <1>5 DEF Uses
<1>7. EndsStay
  <2> SUFFICES ASSUME NEW x \in Xids, Dead(x) PROVE Dead(x)'
    BY <1>2 DEF EndsStay
  <2>1. ASSUME NEW q \in Reqs, Uses(q, x)' PROVE Uses(q, x)
    BY <1>3, <1>4, <2>1 DEF Uses, Moved
  <2>2. Abandoned(x) /\ x \notin cut => sess'[x] = NoOne /\ x \notin cut'
    BY <1>2, <1>6 DEF Abandoned
  <2> QED BY <1>2, <2>1, <2>2, DeadStays
<1>8. ASSUME NEW q \in Reqs PROVE Told(q)'
  <2>1. CASE q = r
    BY <1>3, <2>1 DEF Told, Moved
  <2>2. CASE q # r
    <3>1. KeptFor(q) /\ Same(q) /\ CallOK(q) /\ Told(q)
      BY <1>1, <1>2, <1>4, <1>7, <2>2 DEF KeptFor, Same, CallsOK, ToldInv
    <3> QED BY <3>1, OtherStays
  <2> QED BY <2>1, <2>2
<1>9. CutOK'
  <2>1. ASSUME NEW x \in Xids, txn'[x].st = "free" PROVE x \notin cut' /\ txn'[x].writes = {}
    BY <1>1, <1>2, <1>6, <2>1 DEF CutOK, OwnersOK
  <2>2. ASSUME NEW q \in Reqs, NEW x \in Xids, Uses(q, x)', ~InSession(q)' PROVE x \notin cut'
    <3>1. q # r
      BY <1>3, <2>2 DEF Uses, Moved
    <3>2. Uses(q, x) /\ ~InSession(q)
      BY <1>4, <2>2, <3>1 DEF Uses, InSession
    <3> QED BY <1>1, <1>6, <3>1, <3>2 DEF CutOK, OwnersOK
  <2> QED BY <2>1, <2>2 DEF CutOK
<1> QED BY <1>8, <1>9 DEF ToldInv

\* The reaper ends a transaction of a session, which is no request's own.
LEMMA RegistryTold ==
  ASSUME ServerInv, ToldInv, RequestsStay,
         \A q \in Reqs : KeptFor(q),
         \A x \in Xids : txn'[x].st = "free" => txn[x].st = "free" /\ txn'[x].writes = txn[x].writes
  PROVE  ToldInv'
<1>1. NoneTaken
  BY DEF NoneTaken, RequestsStay, Uses, InSession
<1>2. CutOK'
  BY <1>1, CutStays DEF ToldInv, RequestsStay
<1>3. ASSUME NEW q \in Reqs PROVE Told(q)'
  <2>1. KeptFor(q) /\ Same(q) /\ CallOK(q) /\ Told(q)
    BY DEF RequestsStay, Same, ServerInv, CallsOK, ToldInv
  <2> QED BY <2>1, OtherStays
<1> QED BY <1>2, <1>3 DEF ToldInv

\* What is out of reach stays there.
LEMMA RegistryEnds ==
  ASSUME RequestsStay, \A x \in Xids : sess'[x] \in {sess[x], NoOne},
         \A x \in Xids : txn'[x].st = txn[x].st \/ (txn[x].st = "open" /\ txn'[x].st = "aborted")
  PROVE  EndsStay
<1> SUFFICES ASSUME NEW x \in Xids, Dead(x) PROVE Dead(x)'
  BY DEF EndsStay
<1>1. \A q \in Reqs : Uses(q, x)' => Uses(q, x)
  BY DEF RequestsStay, Uses
<1>2. Abandoned(x) /\ x \notin cut => sess'[x] = NoOne /\ x \notin cut'
  BY DEF RequestsStay, Abandoned
<1> QED BY <1>1, <1>2, DeadStays

LEMMA TxnStaysTold ==
  ASSUME ServerInv, ToldInv, RequestsStay, txn' = txn, \A x \in Xids : sess'[x] \in {sess[x], NoOne}
  PROVE  ToldInv'
BY RegistryTold, RegistryEnds DEF KeptFor

LEMMA ReaperAbortTold ==
  ASSUME ServerInv, ToldInv, NEW x \in Xids, ReaperAbort(x)
  PROVE  ToldInv'
<1>1. /\ OwnersOK /\ RequestsStay /\ x \in reaping /\ sess' = sess
      /\ \/ txn[x].st = "open" /\ txn' = [txn EXCEPT ![x].st = "aborted"]
         \/ txn' = txn
  BY DEF ServerInv, ReaperAbort, Rollback, RollbackFails, RequestsStay
<1>2. ASSUME NEW y \in Xids
      PROVE  /\ txn'[y].writes = txn[y].writes /\ (y # x => txn'[y].st = txn[y].st)
             /\ txn'[y].st = txn[y].st \/ (txn[y].st = "open" /\ txn'[y].st = "aborted")
  BY <1>1 DEF OwnersOK
<1>3. ASSUME NEW q \in Reqs PROVE KeptFor(q)
  <2>1. \A y \in Xids : Uses(q, y) /\ ~InSession(q) => y # x
    BY <1>1 DEF OwnersOK
  <2>2. EndsStay
    BY <1>1, <1>2, RegistryEnds
  <2> QED BY <1>2, <2>1, <2>2 DEF KeptFor
<1> QED BY <1>1, <1>2, <1>3, RegistryTold

\* A restart: what was answered stays true, what was open is rolled back.
LEMMA RestartTold ==
  ASSUME ServerInv, ToldInv, Restart
  PROVE  ToldInv'
<1>1. CallsOK /\ OwnersOK /\ DOMAIN req = Reqs /\ CutOK
  BY DEF ServerInv, CallsOK, ToldInv
<1>2. /\ cut' = cut
      /\ \E kept \in SUBSET {x \in Xids : txn[x].st = "doubt"} :
           txn' = [x \in Xids |->
                     IF x \in kept THEN [txn[x] EXCEPT !.st = "committed"]
                     ELSE IF txn[x].st \in {"open", "doubt"} THEN [txn[x] EXCEPT !.st = "aborted"]
                     ELSE txn[x]]
      /\ req' = [r \in Reqs |-> IF req[r].pc \in {"new", "done"} THEN req[r]
                                ELSE [req[r] EXCEPT !.pc = "gone"]]
      /\ job' = [r \in Reqs |-> NoJob]
  BY DEF Restart
<1>3. ASSUME NEW x \in Xids
      PROVE  /\ txn'[x].writes = txn[x].writes
             /\ txn'[x].st = CASE txn[x].st = "open" -> "aborted"
                               [] txn[x].st = "doubt" -> txn'[x].st
                               [] OTHER -> txn[x].st
             /\ txn'[x].st = "free" => txn[x].st = "free"
  BY <1>1, <1>2 DEF OwnersOK
<1>4. \A r \in Reqs : job'[r].op = "none"
  BY <1>2 DEF NoJob
<1>5. CutOK'
  BY <1>1, <1>2, <1>3, <1>4 DEF CutOK, Uses
<1>6. EndsStay
  BY <1>3 DEF EndsStay, Dead
<1>7. ASSUME NEW r \in Reqs PROVE Told(r)'
  <2>1. CallOK(r) /\ Told(r) /\ DOMAIN req[r] = ReqFields
    BY <1>1 DEF CallsOK, CallOK, ToldInv
  <2>2. CASE req[r].pc \notin {"new", "done"}
    <3>1. req'[r].pc = "gone"
      BY <1>2, <2>1, <2>2 DEF ReqFields
    <3> QED BY <3>1 DEF Told
  <2>3. CASE req[r].pc \in {"new", "done"}
    <3>1. Same(r) /\ job[r].op = "none"
      BY <1>2, <2>1, <2>3 DEF CallOK, Same, Waiting
    <3>2. KeptFor(r)
      BY <1>3, <1>6, <3>1 DEF KeptFor, Uses
    <3> QED BY <2>1, <3>1, <3>2, OtherStays
  <2> QED BY <2>2, <2>3
<1> QED BY <1>5, <1>7 DEF ToldInv

LEMMA InitTold == Init => ToldInv
<1> SUFFICES ASSUME Init PROVE ToldInv
  OBVIOUS
<1>1. ASSUME NEW r \in Reqs
      PROVE  /\ req[r].pc = "new" /\ req[r].i = 1 /\ req[r].slots = << >>
             /\ job[r].op = "none"
  BY DEF Init, NoJob
<1>2. ASSUME NEW x \in Xids PROVE txn[x].writes = {}
  BY DEF Init
<1>3. ASSUME NEW r \in Reqs PROVE Told(r)
  BY <1>1, <1>2 DEF Told, NoTrace
<1>4. CutOK
  BY <1>1, <1>2 DEF CutOK, Uses, Init
<1> QED BY <1>3, <1>4 DEF ToldInv

LEMMA StepTold == ServerInv /\ ToldInv /\ [Next]_vars => ToldInv'
<1> SUFFICES ASSUME ServerInv, ToldInv, [Next]_vars PROVE ToldInv'
  OBVIOUS
<1>1. ASSUME NEW r \in Reqs, Arrive(r) \/ HandlerStep(r) \/ EngineStep(r) \/ DropRequest(r)
      PROVE  ToldInv'
  BY <1>1, ArriveTold, HandlerStepTold, EngineStepTold, DropRequestTold
<1>2. ASSUME NEW x \in Xids, Expire(x) \/ ReaperAbort(x) PROVE ToldInv'
  <2>1. CASE Expire(x)
    BY <2>1, TxnStaysTold DEF Expire, RequestsStay, sessVars
  <2>2. CASE ReaperAbort(x)
    BY <2>2, ReaperAbortTold
  <2> QED BY <1>2, <2>1, <2>2
<1>3. CASE ClaimExpired
  <2>1. \A x \in Xids : sess'[x] \in {sess[x], NoOne}
    BY <1>3 DEF ClaimExpired
  <2> QED BY <1>3, <2>1, TxnStaysTold DEF ClaimExpired, RequestsStay
<1>4. CASE Restart
  BY <1>4, RestartTold
<1>5. CASE Quiet \/ UNCHANGED vars
  BY <1>5, TxnStaysTold DEF Quiet, vars, sessVars, RequestsStay
<1> QED BY <1>1, <1>2, <1>3, <1>4, <1>5 DEF Next

\* Every handler's knowledge of what became of its statements is right in every
\* reachable state.
THEOREM ToldInvariance == Spec => []ToldInv
BY InitTold, StepTold, ServerInvariance, PTL DEF Spec

\* finish, finish_scoped, post_batch_sql, rpc_call, post_txn_commit and
\* post_txn_rollback: a request or slot answered with success is committed as a
\* whole, one answered with an error from before its commit left nothing, one
\* answered with an error of a commit under way left all or nothing, and what was
\* acknowledged in a session follows the acknowledged end of that session,
\* whatever is dropped, reaped, restarted or fails at the log meanwhile.
THEOREM RepliesAreTrue == Spec => []RepliesTrue
<1>1. ServerInv /\ ToldInv => RepliesTrue
  <2> SUFFICES ASSUME ServerInv, ToldInv, NEW r \in Reqs
               PROVE  /\ Done(r, {"sql", "rows", "rpc", "rest", "cron"}) /\ req[r].in.target = 0 =>
                           IF req[r].reply = "late"
                             THEN \A i, j \in Writes(r) : Durable(r, i) <=> Durable(r, j)
                             ELSE \A i \in Writes(r) : Durable(r, i) <=> req[r].reply = "ok"
                      /\ Done(r, {"batch"}) /\ req[r].reply = "ok" =>
                           \A i \in Writes(r) :
                             req[r].slots[i] # "late" => (Durable(r, i) <=> req[r].slots[i] = "ok")
                      /\ Done(r, {"commit", "rollback"}) /\ req[r].reply = "ok" =>
                           \A q \in Reqs :
                             /\ Done(q, {"sql", "rows"}) /\ req[q].reply = "ok"
                             /\ req[q].in.target = req[r].in.target
                             => \A i \in Writes(q) :
                                  Durable(q, i) <=> req[r].in.kind = "commit"
    BY DEF RepliesTrue
  <2>1. ASSUME NEW q \in Reqs, NEW j, NEW ok \in BOOLEAN, Decided(q, j, ok)
        PROVE  Durable(q, j) <=> ok
    <3>1. CASE ok
      BY <2>1, <3>1 DEF Decided
    <3>2. CASE ~ok
      BY <2>1, <3>2 DEF Decided, Lost, Dead, Durable, Has
    <3> QED BY <3>1, <3>2
  <2>2. ASSUME Done(r, {"sql", "rows", "rpc", "rest", "cron"}), req[r].in.target = 0
        PROVE  IF req[r].reply = "late"
                 THEN \A i, j \in Writes(r) : Durable(r, i) <=> Durable(r, j)
                 ELSE \A i \in Writes(r) : Durable(r, i) <=> req[r].reply = "ok"
    <3>1. OwnOK(r) /\ ~InSession(r) /\ ~InBatch(r)
      BY <2>2 DEF ToldInv, Told, Done, OwnKinds, InSession, InBatch
    <3>2. CASE req[r].reply = "late"
      <4>1. PICK x \in Xids : \A j \in Writes(r) :
              Has(x, r, j) /\ \A y \in Xids : Has(y, r, j) => y = x
        BY <2>2, <3>1, <3>2 DEF OwnOK, AloneOK, Done, Together
      <4>2. \A j \in Writes(r) : Durable(r, j) <=> txn[x].st = "committed"
        BY <4>1 DEF Durable, Has
      <4> QED BY <3>2, <4>2
    <3>3. CASE req[r].reply # "late"
      <4> SUFFICES ASSUME NEW i \in Writes(r) PROVE Durable(r, i) <=> req[r].reply = "ok"
        BY <3>3
      <4> DEFINE ok == req[r].reply = "ok"
      <4>1. Decided(r, i, ok) /\ ok \in BOOLEAN
        BY <2>2, <3>1, <3>3 DEF OwnOK, AloneOK, Done
      <4> HIDE DEF ok
      <4>2. Durable(r, i) <=> ok
        BY <2>1, <4>1
      <4> QED BY <4>2 DEF ok
    <3> QED BY <3>2, <3>3
  <2>3. ASSUME Done(r, {"batch"}), req[r].reply = "ok", NEW i \in Writes(r), req[r].slots[i] # "late"
        PROVE  Durable(r, i) <=> req[r].slots[i] = "ok"
    <3> DEFINE ok == req[r].slots[i] = "ok"
    <3>1. OwnOK(r) /\ InBatch(r) /\ ~InSession(r)
      <4>1. CallOK(r)
        BY DEF ServerInv, CallsOK
      <4>2. ~InSession(r)
        BY <2>3, <4>1 DEF CallOK, InputOK, OneShotKinds, InSession, Done
      <4> QED BY <2>3, <4>2 DEF ToldInv, Told, Done, OwnKinds, InBatch
    <3>2. SlotsOK(r) /\ ScriptOK(req[r].in)
      BY <2>3, <3>1 DEF OwnOK, AloneOK, Done
    <3>3. i <= Len(req[r].slots)
      BY <2>3, <3>2 DEF SlotsOK, Writes, ScriptOK, Done
    <3>4. Decided(r, i, ok) /\ ok \in BOOLEAN
      BY <2>3, <3>2, <3>3 DEF SlotsOK
    <3> HIDE DEF ok
    <3>5. Durable(r, i) <=> ok
      BY <2>1, <3>4
    <3> QED BY <3>5 DEF ok
  <2>4. ASSUME Done(r, {"commit", "rollback"}), req[r].reply = "ok", NEW q \in Reqs,
               Done(q, {"sql", "rows"}), req[q].reply = "ok",
               req[q].in.target = req[r].in.target, NEW i \in Writes(q)
        PROVE  Durable(q, i) <=> req[r].in.kind = "commit"
    <3> DEFINE x == req[r].in.target
    <3>1. /\ x \in Xids
          /\ txn[x].st = IF req[r].in.kind = "commit" THEN "committed" ELSE "aborted"
      BY <2>4 DEF ToldInv, Told, Done, EndOK
    <3>2. InSession(q) /\ HeldOK(q)
      BY <2>4, <3>1, ZeroIsNoXid DEF ToldInv, Told, Done, OwnKinds, OwnOK, InSession
    <3>3. Has(x, q, i) /\ \A y \in Xids : Has(y, q, i) => y = x
      BY <2>4, <3>2 DEF HeldOK, Done
    <3> QED BY <2>4, <3>1, <3>3 DEF Durable, Has, Done
  <2> QED BY <2>2, <2>3, <2>4
<1> QED BY <1>1, ServerInvariance, ToldInvariance, PTL
=============================================================================
