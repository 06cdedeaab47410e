------------------------- MODULE LockManagerProofs -------------------------
(***************************************************************************)
(* Proofs about LockManager for every set of transactions and records.     *)
(*                                                                         *)
(* NoSilentDeadlock is not inductive.  What makes it so is the relation    *)
(* between the wait-for graph and the holders: an edge is always real, the *)
(* edges of a parked transaction are complete whenever no notify_all is    *)
(* outstanding, and the graph has no cycle.                                *)
(***************************************************************************)
EXTENDS LockManager, TLAPS

\* acquire: when no notify_all is outstanding, a parked request's wait-for
\* edges name all of its present blockers, and there is at least one.
ParkedEdgesExact ==
  ~NotifyPending =>
     \A x \in Xids : pc[x] = "parked" =>
        waitsFor[x] = BlockedOn(x) /\ BlockedOn(x) # {}

IInv == /\ TypeOK
        /\ MutualExclusion
        /\ EdgesAreReal
        /\ ParkedEdgesExact
        /\ GraphAcyclic

----------------------------------------------------------------------------
(* Facts about the helpers *)

\* Adding the outgoing edges E to a vertex that is not in a cycle afterwards
\* leaves an acyclic graph acyclic (the argument behind has_cycle's comment
\* that any cycle must pass through start).
LEMMA AcyclicExtension ==
  ASSUME NEW wf \in [Xids -> SUBSET Xids], NEW x \in Xids,
         NEW E \in SUBSET Xids,
         \A S \in SUBSET Xids : ~Stuck(S, wf),
         ~HasCycle([wf EXCEPT ![x] = E], x)
  PROVE  \A S \in SUBSET Xids : ~Stuck(S, [wf EXCEPT ![x] = E])
<1> DEFINE g == [wf EXCEPT ![x] = E]
<1>1. PICK R \in SUBSET Xids : /\ g[x] \subseteq R
                               /\ \A y \in R : g[y] \subseteq R
                               /\ x \notin R
  BY DEF HasCycle
<1>2. \A y \in Xids : y # x => g[y] = wf[y]
  OBVIOUS
<1>3. SUFFICES ASSUME NEW S \in SUBSET Xids, Stuck(S, g) PROVE FALSE
  OBVIOUS
<1>4. CASE x \notin S
  <2>1. Stuck(S, wf)
    BY <1>2, <1>3, <1>4 DEF Stuck
  <2> QED
    BY <2>1
<1>5. CASE x \in S
  <2> DEFINE T == S \cap R
  <2>1. T # {}
    BY <1>1, <1>3, <1>5 DEF Stuck
  <2>2. \A y \in T : wf[y] \cap T # {}
    BY <1>1, <1>2, <1>3 DEF Stuck
  <2>3. Stuck(T, wf)
    BY <2>1, <2>2 DEF Stuck
  <2> QED
    BY <2>3
<1> QED
  BY <1>4, <1>5

\* Removing edges keeps a graph acyclic.
LEMMA AcyclicRestriction ==
  ASSUME NEW wf, NEW g, \A x \in Xids : g[x] \subseteq wf[x],
         \A S \in SUBSET Xids : ~Stuck(S, wf)
  PROVE  \A S \in SUBSET Xids : ~Stuck(S, g)
BY DEF Stuck

LEMMA NotifyAllType ==
  ASSUME NEW p \in [Xids -> PCs]
  PROVE  /\ NotifyAll(p) \in [Xids -> PCs]
         /\ \A x \in Xids : NotifyAll(p)[x] # "parked"
         /\ \A x \in Xids : NotifyAll(p)[x] \in {"parked", "woken"}
                              <=> p[x] \in {"parked", "woken"}
         /\ \A x \in Xids : NotifyAll(p)[x] = "notifying" <=> p[x] = "notifying"
BY DEF NotifyAll, PCs

----------------------------------------------------------------------------
(* Type correctness *)

LEMMA InitTypeOK == Init => TypeOK
BY DEF Init, TypeOK, PCs, Modes

LEMMA AttemptTypeOK ==
  ASSUME TypeOK, NEW x \in Xids, NEW i \in Ids, NEW m \in Modes,
         Grant(x, i, m) \/ Park(x, i, m) \/ Victim(x, i, m)
  PROVE  TypeOK'
<1>0. [id |-> i, mode |-> m] \in Requests /\ [id |-> i, mode |-> m] # NoReq
  BY NoReqAssumption DEF Requests
<1>1. CASE Grant(x, i, m)
  <2>1. [pc EXCEPT ![x] = "running"] \in [Xids -> PCs]
    BY DEF TypeOK, PCs
  <2>2. Granted(i, x, m) \in Modes \cup {"none"}
    BY DEF Granted, TypeOK
  <2>3. held' \in [Ids -> [Xids -> Modes \cup {"none"}]]
    BY <1>1, <2>2 DEF Grant, TypeOK
  <2>4. pc' \in [Xids -> PCs]
    BY <1>1, <2>1, NotifyAllType DEF Grant
  <2>5. \A y \in Xids : pc'[y] \in {"parked", "woken"} <=> req'[y] # NoReq
    BY <1>1 DEF Grant, TypeOK, NotifyAll
  <2> QED
    BY <1>1, <2>3, <2>4, <2>5 DEF Grant, TypeOK
<1>2. CASE Park(x, i, m)
  <2>1. Blockers(i, x, m) \in SUBSET Xids
    BY DEF Blockers
  <2> QED
    BY <1>0, <1>2, <2>1 DEF Park, TypeOK, PCs
<1>3. CASE Victim(x, i, m)
  <2>1. [pc EXCEPT ![x] = "running"] \in [Xids -> PCs]
    BY DEF TypeOK, PCs
  <2>2. entries' \in SUBSET Ids
    BY <1>3 DEF Victim, Gc, TypeOK
  <2>3. pc' \in [Xids -> PCs]
    BY <1>3, <2>1, NotifyAllType DEF Victim
  <2>4. \A y \in Xids : pc'[y] \in {"parked", "woken"} <=> req'[y] # NoReq
    BY <1>3 DEF Victim, TypeOK, NotifyAll
  <2> QED
    BY <1>3, <2>2, <2>3, <2>4 DEF Victim, TypeOK
<1> QED
  BY <1>1, <1>2, <1>3

\* What Acquire and Recheck have in common: a pass of acquire's loop.
LEMMA RecheckIsAttempt ==
  ASSUME TypeOK, NEW x \in Xids, Recheck(x)
  PROVE  \E i \in Ids, m \in Modes :
           /\ req[x] = [id |-> i, mode |-> m]
           /\ Grant(x, i, m) \/ Park(x, i, m) \/ Victim(x, i, m)
<1>1. req[x] \in Requests
  BY DEF Recheck, TypeOK
<1>2. req[x].id \in Ids /\ req[x].mode \in Modes
  BY <1>1 DEF Requests
<1>3. req[x] = [id |-> req[x].id, mode |-> req[x].mode]
  BY <1>1 DEF Requests
<1> QED
  BY <1>2, <1>3 DEF Recheck

LEMMA NextTypeOK == TypeOK /\ [Next]_vars => TypeOK'
<1> SUFFICES ASSUME TypeOK, [Next]_vars PROVE TypeOK'
  OBVIOUS
<1>1. ASSUME NEW x \in Xids, NEW i \in Ids, NEW m \in Modes, Acquire(x, i, m)
      PROVE  TypeOK'
  BY <1>1, AttemptTypeOK DEF Acquire
<1>2. ASSUME NEW x \in Xids, Recheck(x) PROVE TypeOK'
  BY <1>2, AttemptTypeOK, RecheckIsAttempt
<1>3. ASSUME NEW x \in Xids, SpuriousWake(x) PROVE TypeOK'
  BY <1>3 DEF SpuriousWake, TypeOK, PCs
<1>4. ASSUME NEW x \in Xids, NEW is \in SUBSET Ids, TryAcquireWriteMany(x, is)
      PROVE  TypeOK'
  BY <1>4 DEF TryAcquireWriteMany, TypeOK, Modes
<1>5. ASSUME NEW x \in Xids, ReleaseAll(x) PROVE TypeOK'
  <2>1. entries' \in SUBSET Ids
    BY <1>5 DEF ReleaseAll, Gc, TypeOK
  <2>2. held' \in [Ids -> [Xids -> Modes \cup {"none"}]]
    BY <1>5 DEF ReleaseAll, TypeOK
  <2> QED
    BY <1>5, <2>1, <2>2 DEF ReleaseAll, TypeOK, PCs
<1>6. ASSUME NEW x \in Xids, ReleaseNotify(x) PROVE TypeOK'
  BY <1>6 DEF ReleaseNotify, TypeOK, NotifyAll, PCs
<1>7. CASE UNCHANGED vars
  BY <1>7 DEF vars, TypeOK
<1> QED
  BY <1>1, <1>2, <1>3, <1>4, <1>5, <1>6, <1>7 DEF Next, Finished

\* Every reachable state of the lock table is well typed.
THEOREM TypeCorrect == Spec => []TypeOK
BY InitTypeOK, NextTypeOK, PTL DEF Spec

----------------------------------------------------------------------------
(* The inductive invariant, one lemma per critical section *)

LEMMA InitIInv == Init => IInv
<1> SUFFICES ASSUME Init PROVE IInv
  OBVIOUS
<1>1. TypeOK
  BY InitTypeOK
<1>2. MutualExclusion /\ EdgesAreReal /\ ParkedEdgesExact
  BY DEF Init, MutualExclusion, EdgesAreReal, ParkedEdgesExact
<1>3. GraphAcyclic
  BY DEF Init, GraphAcyclic, Stuck
<1> QED
  BY <1>1, <1>2, <1>3 DEF IInv

LEMMA GrantIInv ==
  ASSUME IInv, NEW x \in Xids, NEW i \in Ids, NEW m \in Modes,
         Grant(x, i, m)
  PROVE  IInv'
<1>1. TypeOK /\ TypeOK'
  BY AttemptTypeOK DEF IInv
<1>2. \A h \in Xids : h # x =>
         /\ held[i][h] # "Exclusive"
         /\ m = "Exclusive" => held[i][h] = "none"
  BY <1>1 DEF Grant, CanGrant, Blockers, Modes
<1>3. \A j \in Ids, h \in Xids :
         held'[j][h] = IF j = i /\ h = x THEN Granted(i, x, m) ELSE held[j][h]
  BY <1>1 DEF Grant, TypeOK
<1>4. MutualExclusion'
  <2> SUFFICES ASSUME NEW j \in Ids, NEW a \in Xids, NEW b \in Xids,
                      held'[j][a] = "Exclusive", a # b
               PROVE  held'[j][b] = "none"
    BY DEF MutualExclusion
  <2>1. CASE j = i /\ a = x
    <3>1. m = "Exclusive" \/ held[i][x] = "Exclusive"
      BY <1>3, <2>1 DEF Granted, Modes
    <3> QED
      BY <1>2, <1>3, <2>1, <3>1 DEF IInv, MutualExclusion
  <2>2. CASE j = i /\ b = x
    BY <1>2, <1>3, <2>2
  <2>3. CASE ~(j = i /\ (a = x \/ b = x))
    BY <1>3, <2>3 DEF IInv, MutualExclusion
  <2> QED
    BY <2>1, <2>2, <2>3
<1>5. EdgesAreReal'
  <2> SUFFICES ASSUME NEW y \in Xids, NEW z \in waitsFor'[y]
               PROVE  z \in BlockedOn(y)'
    BY DEF EdgesAreReal
  <2>1. y # x /\ z \in waitsFor[y] /\ req'[y] = req[y]
    BY <1>1 DEF Grant, TypeOK
  <2>2. z \in BlockedOn(y)
    BY <2>1 DEF IInv, EdgesAreReal
  <2>3. Waiting(y) /\ req[y] \in Requests
    BY <1>1, <2>2 DEF BlockedOn, Waiting, TypeOK
  <2>4. Waiting(y)'
    BY <1>1, <2>1, <2>3 DEF Waiting, TypeOK
  <2>5. req[y].id \in Ids
    BY <2>3 DEF Requests
  <2>6. z \in Xids /\ z # y
    BY <2>2, <2>3 DEF BlockedOn, Blockers
  <2>7. held[req[y].id][z] # "none" => held'[req[y].id][z] # "none"
    BY <1>3, <2>5, <2>6 DEF Granted, Modes
  <2>8. held[req[y].id][z] = "Exclusive" => held'[req[y].id][z] = "Exclusive"
    BY <1>3, <2>5, <2>6 DEF Granted, Modes
  <2> QED
    BY <2>1, <2>2, <2>3, <2>4, <2>6, <2>7, <2>8 DEF BlockedOn, Blockers
<1>6. ParkedEdgesExact'
  <2>1. \A y \in Xids : pc'[y] # "parked"
    BY <1>1 DEF Grant, NotifyAll, TypeOK
  <2> QED
    BY <2>1 DEF ParkedEdgesExact
<1>7. GraphAcyclic'
  <2>1. \A y \in Xids : waitsFor'[y] \subseteq waitsFor[y]
    BY <1>1 DEF Grant, TypeOK
  <2> QED
    BY <2>1, AcyclicRestriction DEF IInv, GraphAcyclic
<1> QED
  BY <1>1, <1>4, <1>5, <1>6, <1>7 DEF IInv

LEMMA ParkIInv ==
  ASSUME IInv, NEW x \in Xids, NEW i \in Ids, NEW m \in Modes,
         pc[x] # "notifying", Park(x, i, m)
  PROVE  IInv'
<1>1. TypeOK /\ TypeOK'
  BY AttemptTypeOK DEF IInv
<1>2. MutualExclusion'
  BY DEF IInv, MutualExclusion, Park
<1>3. \A y \in Xids : y # x => BlockedOn(y)' = BlockedOn(y)
  BY <1>1 DEF Park, BlockedOn, Blockers, Waiting, TypeOK
<1>4. BlockedOn(x)' = Blockers(i, x, m) /\ waitsFor'[x] = Blockers(i, x, m)
  BY <1>1 DEF Park, BlockedOn, Blockers, Waiting, TypeOK
<1>5. EdgesAreReal'
  BY <1>1, <1>3, <1>4 DEF IInv, EdgesAreReal, Park, TypeOK
<1>6. ParkedEdgesExact'
  <2>1. NotifyPending => NotifyPending'
    BY <1>1 DEF NotifyPending, Park, TypeOK
  <2>2. \A y \in Xids : y # x => pc'[y] = pc[y] /\ waitsFor'[y] = waitsFor[y]
    BY <1>1 DEF Park, TypeOK
  <2>3. BlockedOn(x)' # {}
    BY <1>4 DEF Park, CanGrant
  <2> QED
    BY <1>3, <1>4, <2>1, <2>2, <2>3 DEF IInv, ParkedEdgesExact
<1>7. GraphAcyclic'
  <2>1. Blockers(i, x, m) \in SUBSET Xids
    BY DEF Blockers
  <2> QED
    BY <1>1, <2>1, AcyclicExtension DEF IInv, GraphAcyclic, Park, TypeOK
<1> QED
  BY <1>1, <1>2, <1>5, <1>6, <1>7 DEF IInv

LEMMA VictimIInv ==
  ASSUME IInv, NEW x \in Xids, NEW i \in Ids, NEW m \in Modes,
         Victim(x, i, m)
  PROVE  IInv'
<1>1. TypeOK /\ TypeOK'
  BY AttemptTypeOK DEF IInv
<1>2. MutualExclusion'
  BY DEF IInv, MutualExclusion, Victim
<1>3. EdgesAreReal'
  <2> SUFFICES ASSUME NEW y \in Xids, y # x
               PROVE  waitsFor'[y] \subseteq BlockedOn(y)'
    BY <1>1 DEF EdgesAreReal, Victim, TypeOK
  <2>1. waitsFor'[y] = waitsFor[y] /\ req'[y] = req[y]
    BY <1>1 DEF Victim, TypeOK
  <2>2. Waiting(y)' <=> Waiting(y)
    BY <1>1, <2>1 DEF Waiting, TypeOK
  <2>3. BlockedOn(y)' = BlockedOn(y)
    BY <2>1, <2>2 DEF BlockedOn, Blockers, Victim
  <2> QED
    BY <2>1, <2>3 DEF IInv, EdgesAreReal
<1>4. ParkedEdgesExact'
  <2>1. \A y \in Xids : pc'[y] # "parked"
    BY <1>1 DEF Victim, NotifyAll, TypeOK
  <2> QED
    BY <2>1 DEF ParkedEdgesExact
<1>5. GraphAcyclic'
  <2>1. \A y \in Xids : waitsFor'[y] \subseteq waitsFor[y]
    BY <1>1 DEF Victim, TypeOK
  <2> QED
    BY <2>1, AcyclicRestriction DEF IInv, GraphAcyclic
<1> QED
  BY <1>1, <1>2, <1>3, <1>4, <1>5 DEF IInv

LEMMA SpuriousWakeIInv ==
  ASSUME IInv, NEW x \in Xids, SpuriousWake(x), TypeOK'
  PROVE  IInv'
<1>1. MutualExclusion' /\ GraphAcyclic'
  BY DEF IInv, MutualExclusion, GraphAcyclic, SpuriousWake
<1>2. \A y \in Xids : BlockedOn(y)' = BlockedOn(y)
  BY DEF IInv, TypeOK, SpuriousWake, BlockedOn, Blockers, Waiting
<1>3. EdgesAreReal'
  BY <1>2 DEF IInv, EdgesAreReal, SpuriousWake
<1>4. NotifyPending => NotifyPending'
  BY DEF IInv, TypeOK, NotifyPending, SpuriousWake
<1>5. ParkedEdgesExact'
  BY <1>2, <1>4 DEF IInv, TypeOK, ParkedEdgesExact, SpuriousWake
<1> QED
  BY <1>1, <1>3, <1>5 DEF IInv

LEMMA TryAcquireWriteManyIInv ==
  ASSUME IInv, NEW x \in Xids, NEW is \in SUBSET Ids,
         TryAcquireWriteMany(x, is), TypeOK'
  PROVE  IInv'
<1>1. TypeOK /\ pc' = pc /\ req' = req
  BY DEF IInv, TryAcquireWriteMany
<1>2. \A j \in Ids, h \in Xids :
         held'[j][h] = IF j \in is /\ h = x THEN "Exclusive" ELSE held[j][h]
  BY <1>1 DEF TryAcquireWriteMany, TypeOK
<1>3. \A j \in is, h \in Xids : h # x => held[j][h] = "none"
  BY <1>1 DEF TryAcquireWriteMany, CanGrant, Blockers
<1>4. \A y \in Xids : Waiting(y) => y # x /\ req[y].id \in Ids
  BY <1>1 DEF TryAcquireWriteMany, Waiting, TypeOK, Requests
<1>5. \A y \in Xids : y # x => waitsFor'[y] = waitsFor[y]
  BY <1>1 DEF TryAcquireWriteMany, TypeOK
<1>6. \A y \in Xids : BlockedOn(y) \subseteq BlockedOn(y)'
  <2> SUFFICES ASSUME NEW y \in Xids, Waiting(y), NEW z \in BlockedOn(y)
               PROVE  z \in BlockedOn(y)'
    BY <1>1 DEF BlockedOn, Waiting
  <2>1. z \in Xids /\ z # y
    BY DEF BlockedOn, Blockers
  <2>2. held[req[y].id][z] # "none" => held'[req[y].id][z] # "none"
    BY <1>2, <1>4, <2>1
  <2>3. held[req[y].id][z] = "Exclusive" => held'[req[y].id][z] = "Exclusive"
    BY <1>2, <1>4, <2>1
  <2> QED
    BY <1>1, <2>1, <2>2, <2>3 DEF BlockedOn, Blockers, Waiting
\* A batch grant takes a record only from nobody or from x itself: it cannot
\* add a blocker to a request that had one.
<1>7. \A y \in Xids : BlockedOn(y) # {} => BlockedOn(y)' = BlockedOn(y)
  <2> SUFFICES ASSUME NEW y \in Xids, NEW b \in BlockedOn(y),
                      NEW z \in BlockedOn(y)'
               PROVE  z \in BlockedOn(y)
    BY <1>6
  <2>1. Waiting(y)
    BY DEF BlockedOn
  <2> DEFINE j == req[y].id
  <2>2. j \in Ids /\ y # x
    BY <1>4, <2>1
  <2>3. b \in Xids /\ b # y /\ held[j][b] # "none"
    BY <2>1 DEF BlockedOn, Blockers
  <2>4. z \in Xids /\ z # y
    BY <1>1, <2>1 DEF BlockedOn, Blockers, Waiting
  <2>5. CASE j \notin is \/ z # x
    <3>1. held'[j][z] = held[j][z]
      BY <1>2, <2>2, <2>4, <2>5
    <3> QED
      BY <1>1, <2>1, <2>4, <3>1 DEF BlockedOn, Blockers, Waiting
  <2>6. CASE j \in is /\ z = x
    <3>1. b = x
      BY <1>3, <2>3, <2>6
    <3> QED
      BY <2>6, <3>1
  <2> QED
    BY <2>5, <2>6
<1>8. MutualExclusion'
  BY <1>2, <1>3 DEF IInv, MutualExclusion
<1>9. EdgesAreReal'
  <2>1. waitsFor'[x] = {}
    BY <1>1 DEF TryAcquireWriteMany, TypeOK
  <2> QED
    BY <1>5, <1>6, <2>1 DEF IInv, EdgesAreReal
<1>10. ParkedEdgesExact'
  <2>1. NotifyPending' <=> NotifyPending
    BY <1>1 DEF NotifyPending
  <2>2. \A y \in Xids : pc[y] = "parked" => y # x
    BY DEF TryAcquireWriteMany
  <2> QED
    BY <1>1, <1>5, <1>7, <2>1, <2>2 DEF IInv, ParkedEdgesExact
<1>11. GraphAcyclic'
  <2>1. \A y \in Xids : waitsFor'[y] \subseteq waitsFor[y]
    BY <1>1 DEF TryAcquireWriteMany, TypeOK
  <2> QED
    BY <2>1, AcyclicRestriction DEF IInv, GraphAcyclic
<1> QED
  BY <1>8, <1>9, <1>10, <1>11 DEF IInv

LEMMA ReleaseAllIInv ==
  ASSUME IInv, NEW x \in Xids, ReleaseAll(x), TypeOK'
  PROVE  IInv'
<1>1. TypeOK /\ req' = req
  BY DEF IInv, ReleaseAll
<1>2. \A j \in Ids, h \in Xids :
         held'[j][h] = IF h = x THEN "none" ELSE held[j][h]
  BY <1>1 DEF ReleaseAll, TypeOK
<1>3. MutualExclusion'
  BY <1>2 DEF IInv, MutualExclusion
<1>4. EdgesAreReal'
  <2> SUFFICES ASSUME NEW y \in Xids, NEW z \in waitsFor'[y]
               PROVE  z \in BlockedOn(y)'
    BY DEF EdgesAreReal
  <2>1. y # x /\ z # x /\ z \in waitsFor[y]
    BY <1>1 DEF ReleaseAll, TypeOK
  <2>2. z \in BlockedOn(y)
    BY <2>1 DEF IInv, EdgesAreReal
  <2>3. Waiting(y) /\ Waiting(y)' /\ req[y].id \in Ids
    BY <1>1, <2>1, <2>2 DEF BlockedOn, Waiting, ReleaseAll, TypeOK, Requests
  <2>4. z \in Xids /\ held'[req[y].id][z] = held[req[y].id][z]
    BY <1>2, <2>1, <2>2, <2>3 DEF BlockedOn, Blockers
  <2> QED
    BY <1>1, <2>2, <2>3, <2>4 DEF BlockedOn, Blockers
<1>5. ParkedEdgesExact'
  <2>1. NotifyPending'
    BY <1>1 DEF NotifyPending, ReleaseAll, TypeOK
  <2> QED
    BY <2>1 DEF ParkedEdgesExact
<1>6. GraphAcyclic'
  <2>1. \A y \in Xids : waitsFor'[y] \subseteq waitsFor[y]
    BY <1>1 DEF ReleaseAll, TypeOK
  <2> QED
    BY <2>1, AcyclicRestriction DEF IInv, GraphAcyclic
<1> QED
  BY <1>3, <1>4, <1>5, <1>6 DEF IInv

LEMMA ReleaseNotifyIInv ==
  ASSUME IInv, NEW x \in Xids, ReleaseNotify(x), TypeOK'
  PROVE  IInv'
<1>1. MutualExclusion' /\ GraphAcyclic'
  BY DEF IInv, MutualExclusion, GraphAcyclic, ReleaseNotify
<1>2. \A y \in Xids : Waiting(y)' <=> Waiting(y)
  BY DEF IInv, TypeOK, ReleaseNotify, Waiting
<1>3. EdgesAreReal'
  BY <1>2 DEF IInv, EdgesAreReal, ReleaseNotify, BlockedOn, Blockers
<1>4. \A y \in Xids : pc'[y] # "parked"
  BY DEF IInv, TypeOK, ReleaseNotify, NotifyAll
<1> QED
  BY <1>1, <1>3, <1>4 DEF IInv, ParkedEdgesExact

LEMMA NextIInv == IInv /\ [Next]_vars => IInv'
<1> SUFFICES ASSUME IInv, [Next]_vars PROVE IInv'
  OBVIOUS
<1>0. TypeOK /\ TypeOK'
  BY NextTypeOK DEF IInv
<1>1. ASSUME NEW x \in Xids, NEW i \in Ids, NEW m \in Modes,
             pc[x] # "notifying",
             Grant(x, i, m) \/ Park(x, i, m) \/ Victim(x, i, m)
      PROVE  IInv'
  BY <1>1, GrantIInv, ParkIInv, VictimIInv
<1>2. ASSUME NEW x \in Xids, NEW i \in Ids, NEW m \in Modes, Acquire(x, i, m)
      PROVE  IInv'
  BY <1>1, <1>2 DEF Acquire
<1>3. ASSUME NEW x \in Xids, Recheck(x) PROVE IInv'
  <2>1. pc[x] # "notifying"
    BY <1>3 DEF Recheck
  <2> QED
    BY <1>0, <1>1, <1>3, <2>1, RecheckIsAttempt
<1>4. ASSUME NEW x \in Xids, SpuriousWake(x) PROVE IInv'
  BY <1>0, <1>4, SpuriousWakeIInv
<1>5. ASSUME NEW x \in Xids, NEW is \in SUBSET Ids, TryAcquireWriteMany(x, is)
      PROVE  IInv'
  BY <1>0, <1>5, TryAcquireWriteManyIInv
<1>6. ASSUME NEW x \in Xids, ReleaseAll(x) PROVE IInv'
  BY <1>0, <1>6, ReleaseAllIInv
<1>7. ASSUME NEW x \in Xids, ReleaseNotify(x) PROVE IInv'
  BY <1>0, <1>7, ReleaseNotifyIInv
<1>8. CASE UNCHANGED vars
  <2>1. \A y \in Xids : BlockedOn(y)' = BlockedOn(y)
    BY <1>8 DEF vars, BlockedOn, Blockers, Waiting
  <2> QED
    BY <1>0, <1>8, <2>1 DEF vars, IInv, MutualExclusion, EdgesAreReal,
       ParkedEdgesExact, NotifyPending, GraphAcyclic
<1> QED
  BY <1>2, <1>3, <1>4, <1>5, <1>6, <1>7, <1>8 DEF Next, Finished

\* The inductive invariant holds in every reachable state.
THEOREM InductiveInvariant == Spec => []IInv
BY InitIInv, NextIInv, PTL DEF Spec

----------------------------------------------------------------------------
(* What follows from it *)

LEMMA IInvNoSilentDeadlock == IInv => NoSilentDeadlock
<1> SUFFICES ASSUME IInv, ~NotifyPending,
                    NEW S \in SUBSET {x \in Xids : pc[x] = "parked"},
                    Stuck(S, [x \in Xids |-> BlockedOn(x)])
             PROVE  FALSE
  BY DEF NoSilentDeadlock
<1>1. \A x \in S : waitsFor[x] = BlockedOn(x)
  BY DEF IInv, ParkedEdgesExact
<1>2. Stuck(S, waitsFor)
  BY <1>1 DEF Stuck
<1> QED
  BY <1>2 DEF IInv, GraphAcyclic

\* An exclusive holder of a record is its only holder.
THEOREM ExclusiveIsExclusive == Spec => []MutualExclusion
<1>1. IInv => MutualExclusion
  BY DEF IInv
<1> QED
  BY <1>1, InductiveInvariant, PTL

\* The wait-for graph never has a cycle between two critical sections, as
\* has_cycle assumes.
THEOREM WaitForGraphAcyclic == Spec => []GraphAcyclic
<1>1. IInv => GraphAcyclic
  BY DEF IInv
<1> QED
  BY <1>1, InductiveInvariant, PTL

\* Every wait-for edge is real: a deadlock victim is never chosen on the
\* strength of a transaction that no longer blocks anybody.
THEOREM NoFalseEdges == Spec => []EdgesAreReal
<1>1. IInv => EdgesAreReal
  BY DEF IInv
<1> QED
  BY <1>1, InductiveInvariant, PTL

\* A grantable request is never left parked without a notify_all to come.
THEOREM WakeupsAreNotLost == Spec => []NoLostWakeup
<1>1. IInv => NoLostWakeup
  BY DEF IInv, NoLostWakeup, ParkedEdgesExact
<1> QED
  BY <1>1, InductiveInvariant, PTL

\* No set of parked transactions waits for one another with no notify_all to
\* come: the detector misses no deadlock.
THEOREM DeadlocksAreDetected == Spec => []NoSilentDeadlock
BY IInvNoSilentDeadlock, InductiveInvariant, PTL

----------------------------------------------------------------------------
(* The lock table does not grow: NoTableLeak with TypeOK is inductive *)

Occupied(i) == queue[i] # {} \/ \E x \in Xids : held[i][x] # "none"

QueueIsRequests ==
  \A x \in Xids, i \in Ids : x \in queue[i] <=> (Waiting(x) /\ req[x].id = i)

EndedHoldNothing ==
  \A x \in Xids, i \in Ids : pc[x] \in {"notifying", "ended"} => held[i][x] = "none"

\* NoTableLeak is these three facts together.
LEMMA LeakParts ==
  NoTableLeak <=> /\ entries = {i \in Ids : Occupied(i)}
                  /\ QueueIsRequests /\ EndedHoldNothing
BY DEF NoTableLeak, Occupied, QueueIsRequests, EndedHoldNothing

\* A pass of acquire's loop, first or later, keeps the table exact.
LEMMA AttemptNoLeak ==
  ASSUME TypeOK, TypeOK', NoTableLeak, NEW x \in Xids, NEW i \in Ids, NEW m \in Modes,
         \/ pc[x] = "running"
         \/ pc[x] = "woken" /\ req[x] = [id |-> i, mode |-> m],
         Grant(x, i, m) \/ Park(x, i, m) \/ Victim(x, i, m)
  PROVE  NoTableLeak'
<1>0. entries = {j \in Ids : Occupied(j)} /\ QueueIsRequests /\ EndedHoldNothing
  BY LeakParts
<1>1. \A j \in Ids : j # i => x \notin queue[j]
  BY <1>0 DEF QueueIsRequests, Waiting
<1>2. CASE Grant(x, i, m)
  <2>1. \A j \in Ids : queue'[j] = queue[j] \ {x}
    BY <1>1, <1>2 DEF Grant, TypeOK
  <2>2. \A y \in Xids : y # x => (Waiting(y)' <=> Waiting(y)) /\ req'[y] = req[y]
    BY <1>2 DEF Grant, NotifyAll, Waiting, TypeOK
  <2>3. ~Waiting(x)'
    BY <1>2 DEF Grant, NotifyAll, Waiting, TypeOK
  <2>4. QueueIsRequests'
    BY <1>0, <2>1, <2>2, <2>3 DEF QueueIsRequests
  <2>5. \A j \in Ids, y \in Xids : j # i \/ y # x => held'[j][y] = held[j][y]
    BY <1>2 DEF Grant, TypeOK
  <2>6. \A y \in Xids : pc'[y] \in {"notifying", "ended"} => y # x /\ pc'[y] = pc[y]
    BY <1>2 DEF Grant, NotifyAll, TypeOK
  <2>7. EndedHoldNothing'
    BY <1>0, <2>5, <2>6 DEF EndedHoldNothing
  <2>8. held'[i][x] # "none"
    BY <1>2 DEF Grant, Granted, TypeOK, Modes
  <2>9. entries' = {j \in Ids : Occupied(j)'}
    <3>1. Occupied(i)'
      BY <2>8 DEF Occupied
    <3>2. \A j \in Ids : j # i => (Occupied(j)' <=> Occupied(j))
      BY <1>1, <2>1, <2>5 DEF Occupied
    <3> QED
      BY <1>0, <1>2, <3>1, <3>2 DEF Grant
  <2> QED
    BY <2>4, <2>7, <2>9 DEF NoTableLeak, Occupied, QueueIsRequests, EndedHoldNothing
<1>3. CASE Park(x, i, m)
  <2>1. \A j \in Ids : queue'[j] = IF j = i THEN queue[j] \cup {x} ELSE queue[j]
    BY <1>3 DEF Park, TypeOK
  <2>2. \A y \in Xids : y # x => (Waiting(y)' <=> Waiting(y)) /\ req'[y] = req[y]
    BY <1>3 DEF Park, Waiting, TypeOK
  <2>3. Waiting(x)' /\ req'[x].id = i
    BY <1>3 DEF Park, Waiting, TypeOK
  <2>4. QueueIsRequests'
    <3>1. ASSUME NEW y \in Xids, NEW j \in Ids, y # x
          PROVE  y \in queue'[j] <=> (Waiting(y)' /\ req'[y].id = j)
      <4>1. y \in queue'[j] <=> y \in queue[j]
        BY <2>1, <3>1
      <4>2. y \in queue[j] <=> (Waiting(y) /\ req[y].id = j)
        BY <1>0 DEF QueueIsRequests
      <4>3. (Waiting(y)' <=> Waiting(y)) /\ req'[y] = req[y]
        BY <2>2, <3>1
      <4> QED
        BY <4>1, <4>2, <4>3
    <3>2. ASSUME NEW j \in Ids
          PROVE  x \in queue'[j] <=> (Waiting(x)' /\ req'[x].id = j)
      BY <1>1, <2>1, <2>3
    <3> QED
      BY <3>1, <3>2 DEF QueueIsRequests
  <2>5. EndedHoldNothing'
    BY <1>0, <1>3 DEF EndedHoldNothing, Park, TypeOK
  <2>6. entries' = {j \in Ids : Occupied(j)'}
    <3>1. Occupied(i)'
      BY <2>1 DEF Occupied
    <3>2. \A j \in Ids : j # i => (Occupied(j)' <=> Occupied(j))
      BY <1>3, <2>1 DEF Occupied, Park
    <3> QED
      BY <1>0, <1>3, <3>1, <3>2 DEF Park
  <2> QED
    BY <2>4, <2>5, <2>6 DEF NoTableLeak, Occupied, QueueIsRequests, EndedHoldNothing
<1>4. CASE Victim(x, i, m)
  <2>1. \A j \in Ids : queue'[j] = queue[j] \ {x}
    BY <1>1, <1>4 DEF Victim, TypeOK
  <2>2. \A y \in Xids : y # x => (Waiting(y)' <=> Waiting(y)) /\ req'[y] = req[y]
    BY <1>4 DEF Victim, NotifyAll, Waiting, TypeOK
  <2>3. ~Waiting(x)'
    BY <1>4 DEF Victim, NotifyAll, Waiting, TypeOK
  <2>4. QueueIsRequests'
    BY <1>0, <2>1, <2>2, <2>3 DEF QueueIsRequests
  <2>5. \A y \in Xids : pc'[y] \in {"notifying", "ended"} => y # x /\ pc'[y] = pc[y]
    BY <1>4 DEF Victim, NotifyAll, TypeOK
  <2>6. EndedHoldNothing'
    BY <1>0, <1>4, <2>5 DEF EndedHoldNothing, Victim
  <2>7. entries' = {j \in Ids : Occupied(j)'}
    BY <1>0, <1>4, <2>1 DEF Occupied, Victim, Gc
  <2> QED
    BY <2>4, <2>6, <2>7 DEF NoTableLeak, Occupied, QueueIsRequests, EndedHoldNothing
<1> QED
  BY <1>2, <1>3, <1>4

\* try_acquire_write_many: its records become held and so keep their entries.
LEMMA TryAcquireWriteManyNoLeak ==
  ASSUME TypeOK, NoTableLeak, NEW x \in Xids, NEW is \in SUBSET Ids,
         TryAcquireWriteMany(x, is)
  PROVE  NoTableLeak'
<1>0. entries = {j \in Ids : Occupied(j)} /\ QueueIsRequests /\ EndedHoldNothing
  BY LeakParts
<1>1. \A j \in Ids : queue'[j] = queue[j]
  BY <1>0 DEF QueueIsRequests, Waiting, TryAcquireWriteMany, TypeOK
<1>2. \A j \in Ids, y \in Xids :
        held'[j][y] = IF j \in is /\ y = x THEN "Exclusive" ELSE held[j][y]
  BY DEF TryAcquireWriteMany, TypeOK
<1>3. QueueIsRequests'
  BY <1>0, <1>1 DEF QueueIsRequests, Waiting, TryAcquireWriteMany
<1>4. EndedHoldNothing'
  BY <1>0, <1>2 DEF EndedHoldNothing, TryAcquireWriteMany
<1>5. \A j \in Ids : Occupied(j)' <=> Occupied(j) \/ j \in is
  BY <1>1, <1>2 DEF Occupied
<1>6. entries' = {j \in Ids : Occupied(j)'}
  BY <1>0, <1>5 DEF TryAcquireWriteMany
<1> QED
  BY <1>3, <1>4, <1>6 DEF NoTableLeak, Occupied, QueueIsRequests, EndedHoldNothing

\* release_all: what it empties, gc drops.
LEMMA ReleaseAllNoLeak ==
  ASSUME TypeOK, NoTableLeak, NEW x \in Xids, ReleaseAll(x)
  PROVE  NoTableLeak'
<1>0. entries = {j \in Ids : Occupied(j)} /\ QueueIsRequests /\ EndedHoldNothing
  BY LeakParts
<1>1. \A j \in Ids : queue'[j] = queue[j] \ {x}
  BY DEF ReleaseAll
<1>2. \A j \in Ids, y \in Xids : held'[j][y] = IF y = x THEN "none" ELSE held[j][y]
  BY DEF ReleaseAll, TypeOK
<1>3. QueueIsRequests'
  BY <1>0, <1>1 DEF QueueIsRequests, Waiting, ReleaseAll, TypeOK
<1>4. EndedHoldNothing'
  BY <1>0, <1>2 DEF EndedHoldNothing, ReleaseAll, TypeOK
<1>5. \A j \in Ids : Occupied(j)' => Occupied(j)
  BY <1>1, <1>2 DEF Occupied
<1>6. entries' = {j \in Ids : Occupied(j)'}
  BY <1>0, <1>5 DEF ReleaseAll, Gc, Occupied
<1> QED
  BY <1>3, <1>4, <1>6 DEF NoTableLeak, Occupied, QueueIsRequests, EndedHoldNothing

LEMMA NextNoLeak == TypeOK /\ NoTableLeak /\ [Next]_vars => NoTableLeak'
<1> SUFFICES ASSUME TypeOK, NoTableLeak, [Next]_vars PROVE NoTableLeak'
  OBVIOUS
<1>0. TypeOK'
  BY NextTypeOK
<1>1. ASSUME NEW x \in Xids, NEW i \in Ids, NEW m \in Modes, Acquire(x, i, m)
      PROVE  NoTableLeak'
  BY <1>0, <1>1, AttemptNoLeak DEF Acquire
<1>2. ASSUME NEW x \in Xids, Recheck(x) PROVE NoTableLeak'
  <2>1. pc[x] = "woken"
    BY <1>2 DEF Recheck
  <2> QED
    BY <1>0, <1>2, <2>1, RecheckIsAttempt, AttemptNoLeak
<1>3. ASSUME NEW x \in Xids, SpuriousWake(x) PROVE NoTableLeak'
  <2>1. \A y \in Xids : Waiting(y)' <=> Waiting(y)
    BY <1>3 DEF SpuriousWake, Waiting, TypeOK
  <2>2. \A y \in Xids : pc'[y] \in {"notifying", "ended"} => pc'[y] = pc[y]
    BY <1>3 DEF SpuriousWake, TypeOK
  <2> QED
    BY <1>3, <2>1, <2>2 DEF SpuriousWake, NoTableLeak
<1>4. ASSUME NEW x \in Xids, NEW is \in SUBSET Ids, TryAcquireWriteMany(x, is)
      PROVE  NoTableLeak'
  BY <1>4, TryAcquireWriteManyNoLeak
<1>5. ASSUME NEW x \in Xids, ReleaseAll(x) PROVE NoTableLeak'
  BY <1>5, ReleaseAllNoLeak
<1>6. ASSUME NEW x \in Xids, ReleaseNotify(x) PROVE NoTableLeak'
  <2>1. \A y \in Xids : Waiting(y)' <=> Waiting(y)
    BY <1>6 DEF ReleaseNotify, NotifyAll, Waiting, TypeOK
  <2>2. \A y \in Xids : pc'[y] \in {"notifying", "ended"}
                          => pc[y] \in {"notifying", "ended"}
    BY <1>6 DEF ReleaseNotify, NotifyAll, TypeOK
  <2>3. held' = held /\ queue' = queue /\ entries' = entries /\ req' = req
    BY <1>6 DEF ReleaseNotify
  <2> QED
    BY <2>1, <2>2, <2>3 DEF NoTableLeak
<1>7. CASE UNCHANGED vars
  BY <1>7 DEF vars, NoTableLeak, Waiting
<1> QED
  BY <1>1, <1>2, <1>3, <1>4, <1>5, <1>6, <1>7 DEF Next, Finished

\* The lock table has an entry exactly for the records held or waited on, the
\* queues hold exactly the outstanding requests, and a transaction that ended
\* has left nothing behind.
THEOREM TableDoesNotLeak == Spec => []NoTableLeak
<1>1. Init => NoTableLeak
  BY DEF Init, NoTableLeak, Waiting
<1> QED
  BY <1>1, TypeCorrect, NextNoLeak, PTL DEF Spec
============================================================================
