------------------------------- MODULE BTree -------------------------------
(***************************************************************************)
(* The paged B+tree index (src/btree_index.rs).  Writers descend with      *)
(* latch coupling and split from the leaf up; single-leaf rewrites locate  *)
(* the leaf without a latch and read it again under one; readers take no   *)
(* latch at all and rely on the leaves' right links.                       *)
(*                                                                         *)
(* An entry is <<key, row id>>; a node holds at most LeafCap entries or    *)
(* NodeCap separators (keys of fixed size).  A page write is one step.  A  *)
(* new page cannot be reached before the page that points to it is         *)
(* written, so the two are written in one step, and so are the read and    *)
(* the write of a leaf that is latched for both.                           *)
(***************************************************************************)
EXTENDS Integers, Sequences, FiniteSets, FiniteSetsExt, SequencesExt

CONSTANTS Threads,    \* threads; thread 0 prepares the tree before the others start
          LeafCap, NodeCap,
          FixedKeys,  \* BOOLEAN: FALSE for text keys, whose size varies
          MaxPages,   \* bound: pages
          Scripts     \* the workloads: per thread the operations it calls

ASSUME CapAssumption == /\ {LeafCap, NodeCap, MaxPages} \subseteq Nat \ {0, 1}
                        /\ FixedKeys \in BOOLEAN /\ 0 \in Threads

VARIABLES
  script,   \* what each thread still has to call, chosen at the start
  pages,    \* the nodes
  root,     \* the root page id, in the meta page
  latch,    \* holder of each page's latch, and of the meta page's (page 0); -1: free
  th,       \* per thread: where its call is
  present   \* history: entries whose insertion has returned and whose removal has not begun

vars == <<script, pages, root, latch, th, present>>

Free == -1
Meta == 0
None == 0   \* INVALID_PAGE_ID as a right link

Leaf(ents, next)     == [leaf |-> TRUE, ents |-> ents, next |-> next, keys |-> <<>>, kids |-> <<>>]
Internal(keys, kids) == [leaf |-> FALSE, ents |-> <<>>, next |-> None, keys |-> keys, kids |-> kids]

\* A call in progress: the operation, the entries or patches left of it, the
\* page a latch-free descent is at, the latched path, the separator and page a
\* split sends up, what a scan has collected and had to find.
Idle == [pc |-> "idle", op |-> <<>>, todo |-> <<>>, cur |-> <<>>, ret |-> "return", all |-> FALSE,
         pid |-> None, path |-> <<>>, pend |-> <<>>, out |-> <<>>, must |-> {}, buf |-> <<>>]

Init == /\ script \in Scripts
        /\ pages = <<Leaf(<<>>, None)>>
        /\ root = 1
        /\ latch = [p \in 0 .. MaxPages |-> Free]
        /\ th = [t \in Threads |-> Idle]
        /\ present = {}
----------------------------------------------------------------------------
(* Nodes *)

EntryLess(e, f) == e[1] < f[1] \/ (e[1] = f[1] /\ e[2] < f[2])

Merge(ents, new) == SetToSortSeq(ToSet(ents) \cup new, EntryLess)

RouteInsertChild(keys, v) == Min({i \in DOMAIN keys : v < keys[i]} \cup {Len(keys) + 1})

\* Mutant: a search for a separator's key starts right of it.
RouteFindRight(keys, v) == RouteInsertChild(keys, v)

\* find_leaf's routing: at a separator's own key to the left, where duplicates may be.
RouteFind(keys, v) == Min({i \in DOMAIN keys : v <= keys[i]} \cup {Len(keys) + 1})

\* Mutant: off by one, so a full node counts as safe.
SafeWhenFull(n) ==
  IF n.leaf THEN Len(n.ents) <= LeafCap ELSE FixedKeys /\ n.keys # <<>> /\ Len(n.keys) <= NodeCap

NodeIsInsertSafe(n) ==
  IF n.leaf THEN Len(n.ents) + 1 <= LeafCap
            ELSE FixedKeys /\ n.keys # <<>> /\ Len(n.keys) + 1 <= NodeCap

\* split_leaf and split_internal: what goes left, what goes right, what goes up.
SplitLeaf(n, right) ==
  LET mid == Len(n.ents) \div 2 IN
  [left  |-> Leaf(SubSeq(n.ents, 1, mid), right),
   right |-> Leaf(SubSeq(n.ents, mid + 1, Len(n.ents)), n.next),
   up    |-> n.ents[mid + 1][1]]

SplitInternal(n) ==
  LET mid == Len(n.keys) \div 2 + 1 IN
  [left  |-> Internal(SubSeq(n.keys, 1, mid - 1), SubSeq(n.kids, 1, mid)),
   right |-> Internal(SubSeq(n.keys, mid + 1, Len(n.keys)), SubSeq(n.kids, mid + 1, Len(n.kids))),
   up    |-> n.keys[mid]]

Top(t)      == Last(th[t].path)
InRange(n, k) == n.ents # <<>> /\ n.ents[1][1] <= k /\ k <= Last(n.ents)[1]

\* How many of the entries, from the first on, lie in the leaf's key range.
RunLength(s, n) == Min({i \in DOMAIN s : ~InRange(n, s[i][1])} \cup {Len(s) + 1}) - 1

Admits(cmp, k, v) == CASE cmp = "eq" -> k = v [] cmp = "lt" -> k < v [] cmp = "le" -> k <= v
                       [] cmp = "gt" -> k > v [] cmp = "ge" -> k >= v

\* Mutant: the meta page's latch is never let go.
KeepMeta(t) == [p \in DOMAIN latch |-> IF latch[p] = t /\ p # Meta THEN Free ELSE latch[p]]

Unlatched(t) == [p \in DOMAIN latch |-> IF latch[p] = t THEN Free ELSE latch[p]]
----------------------------------------------------------------------------
(* Calls *)

\* A scan has to find what is present all the while, so it is noted at the start.
Start(t) ==
  LET o == Head(script[t]) IN
  /\ th[t].pc = "idle" /\ script[t] # <<>>
  /\ t = 0 \/ (script[0] = <<>> /\ th[0].pc = "idle")
  /\ script' = [script EXCEPT ![t] = Tail(@)]
  /\ th' = [th EXCEPT ![t] = [Idle EXCEPT
              !.op = o, !.todo = o.ents, !.cur = o.ents[1], !.must = present,
              !.pc = IF o.op = "insert" THEN "latchmeta" ELSE "meta"]]
  /\ present' = IF o.op \in {"remove", "update", "patch"} THEN present \ {<<e[1], e[2]>> : e \in ToSet(o.ents)}
                ELSE IF o.op = "set" THEN {e \in present : e[1] # o.ents[1][1]} ELSE present
  /\ UNCHANGED <<pages, root, latch>>

Return(t) ==
  /\ th[t].pc = "return"
  /\ th' = [th EXCEPT ![t] = Idle]
  /\ UNCHANGED <<script, pages, root, latch, present>>

\* root_page; then find_leaf, leftmost_leaf or rightmost_leaf, page by page.
ReadMeta(t) ==
  /\ th[t].pc = "meta"
  /\ th' = [th EXCEPT ![t].pc = "down", ![t].pid = root]
  /\ UNCHANGED <<script, pages, root, latch, present>>

FindLeaf(t) ==
  LET n == pages[th[t].pid]
      o == th[t].op
      i == CASE o.op = "max" -> Len(n.kids)
             [] o.op = "scan" /\ o.cmp \in {"lt", "le"} -> 1
             [] OTHER -> RouteFind(n.keys, th[t].todo[1][1])
  IN
  /\ th[t].pc = "down"
  /\ th' = [th EXCEPT ![t] = IF n.leaf THEN [@ EXCEPT !.pc = "leaf"] ELSE [@ EXCEPT !.pid = n.kids[i]]]
  /\ UNCHANGED <<script, pages, root, latch, present>>

\* search_eq, search_range, search_range_limit and their variants: one leaf
\* after another, until the keys are past the range or the limit is reached.
ScanLeaf(t) ==
  LET o    == th[t].op
      n    == pages[th[t].pid]
      v    == o.ents[1][1]
      got  == th[t].out \o SelectSeq(n.ents, LAMBDA e : Admits(o.cmp, e[1], v))
      past == \/ o.cmp = "eq" /\ \E e \in ToSet(n.ents) : e[1] > v
              \/ o.cmp \in {"lt", "le"} /\ \E e \in ToSet(n.ents) : ~Admits(o.cmp, e[1], v)
              \/ Len(got) >= o.limit
  IN
  /\ th[t].pc = "leaf" /\ o.op = "scan"
  /\ th' = [th EXCEPT ![t].out = SubSeq(got, 1, Min({Len(got), o.limit})),
                      ![t].pid = n.next,
                      ![t].pc = IF past \/ n.next = None THEN "return" ELSE "leaf"]
  /\ UNCHANGED <<script, pages, root, latch, present>>

\* search_range_partition: the collected entries in n runs of equal length, the
\* last ones shorter or empty.
SearchRangePartition(s, n) ==
  LET per == IF s = <<>> THEN 1 ELSE (Len(s) + n - 1) \div n IN
  [i \in 1 .. n |-> SubSeq(s, Min({(i - 1) * per, Len(s)}) + 1,
                              IF i = n THEN Len(s) ELSE Min({i * per, Len(s)}))]

\* max_entry reads the one leaf it has reached.
MaxEntry(t) ==
  LET n == pages[th[t].pid] IN
  /\ th[t].pc = "leaf" /\ th[t].op.op = "max"
  /\ th' = [th EXCEPT ![t].out = IF n.ents = <<>> THEN <<>> ELSE <<Last(n.ents)>>, ![t].pc = "return"]
  /\ UNCHANGED <<script, pages, root, latch, present>>
----------------------------------------------------------------------------
(* insert_in_txn_with_include, and the descent of insert_batch_in_txn (all) *)

LatchMeta(t) ==
  /\ th[t].pc = "latchmeta" /\ latch[Meta] = Free
  /\ latch' = [latch EXCEPT ![Meta] = t]
  /\ th' = [th EXCEPT ![t].pc = "latchroot"]
  /\ UNCHANGED <<script, pages, root, present>>

LatchRoot(t) ==
  /\ th[t].pc = "latchroot" /\ latch[root] = Free
  /\ latch' = [latch EXCEPT ![root] = t]
  /\ th' = [th EXCEPT ![t].pc = "path", ![t].path = <<[pid |-> root, node |-> pages[root], idx |-> 0]>>]
  /\ UNCHANGED <<script, pages, root, present>>

\* Latch the child; once it cannot split, let go of everything above it.
Descend(t) ==
  LET i == RouteInsertChild(Top(t).node.keys, th[t].cur[1])
      c == Top(t).node.kids[i]
      f == [pid |-> c, node |-> pages[c], idx |-> 0]
      free == ~th[t].all /\ NodeIsInsertSafe(pages[c])
  IN
  /\ th[t].pc = "path" /\ ~Top(t).node.leaf /\ latch[c] = Free
  /\ latch' = [IF free THEN Unlatched(t) ELSE latch EXCEPT ![c] = t]
  /\ th' = [th EXCEPT ![t].path = IF free THEN <<f>> ELSE Append(Front(@) \o <<[Last(@) EXCEPT !.idx = i]>>, f)]
  /\ UNCHANGED <<script, pages, root, present>>

\* The insertion is over: all latches go, and the caller continues.
Finish(t) ==
  /\ latch' = Unlatched(t)
  /\ th' = [th EXCEPT ![t].pc = th[t].ret, ![t].path = <<>>, ![t].pend = <<>>, ![t].all = FALSE]
  /\ present' = present \cup (IF th[t].all THEN ToSet(th[t].buf) ELSE {th[t].cur})

\* A node that overflows is split; its latch goes, its parent is next.
SplitUp(t, s) ==
  /\ Len(pages) < MaxPages
  /\ pages' = Append([pages EXCEPT ![Top(t).pid] = s.left], s.right)
  /\ latch' = [latch EXCEPT ![Top(t).pid] = Free]
  /\ th' = [th EXCEPT ![t].path = Front(@), ![t].pend = <<s.up, Len(pages) + 1>>,
                      ![t].pc = IF Len(th[t].path) = 1 THEN "newroot" ELSE "up"]
  /\ UNCHANGED <<script, root, present>>

InsertLeaf(t) ==
  LET n == [Top(t).node EXCEPT !.ents = Merge(@, {th[t].cur})] IN
  /\ th[t].pc = "path" /\ Top(t).node.leaf /\ ~th[t].all
  /\ IF Len(n.ents) <= LeafCap
     THEN /\ Finish(t)
          /\ pages' = IF n = Top(t).node THEN pages ELSE [pages EXCEPT ![Top(t).pid] = n]
          /\ UNCHANGED <<script, root>>
     ELSE SplitUp(t, SplitLeaf(n, Len(pages) + 1))

InsertUp(t) ==
  LET f == Top(t)
      n == Internal(InsertAt(f.node.keys, f.idx, th[t].pend[1]), InsertAt(f.node.kids, f.idx + 1, th[t].pend[2]))
  IN
  /\ th[t].pc = "up"
  /\ IF Len(n.keys) <= NodeCap
     THEN /\ pages' = [pages EXCEPT ![f.pid] = n]
          /\ Finish(t)
          /\ UNCHANGED <<script, root>>
     ELSE SplitUp(t, SplitInternal(n))

NewRoot(t) ==
  /\ th[t].pc = "newroot" /\ Len(pages) < MaxPages
  /\ pages' = Append(pages, Internal(<<th[t].pend[1]>>, <<root, th[t].pend[2]>>))
  /\ root' = Len(pages) + 1
  /\ Finish(t)
  /\ UNCHANGED script
----------------------------------------------------------------------------
(* insert_many_in_txn *)

\* Insert the first remaining entry by itself.
CallInsert(t, rest) ==
  th' = [th EXCEPT ![t].pc = "latchmeta", ![t].cur = th[t].todo[1], ![t].todo = rest, ![t].ret = "next",
                   ![t].path = <<>>, ![t].all = FALSE, ![t].buf = <<>>]

\* The leaf find_leaf gave, under its latch: take what fits into its range, or
\* hand a run that overflows it to the batch descent, or one entry to insert.
ManyLeaf(t) ==
  LET n   == pages[th[t].pid]
      s   == th[t].todo
      run == RunLength(s, n)
      new == {s[i] : i \in 1 .. run} \ ToSet(n.ents)
      fit == Max({i \in 0 .. run : Len(n.ents) + Cardinality({s[j] : j \in 1 .. i} \ ToSet(n.ents)) <= LeafCap})
      took == ToSet(SubSeq(s, 1, fit))
  IN
  /\ th[t].pc = "leaf" /\ th[t].op.op = "many" /\ latch[th[t].pid] = Free
  /\ UNCHANGED <<script, root, latch>>
  /\ \/ /\ run >= 2 /\ (Len(n.ents) + run > LeafCap \/ fit = 0)
        /\ th' = [th EXCEPT ![t].pc = "latchmeta", ![t].cur = s[1], ![t].buf = SubSeq(s, 1, run),
                            ![t].ret = "next", ![t].all = TRUE]
        /\ UNCHANGED <<pages, present>>
     \/ /\ run < 2 /\ fit = 0 /\ CallInsert(t, Tail(s)) /\ UNCHANGED <<pages, present>>
     \/ /\ ~(run >= 2 /\ Len(n.ents) + run > LeafCap) /\ fit > 0
        /\ pages' = IF new = {} THEN pages ELSE [pages EXCEPT ![th[t].pid].ents = Merge(@, took)]
        /\ present' = present \cup took
        /\ th' = [th EXCEPT ![t].todo = SubSeq(s, fit + 1, Len(s)), ![t].pc = "next"]

\* insert_batch_in_txn at its leaf, with the whole path latched: the part of the
\* run in this leaf's range goes in, over at most one split; a leaf that is
\* empty or too small for it takes the first entry alone.
BatchLeaf(t) ==
  LET n    == Top(t).node
      run  == RunLength(th[t].buf, n)
      took == SubSeq(th[t].buf, 1, run)
      all  == [n EXCEPT !.ents = Merge(@, ToSet(took))]
      rest == SubSeq(th[t].todo, run + 1, Len(th[t].todo))
  IN
  /\ th[t].pc = "path" /\ n.leaf /\ th[t].all
  /\ \/ /\ n.ents = <<>> \/ Len(all.ents) > 2 * LeafCap
        /\ latch' = Unlatched(t) /\ CallInsert(t, Tail(th[t].todo))
        /\ UNCHANGED <<script, pages, root, present>>
     \/ /\ n.ents # <<>> /\ Len(all.ents) <= LeafCap
        /\ pages' = IF run = 0 THEN pages ELSE [pages EXCEPT ![Top(t).pid] = all]
        /\ latch' = Unlatched(t) /\ present' = present \cup ToSet(took)
        /\ th' = [th EXCEPT ![t].todo = rest, ![t].pc = "next", ![t].path = <<>>, ![t].all = FALSE]
        /\ UNCHANGED <<script, root>>
     \/ /\ n.ents # <<>> /\ Len(all.ents) \in LeafCap + 1 .. 2 * LeafCap /\ Len(pages) < MaxPages
        /\ LET s == SplitLeaf(all, Len(pages) + 1) IN
           /\ pages' = Append([pages EXCEPT ![Top(t).pid] = s.left], s.right)
           /\ th' = [th EXCEPT ![t].path = Front(@), ![t].pend = <<s.up, Len(pages) + 1>>,
                               ![t].buf = took, ![t].todo = rest,
                               ![t].pc = IF Len(th[t].path) = 1 THEN "newroot" ELSE "up"]
        /\ latch' = [latch EXCEPT ![Top(t).pid] = Free]
        /\ UNCHANGED <<script, root, present>>

\* The loop around them, for insert_many, patch_many and their fallbacks.
NextEntry(t) ==
  /\ th[t].pc = "next"
  /\ th' = [th EXCEPT ![t].pc = IF th[t].todo = <<>> THEN "return" ELSE "meta"]
  /\ UNCHANGED <<script, pages, root, latch, present>>
----------------------------------------------------------------------------
(* Rewrites of a single leaf.  A patch is <<key, old row id, new row id>>. *)

Patched(ents, p) == [i \in DOMAIN ents |-> IF ents[i] = <<p[1], p[2]>> THEN <<p[1], p[3]>> ELSE ents[i]]

\* patch_many: all patches in the leaf's range; those not found there are inserted.
PatchLeaf(t) ==
  LET n   == pages[th[t].pid]
      s   == th[t].todo
      run == IF n.ents = <<>> THEN 1 ELSE 1 + RunLength(Tail(s), n)
      hit == {i \in 1 .. run : <<s[i][1], s[i][2]>> \in ToSet(n.ents)}
      \* fallbacks, as insertions without a range of their own
      missed == SelectSeq(SubSeq(s, 1, run), LAMBDA p : <<p[1], p[2]>> \notin ToSet(n.ents))
  IN
  /\ th[t].pc = "leaf" /\ th[t].op.op = "patch" /\ latch[th[t].pid] = Free
  /\ pages' = [pages EXCEPT ![th[t].pid].ents =
                 FoldLeft(LAMBDA ents, i : Patched(ents, s[i]), @, SetToSortSeq(hit, <))]
  /\ present' = present \cup {<<s[i][1], s[i][3]>> : i \in hit}
  /\ th' = [th EXCEPT ![t].todo = SubSeq(s, run + 1, Len(s)), ![t].pc = "fallback",
                      ![t].buf = [i \in DOMAIN missed |-> <<missed[i][1], missed[i][3]>>]]
  /\ UNCHANGED <<script, root, latch>>

Fallback(t) ==
  /\ th[t].pc = "fallback"
  /\ th' = [th EXCEPT ![t] = IF @.buf = <<>> THEN [@ EXCEPT !.pc = "next"]
                             ELSE [@ EXCEPT !.pc = "latchmeta", !.cur = Head(th[t].buf), !.buf = Tail(@), !.ret = "fallback"]]
  /\ UNCHANGED <<script, pages, root, latch, present>>

\* set_value changes the first entry of the key, if it is in this leaf.
SetLeaf(t) ==
  LET n == pages[th[t].pid]
      e == th[t].op.ents[1]
      i == {j \in DOMAIN n.ents : n.ents[j][1] = e[1]}
  IN
  /\ th[t].pc = "leaf" /\ th[t].op.op = "set" /\ latch[th[t].pid] = Free
  /\ pages' = IF i = {} THEN pages ELSE [pages EXCEPT ![th[t].pid].ents[Min(i)] = e]
  /\ th' = [th EXCEPT ![t].pc = "return"]
  /\ UNCHANGED <<script, root, latch, present>>

\* remove walks right until it finds the entry or a larger key; an empty leaf ends it.
RemoveLeaf(t) ==
  LET n == pages[th[t].pid]
      e == th[t].op.ents[1]
      here == e \in ToSet(n.ents)
      past == n.ents = <<>> \/ Last(n.ents)[1] > e[1]
  IN
  /\ th[t].pc = "leaf" /\ th[t].op.op = "remove" /\ latch[th[t].pid] = Free
  /\ pages' = IF here THEN [pages EXCEPT ![th[t].pid].ents = Remove(@, e)] ELSE pages
  /\ th' = [th EXCEPT ![t].pid = n.next, ![t].pc = IF here \/ past \/ n.next = None THEN "return" ELSE "leaf"]
  /\ UNCHANGED <<script, root, latch, present>>

\* update_rowid_inplace takes no latch: it reads the leaf, and writes it back later.
UpdateRead(t) ==
  LET n == pages[th[t].pid]
      p == th[t].op.ents[1]
      here == <<p[1], p[2]>> \in ToSet(n.ents)
      past == \E e \in ToSet(n.ents) : e[1] > p[1]
  IN
  /\ th[t].pc = "leaf" /\ th[t].op.op = "update"
  /\ th' = [th EXCEPT ![t] =
              IF here THEN [@ EXCEPT !.pc = "write", !.path = <<[n EXCEPT !.ents = Patched(@, p)]>>]
              ELSE IF past \/ n.next = None
                   THEN [@ EXCEPT !.pc = "latchmeta", !.cur = <<p[1], p[3]>>, !.ret = "return"]
                   ELSE [@ EXCEPT !.pid = n.next]]
  /\ UNCHANGED <<script, pages, root, latch, present>>

UpdateWrite(t) ==
  /\ th[t].pc = "write"
  /\ pages' = [pages EXCEPT ![th[t].pid] = th[t].path[1]]
  /\ present' = present \cup {<<th[t].op.ents[1][1], th[t].op.ents[1][3]>>}
  /\ th' = [th EXCEPT ![t].pc = "return", ![t].path = <<>>]
  /\ UNCHANGED <<script, root, latch>>
----------------------------------------------------------------------------
InsertStep(t) == \/ LatchMeta(t) \/ LatchRoot(t) \/ Descend(t)
                 \/ InsertLeaf(t) \/ InsertUp(t) \/ NewRoot(t)
BatchStep(t)  == ManyLeaf(t) \/ BatchLeaf(t) \/ NextEntry(t)
LeafStep(t)   == \/ PatchLeaf(t) \/ Fallback(t) \/ SetLeaf(t) \/ RemoveLeaf(t)
                 \/ UpdateRead(t) \/ UpdateWrite(t)
ReadStep(t)   == ReadMeta(t) \/ FindLeaf(t) \/ ScanLeaf(t) \/ MaxEntry(t)

Step(t) == Start(t) \/ InsertStep(t) \/ BatchStep(t) \/ LeafStep(t) \/ ReadStep(t) \/ Return(t)
Next    == \E t \in Threads : Step(t)

\* Every thread keeps running.
Spec == Init /\ [][Next]_vars /\ \A t \in Threads : WF_vars(Step(t))
----------------------------------------------------------------------------
(* Properties *)

RECURSIVE LeafOf(_, _), ChainFrom(_, _)
LeafOf(p, v)       == IF pages[p].leaf THEN p ELSE LeafOf(pages[p].kids[RouteFind(pages[p].keys, v)], v)
ChainFrom(p, seen) == IF p = None \/ p \in seen THEN <<>> ELSE <<p>> \o ChainFrom(pages[p].next, seen \cup {p})

\* Whatever writers are in the middle of, a search that starts now finds every
\* entry whose insertion has returned: the "false negative" that the header of
\* btree_index.rs calls the one dangerous case.  The leaves from the one
\* find_leaf picks hold the entry, with no larger key before it.
EntriesFindable ==
  \A e \in present :
    LET chain == ChainFrom(LeafOf(root, e[1]), {}) IN
    \E i \in DOMAIN chain :
      /\ e \in ToSet(pages[chain[i]].ents)
      /\ \A j \in 1 .. i - 1 : \A f \in ToSet(pages[chain[j]].ents) : f[1] <= e[1]

\* A latch-free scan returns, in key order, every entry that was there from its
\* beginning to its end, up to its limit, and a partition of the result loses
\* and repeats nothing.
ScansComplete ==
  \A t \in Threads : th[t].pc = "return" /\ th[t].op.op = "scan" =>
    LET o == th[t].op  out == th[t].out  parts == SearchRangePartition(out, 2) IN
    /\ \A e \in th[t].must \cap present : Admits(o.cmp, e[1], o.ents[1][1]) =>
         e \in ToSet(out) \/ (Len(out) = o.limit /\ Last(out)[1] <= e[1])
    /\ \A i \in 1 .. Len(out) - 1 : out[i][1] <= out[i + 1][1]
    /\ parts[1] \o parts[2] = out

\* No call waits for ever: latches are taken from the root down and batches advance.
CallsReturn == <>(\A t \in Threads : script[t] = <<>> /\ th[t].pc = "idle")
============================================================================
