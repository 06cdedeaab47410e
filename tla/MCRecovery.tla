----------------------------- MODULE MCRecovery -----------------------------
(* Recovery on small instances: the workloads of its runs. *)
EXTENDS Recovery

Load(writes, aborts, width, vacuum, pages, rows, lsns) ==
  [writes |-> writes, aborts |-> aborts, width |-> width, vacuum |-> vacuum,
   overlap |-> FALSE, dirtyRestart |-> FALSE, pages |-> pages, rows |-> rows,
   lsns |-> lsns]

\* One transaction at a time, with rollbacks; two at once, on two pages; HOT
\* updates and batch inserts; deletes that vacuum cleans up after.
SafeLoads ==
  {Load({"insert", "stamp", "xmaxBatch"}, TRUE, 1, FALSE, {1}, 1, 14),
   Load({"insert", "xmaxBatch"}, FALSE, 2, FALSE, {1, 2}, 1, 12),
   Load({"hot", "batch"}, FALSE, 2, FALSE, {1}, 1, 14),
   Load({"stamp", "xmaxBatch"}, FALSE, 2, TRUE, {1}, 1, 14)}

RestartLoads == {[Load({"stamp"}, FALSE, 1, FALSE, {1}, 2, 16) EXCEPT !.dirtyRestart = TRUE]}
HotLoads     == {Load({"hot"}, TRUE, 1, FALSE, {1}, 1, 16)}
=============================================================================
