--------------------------- MODULE MCParallelScan ---------------------------
(* Two scans and the warm-up compete for a pool of three threads: two      *)
(* leases of two workers never fit, a scan may be left with a single       *)
(* worker, and one of the scans may fail half way.                         *)
EXTENDS ParallelScan

MCScans == {"a", "b", "w"}
MCPages(s) ==
  CASE s = "a" -> <<<<1, 2>>, <<2>>, <<1>>>> [] s = "b" -> <<<<2, 2>>, <<1, 2>>>> [] s = "w" -> <<>>
MCKinds ==
  {[s \in MCScans |-> CASE s = "a" -> "collect" [] s = "b" -> "count_matching" [] s = "w" -> "warm"],
   [s \in MCScans |-> CASE s = "a" -> "count" [] s = "b" -> "group" [] s = "w" -> "warm"]}
MCMatches(r) == r = 2
=============================================================================
