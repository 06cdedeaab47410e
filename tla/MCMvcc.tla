------------------------------- MODULE MCMvcc -------------------------------
(* Mvcc on small instances: the workloads of its runs. *)
EXTENDS Mvcc

CONSTANTS r1, r2

RC   == {"ReadCommitted"}
RR   == {"RepeatableRead"}
Both == RC \cup RR

Load(old, xids, isolations, paths, batch, vacuums, hasReader) ==
  [old |-> old, xids |-> xids, isolations |-> isolations, paths |-> paths,
   batch |-> batch, vacuums |-> vacuums, reader |-> hasReader]

\* Two transactions over most paths; three that fight for one row with fixed
\* snapshots; three that take row locks; deletes of two rows, locked or
\* not; one writer whose batches span two pages.
SafeLoads ==
  {Load({r1}, 3, RC, {"insert", "update", "hot", "deleteMany", "updateMany"}, 1, "quiet", TRUE),
   Load({r1}, 4, RR, {"hot", "deleteMany"}, 1, "quiet", FALSE),
   Load({r1}, 4, Both, {"update", "hotXpage"}, 1, "never", FALSE),
   Load({r1, r2}, 3, Both, {"delete", "deleteMany"}, 1, "quiet", TRUE),
   Load({r1, r2}, 2, Both, {"deleteMany", "updateMany"}, 2, "quiet", TRUE)}

HorizonLoads == {Load({r1}, 3, RC, {"deleteMany"}, 1, "always", FALSE)}
ReaderLoads  == {Load({r1}, 3, RC, {"insert", "deleteMany"}, 1, "never", TRUE)}
============================================================================
