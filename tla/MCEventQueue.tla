---------------------------- MODULE MCEventQueue ----------------------------
(* EventQueue on small instances: the workloads of its runs. *)
EXTENDS EventQueue, TLC

CONSTANTS d1, d2, c1, c2, ta, tb

Both == {ta, tb}

Dispatcher(limit) ==
  [kind |-> (d1 :> "dispatcher") @@ (d2 :> "off"), name |-> (d1 :> c1) @@ (d2 :> c2),
   wants |-> (d1 :> Both) @@ (d2 :> {ta}), limit |-> limit, writers |-> 2,
   perTxn |-> 2, tables |-> {ta}, serial |-> FALSE, stale |-> 1, crashes |-> 0,
   window |-> TRUE, vacuums |-> FALSE]

\* Overlapping writers, aborts and vacuum_events; a crash; two workers of one
\* consumer; a tail beside a dispatcher of one table; two consumers.
SafeLoads ==
  {[Dispatcher(2) EXCEPT !.vacuums = TRUE],
   [Dispatcher(3) EXCEPT !.writers = 3, !.serial = TRUE, !.crashes = 1,
                         !.window = FALSE],
   [Dispatcher(1) EXCEPT !.kind[d2] = "dispatcher", !.name[d2] = c1, !.perTxn = 1,
                         !.stale = 0, !.serial = TRUE, !.vacuums = TRUE],
   [Dispatcher(2) EXCEPT !.kind = (d1 :> "tail") @@ (d2 :> "dispatcher"), !.tables = Both,
                         !.perTxn = 1, !.stale = 0],
   [Dispatcher(1) EXCEPT !.kind[d2] = "webhook", !.perTxn = 1, !.stale = 0,
                         !.vacuums = TRUE]}

OverlapLoads == {Dispatcher(2)}
============================================================================
