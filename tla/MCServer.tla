------------------------------ MODULE MCServer -------------------------------
(* Instances of Server for TLC.  A workload fixes what each request may ask *)
(* for, whether handlers may be dropped, how often the process restarts,   *)
(* and whether the log may fail and commits may checkpoint.                *)
EXTENDS Server

CONSTANTS r1, r2, r3, r4, alice, bob

MCReqs == {r1, r2, r3, r4}
MCUsers == {alice, bob}

S(op) == [op |-> op]
W == S("write")
Input(kind, user, target, script, ser, stop) ==
  [kind |-> kind, user |-> user, target |-> target, script |-> script,
   ser |-> ser, stop |-> stop]

OneTable ==
  CreateTable(EmptyCatalog, [t |-> "t", cols |-> {"a", "b"}, type |-> "none",
                             tag |-> "init"])

(* Writes through the resource API, one that fails at its second value.    *)
Write(verb, filters, does) ==
  [verb |-> verb, known |-> {"a", "b"}, rows |-> <<{"a"}, {"a"}>>,
   resolve |-> "merge", target |-> {"a"}, body |-> {"b"}, filters |-> filters,
   does |-> [v \in {"all", "1", "2"} |-> IF v = does THEN "fail" ELSE "write"]]
In12 == [col |-> "a", op |-> "in", values |-> <<"1", "2">>]
RestInputs ==
  { Write("patch", <<In12, [In12 EXCEPT !.op = "eq"]>>, "none"),
    Write("patch", <<In12>>, "2"), Write("delete", <<In12, In12>>, "none"),
    Write("delete", << >>, "none"),
    Write("post", << >>, "none"),
    [Write("post", << >>, "none") EXCEPT !.rows = <<{"a", "b"}, {"a", "b"}>>],
    [Write("post", << >>, "none") EXCEPT !.known = {}] }

Load(inputs, schema, drops, crs) ==
  [inputs |-> [r \in MCReqs |-> IF r \in DOMAIN inputs THEN inputs[r] ELSE {}],
   schema |-> schema, drops |-> drops, crashes |-> crs,
   faults |-> FALSE, auto |-> FALSE]

(* One client-held transaction: statements that work, fail, are refused or *)
(* belong to somebody else, and the two ways to end it.                    *)
BeginTxn == {Input("begin", alice, 0, << >>, TRUE, FALSE)}
InTxn(script, kind) == Input(kind, alice, 1, script, FALSE, FALSE)
Sessions(crs) ==
  Load(r1 :> BeginTxn
       @@ r2 :> {InTxn(<<W, W>>, "sql"), InTxn(<<W, S("fail")>>, "sql"),
                 InTxn(<<S("row"), S("row")>>, "rows"), InTxn(<<S("get")>>, "get")}
       @@ r3 :> {InTxn(<<W>>, "sql"), InTxn(<< >>, "commit"), InTxn(<< >>, "rollback"),
                 InTxn(<<S("truncate")>>, "sql"),
                 Input("sql", bob, 1, <<W>>, FALSE, FALSE)}
       @@ r4 :> {InTxn(<< >>, "commit")},
       OneTable, TRUE, crs)

(* Requests that carry their own transactions.                             *)
Shot(kind, script, ser, stop) == Input(kind, alice, 0, script, ser, stop)
Batches ==
  {Shot("batch", <<W, S("fail"), W>>, FALSE, stop) : stop \in BOOLEAN}
  \cup {Shot("batch", <<S("denied"), S("read"), W>>, FALSE, FALSE)}
Rpcs ==
  {Shot("rpc", <<W, p>>, FALSE, FALSE) : p \in {W, S("fail"), S("denied")}}
  \cup {Shot("rpc", <<S("denied")>>, FALSE, FALSE)}
Sqls ==
  {Shot("sql", <<W, W>>, TRUE, FALSE), Shot("sql", <<W, S("read")>>, FALSE, FALSE),
   Shot("rows", <<S("row"), S("row")>>, FALSE, FALSE),
   Shot("sql", <<S("denied")>>, FALSE, FALSE)}
Rests == {Shot("rest", <<w>>, FALSE, FALSE) : w \in RestInputs}
Run(script) == Input("cron", "j", 0, script, FALSE, FALSE)
CronRuns ==
  Load(r1 :> {Run(<<W, W>>)} @@ r2 :> {Run(<<W, S("fail")>>), Run(<<S("denied")>>)}
       @@ r3 :> {Shot("sql", <<W>>, FALSE, FALSE)},
       OneTable, FALSE, 1)
OneShots(first) == Load(r1 :> first @@ r2 :> Sqls, OneTable, TRUE, 0)

(* DDL: one request that may fail half way beside requests that only write *)
(* rows, and several DDL requests that all succeed.                        *)
Create(t, type, keys, tag) ==
  [op |-> "create_table", t |-> t, cols |-> {"a", "b"}, keys |-> keys,
   type |-> type, tag |-> tag]
Col(op, c) == [op |-> op, t |-> "t", c |-> c, ifExists |-> op = "drop_column"]
Index(c, inc) == [op |-> "create_index", t |-> "t", c |-> c, inc |-> inc]
Type(op) == [op |-> op, type |-> "e", ifExists |-> FALSE]
Trigger(op) == [op |-> op, g |-> "g", t |-> "t", f |-> "fn", ifExists |-> TRUE]
Drop(t, if) == [op |-> "drop_table", t |-> t, ifExists |-> if]
Trunc(tag) == [op |-> "truncate", t |-> "t", tag |-> tag]
OnT(op) == [op |-> op, t |-> "t"]
Scripts ==
  { <<Create("u", "none", {"a", "b"}, "r1"), S("fail")>>,
    <<Type("create_type"), Create("u", "e", {}, "r1"), Type("drop_type")>>,
    <<Index("a", {"z"})>>, <<Index("a", {"b"}), Col("drop_column", "b")>>,
    <<Col("drop_column", "a"), Col("drop_column", "z"), Col("drop_column", "b")>>,
    <<Trigger("create_trigger"), Drop("t", FALSE), Trigger("drop_trigger")>>,
    <<Trunc("r1"), OnT("analyze"), S("fail")>>,
    <<Col("add_column", "c"), Create("t", "none", {}, "r1")>>,
    <<OnT("insert_serial"), S("fail")>>, <<OnT("insert_serial"), W>>,
    <<Drop("v", TRUE), Drop("v", FALSE)>> }
Ddl ==
  Load(r1 :> {Shot("sql", s, FALSE, FALSE) : s \in Scripts}
       @@ r2 :> {Shot("sql", <<W>>, FALSE, FALSE)},
       OneTable, TRUE, 1)
DdlPair ==
  Load(r1 :> {Shot("sql", <<Create("u", "none", {"a"}, "r1")>>, FALSE, FALSE)}
       @@ r2 :> {Shot("sql", <<OnT("insert_serial"), Col("add_column", "c")>>, FALSE, FALSE)}
       @@ r3 :> {Shot("admin", <<OnT("enable_events")>>, FALSE, FALSE),
                 Shot("admin", <<[op |-> "enable_events", t |-> "u"]>>, FALSE, FALSE)},
       OneTable, FALSE, 1)

(* A log that may fail, under a session, a batch, a one-shot and a cron    *)
(* run; and commits that may checkpoint while others write.                *)
Faulty(inputs) == [Load(inputs, OneTable, FALSE, 1) EXCEPT !.faults = TRUE]
FaultySession ==
  Faulty(r1 :> BeginTxn @@ r2 :> {InTxn(<<W>>, "sql")}
         @@ r3 :> {InTxn(<< >>, "commit"), InTxn(<< >>, "rollback")}
         @@ r4 :> {InTxn(<< >>, "commit")})
FaultyOneShots ==
  Faulty(r1 :> {Shot("batch", <<W, S("malformed")>>, FALSE, FALSE),
                Shot("batch", <<W, W>>, FALSE, TRUE)}
         @@ r2 :> {Shot("sql", <<W, W>>, TRUE, FALSE)})
Checkpoints(crs) ==
  [Load(r1 :> BeginTxn @@ r2 :> {InTxn(<<W>>, "sql")} @@ r3 :> {InTxn(<< >>, "commit")}
        @@ r4 :> {Shot("sql", <<W, W>>, FALSE, FALSE)}, OneTable, FALSE, crs)
   EXCEPT !.auto = TRUE]
FaultyCheckpoints == [Faulty(r1 :> {Shot("sql", <<W, W>>, FALSE, FALSE)} @@ r2 :> {Run(<<W>>)})
                      EXCEPT !.auto = TRUE]

MCWorkloads == {Sessions(0), OneShots(Batches), OneShots(Rpcs), OneShots(Rests), CronRuns,
                Ddl, DdlPair, FaultySession, FaultyOneShots, Checkpoints(1),
                FaultyCheckpoints}

(* A request that creates a table beside one whose statement fails.        *)
MCClash ==
  {Load(r1 :> {Shot("sql", <<Create("u", "none", {}, "r1")>>, FALSE, FALSE)}
        @@ r2 :> {Shot("sql", <<S("fail")>>, FALSE, FALSE)},
        OneTable, FALSE, 0)}

(* A session's commit that checkpoints beside a request that writes.       *)
MCCommitError == {Checkpoints(0)}

(* A batch whose second statement does not parse.                          *)
MCBatchError ==
  {Load(r1 :> {Shot("batch", <<W, S("malformed"), W>>, FALSE, FALSE)}, OneTable, FALSE, 0)}
=============================================================================
