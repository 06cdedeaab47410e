----------------------------- MODULE MCAuthz -------------------------------
(* Workloads for Accounts (the flows that compete for the same account) and *)
(* for Authz (names created again, chains of roles with grants, policies).  *)
EXTENDS Authz

R(op, u, arg) == [op |-> op, u |-> u, arg |-> arg]

MCLoads == {"factor", "enrol", "reset", "links", "identity", "admins", "sessions",
            "names", "chains", "columns", "policies"}

MCFirstUsers(l) ==
  IF l = "admins" THEN [root |-> NewUser(TRUE, 1), ann |-> NewUser(TRUE, 1)]
                  ELSE [root |-> NewUser(TRUE, 1), ann |-> NewUser(FALSE, 1)]

MCSuffixed(n) == n \o "_x"

MCFirstMfa(l) ==
  IF l = "factor" THEN [ann |-> [enabled |-> TRUE, last |-> 0, codes |-> {-1}, gen |-> 0]] ELSE <<>>

MCWork(l) ==
  CASE l = "factor"   -> <<R("login", "ann", 1), R("login", "ann", 1), R("challenge", "ann", None),
                           R("challenge", "ann", None)>>
    [] l = "enrol"    -> <<R("enroll", "ann", None), R("confirm", "ann", None), R("disable", "ann", None),
                           R("login", "ann", 1)>>
    [] l = "reset"    -> <<R("login", "ann", 1), R("refresh", "ann", None), R("refresh", "ann", None),
                           R("recover", "ann", None), R("verify", "ann", 2)>>
    [] l = "links"    -> <<R("magiclink", "ann", None), R("magic_verify", "ann", None),
                           R("magic_verify", "ann", None), R("admin_ban", "ann", None), R("refresh", "ann", None)>>
    [] l = "identity" -> <<R("authorize", "bob", None), R("authorize", "bob", None), R("callback", "bob", "bob"),
                           R("callback", "bob", "bob")>>
    [] l = "admins"   -> <<R("admin_super", "root", FALSE), R("admin_delete", "ann", None),
                           R("admin_super", "ann", FALSE), R("admin_create", "eve", 1), R("admin_super", "eve", TRUE)>>
    [] l = "sessions" -> <<R("signup", "bob", 1), R("end_session", "bob", None), R("refresh", "bob", None),
                           R("admin_pw", "bob", 2), R("logout", "bob", None)>>
    [] OTHER -> <<>>

S(kind, name) == [kind |-> kind, name |-> name]
Member(kind, role, name) == [kind |-> kind, role |-> role, name |-> name]
Grant(kind, priv, cs, name) == [kind |-> kind, priv |-> priv, cols |-> cs, name |-> name]
Policy(name, op, to, expr) == [kind |-> "create_policy", pol |-> [name |-> name, op |-> op, to |-> to, expr |-> expr]]

MCNames == {"root", "ann", "bob", "r", "s"}
MCRows(e, u) == IF e = "own" THEN {u} \cap {"ann", "bob"} ELSE {"bob"}

MCAuthWork(l) ==
  CASE l = "names" -> {S("create_role", "r"), S("drop_role", "r"), S("create_role", "ann"), S("drop_role", "ann"),
                       S("create_user", "r"), S("drop_user", "r"), S("drop_user", "ann"),
                       Member("grant_role", "r", "ann"), Member("grant_role", "ann", "r"),
                       Grant("grant", "select", All, "r"), Grant("grant", "select", All, "ann")}
    [] l = "chains" -> {S("create_role", "r"), S("create_role", "s"), S("drop_role", "r"),
                        Member("grant_role", "r", "ann"), Member("grant_role", "s", "r"), Member("grant_role", "r", "s"),
                        Member("revoke_role", "r", "ann"),
                        Grant("grant", "select", {"a"}, "ann"), Grant("grant", "select", All, "s"),
                        Grant("revoke", "select", All, "s")}
    [] l = "columns" -> {S("add_column", "c")} \cup
                        {Grant(k, "select", cs, "ann") : k \in {"grant", "revoke"}, cs \in {All, {"a"}, {"c"}}} \cup
                        {Grant("grant", "update", All, "ann"), Grant("grant", "update", {"b"}, "ann")}
    [] l = "policies" -> {S("create_role", "r"), Member("grant_role", "r", "ann"),
                          Policy("p1", "select", {}, "own"), Policy("p2", "all", {"r"}, "pub"),
                          Policy("p3", "update", {}, "pub"), Policy("p4", "delete", {"authenticated"}, "own"),
                          S("drop_policy", "p1"), S("drop_policy", "p2"), S("drop_policy", "p3"),
                          [kind |-> "set_rls", expr |-> "pub"]}
    [] OTHER -> {}

St(kind, proj, pred, target, rhs) ==
  [kind |-> kind, proj |-> proj, pred |-> pred, target |-> target, rhs |-> rhs,
   ret |-> FALSE, retcols |-> {}, upsert |-> FALSE, upd |-> {}]
MCStatements ==
  {St("select", {}, {}, {}, {}), St("select", {"a"}, {"b"}, {}, {}), St("setop", {"a"}, {}, {}, {}),
   St("update", {}, {"a"}, {"b"}, {"a"}), St("delete", {}, {"a"}, {}, {}), St("insert", {}, {}, {}, {}),
   [St("insert", {}, {}, {"a"}, {}) EXCEPT !.upsert = TRUE, !.upd = {"b"}],
   [St("update", {}, {}, {"a"}, {}) EXCEPT !.ret = TRUE], St("ddl", {}, {}, {}, {})}
=============================================================================
