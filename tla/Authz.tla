------------------------------- MODULE Authz --------------------------------
(***************************************************************************)
(* Authorization: roles, table and column grants (authz/mod.rs, kept in    *)
(* the identity store of Accounts), row policies (the catalog's TableDef   *)
(* and Engine::create_policy_inner), the privilege checks of a statement   *)
(* (Engine::check_plan_privileges) and the row filter it runs with         *)
(* (sql/logical.rs, apply_rls_with_auth).                                  *)
(*                                                                         *)
(* One table.  A policy's expression is opaque: Rows(e, u) is the set of   *)
(* rows it lets the user u see, and a filter is the set of expressions the *)
(* engine has joined with OR, or Unfiltered.                               *)
(***************************************************************************)
EXTENDS Accounts

CONSTANTS
  Names,         \* names of users and roles
  Privs,         \* privileges
  AllCols,       \* columns the table has or will have
  FirstCols,     \* columns it starts with
  TableRows,     \* rows
  Rows(_, _),    \* rows an expression lets a user see
  Statements,    \* statements whose privileges are decided
  AuthWork(_),   \* authorization statements of a load
  MaxStmts       \* bound on authorization statements

VARIABLES
  cols,        \* columns of the table
  policies,    \* TableDef.policies
  filter,      \* TableDef.rls_policy, insert_policy, update_policy, ...
  overridden,  \* history: the select filter was set by PUT /tables/{t}/rls
  revoking,    \* a column REVOKE between its two steps
  stmts        \* authorization statements executed

authzVars == <<cols, policies, filter, overridden, revoking, stmts>>

Ops == {"select", "insert", "update", "check", "delete"}
NoFilter == [o \in Ops |-> {}]       \* {} is "no policy": every row
NotRevoking == <<>>
All == {"all"}                       \* GrantScope::All

(* There are finitely many names, a table has columns (none of them is the  *)
(* mark of a grant of the whole table), and statements name columns,        *)
(* privileges and roles that exist or will.                                 *)
ASSUME NamesAssumption == IsFiniteSet(Names)
ASSUME ColumnsAssumption == FirstCols \subseteq AllCols /\ AllCols # {} /\ "all" \notin AllCols
ASSUME PrivsAssumption == {"select", "insert", "update", "delete"} \subseteq Privs
ASSUME AuthWorkAssumption ==
  \A l \in Loads : \A s \in AuthWork(l) :
    /\ s.kind = "create_role" => s.name \in Names
    /\ s.kind = "add_column" => s.name \in AllCols
    /\ s.kind \in {"grant", "revoke"} => s.priv \in Privs /\ (s.cols = All \/ s.cols \subseteq AllCols)
ASSUME StatementsAssumption ==
  \A st \in Statements :
    /\ st.kind \in {"select", "setop", "insert", "update", "delete", "ddl"}
    /\ {st.ret, st.upsert} \subseteq BOOLEAN
    /\ st.proj \cup st.pred \cup st.rhs \cup st.retcols \cup st.target \cup st.upd \subseteq AllCols

AuthzInit ==
  /\ Init
  /\ cols = FirstCols
  /\ policies = {} /\ filter = NoFilter /\ overridden = FALSE
  /\ revoking = NotRevoking /\ stmts = 0

(* An authorization statement: superusers only, one at a time. *)
Statement(kind) ==
  {s \in AuthWork(load) : s.kind = kind}
MayRun == stmts < MaxStmts /\ revoking = NotRevoking
ApplyThen(s, next) ==
  /\ stmts' = stmts + 1
  /\ Persist(s, revoking' = next /\ UNCHANGED <<req, grants, cut>>,
                revoking' = NotRevoking /\ UNCHANGED req)
  /\ UNCHANGED <<issued, cols, policies, filter, overridden>>
Apply(s) == ApplyThen(s, NotRevoking)

(* RoleStore::apply *)
CreateRole ==
  \E s \in Statement("create_role") :
    /\ MayRun /\ s.name \notin store.roles
    /\ Apply([store EXCEPT !.roles = @ \cup {s.name}])

(* Memberships in the role, the role's own and its grants go with it. *)
KeepMembers(members, r) == Drop(members, r)
WithoutMember(members, r) == [g \in DOMAIN members \ {r} |-> members[g] \ {r}]
DropRole ==
  \E s \in Statement("drop_role") :
    /\ MayRun /\ s.name \in store.roles
    /\ Apply([store EXCEPT !.roles = @ \ {s.name}, !.members = WithoutMember(@, s.name),
                           !.grants = Drop(@, s.name), !.facts = {f \in @ : f[1] # s.name}])
   

CreateUserStmt ==
  \E s \in Statement("create_user") :
    /\ MayRun /\ s.name \notin DOMAIN store.users
    /\ Apply([store EXCEPT !.users = Set(@, s.name, NewUser(FALSE, None))])

DropUserStmt ==
  \E s \in Statement("drop_user") :
    /\ MayRun /\ s.name \in DOMAIN store.users /\ MayLoseSuperuser(s.name)
    /\ Apply(WithoutUser(store, s.name))

KnownGrantee(g) == g \in DOMAIN store.users \/ g \in store.roles

GrantRole ==
  \E s \in Statement("grant_role") :
    /\ MayRun /\ s.role \in store.roles /\ KnownGrantee(s.name)
    /\ Apply([store EXCEPT !.members =
                Set(@, s.name, {s.role} \cup IF s.name \in DOMAIN @ THEN @[s.name] ELSE {})])
   

RevokeRole ==
  \E s \in Statement("revoke_role") :
    /\ MayRun /\ s.name \in DOMAIN store.members
    /\ Apply([store EXCEPT !.members[s.name] = @ \ {s.role}])

(* The scope of a grant: nothing, All, or a set of columns. *)
Scope(g, p) == IF g \in DOMAIN store.grants THEN store.grants[g][p] ELSE {}
WithScope(gs, g, p, scope) ==
  Set(gs, g, IF g \in DOMAIN gs THEN [gs[g] EXCEPT ![p] = scope]
                                ELSE [q \in Privs |-> IF q = p THEN scope ELSE {}])
Covers(scope, c) == scope = All \/ c \in scope

(* GRANT on columns leaves a grant of the whole table as it is. *)
GrantPrivs ==
  \E s \in Statement("grant") :
    /\ MayRun /\ KnownGrantee(s.name)
    /\ Apply([store EXCEPT
         !.grants = WithScope(@, s.name, s.priv,
                      IF s.cols = All \/ Scope(s.name, s.priv) = All THEN All
                                                                  ELSE Scope(s.name, s.priv) \cup s.cols),
         !.facts = @ \cup {<<s.name, s.priv, c>> : c \in IF s.cols = All THEN AllCols ELSE s.cols}])
   

RevokePrivs ==
  \E s \in Statement("revoke") :
    /\ MayRun /\ s.cols = All
    /\ Apply([store EXCEPT
         !.grants = IF s.name \in DOMAIN @ THEN WithScope(@, s.name, s.priv, {}) ELSE @,
         !.facts = {f \in @ : ~(f[1] = s.name /\ f[2] = s.priv)}])
   

(* REVOKE on columns takes the mutex twice: a grant of the whole table is  *)
(* first spelled out as the columns the catalog lists, then narrowed.  The *)
(* history keeps only existing columns from then on.                       *)
LeaveAll(scope, listed) == scope
SpellOut(scope, listed) == IF scope = All THEN listed ELSE scope
MaterializeAllToColumns ==
  \E s \in Statement("revoke") :
    /\ MayRun /\ s.cols # All
    /\ IF Scope(s.name, s.priv) = All
       THEN ApplyThen([store EXCEPT !.grants = WithScope(@, s.name, s.priv, SpellOut(All, cols)),
                                !.facts = {f \in @ : f[1] = s.name /\ f[2] = s.priv => f[3] \in cols}],
                      <<s>>)
       ELSE /\ revoking' = <<s>> /\ stmts' = stmts + 1
            /\ UNCHANGED <<accountVars, cols, policies, filter, overridden>>

RevokeColumns ==
  /\ revoking # NotRevoking
  /\ LET s == revoking[1] scope == Scope(s.name, s.priv) IN
     Apply([store EXCEPT
       !.grants = IF scope \in {{}, All} THEN @ ELSE WithScope(@, s.name, s.priv, scope \ s.cols),
       !.facts = {f \in @ : ~(f[1] = s.name /\ f[2] = s.priv /\ f[3] \in s.cols)}])

(* ALTER TABLE ADD COLUMN, from another session. *)
AddColumn ==
  /\ \E s \in Statement("add_column") : s.name \notin cols /\ cols' = cols \cup {s.name}
  /\ UNCHANGED <<accountVars, policies, filter, overridden, revoking, stmts>>
-----------------------------------------------------------------------------
(* Row policies.  Those without a TO clause are joined into the filter of  *)
(* each operation they are for; those with one are looked up when a        *)
(* statement runs.  INSERT and WITH CHECK ignore the TO clause.            *)
Governs(p, o) == p.op = "all" \/ p.op = o \/ (p.op = "update" /\ o = "check")
JoinedAlways(p, o) == Governs(p, o)
Joined(p, o) == Governs(p, o) /\ (p.to = {} \/ o \in {"insert", "check"})

CatalogOnly(f, ps, ov) ==
  /\ stmts' = stmts + 1
  /\ policies' = ps /\ filter' = f /\ overridden' = ov
  /\ UNCHANGED <<accountVars, cols, revoking>>

CreatePolicy ==
  \E s \in Statement("create_policy") :
    /\ MayRun /\ \A p \in policies : p.name # s.pol.name
    /\ CatalogOnly([o \in Ops |-> filter[o] \cup IF Joined(s.pol, o) THEN {s.pol.expr} ELSE {}],
                   policies \cup {s.pol}, overridden)

(* DROP POLICY computes every filter again from the policies left. *)
FilterFrom(ps) == [o \in Ops |-> {p.expr : p \in {q \in ps : Joined(q, o)}}]
DropPolicy ==
  \E s \in Statement("drop_policy") :
    /\ MayRun
    /\ \E p \in policies :
         /\ p.name = s.name
         /\ CatalogOnly(FilterFrom(policies \ {p}), policies \ {p}, FALSE)

SetRlsPolicy ==
  \E s \in Statement("set_rls") :
    /\ MayRun
    /\ CatalogOnly([filter EXCEPT !["select"] = {s.expr}], policies, TRUE)

(* A step of the identity store; the catalog survives a restart, a *)
(* statement in progress does not.                                 *)
AccountStep ==
  /\ Next
  /\ revoking' = IF restarts' = restarts THEN revoking ELSE NotRevoking
  /\ UNCHANGED <<cols, policies, filter, overridden, stmts>>

AuthzNext ==
  \/ AccountStep
  \/ CreateRole \/ DropRole \/ CreateUserStmt \/ DropUserStmt \/ GrantRole \/ RevokeRole
  \/ GrantPrivs \/ RevokePrivs \/ MaterializeAllToColumns \/ RevokeColumns
  \/ AddColumn \/ CreatePolicy \/ DropPolicy \/ SetRlsPolicy

AuthzSpec == AuthzInit /\ [][AuthzNext]_<<accountVars, authzVars>>
-----------------------------------------------------------------------------
(* Deciding a statement. *)
EffectiveSuperuser(u) == u \in Superusers(store) \/ DOMAIN store.users = {}

(* resolve_column_grant and transitive_roles_for walk the memberships from *)
(* the user, leaving out names already met.                                *)
Grantees(u) ==
  LET step[n \in 0..Cardinality(Names)] ==
        IF n = 0 THEN {u}
        ELSE step[n - 1] \cup UNION {store.members[g] : g \in step[n - 1] \cap DOMAIN store.members}
  IN step[Cardinality(Names)]
RolesOf(u) == UNION {store.members[g] : g \in Grantees(u) \cap DOMAIN store.members}
EffectiveRoles(u) == {"authenticated"} \cup RolesOf(u)

ColumnGrant(u, p) ==
  LET scopes == {Scope(g, p) : g \in Grantees(u)} IN
  IF All \in scopes THEN All ELSE UNION scopes
HasPrivilege(u, p) == ColumnGrant(u, p) # {}

(* What a plan needs of the table, and which columns it reads and writes. *)
OwnPrivileges(st) ==
  CASE st.kind = "select" -> {"select"}
    [] st.kind = "setop" -> {"select"}
    [] st.kind = "insert" -> {"insert"} \cup IF st.upsert THEN {"update"} ELSE {}
    [] st.kind = "update" -> {"update"}
    [] st.kind = "delete" -> {"delete"}
Star(cs) == IF cs = {} THEN cols ELSE cs
ColumnReads(st) ==
  (IF st.kind \in {"select", "setop"} THEN Star(st.proj) ELSE {})
    \cup st.pred \cup st.rhs \cup (IF st.ret THEN Star(st.retcols) ELSE {})
ColumnWrites(st) ==
  CASE st.kind = "insert" -> {<<"insert", c>> : c \in Star(st.target)}
                               \cup {<<"update", c>> : c \in IF st.upsert THEN st.upd ELSE {}}
    [] st.kind = "update" -> {<<"update", c>> : c \in st.target}
    [] OTHER -> {}
(* Only a column-scoped grant narrows a statement. *)
CheckOneColumn(u, p, c) == LET g == ColumnGrant(u, p) IN g \in {All, {}} \/ c \in g

CheckPlanPrivileges(u, st) ==
  \/ EffectiveSuperuser(u)
  \/ /\ st.kind # "ddl"
     /\ \A p \in OwnPrivileges(st) : HasPrivilege(u, p)
     /\ \A c \in ColumnReads(st) : CheckOneColumn(u, "select", c)
     /\ \A w \in ColumnWrites(st) : CheckOneColumn(u, w[1], w[2])

(* apply_rls_with_auth: the joined filter, or the policies that name one   *)
(* of the user's roles; when all that exist name other roles, no row.      *)
RoleScoped(o) == {p \in policies : p.to # {} /\ Governs(p, o)}
VisibleRows(u, o) ==
  LET scoped == {p.expr : p \in {q \in RoleScoped(o) : q.to \cap EffectiveRoles(u) # {}}}
      exprs == IF o \in {"insert", "check"} THEN filter[o] ELSE filter[o] \cup scoped IN
  IF EffectiveSuperuser(u) THEN TableRows
  ELSE IF exprs # {} THEN UNION {Rows(e, u) : e \in exprs}
  ELSE IF RoleScoped(o) # {} /\ o \notin {"insert", "check"} THEN {}
  ELSE TableRows

(* realtime_event_for_subscriber: the columns of a row's change a          *)
(* subscriber is sent, if any.                                             *)
EventColumns(u, r) ==
  IF EffectiveSuperuser(u) THEN cols
  ELSE IF HasPrivilege(u, "select") /\ r \in VisibleRows(u, "select")
  THEN {c \in cols : Covers(ColumnGrant(u, "select"), c)}
  ELSE {}
-----------------------------------------------------------------------------
(* The reference: what the statements executed so far say, in terms of     *)
(* single facts.  Held(u): the pairs <<privilege, column>> some name the   *)
(* user acts under was granted and that were not revoked since.            *)
Closed(S) == \A g \in S \cap DOMAIN store.members : store.members[g] \subseteq S
ActsUnder(u) == LET known == store.roles \cup {u} IN
                {x \in known : \A S \in SUBSET known : u \in S /\ Closed(S) => x \in S}
Held(u) == LET names == ActsUnder(u) IN {<<f[2], f[3]>> : f \in {f \in store.facts : f[1] \in names}}

(* A statement is admitted exactly when its user, through whatever chain of *)
(* roles, holds the privilege of the statement, and every column it reads   *)
(* or writes under a privilege the user holds at all; a subscriber is sent  *)
(* exactly the columns a SELECT would return (check_plan_privileges,        *)
(* materialize_all_to_columns, resolve_column_grant,                        *)
(* realtime_event_for_subscriber).                                          *)
DecisionsExact ==
  revoking = NotRevoking =>
    \A u \in DOMAIN store.users \ Superusers(store) :
      LET held == Held(u)
          some == {h[1] : h \in held}
      IN
      /\ \A st \in Statements :
           CheckPlanPrivileges(u, st) <=>
             /\ st.kind # "ddl"
             /\ OwnPrivileges(st) \subseteq some
             /\ \A c \in ColumnReads(st) : "select" \in some => <<"select", c>> \in held
             /\ \A w \in ColumnWrites(st) : w[1] \in some => <<w[1], w[2]>> \in held
      /\ \A r \in TableRows :
           EventColumns(u, r) = IF r \in VisibleRows(u, "select")
                                THEN {c \in cols : <<"select", c>> \in held} ELSE {}

(* Policies are permissive: as long as no filter was set by hand, a user    *)
(* sees exactly the rows that some policy for the operation lets it see,    *)
(* counting the policies without TO and those TO one of its roles, and all  *)
(* rows only when there is no policy for the operation (create_policy_inner,*)
(* drop_policy_inner, role_scoped_policy_for, combine_role_gate).           *)
PolicyFilter ==
  \A u \in DOMAIN store.users \ Superusers(store), o \in {"select", "update", "delete"} :
    LET governing == {p \in policies : Governs(p, o)}
        roles == {"authenticated"} \cup UNION {store.members[g] : g \in ActsUnder(u) \cap DOMAIN store.members}
    IN ~(overridden /\ o = "select") =>
       VisibleRows(u, o) = IF governing = {} THEN TableRows
                           ELSE UNION {Rows(p.expr, u) : p \in {q \in governing : q.to = {} \/ q.to \cap roles # {}}}

(* No grant and no membership outlives its user or role, so that a name     *)
(* created again starts with nothing (RoleStore::apply).                    *)
GranteesExist ==
  LET known == DOMAIN store.users \cup store.roles IN
  /\ DOMAIN store.grants \subseteq known /\ DOMAIN store.members \subseteq known
  /\ \A g \in DOMAIN store.members : store.members[g] \subseteq store.roles
=============================================================================
