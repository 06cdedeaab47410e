------------------------------ MODULE Accounts ------------------------------
(***************************************************************************)
(* The identity store (authz/mod.rs, RoleStore) and the authentication     *)
(* handlers of the server that call it (server/handlers.rs): passwords,    *)
(* bans, refresh sessions, the one-time tokens of the MFA, magic-link,     *)
(* recovery and OAuth flows, and the administration of users.              *)
(*                                                                         *)
(* Every call of the store holds its mutex and, when it changes the state, *)
(* writes the whole of it to roles.json before it returns.  A handler is a *)
(* sequence of such calls with nothing held in between, so the calls of    *)
(* several requests interleave.  A write may fail, which leaves the change *)
(* in memory only and ends the request; a restart reads the file back.     *)
(*                                                                         *)
(* A password, a one-time code and a token are opaque.  A code is the time *)
(* step it was computed for, with the enrolment it belongs to; a recovery  *)
(* code is a negative number.  A token stands for the hash under which the *)
(* store keeps it, and is never generated twice.                           *)
(***************************************************************************)
EXTENDS Integers, Sequences, FiniteSets

CONSTANTS
  Loads,       \* names of workloads
  Work(_),     \* the requests of a load: a sequence of records
  FirstUsers(_), \* the accounts a load starts with: a function to records
  Suffixed(_), \* a name with the random suffix of a taken one
  FirstMfa(_), \* the users who have a second factor at the start
  MaxTime,     \* the clock, in steps of the one-time codes
  SessionTtl,  \* SESSION_TTL_SECS, in steps
  TokenTtl,    \* the lifetime of challenges, links and OAuth states, in steps
  MaxFaults,   \* bound on failed writes of roles.json
  MaxRestarts  \* bound on restarts

VARIABLES
  load,      \* the workload
  store,     \* AuthState in memory
  disk,      \* roles.json
  now,       \* now_secs(), in steps
  issued,    \* tokens and enrolments generated so far
  req,       \* the requests: not started, running at a call, or over
  faults, restarts,
  grants,    \* history: which token and which code each session was given for
  cut        \* history: roots of the session families that were revoked

accountVars == <<load, store, disk, now, issued, req, faults, restarts, grants, cut>>

None == 0
-----------------------------------------------------------------------------
(* The calls each handler makes, in order.  A PATCH of a user with several *)
(* fields is the sequence of the ones with a single field.                 *)
PostAuthLogin           == <<"captcha", "verify_password", "is_banned", "mfa_enabled", "create_session">>
PostMfaChallenge        == <<"verify_mfa_challenge", "create_session">>
PostAuthRecover         == <<"captcha", "user_exists", "create_recovery_token">>
PostAuthVerify          == <<"verify_recovery_token", "is_banned", "is_compromised", "set_password", "revoke_all">>
PostAuthMagiclink       == <<"captcha", "user_exists", "create_magiclink_token">>
PostAuthMagiclinkVerify == <<"verify_magiclink_token", "is_banned", "create_session">>
PostAuthRefresh         == <<"verify_session", "is_banned", "rotate_session">>
PostAuthLogout          == <<"revoke_session">>
DeleteAuthSession       == <<"session_owner", "revoke_session">>
PostAuthSignup          == <<"captcha", "is_compromised", "create_user", "create_session">>
GetOauthAuthorize       == <<"create_oauth_state">>
GetOauthCallback        == <<"verify_oauth_state", "exchange", "oauth_link_or_create", "create_session">>
PostMfaEnroll           == <<"mfa_enroll">>
PostMfaVerify           == <<"mfa_confirm">>
PostMfaDisable          == <<"mfa_disable">>
PostAdminUser           == <<"is_compromised", "create_user", "set_banned">>
PatchPassword           == <<"user_exists", "is_compromised", "set_password", "revoke_all">>
PatchBanned             == <<"user_exists", "set_banned", "revoke_all">>
PatchSuperuser          == <<"user_exists", "set_superuser">>
DeleteAdminUser         == <<"user_exists", "drop_user">>

Handler ==
  [login        |-> PostAuthLogin,
   challenge    |-> PostMfaChallenge,
   recover      |-> PostAuthRecover,
   verify       |-> PostAuthVerify,
   magiclink    |-> PostAuthMagiclink,
   magic_verify |-> PostAuthMagiclinkVerify,
   refresh      |-> PostAuthRefresh,
   logout       |-> PostAuthLogout,
   end_session  |-> DeleteAuthSession,
   signup       |-> PostAuthSignup,
   authorize    |-> GetOauthAuthorize,
   callback     |-> GetOauthCallback,
   enroll       |-> PostMfaEnroll,
   confirm      |-> PostMfaVerify,
   disable      |-> PostMfaDisable,
   admin_create |-> PostAdminUser,
   admin_pw     |-> PatchPassword,
   admin_ban    |-> PatchBanned,
   admin_super  |-> PatchSuperuser,
   admin_delete |-> DeleteAdminUser]

(* The kind of the token a handler is given, and of the ones it hands out. *)
TokenKind ==
  [challenge |-> "challenge", verify |-> "recovery", magic_verify |-> "magiclink",
   refresh |-> "session", logout |-> "session", end_session |-> "session",
   callback |-> "oauth"]

(* A load is well formed: its requests are of the handlers above, it starts *)
(* with a superuser, enrolments are recorded with their recovery code, and  *)
(* a random suffix makes a name nobody has asked for.                       *)
GivenNames(l) == DOMAIN FirstUsers(l) \cup {Work(l)[i].u : i \in DOMAIN Work(l)}

ASSUME BoundAssumption == {MaxTime, SessionTtl, TokenTtl, MaxFaults, MaxRestarts} \subseteq Nat
ASSUME UsersAssumption ==
  \A l \in Loads :
    /\ \A u \in DOMAIN FirstUsers(l) :
         DOMAIN FirstUsers(l)[u] = {"super", "pw", "banned"} /\ FirstUsers(l)[u].super \in BOOLEAN
    /\ \E u \in DOMAIN FirstUsers(l) : FirstUsers(l)[u].super
    /\ \A u \in DOMAIN FirstMfa(l) :
         FirstMfa(l)[u] \in [enabled : BOOLEAN, last : Nat, codes : SUBSET {-1}, gen : {0}]
ASSUME WorkAssumption ==
  \A l \in Loads : \A i \in DOMAIN Work(l) :
    /\ Work(l)[i].op \in DOMAIN Handler
    /\ Work(l)[i].op = "admin_super" => Work(l)[i].arg \in BOOLEAN
    /\ Work(l)[i].op = "callback" => Suffixed(Work(l)[i].arg) \notin GivenNames(l)

Set(f, k, v) == [x \in DOMAIN f \cup {k} |-> IF x = k THEN v ELSE f[x]]
Drop(f, k) == [x \in DOMAIN f \ {k} |-> f[x]]

Superusers(s) == {u \in DOMAIN s.users : s.users[u].super}

NewUser(super, pw) == [super |-> super, pw |-> pw, banned |-> FALSE]

Init ==
  /\ load \in Loads
  /\ store = [users |-> FirstUsers(load), tokens |-> <<>>, mfa |-> FirstMfa(load), ids |-> <<>>,
              roles |-> {}, members |-> <<>>, grants |-> <<>>, facts |-> {}]
  /\ disk = store
  /\ now = 1 /\ issued = 0
  /\ req = [i \in DOMAIN Work(load) |-> [pc |-> 0, u |-> Work(load)[i].u, t |-> None, code |-> None]]
  /\ faults = MaxFaults /\ restarts = MaxRestarts
  /\ grants = {} /\ cut = {}

Op(i) == Work(load)[i].op
Arg(i) == Work(load)[i].arg
Over == 99
At(i, call) == req[i].pc \in 1..Len(Handler[Op(i)]) /\ Handler[Op(i)][req[i].pc] = call

(* A request arrives.  It presents a token the server has handed out, and  *)
(* a code that is one of the current ones, one already over, or a recovery *)
(* code.                                                                   *)
Start(i) ==
  /\ req[i].pc = 0
  /\ \E t \in IF Op(i) \in DOMAIN TokenKind
              THEN {x \in DOMAIN store.tokens : store.tokens[x].kind = TokenKind[Op(i)]}
              ELSE {None} :
     \E code \in IF Op(i) \in {"challenge", "confirm", "disable"}
                 THEN {now - 1, now, now + 1, -1} ELSE {None} :
       req' = [req EXCEPT ![i].pc = 1, ![i].t = t, ![i].code = code]
  /\ UNCHANGED <<load, store, disk, now, issued, faults, restarts, grants, cut>>

(* A generated token, session id, secret or verifier. *)
Fresh == issued + 1

End(i) == req' = [req EXCEPT ![i].pc = Over]
GoTo(i, n, u) ==
  req' = [req EXCEPT ![i] = [@ EXCEPT !.pc = IF n > Len(Handler[Op(i)]) THEN Over ELSE n, !.u = u]]
Proceed(i) == GoTo(i, req[i].pc + 1, req[i].u)

(* A call that only reads: it goes on to the next call or ends the request. *)
Decide(i, goOn) ==
  /\ IF goOn THEN Proceed(i) ELSE End(i)
  /\ UNCHANGED <<load, store, disk, now, issued, faults, restarts, grants, cut>>

(* persist: the changed state is in memory already when the file is        *)
(* written; when that fails the request ends with the error.               *)
Persist(s, ok, failed) ==
  /\ store' = s
  /\ UNCHANGED <<load, now, restarts>>
  /\ \/ disk' = s /\ ok /\ UNCHANGED faults
     \/ /\ faults > 0 /\ faults' = faults - 1 /\ failed
        /\ UNCHANGED <<disk, grants, cut>>

Change(i, s) ==
  /\ Persist(s, Proceed(i) /\ UNCHANGED <<grants, cut>>, End(i))
  /\ UNCHANGED issued

Refuse(i) == End(i) /\ UNCHANGED <<load, store, disk, now, issued, faults, restarts, grants, cut>>
-----------------------------------------------------------------------------
(* Passwords, bans and the existence of a user. *)
VerifyPassword(i) ==
  /\ At(i, "verify_password")
  /\ Decide(i, /\ req[i].u \in DOMAIN store.users
               /\ store.users[req[i].u].pw = Arg(i) /\ Arg(i) # None)

IsBanned(i) ==
  /\ At(i, "is_banned")
  /\ Decide(i, ~(req[i].u \in DOMAIN store.users /\ store.users[req[i].u].banned))

UserExists(i) ==
  /\ At(i, "user_exists")
  /\ Decide(i, req[i].u \in DOMAIN store.users)

(* The captcha provider refuses the request, or cannot be reached; the     *)
(* password turns out to be a leaked one.                                  *)
CaptchaEnforce(i) ==
  /\ At(i, "captcha")
  /\ \E passed \in BOOLEAN : Decide(i, passed)

IsCompromised(i) ==
  /\ At(i, "is_compromised")
  /\ \E compromised \in BOOLEAN : Decide(i, ~compromised)

SetPassword(i) ==
  /\ At(i, "set_password")
  /\ IF req[i].u \in DOMAIN store.users
     THEN Change(i, [store EXCEPT !.users[req[i].u].pw = Arg(i)])
     ELSE Refuse(i)

(* set_banned: post_admin_user calls it only for a user created banned. *)
SetBanned(i) ==
  /\ At(i, "set_banned")
  /\ IF req[i].u \in DOMAIN store.users
     THEN Change(i, [store EXCEPT !.users[req[i].u].banned = TRUE])
     ELSE Refuse(i)

CreateUser(i) ==
  /\ At(i, "create_user")
  /\ IF req[i].u \in DOMAIN store.users THEN Refuse(i)
     ELSE Change(i, [store EXCEPT !.users = Set(@, req[i].u, NewUser(FALSE, Arg(i)))])

(* The last superuser is neither demoted nor dropped. *)
AlwaysMayLose(u) == TRUE
MayLoseSuperuser(u) == Superusers(store) # {u}

SetSuperuser(i) ==
  LET u == req[i].u IN
  /\ At(i, "set_superuser")
  /\ IF u \in DOMAIN store.users /\ (Arg(i) \/ MayLoseSuperuser(u))
     THEN Change(i, [store EXCEPT !.users[u].super = Arg(i)])
     ELSE Refuse(i)

(* DROP USER removes the credentials, the MFA record, the identities, the  *)
(* memberships and the grants under the user's name; its sessions and      *)
(* one-time tokens stay.                                                   *)
WithoutUser(s, u) ==
  [s EXCEPT !.users = Drop(@, u), !.mfa = Drop(@, u),
            !.ids = [x \in {y \in DOMAIN @ : @[y] # u} |-> @[x]],
            !.members = Drop(@, u), !.grants = Drop(@, u),
            !.facts = {f \in @ : f[1] # u}]
DropUser(i) ==
  LET u == req[i].u IN
  /\ At(i, "drop_user")
  /\ IF u \in DOMAIN store.users /\ MayLoseSuperuser(u)
     THEN Change(i, WithoutUser(store, u))
     ELSE Refuse(i)
-----------------------------------------------------------------------------
(* Sessions.  root names the session a family of rotated ones began with. *)
Live(t) == t \in DOMAIN store.tokens /\ store.tokens[t].live /\ store.tokens[t].expires > now
Token(kind, u, root, ttl) ==
  [kind |-> kind, user |-> u, live |-> TRUE, expires |-> now + ttl, root |-> root]
Spent(tokens, t) == [tokens EXCEPT ![t].live = FALSE]

(* create_session does not look the user up. *)
CreateSession(i) ==
  /\ At(i, "create_session")
  /\ issued' = Fresh
  /\ Persist([store EXCEPT !.tokens = Set(@, Fresh, Token("session", req[i].u, Fresh, SessionTtl))],
             /\ Proceed(i)
             /\ grants' = grants \cup {[session |-> Fresh, token |-> req[i].t]}
             /\ UNCHANGED cut,
             End(i))

(* verify_session: without an owner the handler goes straight to the *)
(* rotation, which refuses the token.                                *)
VerifySession(i) ==
  /\ At(i, "verify_session")
  /\ IF Live(req[i].t) THEN GoTo(i, 2, store.tokens[req[i].t].user) ELSE GoTo(i, 3, req[i].u)
  /\ UNCHANGED <<load, store, disk, now, issued, faults, restarts, grants, cut>>

KnownToken(t) == t \in DOMAIN store.tokens
Rotatable(t) == Live(t)
RotateSession(i) ==
  LET t == req[i].t
      s == store.tokens[t] IN
  /\ At(i, "rotate_session")
  /\ IF Rotatable(t)
     THEN /\ issued' = Fresh
          /\ Persist([store EXCEPT !.tokens =
                        Set(Spent(@, t), Fresh, Token("session", s.user, s.root, SessionTtl))],
                     /\ GoTo(i, req[i].pc + 1, s.user)
                     /\ grants' = grants \cup {[session |-> Fresh, token |-> t]}
                     /\ UNCHANGED cut,
                     End(i))
     ELSE Refuse(i)

(* delete_auth_session acts for the owner of the session, or for a superuser. *)
SessionOwner(i) ==
  /\ At(i, "session_owner")
  /\ Decide(i, \/ req[i].u \in Superusers(store)
               \/ KnownToken(req[i].t) /\ store.tokens[req[i].t].user = req[i].u)

Revoke(i, ts) ==
  /\ Persist([store EXCEPT !.tokens = [t \in DOMAIN @ |-> IF t \in ts THEN [@[t] EXCEPT !.live = FALSE] ELSE @[t]]],
             /\ Proceed(i)
             /\ cut' = cut \cup {store.tokens[t].root : t \in ts} /\ UNCHANGED grants,
             End(i))
  /\ UNCHANGED issued

RevokeSession(i) ==
  /\ At(i, "revoke_session")
  /\ IF KnownToken(req[i].t) /\ store.tokens[req[i].t].live THEN Revoke(i, {req[i].t}) ELSE Decide(i, TRUE)

SessionsOf(u) == {t \in DOMAIN store.tokens : /\ store.tokens[t].kind = "session"
                                              /\ store.tokens[t].user = u /\ store.tokens[t].live}
RevokeAllSessionsForUser(i) ==
  /\ At(i, "revoke_all")
  /\ Revoke(i, SessionsOf(req[i].u))
-----------------------------------------------------------------------------
(* One-time tokens. *)
CreateOneTime(i, call, kind) ==
  /\ At(i, call)
  /\ issued' = Fresh
  /\ Persist([store EXCEPT !.tokens = Set(@, Fresh, Token(kind, req[i].u, None, TokenTtl))],
             Proceed(i) /\ UNCHANGED <<grants, cut>>, End(i))

CreateRecoveryToken(i) == CreateOneTime(i, "create_recovery_token", "recovery")
CreateMagiclinkToken(i) == CreateOneTime(i, "create_magiclink_token", "magiclink")
CreateOauthState(i) == CreateOneTime(i, "create_oauth_state", "oauth")

(* Marks the token used and goes on in the name of the user it is for. *)
Consume(tokens, t) == Spent(tokens, t)
VerifyOneTime(i, call) ==
  LET t == req[i].t IN
  /\ At(i, call)
  /\ IF Live(t)
     THEN /\ Persist([store EXCEPT !.tokens = Consume(@, t)],
                     GoTo(i, req[i].pc + 1, IF call = "verify_oauth_state" THEN req[i].u ELSE store.tokens[t].user)
                       /\ UNCHANGED <<grants, cut>>,
                     End(i))
          /\ UNCHANGED issued
     ELSE Refuse(i)

VerifyRecoveryToken(i) == VerifyOneTime(i, "verify_recovery_token")
VerifyMagiclinkToken(i) == VerifyOneTime(i, "verify_magiclink_token")
VerifyOauthState(i) == VerifyOneTime(i, "verify_oauth_state")

(* The provider answers the exchange of the code, or does not. *)
Exchange(i) ==
  /\ At(i, "exchange")
  /\ \E answered \in BOOLEAN : Decide(i, answered)

(* The first login of an identity creates its account. *)
OauthLinkOrCreate(i) ==
  LET who == Arg(i) IN
  /\ At(i, "oauth_link_or_create")
  /\ IF who \in DOMAIN store.ids
     THEN /\ GoTo(i, req[i].pc + 1, store.ids[who])
          /\ UNCHANGED <<load, store, disk, now, issued, faults, restarts, grants, cut>>
     ELSE LET u == IF who \in DOMAIN store.users THEN Suffixed(who) ELSE who IN
          /\ issued' = Fresh
          /\ Persist([store EXCEPT !.users = Set(@, u, NewUser(FALSE, None)), !.ids = Set(@, who, u)],
                     GoTo(i, req[i].pc + 1, u) /\ UNCHANGED <<grants, cut>>, End(i))
-----------------------------------------------------------------------------
(* The second factor.  A record holds the last time step a code was used    *)
(* for and the recovery codes left; gen tells enrolments apart.             *)
(* verify_totp_code: the current step and its neighbours, later than last.  *)
WindowOnly(code, last) == code \in now - 1..now + 1 /\ code > 0
CodeAccepted(code, last) == code \in now - 1..now + 1 /\ code > last /\ code > 0

MfaRecord(u) == u \in DOMAIN store.mfa
MfaEnabled(i) ==
  /\ At(i, "mfa_enabled")
  /\ IF MfaRecord(req[i].u) /\ store.mfa[req[i].u].enabled
     THEN /\ issued' = Fresh
          /\ Persist([store EXCEPT !.tokens = Set(@, Fresh, Token("challenge", req[i].u, None, TokenTtl))],
                     End(i) /\ UNCHANGED <<grants, cut>>, End(i))
     ELSE Decide(i, TRUE)

MfaEnroll(i) ==
  LET u == req[i].u IN
  /\ At(i, "mfa_enroll")
  /\ IF u \in DOMAIN store.users /\ ~(MfaRecord(u) /\ store.mfa[u].enabled)
     THEN /\ issued' = Fresh
          /\ Persist([store EXCEPT !.mfa = Set(@, u, [enabled |-> FALSE, last |-> 0, codes |-> {}, gen |-> Fresh])],
                     Proceed(i) /\ UNCHANGED <<grants, cut>>, End(i))
     ELSE Refuse(i)

MfaConfirm(i) ==
  LET u == req[i].u IN
  /\ At(i, "mfa_confirm")
  /\ IF MfaRecord(u) /\ ~store.mfa[u].enabled /\ CodeAccepted(req[i].code, store.mfa[u].last)
     THEN Change(i, [store EXCEPT !.mfa[u] = [@ EXCEPT !.enabled = TRUE, !.last = req[i].code, !.codes = {-1}]])
     ELSE Refuse(i)

MfaDisable(i) ==
  LET u == req[i].u IN
  /\ At(i, "mfa_disable")
  /\ IF /\ MfaRecord(u) /\ store.mfa[u].enabled
        /\ \/ u \in Superusers(store)
           \/ CodeAccepted(req[i].code, store.mfa[u].last)
           \/ req[i].code \in store.mfa[u].codes
     THEN Change(i, [store EXCEPT !.mfa = Drop(@, u)])
     ELSE Refuse(i)

(* The challenge is used up only when the code is right, together with the *)
(* code itself: the time step moves on, or the recovery code is removed.   *)
AfterCode(rec, code) ==
  IF CodeAccepted(code, rec.last) THEN [rec EXCEPT !.last = code]
                                  ELSE [rec EXCEPT !.codes = @ \ {code}]
VerifyMfaChallenge(i) ==
  LET t == req[i].t
      u == store.tokens[t].user
      rec == store.mfa[u] IN
  /\ At(i, "verify_mfa_challenge")
  /\ IF /\ Live(t) /\ MfaRecord(u) /\ rec.enabled
        /\ CodeAccepted(req[i].code, rec.last) \/ req[i].code \in rec.codes
     THEN /\ Persist([store EXCEPT !.tokens = Consume(@, t), !.mfa[u] = AfterCode(@, req[i].code)],
                     /\ GoTo(i, req[i].pc + 1, u)
                     /\ grants' = grants \cup {[code |-> <<u, rec.gen, req[i].code>>, token |-> t]}
                     /\ UNCHANGED cut,
                     End(i))
          /\ UNCHANGED issued
     ELSE Refuse(i)
-----------------------------------------------------------------------------
Tick ==
  /\ now < MaxTime /\ now' = now + 1
  /\ UNCHANGED <<load, store, disk, issued, req, faults, restarts, grants, cut>>

(* The server stops: requests in flight are gone, RoleStore::open reads    *)
(* the file.                                                               *)
Restart ==
  /\ restarts > 0 /\ restarts' = restarts - 1
  /\ store' = disk
  /\ req' = [i \in DOMAIN req |-> IF req[i].pc = 0 THEN req[i] ELSE [req[i] EXCEPT !.pc = Over]]
  /\ UNCHANGED <<load, disk, now, issued, faults, grants, cut>>

Call(i) ==
  \/ CaptchaEnforce(i) \/ IsCompromised(i)
  \/ VerifyPassword(i) \/ IsBanned(i) \/ UserExists(i) \/ SetPassword(i) \/ SetBanned(i)
  \/ CreateUser(i) \/ SetSuperuser(i) \/ DropUser(i)
  \/ CreateSession(i) \/ VerifySession(i) \/ RotateSession(i) \/ SessionOwner(i)
  \/ RevokeSession(i) \/ RevokeAllSessionsForUser(i)
  \/ CreateRecoveryToken(i) \/ CreateMagiclinkToken(i) \/ CreateOauthState(i)
  \/ VerifyRecoveryToken(i) \/ VerifyMagiclinkToken(i) \/ VerifyOauthState(i)
  \/ Exchange(i) \/ OauthLinkOrCreate(i)
  \/ MfaEnabled(i) \/ MfaEnroll(i) \/ MfaConfirm(i) \/ MfaDisable(i) \/ VerifyMfaChallenge(i)

Next ==
  \/ \E i \in DOMAIN req : Start(i) \/ Call(i)
  \/ Tick
  \/ Restart

Spec == Init /\ [][Next]_accountVars
-----------------------------------------------------------------------------
(* A refresh token, a magic link, an OAuth state and an MFA challenge give  *)
(* at most one session, and a one-time code of an enrolment passes at most *)
(* one challenge, however requests, failed writes and restarts interleave  *)
(* (rotate_session, verify_mfa_challenge, verify_magiclink_token).         *)
GrantedOnce ==
  \A g, h \in grants :
    /\ "session" \in DOMAIN g /\ "session" \in DOMAIN h /\ g.token = h.token /\ g.token # None => g = h
    /\ "code" \in DOMAIN g /\ "code" \in DOMAIN h /\ g.code = h.code => g = h

(* Once a logout, a password reset or a ban has revoked a session, no       *)
(* session rotated from its family is live, also when a refresh was under   *)
(* way at that moment (rotate_session, revoke_all_sessions_for_user).       *)
RevokedStaysRevoked ==
  \A t \in DOMAIN store.tokens :
    store.tokens[t].kind = "session" /\ store.tokens[t].live => store.tokens[t].root \notin cut

(* Sessions come only from grants that are good for one and die with the    *)
(* family they belong to: both of the above.                                *)
SessionsSound == GrantedOnce /\ RevokedStaysRevoked

(* Somebody can always administer the database: neither demotions nor       *)
(* drops, in any order and across restarts, remove the last superuser       *)
(* (set_superuser, DROP USER).                                              *)
SuperuserRemains == Superusers(store) # {} /\ Superusers(disk) # {}
=============================================================================
