----------------------------- MODULE AuthzProofs ----------------------------
(***************************************************************************)
(* Proofs about Accounts and Authz, for any names, grants, policies, loads *)
(* and bounds.                                                             *)
(*                                                                         *)
(* Accounts.  Neither property is inductive.  A store, in memory or on     *)
(* disk, must be good on its own, because a restart puts the one in place  *)
(* of the other: what has been granted is used up in both, and a family of *)
(* sessions has at most one live member in each.  Between the two calls of *)
(* a handler that consumes a token the request owns it: the token is dead  *)
(* in both stores and no other request has got past its verification.      *)
(*                                                                         *)
(* Authz.  The store is good on its own: no grant or membership without    *)
(* its user or role, and the scopes of the grants say exactly what the     *)
(* single facts say.  The walk through the memberships is shown to end,    *)
(* within as many rounds as there are names, at the smallest set of names  *)
(* that is closed under membership.                                        *)
(***************************************************************************)
EXTENDS Authz, FiniteSetTheorems, WellFoundedInduction, TLAPS


StoreFields == {"users", "tokens", "mfa", "ids", "roles", "members", "grants", "facts"}
UserFields  == {"super", "pw", "banned"}
TokenFields == {"kind", "user", "live", "expires", "root"}
ReqFields   == {"pc", "u", "t", "code"}

\* set_superuser, DROP USER: somebody is a superuser, and only names that were
\* given to the load, never one with a random suffix, are.
UsersOK(s) ==
  /\ \A u \in DOMAIN s.users : DOMAIN s.users[u] = UserFields /\ s.users[u].super \in BOOLEAN
  /\ Superusers(s) # {} /\ Superusers(s) \subseteq GivenNames(load)

\* rotate_session, revoke: one live session per family, none of a revoked one.
TokensOK(s, iss, ct) ==
  /\ \A t \in DOMAIN s.tokens :
       /\ t \in 1 .. iss /\ DOMAIN s.tokens[t] = TokenFields /\ s.tokens[t].live \in BOOLEAN
       /\ s.tokens[t].root \in 0 .. iss
       /\ s.tokens[t].kind = "session" =>
            s.tokens[t].root # None /\ (s.tokens[t].live => s.tokens[t].root \notin ct)
  /\ \A t, v \in DOMAIN s.tokens :
       /\ s.tokens[t].kind = "session" /\ s.tokens[t].live
       /\ s.tokens[v].kind = "session" /\ s.tokens[v].live
       /\ s.tokens[t].root = s.tokens[v].root
       => t = v

MfaRecords(iss) == [enabled : BOOLEAN, last : Nat, codes : SUBSET {-1}, gen : 0 .. iss]
MfaOK(s, iss) == \A u \in DOMAIN s.mfa : s.mfa[u] \in MfaRecords(iss)

Dead(s, t) == t \in DOMAIN s.tokens => ~s.tokens[t].live

\* verify_mfa_challenge: the enrolment cannot accept the code again.
UsedUp(s, code) ==
  code[1] \in DOMAIN s.mfa /\ s.mfa[code[1]].gen = code[2] =>
    LET rec == s.mfa[code[1]] IN
    rec.enabled /\ (code[3] <= rec.last \/ code[3] <= 0) /\ code[3] \notin rec.codes

GrantsUsedUp(s, gr) ==
  \A g \in gr : /\ "session" \in DOMAIN g => Dead(s, g.token)
                /\ "code" \in DOMAIN g => UsedUp(s, g.code)

StoreOK(s, iss, gr, ct) ==
  /\ DOMAIN s = StoreFields
  /\ UsersOK(s) /\ TokensOK(s, iss, ct) /\ MfaOK(s, iss) /\ GrantsUsedUp(s, gr)

\* The history names tokens and enrolments that have been generated.
HistoryOK ==
  /\ \A g \in grants :
       \/ /\ DOMAIN g = {"session", "token"} /\ g.token \in 0 .. issued
       \/ /\ DOMAIN g = {"code", "token"}
          /\ g.code[2] \in 0 .. issued /\ g.code[3] \in Int
  /\ cut \subseteq 0 .. issued
  /\ GrantedOnce

Reqs == DOMAIN Work(load)
Running(i) == req[i].pc \in 1 .. Len(Handler[Op(i)])

\* The requests: what they present, and in whose name the administrator's act.
RequestsOK ==
  /\ load \in Loads /\ issued \in Nat /\ now \in Nat
  /\ DOMAIN req = Reqs
  /\ \A i \in Reqs :
       /\ DOMAIN req[i] = ReqFields
       /\ req[i].pc \in Nat /\ req[i].t \in 0 .. issued /\ req[i].code \in Int
       /\ Op(i) \notin DOMAIN TokenKind => req[i].t = None
       /\ Op(i) = "admin_super" => req[i].u = Work(load)[i].u
       /\ Running(i) /\ Op(i) \in DOMAIN TokenKind =>
            /\ req[i].t \in DOMAIN store.tokens
            /\ store.tokens[req[i].t].kind = TokenKind[Op(i)]

\* The handlers that consume a one-time token first and create a session last,
\* and a request of theirs in between.
OneTimeOps == {"challenge", "magic_verify", "callback"}
Holds(i) == Op(i) \in OneTimeOps /\ req[i].pc > 1 /\ Running(i)

\* verify_magiclink_token, verify_oauth_state, verify_mfa_challenge: the token
\* in between is nobody else's.
HoldersOK ==
  \A i \in Reqs : Holds(i) =>
    /\ Dead(store, req[i].t) /\ Dead(disk, req[i].t)
    /\ \A g \in grants : "session" \in DOMAIN g => g.token # req[i].t
    /\ \A j \in Reqs : j # i /\ Holds(j) => req[j].t # req[i].t

AccountsInv ==
  /\ RequestsOK
  /\ StoreOK(store, issued, grants, cut)
  /\ StoreOK(disk, issued, grants, cut)
  /\ HistoryOK
  /\ HoldersOK
-----------------------------------------------------------------------------
(* Which handlers make which call, and as which of their calls. *)
CallFacts(op, n, call) ==
  /\ op \in DOMAIN TokenKind /\ call = "create_session" =>
       op \in OneTimeOps /\ n > 1 /\ n = Len(Handler[op])
  /\ call \in {"verify_session", "rotate_session"} => op = "refresh"
  /\ call = "revoke_session" => op \in DOMAIN TokenKind /\ TokenKind[op] = "session"
  /\ call = "set_superuser" => op = "admin_super"
  /\ op = "admin_super" => call \in {"user_exists", "set_superuser"}
  /\ call = "oauth_link_or_create" => op = "callback"
  /\ call = "verify_recovery_token" => op = "verify"
  /\ call \in {"verify_mfa_challenge", "verify_magiclink_token", "verify_oauth_state"}
       <=> op \in OneTimeOps /\ n = 1

\* Every handler makes one to five calls, and each call occurs only in the
\* handlers CallFacts names.
LEMMA HandlerCases ==
  ASSUME NEW op \in DOMAIN Handler
  PROVE  /\ Len(Handler[op]) \in 1 .. 5
         /\ \A n \in 1 .. Len(Handler[op]) : CallFacts(op, n, Handler[op][n])
<1>1. CASE op = "login"
  <2>1. Handler[op] = PostAuthLogin
    BY <1>1 DEF Handler
  <2> QED BY <1>1, <2>1 DEF PostAuthLogin, CallFacts, OneTimeOps, TokenKind
<1>2. CASE op = "challenge"
  <2>1. Handler[op] = PostMfaChallenge
    BY <1>2 DEF Handler
  <2> QED BY <1>2, <2>1 DEF PostMfaChallenge, CallFacts, OneTimeOps, TokenKind
<1>3. CASE op = "recover"
  <2>1. Handler[op] = PostAuthRecover
    BY <1>3 DEF Handler
  <2> QED BY <1>3, <2>1 DEF PostAuthRecover, CallFacts, OneTimeOps, TokenKind
<1>4. CASE op = "verify"
  <2>1. Handler[op] = PostAuthVerify
    BY <1>4 DEF Handler
  <2> QED BY <1>4, <2>1 DEF PostAuthVerify, CallFacts, OneTimeOps, TokenKind
<1>5. CASE op = "magiclink"
  <2>1. Handler[op] = PostAuthMagiclink
    BY <1>5 DEF Handler
  <2> QED BY <1>5, <2>1 DEF PostAuthMagiclink, CallFacts, OneTimeOps, TokenKind
<1>6. CASE op = "magic_verify"
  <2>1. Handler[op] = PostAuthMagiclinkVerify
    BY <1>6 DEF Handler
  <2> QED BY <1>6, <2>1 DEF PostAuthMagiclinkVerify, CallFacts, OneTimeOps, TokenKind
<1>7. CASE op = "refresh"
  <2>1. Handler[op] = PostAuthRefresh
    BY <1>7 DEF Handler
  <2> QED BY <1>7, <2>1 DEF PostAuthRefresh, CallFacts, OneTimeOps, TokenKind
<1>8. CASE op = "logout"
  <2>1. Handler[op] = PostAuthLogout
    BY <1>8 DEF Handler
  <2> QED BY <1>8, <2>1 DEF PostAuthLogout, CallFacts, OneTimeOps, TokenKind
<1>9. CASE op = "end_session"
  <2>1. Handler[op] = DeleteAuthSession
    BY <1>9 DEF Handler
  <2> QED BY <1>9, <2>1 DEF DeleteAuthSession, CallFacts, OneTimeOps, TokenKind
<1>10. CASE op = "signup"
  <2>1. Handler[op] = PostAuthSignup
    BY <1>10 DEF Handler
  <2> QED BY <1>10, <2>1 DEF PostAuthSignup, CallFacts, OneTimeOps, TokenKind
<1>11. CASE op = "authorize"
  <2>1. Handler[op] = GetOauthAuthorize
    BY <1>11 DEF Handler
  <2> QED BY <1>11, <2>1 DEF GetOauthAuthorize, CallFacts, OneTimeOps, TokenKind
<1>12. CASE op = "callback"
  <2>1. Handler[op] = GetOauthCallback
    BY <1>12 DEF Handler
  <2> QED BY <1>12, <2>1 DEF GetOauthCallback, CallFacts, OneTimeOps, TokenKind
<1>13. CASE op = "enroll"
  <2>1. Handler[op] = PostMfaEnroll
    BY <1>13 DEF Handler
  <2> QED BY <1>13, <2>1 DEF PostMfaEnroll, CallFacts, OneTimeOps, TokenKind
<1>14. CASE op = "confirm"
  <2>1. Handler[op] = PostMfaVerify
    BY <1>14 DEF Handler
  <2> QED BY <1>14, <2>1 DEF PostMfaVerify, CallFacts, OneTimeOps, TokenKind
<1>15. CASE op = "disable"
  <2>1. Handler[op] = PostMfaDisable
    BY <1>15 DEF Handler
  <2> QED BY <1>15, <2>1 DEF PostMfaDisable, CallFacts, OneTimeOps, TokenKind
<1>16. CASE op = "admin_create"
  <2>1. Handler[op] = PostAdminUser
    BY <1>16 DEF Handler
  <2> QED BY <1>16, <2>1 DEF PostAdminUser, CallFacts, OneTimeOps, TokenKind
<1>17. CASE op = "admin_pw"
  <2>1. Handler[op] = PatchPassword
    BY <1>17 DEF Handler
  <2> QED BY <1>17, <2>1 DEF PatchPassword, CallFacts, OneTimeOps, TokenKind
<1>18. CASE op = "admin_ban"
  <2>1. Handler[op] = PatchBanned
    BY <1>18 DEF Handler
  <2> QED BY <1>18, <2>1 DEF PatchBanned, CallFacts, OneTimeOps, TokenKind
<1>19. CASE op = "admin_super"
  <2>1. Handler[op] = PatchSuperuser
    BY <1>19 DEF Handler
  <2> QED BY <1>19, <2>1 DEF PatchSuperuser, CallFacts, OneTimeOps, TokenKind
<1>20. CASE op = "admin_delete"
  <2>1. Handler[op] = DeleteAdminUser
    BY <1>20 DEF Handler
  <2> QED BY <1>20, <2>1 DEF DeleteAdminUser, CallFacts, OneTimeOps, TokenKind
<1> QED BY <1>1, <1>2, <1>3, <1>4, <1>5, <1>6, <1>7, <1>8, <1>9, <1>10, <1>11, <1>12, <1>13, <1>14, <1>15, <1>16, <1>17, <1>18, <1>19, <1>20 DEF Handler

\* A request of the load is of a known handler, and makes the call it is at.
LEMMA CallsKnown ==
  ASSUME RequestsOK, NEW i \in Reqs
  PROVE  /\ Op(i) \in DOMAIN Handler /\ Len(Handler[Op(i)]) \in 1 .. 5
         /\ \A call : At(i, call) => Running(i) /\ CallFacts(Op(i), req[i].pc, call)
<1>1. Op(i) \in DOMAIN Handler
  BY WorkAssumption DEF RequestsOK, Reqs, Op
<1>2. /\ Len(Handler[Op(i)]) \in 1 .. 5
      /\ \A n \in 1 .. Len(Handler[Op(i)]) : CallFacts(Op(i), n, Handler[Op(i)][n])
  BY <1>1, HandlerCases
<1> QED BY <1>1, <1>2 DEF At, Running
-----------------------------------------------------------------------------
(* How a call moves its request: it ends it, or goes on to a later call,   *)
(* and an administrator's request stays in the name it was made in.        *)
ReqMoves(i) ==
  /\ DOMAIN req' = Reqs
  /\ \A j \in Reqs : j # i => req'[j] = req[j]
  /\ DOMAIN req'[i] = ReqFields /\ req'[i].t = req[i].t /\ req'[i].code = req[i].code
  /\ req'[i].pc = Over \/ (req'[i].pc \in Nat /\ req'[i].pc > 1 /\ Running(i))
  /\ Op(i) = "admin_super" => req'[i].u = req[i].u

LEMMA EndMoves ==
  ASSUME RequestsOK, NEW i \in Reqs, End(i)
  PROVE  ReqMoves(i) /\ req'[i].pc = Over
BY DEF RequestsOK, End, ReqMoves, ReqFields, Over

LEMMA GoToMoves ==
  ASSUME RequestsOK, NEW i \in Reqs, Running(i), NEW n \in Nat, n > 1, NEW u, GoTo(i, n, u),
         Op(i) = "admin_super" => u = req[i].u
  PROVE  /\ ReqMoves(i)
         /\ req'[i].pc = IF n > Len(Handler[Op(i)]) THEN Over ELSE n
<1> DEFINE p == IF n > Len(Handler[Op(i)]) THEN Over ELSE n
<1>1. req' = [req EXCEPT ![i] = [@ EXCEPT !.pc = p, !.u = u]]
  BY DEF GoTo
<1>2. p = Over \/ p = n
  OBVIOUS
<1>3. p = IF n > Len(Handler[Op(i)]) THEN Over ELSE n
  OBVIOUS
<1> HIDE DEF p
<1>4. /\ DOMAIN req = Reqs /\ DOMAIN req[i] = ReqFields
  BY DEF RequestsOK
<1>5. /\ DOMAIN req' = Reqs /\ \A j \in Reqs : j # i => req'[j] = req[j]
      /\ DOMAIN req'[i] = ReqFields /\ req'[i].t = req[i].t /\ req'[i].code = req[i].code
      /\ req'[i].pc = p /\ req'[i].u = u
  BY <1>1, <1>4 DEF ReqFields
<1> QED BY <1>2, <1>3, <1>5 DEF ReqMoves

LEMMA ProceedMoves ==
  ASSUME RequestsOK, NEW i \in Reqs, Running(i), Proceed(i)
  PROVE  /\ ReqMoves(i)
         /\ req'[i].pc = IF req[i].pc + 1 > Len(Handler[Op(i)]) THEN Over ELSE req[i].pc + 1
<1>1. req[i].pc + 1 \in Nat /\ req[i].pc + 1 > 1
  BY DEF RequestsOK, Running
<1> QED BY <1>1, GoToMoves DEF Proceed

\* The tokens of s against those of o: none is gone, changed its kind or
\* came back to life, and the new ones are newly generated.
Later(o, s, iss) ==
  /\ \A t \in DOMAIN o.tokens :
       /\ t \in DOMAIN s.tokens /\ s.tokens[t].kind = o.tokens[t].kind
       /\ s.tokens[t].live => o.tokens[t].live
  /\ \A t \in DOMAIN s.tokens : t \in DOMAIN o.tokens \/ ~(t \in 0 .. iss)

LEMMA DeadStaysDead ==
  ASSUME NEW o, NEW s, NEW iss, Later(o, s, iss), NEW t \in 0 .. iss, Dead(o, t)
  PROVE  Dead(s, t)
BY DEF Later, Dead

LEMMA SameTokensLater ==
  ASSUME NEW o, NEW s, NEW iss, s.tokens = o.tokens
  PROVE  Later(o, s, iss)
BY DEF Later

LEMMA RequestsKept ==
  ASSUME RequestsOK, NEW i \in Reqs, ReqMoves(i), load' = load, now' = now,
         issued' \in {issued, issued + 1}, Later(store, store', issued)
  PROVE  RequestsOK'
<1>1. /\ load' \in Loads /\ issued' \in Nat /\ issued <= issued' /\ now' \in Nat /\ Reqs' = Reqs
      /\ DOMAIN req' = Reqs'
  BY DEF RequestsOK, Reqs, ReqMoves
<1>2. \A j \in Reqs : Op(j)' = Op(j) /\ Work(load')[j] = Work(load)[j]
  BY DEF Op
<1>3. ASSUME NEW j \in Reqs
      PROVE  /\ DOMAIN req'[j] = ReqFields
             /\ req'[j].pc \in Nat /\ req'[j].t = req[j].t /\ req'[j].code = req[j].code
             /\ Op(j) = "admin_super" => req'[j].u = req[j].u
             /\ Running(j)' => Running(j)
  <2>1. Len(Handler[Op(i)]) \in 1 .. 5
    BY CallsKnown
  <2>2. CASE j = i
    <3>1. Running(i)' <=> req'[i].pc \in 1 .. Len(Handler[Op(i)])
      BY <1>2 DEF Running
    <3>2. ASSUME NEW len \in 1 .. 5 PROVE ~(Over \in 1 .. len)
      BY DEF Over
    <3>3. req'[i].pc = Over => ~(Running(i)')
      BY <2>1, <3>1, <3>2
    <3> QED BY <2>2, <3>3 DEF ReqMoves, Over
  <2>3. CASE j # i
    BY <2>3, <1>2 DEF ReqMoves, Running, RequestsOK
  <2> QED BY <2>2, <2>3
<1>4. ASSUME NEW j \in Reqs
      PROVE  req'[j].t \in 0 .. issued' /\ req'[j].code \in Int
  BY <1>1, <1>3 DEF RequestsOK
<1>5. ASSUME NEW j \in Reqs, Running(j)', Op(j) \in DOMAIN TokenKind
      PROVE  req'[j].t \in DOMAIN store'.tokens /\ store'.tokens[req'[j].t].kind = TokenKind[Op(j)]
  BY <1>3, <1>5 DEF RequestsOK, Later
<1> QED BY <1>1, <1>2, <1>3, <1>4, <1>5 DEF RequestsOK

\* What a call may leave behind: the new state s in memory, and in the file as
\* well with the history G and C, or in memory only with the request over.
Written(i, s, G, C) ==
  /\ store' = s /\ load' = load /\ now' = now
  /\ \/ disk' = s /\ grants' = G /\ cut' = C
     \/ disk' = disk /\ grants' = grants /\ cut' = cut /\ req'[i].pc = Over

\* A store that is good for a longer history and fewer generated tokens is
\* good for a shorter one and more tokens.
LEMMA StoreOKWeaker ==
  ASSUME NEW s, NEW iss \in Nat, NEW gr, NEW ct, StoreOK(s, iss, gr, ct),
         NEW iss2 \in Nat, iss <= iss2, NEW gr2, gr2 \subseteq gr, NEW ct2, ct2 \subseteq ct
  PROVE  StoreOK(s, iss2, gr2, ct2)
<1>1. TokensOK(s, iss2, ct2)
  <2>1. \A t \in DOMAIN s.tokens :
          /\ t \in 1 .. iss2 /\ DOMAIN s.tokens[t] = TokenFields /\ s.tokens[t].live \in BOOLEAN
          /\ s.tokens[t].root \in 0 .. iss2
    BY DEF StoreOK, TokensOK
  <2> QED BY <2>1 DEF StoreOK, TokensOK
<1>2. MfaOK(s, iss2)
  <2>1. MfaRecords(iss) \subseteq MfaRecords(iss2)
    BY DEF MfaRecords
  <2> QED BY <2>1 DEF StoreOK, MfaOK
<1>3. GrantsUsedUp(s, gr2)
  BY DEF StoreOK, GrantsUsedUp
<1> QED BY <1>1, <1>2, <1>3 DEF StoreOK

LEMMA StoresKept ==
  ASSUME AccountsInv, NEW i, NEW s, NEW G, NEW C, Written(i, s, G, C),
         issued' \in {issued, issued + 1}, StoreOK(s, issued', G, C),
         grants \subseteq G, cut \subseteq C
  PROVE  StoreOK(store, issued, grants, cut)' /\ StoreOK(disk, issued, grants, cut)'
<1>1. issued \in Nat /\ issued' \in Nat /\ issued <= issued'
  BY DEF AccountsInv, RequestsOK
<1>2. StoreOK(s, issued', grants, cut)
  BY <1>1, StoreOKWeaker
<1>3. StoreOK(disk, issued', grants, cut)
  BY <1>1, StoreOKWeaker DEF AccountsInv
<1>4. StoreOK(store', issued', grants', cut') /\ StoreOK(disk', issued', grants', cut')
  BY <1>2, <1>3 DEF Written
<1> QED
  BY <1>4 DEF Written, StoreOK, UsersOK, TokensOK, MfaOK, GrantsUsedUp, UsedUp, Dead, MfaRecords,
              Superusers, GivenNames

\* A grant that is new: a session for a token nobody holds and nothing was
\* granted for, or a code that passed no challenge before.
NewGrant(g) ==
  \/ /\ DOMAIN g = {"session", "token"} /\ g.token \in 0 .. issued
     /\ g.token # None => \A h \in grants : "session" \in DOMAIN h => h.token # g.token
     /\ \A j \in Reqs : Holds(j)' => g.token # req[j].t
  \/ /\ DOMAIN g = {"code", "token"} /\ g.code[2] \in 0 .. issued /\ g.code[3] \in Int
     /\ \A h \in grants : "code" \in DOMAIN h => h.code # g.code

LEMMA HistoryKept ==
  ASSUME AccountsInv, NEW i, NEW s, NEW G, NEW C, Written(i, s, G, C),
         issued' \in {issued, issued + 1}, C \subseteq 0 .. issued',
         G = grants \/ \E g : NewGrant(g) /\ G = grants \cup {g}
  PROVE  HistoryOK'
<1>1. issued \in Nat /\ issued' \in Nat /\ issued <= issued'
  BY DEF AccountsInv, RequestsOK
<1>2. cut' \subseteq 0 .. issued'
  <2>1. 0 .. issued \subseteq 0 .. issued'
    BY <1>1
  <2> QED BY <2>1 DEF Written, AccountsInv, HistoryOK
<1>3. ASSUME NEW H, H = grants \/ \E g : NewGrant(g) /\ H = grants \cup {g}
      PROVE  /\ \A g \in H : \/ DOMAIN g = {"session", "token"} /\ g.token \in 0 .. issued'
                             \/ /\ DOMAIN g = {"code", "token"}
                                /\ g.code[2] \in 0 .. issued' /\ g.code[3] \in Int
             /\ \A g, h \in H :
                  /\ "session" \in DOMAIN g /\ "session" \in DOMAIN h /\ g.token = h.token /\ g.token # None => g = h
                  /\ "code" \in DOMAIN g /\ "code" \in DOMAIN h /\ g.code = h.code => g = h
  <2>1. ASSUME NEW g \in grants
        PROVE  \/ DOMAIN g = {"session", "token"} /\ g.token \in 0 .. issued'
               \/ /\ DOMAIN g = {"code", "token"}
                  /\ g.code[2] \in 0 .. issued' /\ g.code[3] \in Int
    <3>1. \/ DOMAIN g = {"session", "token"} /\ g.token \in 0 .. issued
          \/ DOMAIN g = {"code", "token"} /\ g.code[2] \in 0 .. issued /\ g.code[3] \in Int
      BY DEF AccountsInv, HistoryOK
    <3> QED BY <3>1, <1>1
  <2>2. CASE H = grants
    BY <2>1, <2>2 DEF AccountsInv, HistoryOK, GrantedOnce
  <2>3. CASE \E g : NewGrant(g) /\ H = grants \cup {g}
    <3>1. PICK n : NewGrant(n) /\ H = grants \cup {n}
      BY <2>3
    <3>2. \/ DOMAIN n = {"session", "token"} /\ n.token \in 0 .. issued'
          \/ DOMAIN n = {"code", "token"} /\ n.code[2] \in 0 .. issued' /\ n.code[3] \in Int
      BY <3>1, <1>1 DEF NewGrant
    <3>3. ASSUME NEW h \in grants
          PROVE  /\ ~("session" \in DOMAIN n /\ "session" \in DOMAIN h /\ n.token = h.token /\ n.token # None)
                 /\ ~("code" \in DOMAIN n /\ "code" \in DOMAIN h /\ n.code = h.code)
      BY <3>1 DEF NewGrant
    <3>4. \A g, h \in grants :
                  /\ "session" \in DOMAIN g /\ "session" \in DOMAIN h /\ g.token = h.token /\ g.token # None => g = h
                  /\ "code" \in DOMAIN g /\ "code" \in DOMAIN h /\ g.code = h.code => g = h
      BY DEF AccountsInv, HistoryOK, GrantedOnce
    <3> QED BY <2>1, <3>1, <3>2, <3>3, <3>4
  <2> QED BY <1>3, <2>2, <2>3
<1>4. grants' = grants \/ grants' = G
  BY DEF Written
<1>5. /\ \A g \in grants' : \/ DOMAIN g = {"session", "token"} /\ g.token \in 0 .. issued'
                            \/ /\ DOMAIN g = {"code", "token"}
                               /\ g.code[2] \in 0 .. issued' /\ g.code[3] \in Int
      /\ \A g, h \in grants' :
           /\ "session" \in DOMAIN g /\ "session" \in DOMAIN h /\ g.token = h.token /\ g.token # None => g = h
           /\ "code" \in DOMAIN g /\ "code" \in DOMAIN h /\ g.code = h.code => g = h
  BY <1>3, <1>4
<1> QED BY <1>2, <1>5 DEF HistoryOK, GrantedOnce

\* A request that is over is at no call and holds nothing.
LEMMA OverHoldsNothing ==
  ASSUME RequestsOK, NEW i \in Reqs, load' = load, req'[i].pc = Over
  PROVE  ~(Running(i)') /\ ~(Holds(i)')
<1>1. Op(i)' = Op(i)
  BY DEF Op
<1>2. Len(Handler[Op(i)]) \in 1 .. 5
  BY CallsKnown
<1>3. \A len \in 1 .. 5 : ~(Over \in 1 .. len)
  BY DEF Over
<1> QED BY <1>1, <1>2, <1>3 DEF Holds, Running

\* The verification of a one-time token takes it from the store for good.
Claims(i) ==
  /\ req[i].t \in DOMAIN store.tokens /\ store.tokens[req[i].t].live
  /\ Dead(store', req[i].t) /\ (disk' = store' \/ req'[i].pc = Over)

LEMMA HoldersKept ==
  ASSUME AccountsInv, NEW i \in Reqs, ReqMoves(i), NEW s, NEW G, NEW C, Written(i, s, G, C),
         Later(store, s, issued),
         G = grants \/ \E g : NewGrant(g) /\ G = grants \cup {g},
         Holds(i)' => Holds(i) \/ Claims(i)
  PROVE  HoldersOK'
<1>1. Reqs' = Reqs /\ (\A j \in Reqs : Op(j)' = Op(j) /\ req'[j].t = req[j].t)
  BY DEF Written, Reqs, Op, ReqMoves
<1>2. \A j \in Reqs : j # i => (Holds(j)' <=> Holds(j))
  BY <1>1 DEF Written, Holds, Running, ReqMoves
<1>4. Holds(i)' => req'[i].pc # Over
  BY OverHoldsNothing DEF Written, AccountsInv
<1>5. ASSUME NEW j \in Reqs, Holds(j)
      PROVE  /\ req[j].t \in 0 .. issued /\ req[j].t # None
             /\ Dead(store, req[j].t) /\ Dead(disk, req[j].t)
             /\ \A g \in grants : "session" \in DOMAIN g => g.token # req[j].t
  <2>1. Running(j) /\ Op(j) \in DOMAIN TokenKind
    BY <1>5 DEF Holds, OneTimeOps, TokenKind
  <2>2. req[j].t \in DOMAIN store.tokens
    BY <2>1 DEF AccountsInv, RequestsOK
  <2>3. req[j].t \in 1 .. issued
    BY <2>2 DEF AccountsInv, StoreOK, TokensOK
  <2>4. issued \in Nat
    BY DEF AccountsInv, RequestsOK
  <2> QED BY <1>5, <2>3, <2>4 DEF AccountsInv, HoldersOK, None
<1>6. ASSUME NEW j \in Reqs, Holds(j)'
      PROVE  Dead(store', req[j].t) /\ Dead(disk', req[j].t)
  <2>1. CASE Holds(j)
    BY <2>1, <1>5, DeadStaysDead DEF Written
  <2>2. CASE ~Holds(j)
    BY <2>2, <1>2, <1>4, <1>6 DEF Written, Claims
  <2> QED BY <2>1, <2>2
<1>7. ASSUME Claims(i)
      PROVE  /\ \A g \in grants : "session" \in DOMAIN g => g.token # req[i].t
             /\ \A j \in Reqs : Holds(j) => req[j].t # req[i].t
  <2>1. ~Dead(store, req[i].t)
    BY <1>7 DEF Claims, Dead
  <2>2. \A g \in grants : "session" \in DOMAIN g => Dead(store, g.token)
    BY DEF AccountsInv, StoreOK, GrantsUsedUp
  <2> QED BY <2>1, <2>2, <1>5
<1>8. ASSUME NEW j \in Reqs, Holds(j)', NEW g \in grants', "session" \in DOMAIN g
      PROVE  g.token # req[j].t
  <2>1. CASE g \in grants
    BY <2>1, <1>2, <1>5, <1>7, <1>8
  <2>2. CASE g \notin grants
    <3>1. NewGrant(g)
      BY <2>2, <1>8 DEF Written
    <3> QED BY <3>1, <1>8 DEF NewGrant
  <2> QED BY <2>1, <2>2
<1>9. ASSUME NEW j \in Reqs, NEW k \in Reqs, j # k, Holds(j)', Holds(k)'
      PROVE  req[j].t # req[k].t
  <2>1. CASE Holds(j) /\ Holds(k)
    BY <2>1, <1>9 DEF AccountsInv, HoldersOK
  <2>2. CASE ~(Holds(j) /\ Holds(k))
    BY <2>2, <1>2, <1>7, <1>9
  <2> QED BY <2>1, <2>2
<1>10. ASSUME NEW j \in Reqs, Holds(j)'
       PROVE  /\ Dead(store', req'[j].t) /\ Dead(disk', req'[j].t)
              /\ \A g \in grants' : "session" \in DOMAIN g => g.token # req'[j].t
              /\ \A k \in Reqs : k # j /\ Holds(k)' => req'[k].t # req'[j].t
  BY <1>1, <1>6, <1>8, <1>9, <1>10
<1> QED BY <1>1, <1>10 DEF HoldersOK, Dead

\* A call of request i that writes the store keeps the invariant.
LEMMA CallKeeps ==
  ASSUME AccountsInv, NEW i \in Reqs, ReqMoves(i),
         NEW s, NEW G, NEW C, Written(i, s, G, C),
         issued' \in {issued, issued + 1}, Later(store, s, issued), StoreOK(s, issued', G, C),
         cut \subseteq C, C \subseteq 0 .. issued',
         G = grants \/ \E g : NewGrant(g) /\ G = grants \cup {g},
         Holds(i)' => Holds(i) \/ Claims(i)
  PROVE  AccountsInv'
<1>1. RequestsOK'
  BY RequestsKept DEF AccountsInv, Written
<1>2. StoreOK(store, issued, grants, cut)' /\ StoreOK(disk, issued, grants, cut)'
  <2>1. grants \subseteq G
    OBVIOUS
  <2> QED BY <2>1, StoresKept
<1>3. HistoryOK'
  BY HistoryKept
<1>4. HoldersOK'
  BY HoldersKept
<1> QED BY <1>1, <1>2, <1>3, <1>4 DEF AccountsInv
-----------------------------------------------------------------------------
Verifications == {"verify_mfa_challenge", "verify_magiclink_token", "verify_oauth_state"}

\* Only the verification of a one-time token makes a request hold one.
LEMMA HoldsBefore ==
  ASSUME RequestsOK, NEW i \in Reqs, ReqMoves(i), load' = load,
         NEW call, At(i, call), call \notin Verifications
  PROVE  Holds(i)' => Holds(i)
<1>1. Running(i) /\ CallFacts(Op(i), req[i].pc, call)
  BY CallsKnown
<1>2. Op(i)' = Op(i)
  BY DEF Op
<1>3. req[i].pc \in Nat /\ req[i].pc # 0
  BY <1>1 DEF RequestsOK, Running
<1>4. Op(i) \in OneTimeOps => req[i].pc # 1
  BY <1>1 DEF CallFacts, Verifications
<1>5. Op(i) \in OneTimeOps => req[i].pc > 1
  BY <1>3, <1>4
<1> QED BY <1>1, <1>2, <1>5 DEF Holds

unchangedStore == <<load, store, disk, now, issued, grants, cut>>

\* A call that only reads keeps the invariant.
LEMMA ReadKeeps ==
  ASSUME AccountsInv, NEW i \in Reqs, ReqMoves(i), UNCHANGED unchangedStore,
         Holds(i)' => Holds(i)
  PROVE  AccountsInv'
<1> USE DEF unchangedStore
<1>1. RequestsOK'
  <2>1. Later(store, store', issued)
    BY SameTokensLater
  <2> QED BY <2>1, RequestsKept DEF AccountsInv
<1>2. StoreOK(store, issued, grants, cut)' /\ StoreOK(disk, issued, grants, cut)'
  BY DEF AccountsInv, StoreOK, UsersOK, TokensOK, MfaOK, GrantsUsedUp, UsedUp, Dead, MfaRecords,
         Superusers, GivenNames
<1>3. HistoryOK'
  BY DEF AccountsInv, HistoryOK, GrantedOnce
<1>4. HoldersOK'
  <2>1. Reqs' = Reqs /\ (\A j \in Reqs : Op(j)' = Op(j) /\ req'[j].t = req[j].t)
    BY DEF Reqs, Op, ReqMoves
  <2>2. \A j \in Reqs : j # i => (Holds(j)' <=> Holds(j))
    BY <2>1 DEF Holds, Running, ReqMoves
  <2>3. ASSUME NEW j \in Reqs, Holds(j)'
        PROVE  /\ Dead(store, req'[j].t) /\ Dead(disk, req'[j].t)
               /\ \A g \in grants : "session" \in DOMAIN g => g.token # req'[j].t
               /\ \A k \in Reqs : k # j /\ Holds(k)' => req'[k].t # req'[j].t
    BY <2>1, <2>2, <2>3 DEF AccountsInv, HoldersOK
  <2> QED BY <2>1, <2>3 DEF HoldersOK, Dead
<1> QED BY <1>1, <1>2, <1>3, <1>4 DEF AccountsInv

LEMMA DecideKeeps ==
  ASSUME AccountsInv, NEW i \in Reqs, NEW call, At(i, call), call \notin Verifications,
         NEW goOn, Decide(i, goOn)
  PROVE  AccountsInv'
<1>1. Running(i)
  BY CallsKnown DEF AccountsInv
<1>2. ReqMoves(i)
  BY <1>1, ProceedMoves, EndMoves DEF AccountsInv, Decide
<1>3. Holds(i)' => Holds(i)
  BY <1>2, HoldsBefore DEF AccountsInv, Decide
<1> QED BY <1>2, <1>3, ReadKeeps DEF Decide, unchangedStore

LEMMA RefuseKeeps ==
  ASSUME AccountsInv, NEW i \in Reqs, Refuse(i)
  PROVE  AccountsInv'
<1>1. ReqMoves(i) /\ req'[i].pc = Over
  BY EndMoves DEF AccountsInv, Refuse
<1>2. UNCHANGED unchangedStore
  BY DEF Refuse, unchangedStore
<1>3. ~(Holds(i)')
  BY <1>1, OverHoldsNothing DEF AccountsInv, Refuse
<1> QED BY <1>1, <1>2, <1>3, ReadKeeps
-----------------------------------------------------------------------------
(* The calls that change users and leave tokens alone. *)
LEMMA ChangeKeeps ==
  ASSUME AccountsInv, NEW i \in Reqs, NEW call, At(i, call), call \notin Verifications,
         NEW s, Change(i, s), Later(store, s, issued), StoreOK(s, issued, grants, cut)
  PROVE  AccountsInv'
<1>1. Running(i)
  BY CallsKnown DEF AccountsInv
<1>2. ReqMoves(i) /\ Written(i, s, grants, cut) /\ issued' = issued
  <2>1. CASE disk' = s /\ Proceed(i) /\ UNCHANGED <<grants, cut>> /\ UNCHANGED faults
    BY <1>1, <2>1, ProceedMoves DEF AccountsInv, Change, Persist, Written
  <2>2. CASE End(i) /\ UNCHANGED <<disk, grants, cut>>
    BY <2>2, EndMoves DEF AccountsInv, Change, Persist, Written
  <2> QED BY <2>1, <2>2 DEF Change, Persist
<1>3. Holds(i)' => Holds(i)
  BY <1>2, HoldsBefore DEF AccountsInv, Written
<1>4. cut \subseteq 0 .. issued'
  BY <1>2 DEF AccountsInv, HistoryOK
<1>5. StoreOK(s, issued', grants, cut)
  BY <1>2
<1> QED BY <1>2, <1>3, <1>4, <1>5, CallKeeps

\* Tokens as before, no new enrolments, good users.
LEMMA UsersStoreOK ==
  ASSUME NEW o, NEW iss, NEW gr, NEW ct, StoreOK(o, iss, gr, ct),
         NEW s, DOMAIN s = StoreFields, s.tokens = o.tokens,
         DOMAIN s.mfa \subseteq DOMAIN o.mfa, \A u \in DOMAIN s.mfa : s.mfa[u] = o.mfa[u],
         UsersOK(s)
  PROVE  StoreOK(s, iss, gr, ct)
<1>1. TokensOK(s, iss, ct) /\ MfaOK(s, iss)
  BY DEF StoreOK, TokensOK, MfaOK
<1>2. GrantsUsedUp(s, gr)
  BY DEF StoreOK, GrantsUsedUp, Dead, UsedUp
<1> QED BY <1>1, <1>2 DEF StoreOK

LEMMA UserChangeKeeps ==
  ASSUME AccountsInv, NEW i \in Reqs, NEW call, At(i, call), call \notin Verifications,
         NEW s, Change(i, s), DOMAIN s = StoreFields, s.tokens = store.tokens,
         DOMAIN s.mfa \subseteq DOMAIN store.mfa, \A u \in DOMAIN s.mfa : s.mfa[u] = store.mfa[u],
         UsersOK(s)
  PROVE  AccountsInv'
<1>1. StoreOK(s, issued, grants, cut)
  BY UsersStoreOK DEF AccountsInv
<1>2. Later(store, s, issued)
  BY SameTokensLater
<1> QED BY <1>1, <1>2, ChangeKeeps

LEMMA StoreTyped ==
  ASSUME AccountsInv
  PROVE  /\ DOMAIN store = StoreFields /\ UsersOK(store)
         /\ DOMAIN disk = StoreFields /\ UsersOK(disk)
BY DEF AccountsInv, StoreOK

LEMMA SetPasswordKeeps ==
  ASSUME AccountsInv, NEW i \in Reqs, SetPassword(i) PROVE AccountsInv'
<1> DEFINE u == req[i].u
           s == [store EXCEPT !.users[u].pw = Arg(i)]
<1>1. CASE u \in DOMAIN store.users
  <2>1. At(i, "set_password") /\ Change(i, s)
    BY <1>1 DEF SetPassword
  <2>2. /\ DOMAIN s = StoreFields /\ s.tokens = store.tokens /\ s.mfa = store.mfa
        /\ s.users = [store.users EXCEPT ![u].pw = Arg(i)]
    BY StoreTyped DEF StoreFields
  <2> HIDE DEF s, u
  <2>3. UsersOK(s)
    <3>1. /\ DOMAIN s.users = DOMAIN store.users
          /\ \A v \in DOMAIN s.users : DOMAIN s.users[v] = UserFields /\ s.users[v].super = store.users[v].super
      BY <2>2, StoreTyped DEF UsersOK, UserFields
    <3>2. Superusers(s) = Superusers(store)
      BY <3>1 DEF Superusers
    <3> QED BY <3>1, <3>2, StoreTyped DEF UsersOK
  <2> QED BY <2>1, <2>2, <2>3, UserChangeKeeps DEF Verifications
<1>2. CASE u \notin DOMAIN store.users
  BY <1>2, RefuseKeeps DEF SetPassword
<1> QED BY <1>1, <1>2

LEMMA SetBannedKeeps ==
  ASSUME AccountsInv, NEW i \in Reqs, SetBanned(i) PROVE AccountsInv'
<1> DEFINE u == req[i].u
           s == [store EXCEPT !.users[u].banned = TRUE]
<1>1. CASE u \in DOMAIN store.users
  <2>1. At(i, "set_banned") /\ Change(i, s)
    BY <1>1 DEF SetBanned
  <2>2. /\ DOMAIN s = StoreFields /\ s.tokens = store.tokens /\ s.mfa = store.mfa
        /\ s.users = [store.users EXCEPT ![u].banned = TRUE]
    BY StoreTyped DEF StoreFields
  <2> HIDE DEF s, u
  <2>3. UsersOK(s)
    <3>1. /\ DOMAIN s.users = DOMAIN store.users
          /\ \A v \in DOMAIN s.users : DOMAIN s.users[v] = UserFields /\ s.users[v].super = store.users[v].super
      BY <2>2, StoreTyped DEF UsersOK, UserFields
    <3>2. Superusers(s) = Superusers(store)
      BY <3>1 DEF Superusers
    <3> QED BY <3>1, <3>2, StoreTyped DEF UsersOK
  <2> QED BY <2>1, <2>2, <2>3, UserChangeKeeps DEF Verifications
<1>2. CASE u \notin DOMAIN store.users
  BY <1>2, RefuseKeeps DEF SetBanned
<1> QED BY <1>1, <1>2

\* A new account without rights, under a name that is no superuser's.
LEMMA NewUserOK ==
  ASSUME NEW o, UsersOK(o), NEW s, NEW u, u \notin Superusers(o), NEW pw,
         s.users = Set(o.users, u, NewUser(FALSE, pw))
  PROVE  UsersOK(s)
<1> DEFINE n == NewUser(FALSE, pw)
<1>1. /\ DOMAIN s.users = DOMAIN o.users \cup {u}
      /\ s.users[u] = n /\ \A v \in DOMAIN o.users : v # u => s.users[v] = o.users[v]
  BY DEF Set
<1>2. DOMAIN n = UserFields
  BY DEF NewUser, UserFields
<1>3. n.super = FALSE
  BY DEF NewUser
<1> HIDE DEF n
<1>4. \A v \in DOMAIN s.users : DOMAIN s.users[v] = UserFields /\ s.users[v].super \in BOOLEAN
  BY <1>1, <1>2, <1>3 DEF UsersOK
<1>5. Superusers(s) = Superusers(o)
  BY <1>1, <1>3 DEF Superusers
<1> QED BY <1>4, <1>5 DEF UsersOK

LEMMA CreateUserKeeps ==
  ASSUME AccountsInv, NEW i \in Reqs, CreateUser(i) PROVE AccountsInv'
<1> DEFINE u == req[i].u
           s == [store EXCEPT !.users = Set(@, u, NewUser(FALSE, Arg(i)))]
<1>1. CASE u \notin DOMAIN store.users
  <2>1. At(i, "create_user") /\ Change(i, s)
    BY <1>1 DEF CreateUser
  <2>2. /\ DOMAIN s = StoreFields /\ s.tokens = store.tokens /\ s.mfa = store.mfa
        /\ s.users = Set(store.users, u, NewUser(FALSE, Arg(i)))
    BY StoreTyped DEF StoreFields
  <2> HIDE DEF s, u
  <2>3. UsersOK(s)
    BY <1>1, <2>2, StoreTyped, NewUserOK DEF Superusers
  <2> QED BY <2>1, <2>2, <2>3, UserChangeKeeps DEF Verifications
<1>2. CASE u \in DOMAIN store.users
  BY <1>2, RefuseKeeps DEF CreateUser
<1> QED BY <1>1, <1>2

LEMMA SetSuperuserKeeps ==
  ASSUME AccountsInv, NEW i \in Reqs, SetSuperuser(i) PROVE AccountsInv'
<1> DEFINE u == req[i].u
           s == [store EXCEPT !.users[u].super = Arg(i)]
<1>1. CASE u \in DOMAIN store.users /\ (Arg(i) \/ MayLoseSuperuser(u))
  <2>1. At(i, "set_superuser") /\ Change(i, s)
    BY <1>1 DEF SetSuperuser
  <2>2. /\ DOMAIN s = StoreFields /\ s.tokens = store.tokens /\ s.mfa = store.mfa
        /\ s.users = [store.users EXCEPT ![u].super = Arg(i)]
    BY StoreTyped DEF StoreFields
  <2>3. Op(i) = "admin_super"
    BY <2>1, CallsKnown DEF AccountsInv, CallFacts
  <2>4. Arg(i) \in BOOLEAN /\ u \in GivenNames(load)
    BY <2>3, WorkAssumption DEF AccountsInv, RequestsOK, Reqs, Op, Arg, GivenNames
  <2> HIDE DEF s, u
  <2>5. UsersOK(s)
    <3>1. /\ DOMAIN s.users = DOMAIN store.users
          /\ \A v \in DOMAIN s.users : DOMAIN s.users[v] = UserFields
          /\ s.users[u].super = Arg(i)
          /\ \A v \in DOMAIN s.users : v # u => s.users[v].super = store.users[v].super
      BY <1>1, <2>2, StoreTyped DEF UsersOK, UserFields
    <3>2. Superusers(s) = IF Arg(i) THEN Superusers(store) \cup {u} ELSE Superusers(store) \ {u}
      BY <1>1, <2>4, <3>1 DEF Superusers
    <3>3. Superusers(s) # {} /\ Superusers(s) \subseteq GivenNames(load)
      BY <1>1, <2>4, <3>2, StoreTyped DEF UsersOK, MayLoseSuperuser
    <3> QED BY <2>4, <3>1, <3>3, StoreTyped DEF UsersOK
  <2> QED BY <2>1, <2>2, <2>5, UserChangeKeeps DEF Verifications
<1>2. CASE ~(u \in DOMAIN store.users /\ (Arg(i) \/ MayLoseSuperuser(u)))
  BY <1>2, RefuseKeeps DEF SetSuperuser
<1> QED BY <1>1, <1>2

\* DROP USER leaves good users behind, when the user may go.
LEMMA WithoutUserOK ==
  ASSUME NEW o, DOMAIN o = StoreFields, UsersOK(o), NEW u, Superusers(o) # {u}
  PROVE  LET s == WithoutUser(o, u) IN
         /\ DOMAIN s = StoreFields /\ s.tokens = o.tokens
         /\ DOMAIN s.mfa \subseteq DOMAIN o.mfa /\ \A v \in DOMAIN s.mfa : s.mfa[v] = o.mfa[v]
         /\ UsersOK(s)
<1> DEFINE s == WithoutUser(o, u)
<1>1. DOMAIN s = StoreFields /\ s.tokens = o.tokens /\ s.mfa = Drop(o.mfa, u) /\ s.users = Drop(o.users, u)
  BY DEF StoreFields, WithoutUser
<1> HIDE DEF s
<1>2. DOMAIN s.mfa \subseteq DOMAIN o.mfa /\ \A v \in DOMAIN s.mfa : s.mfa[v] = o.mfa[v]
  BY <1>1 DEF Drop
<1>3. DOMAIN s.users = DOMAIN o.users \ {u} /\ \A v \in DOMAIN s.users : s.users[v] = o.users[v]
  BY <1>1 DEF Drop
<1>4. Superusers(s) = Superusers(o) \ {u}
  BY <1>3 DEF Superusers
<1>5. UsersOK(s)
  BY <1>3, <1>4 DEF UsersOK
<1> QED BY <1>1, <1>2, <1>5 DEF s

LEMMA DropUserKeeps ==
  ASSUME AccountsInv, NEW i \in Reqs, DropUser(i) PROVE AccountsInv'
<1> DEFINE u == req[i].u
           s == WithoutUser(store, u)
<1>1. CASE u \in DOMAIN store.users /\ MayLoseSuperuser(u)
  <2>1. At(i, "drop_user") /\ Change(i, s)
    BY <1>1 DEF DropUser
  <2>2. /\ DOMAIN s = StoreFields /\ s.tokens = store.tokens
        /\ DOMAIN s.mfa \subseteq DOMAIN store.mfa /\ \A v \in DOMAIN s.mfa : s.mfa[v] = store.mfa[v]
        /\ UsersOK(s)
    BY <1>1, StoreTyped, WithoutUserOK DEF MayLoseSuperuser
  <2> HIDE DEF s
  <2> QED BY <2>1, <2>2, UserChangeKeeps DEF Verifications
<1>2. CASE ~(u \in DOMAIN store.users /\ MayLoseSuperuser(u))
  BY <1>2, RefuseKeeps DEF DropUser
<1> QED BY <1>1, <1>2
-----------------------------------------------------------------------------
(* The calls that change tokens. *)

\* A generated token joins the others; a session's family has no other live
\* member and is not revoked.
LEMMA AddToken ==
  ASSUME NEW o, NEW iss \in Nat, NEW ct, TokensOK(o, iss, ct),
         NEW s, NEW tok, s.tokens = Set(o.tokens, iss + 1, tok),
         DOMAIN tok = TokenFields, tok.live \in BOOLEAN, tok.root \in 0 .. iss + 1,
         tok.kind = "session" =>
           /\ tok.root # None /\ tok.root \notin ct
           /\ \A t \in DOMAIN o.tokens :
                o.tokens[t].kind = "session" /\ o.tokens[t].live => o.tokens[t].root # tok.root
  PROVE  TokensOK(s, iss + 1, ct) /\ Later(o, s, iss)
<1> DEFINE n == iss + 1
<1>1. n \notin DOMAIN o.tokens /\ n \notin 0 .. iss /\ n \in 1 .. n /\ 0 .. iss \subseteq 0 .. n /\ 1 .. iss \subseteq 1 .. n
  BY DEF TokensOK
<1>2. tok.root \in 0 .. n
  OBVIOUS
<1>3. /\ DOMAIN s.tokens = DOMAIN o.tokens \cup {n} /\ s.tokens[n] = tok
      /\ \A t \in DOMAIN o.tokens : s.tokens[t] = o.tokens[t]
  BY <1>1 DEF Set
<1> HIDE DEF n
<1>4. Later(o, s, iss)
  BY <1>1, <1>3 DEF Later
<1>5. ASSUME NEW t \in DOMAIN s.tokens
      PROVE  /\ t \in 1 .. n /\ DOMAIN s.tokens[t] = TokenFields /\ s.tokens[t].live \in BOOLEAN
             /\ s.tokens[t].root \in 0 .. n
             /\ s.tokens[t].kind = "session" =>
                  s.tokens[t].root # None /\ (s.tokens[t].live => s.tokens[t].root \notin ct)
  BY <1>1, <1>2, <1>3 DEF TokensOK
<1>6. ASSUME NEW t \in DOMAIN s.tokens, NEW v \in DOMAIN s.tokens,
             s.tokens[t].kind = "session", s.tokens[t].live,
             s.tokens[v].kind = "session", s.tokens[v].live, s.tokens[t].root = s.tokens[v].root
      PROVE  t = v
  BY <1>3, <1>6 DEF TokensOK
<1>7. TokensOK(s, n, ct)
  BY <1>5, <1>6 DEF TokensOK
<1> QED BY <1>4, <1>7 DEF n

LEMMA TokenShape ==
  ASSUME NEW kind, NEW u, NEW root, NEW ttl
  PROVE  LET tok == Token(kind, u, root, ttl) IN
         DOMAIN tok = TokenFields /\ tok.live \in BOOLEAN /\ tok.root = root /\ tok.kind = kind
BY DEF Token, TokenFields

\* Some tokens die, the others stay as they are.
Killed(o, s, ts) ==
  /\ DOMAIN s.tokens = DOMAIN o.tokens
  /\ \A t \in DOMAIN s.tokens :
       /\ DOMAIN s.tokens[t] = TokenFields /\ s.tokens[t].live \in BOOLEAN
       /\ s.tokens[t].kind = o.tokens[t].kind /\ s.tokens[t].root = o.tokens[t].root
       /\ s.tokens[t].live => o.tokens[t].live /\ t \notin ts

LEMMA KillTokens ==
  ASSUME NEW o, NEW iss, NEW ct, TokensOK(o, iss, ct), NEW s, NEW ts, Killed(o, s, ts)
  PROVE  TokensOK(s, iss, ct) /\ Later(o, s, iss) /\ \A t \in ts : Dead(s, t)
<1>1. TokensOK(s, iss, ct)
  <2>1. ASSUME NEW t \in DOMAIN s.tokens
        PROVE  /\ t \in 1 .. iss /\ DOMAIN s.tokens[t] = TokenFields /\ s.tokens[t].live \in BOOLEAN
               /\ s.tokens[t].root \in 0 .. iss
               /\ s.tokens[t].kind = "session" =>
                    s.tokens[t].root # None /\ (s.tokens[t].live => s.tokens[t].root \notin ct)
    BY DEF Killed, TokensOK
  <2>2. ASSUME NEW t \in DOMAIN s.tokens, NEW v \in DOMAIN s.tokens,
               s.tokens[t].kind = "session", s.tokens[t].live,
               s.tokens[v].kind = "session", s.tokens[v].live, s.tokens[t].root = s.tokens[v].root
        PROVE  t = v
    BY <2>2 DEF Killed, TokensOK
  <2> QED BY <2>1, <2>2 DEF TokensOK
<1>2. Later(o, s, iss) /\ \A t \in ts : Dead(s, t)
  BY DEF Killed, Later, Dead
<1> QED BY <1>1, <1>2

LEMMA SpentKills ==
  ASSUME NEW o, NEW iss, NEW ct, TokensOK(o, iss, ct), NEW s, NEW t \in DOMAIN o.tokens,
         s.tokens = Spent(o.tokens, t)
  PROVE  Killed(o, s, {t})
<1>1. /\ DOMAIN s.tokens = DOMAIN o.tokens
      /\ \A x \in DOMAIN o.tokens : x # t => s.tokens[x] = o.tokens[x]
      /\ s.tokens[t] = [o.tokens[t] EXCEPT !.live = FALSE]
  BY DEF Spent
<1>2. \A x \in DOMAIN o.tokens : DOMAIN o.tokens[x] = TokenFields /\ o.tokens[x].live \in BOOLEAN
  BY DEF TokensOK
<1>3. /\ DOMAIN s.tokens[t] = TokenFields /\ s.tokens[t].live = FALSE
      /\ s.tokens[t].kind = o.tokens[t].kind /\ s.tokens[t].root = o.tokens[t].root
  BY <1>1, <1>2 DEF TokenFields
<1> QED BY <1>1, <1>2, <1>3 DEF Killed

\* The rest of a store whose tokens have changed.
LEMMA TokenStoreOK ==
  ASSUME AccountsInv, NEW s, DOMAIN s = StoreFields, s.users = store.users, s.mfa = store.mfa,
         Later(store, s, issued), NEW iss \in {issued, issued + 1}, NEW C, TokensOK(s, iss, C)
  PROVE  StoreOK(s, iss, grants, C)
<1>1. UsersOK(s)
  BY DEF AccountsInv, StoreOK, UsersOK, Superusers
<1>2. MfaOK(s, iss)
  <2>1. issued \in Nat
    BY DEF AccountsInv, RequestsOK
  <2>2. MfaRecords(issued) \subseteq MfaRecords(iss)
    BY <2>1 DEF MfaRecords
  <2> QED BY <2>2 DEF AccountsInv, StoreOK, MfaOK
<1>3. GrantsUsedUp(s, grants)
  <2>1. ASSUME NEW g \in grants, "session" \in DOMAIN g PROVE Dead(s, g.token)
    <3>1. g.token \in 0 .. issued
      BY <2>1 DEF AccountsInv, HistoryOK
    <3>2. Dead(store, g.token)
      BY <2>1 DEF AccountsInv, StoreOK, GrantsUsedUp
    <3> QED BY <3>1, <3>2, DeadStaysDead
  <2>2. ASSUME NEW g \in grants, "code" \in DOMAIN g PROVE UsedUp(s, g.code)
    BY <2>2 DEF AccountsInv, StoreOK, GrantsUsedUp, UsedUp
  <2> QED BY <2>1, <2>2 DEF GrantsUsedUp
<1> QED BY <1>1, <1>2, <1>3 DEF StoreOK

LEMMA GrantAdded ==
  ASSUME NEW s, NEW iss, NEW gr, NEW ct, StoreOK(s, iss, gr, ct), NEW g,
         "session" \in DOMAIN g => Dead(s, g.token), "code" \in DOMAIN g => UsedUp(s, g.code)
  PROVE  StoreOK(s, iss, gr \cup {g}, ct)
BY DEF StoreOK, GrantsUsedUp

\* create_session and the one-time tokens: a call that generates a token.
LEMMA CreateSessionKeeps ==
  ASSUME AccountsInv, NEW i \in Reqs, CreateSession(i) PROVE AccountsInv'
<1> DEFINE tok == Token("session", req[i].u, Fresh, SessionTtl)
           s == [store EXCEPT !.tokens = Set(@, Fresh, tok)]
           g == [session |-> Fresh, token |-> req[i].t]
           G == grants \cup {g}
<1>1. /\ At(i, "create_session") /\ Running(i) /\ CallFacts(Op(i), req[i].pc, "create_session")
      /\ issued \in Nat /\ issued' = issued + 1
  BY CallsKnown DEF AccountsInv, RequestsOK, CreateSession, Fresh
<1>2. /\ DOMAIN s = StoreFields /\ s.users = store.users /\ s.mfa = store.mfa
      /\ s.tokens = Set(store.tokens, issued + 1, tok)
  BY StoreTyped DEF StoreFields, Fresh
<1>3. DOMAIN tok = TokenFields /\ tok.live \in BOOLEAN /\ tok.root = issued + 1
  BY TokenShape DEF Fresh
<1>4. DOMAIN g = {"session", "token"} /\ g.token = req[i].t
  OBVIOUS
<1>5. /\ ReqMoves(i) /\ Written(i, s, G, cut)
      /\ req[i].pc + 1 > Len(Handler[Op(i)]) => req'[i].pc = Over
  <2>1. CASE disk' = s /\ Proceed(i) /\ grants' = G /\ UNCHANGED cut
    BY <1>1, <2>1, ProceedMoves DEF AccountsInv, CreateSession, Persist, Written
  <2>2. CASE End(i) /\ UNCHANGED <<disk, grants, cut>>
    BY <2>2, EndMoves DEF AccountsInv, CreateSession, Persist, Written
  <2> QED BY <2>1, <2>2 DEF CreateSession, Persist
<1> HIDE DEF tok, s, g
<1>6. TokensOK(store, issued, cut) /\ cut \subseteq 0 .. issued
  BY DEF AccountsInv, StoreOK, HistoryOK
<1>7. TokensOK(s, issued + 1, cut) /\ Later(store, s, issued)
  <2>1. tok.root \in 0 .. issued + 1 /\ tok.root # None /\ tok.root \notin cut
    BY <1>1, <1>3, <1>6 DEF None
  <2>2. \A t \in DOMAIN store.tokens : store.tokens[t].root # tok.root
    BY <1>1, <1>3, <1>6 DEF TokensOK
  <2> QED BY <1>1, <1>2, <1>3, <1>6, <2>1, <2>2, AddToken
<1>8. StoreOK(s, issued + 1, grants, cut)
  BY <1>1, <1>2, <1>7, TokenStoreOK
<1>9. /\ req[i].t \in 0 .. issued
      /\ \/ Op(i) \notin DOMAIN TokenKind /\ req[i].t = None
         \/ Holds(i) /\ req[i].pc = Len(Handler[Op(i)])
  BY <1>1 DEF AccountsInv, RequestsOK, CallFacts, Holds
<1>10. Dead(store, req[i].t)
  <2>1. None \notin DOMAIN store.tokens
    BY <1>6 DEF TokensOK, None
  <2> QED BY <1>9, <2>1 DEF AccountsInv, HoldersOK, Dead
<1>11. Dead(s, req[i].t)
  BY <1>7, <1>9, <1>10, DeadStaysDead
<1>12. StoreOK(s, issued + 1, G, cut)
  BY <1>4, <1>8, <1>11, GrantAdded
<1>13. ~(Holds(i)')
  <2>1. CASE req'[i].pc = Over
    BY <2>1, <1>5, OverHoldsNothing DEF AccountsInv, Written
  <2>2. CASE Op(i) \notin DOMAIN TokenKind
    BY <2>2, <1>5 DEF Holds, OneTimeOps, TokenKind, Op, Written
  <2>3. CASE Holds(i) /\ req[i].pc = Len(Handler[Op(i)])
    <3>1. req[i].pc + 1 > Len(Handler[Op(i)])
      BY <2>3 DEF AccountsInv, RequestsOK
    <3> QED BY <2>1, <3>1, <1>5
  <2> QED BY <2>1, <2>2, <2>3, <1>9
<1>14. NewGrant(g)
  <2>1. req[i].t # None => Holds(i)
    BY <1>9
  <2>2. ASSUME NEW j \in Reqs, Holds(j)' PROVE req[i].t # req[j].t
    <3>1. j # i /\ Holds(j)
      BY <2>2, <1>5, <1>13 DEF Holds, Running, ReqMoves, Op, Written
    <3>2. CASE Holds(i)
      BY <3>1, <3>2 DEF AccountsInv, HoldersOK
    <3>3. CASE req[i].t = None
      <4>1. req[j].t \in DOMAIN store.tokens
        BY <3>1 DEF AccountsInv, RequestsOK, Holds, OneTimeOps, TokenKind
      <4> QED BY <4>1, <3>3, <1>6 DEF TokensOK, None
    <3> QED BY <3>2, <3>3, <2>1
  <2>3. req[i].t # None => \A h \in grants : "session" \in DOMAIN h => h.token # req[i].t
    BY <2>1 DEF AccountsInv, HoldersOK
  <2> QED BY <1>4, <1>9, <2>2, <2>3 DEF NewGrant
<1>15. cut \subseteq 0 .. issued'
  BY <1>1, <1>6
<1> QED BY <1>1, <1>5, <1>7, <1>12, <1>13, <1>14, <1>15, CallKeeps

LEMMA NewTokenKeeps ==
  ASSUME AccountsInv, NEW i \in Reqs, NEW call, At(i, call), call \notin Verifications,
         NEW kind, kind # "session", NEW u, NEW s,
         s = [store EXCEPT !.tokens = Set(@, Fresh, Token(kind, u, None, TokenTtl))],
         issued' = Fresh, ReqMoves(i), Written(i, s, grants, cut)
  PROVE  AccountsInv'
<1> DEFINE tok == Token(kind, u, None, TokenTtl)
<1>1. issued \in Nat /\ issued' = issued + 1
  BY DEF AccountsInv, RequestsOK, Fresh
<1>2. /\ DOMAIN s = StoreFields /\ s.users = store.users /\ s.mfa = store.mfa
      /\ s.tokens = Set(store.tokens, issued + 1, tok)
  BY StoreTyped DEF StoreFields, Fresh
<1>3. DOMAIN tok = TokenFields /\ tok.live \in BOOLEAN /\ tok.root = None /\ tok.kind = kind
  BY TokenShape
<1> HIDE DEF tok
<1>4. TokensOK(store, issued, cut) /\ cut \subseteq 0 .. issued
  BY DEF AccountsInv, StoreOK, HistoryOK
<1>5. TokensOK(s, issued + 1, cut) /\ Later(store, s, issued)
  <2>1. tok.root \in 0 .. issued + 1
    BY <1>1, <1>3 DEF None
  <2> QED BY <1>1, <1>2, <1>3, <1>4, <2>1, AddToken
<1>6. StoreOK(s, issued + 1, grants, cut)
  BY <1>1, <1>2, <1>5, TokenStoreOK
<1>7. Holds(i)' => Holds(i)
  BY HoldsBefore DEF AccountsInv, Written
<1>8. cut \subseteq 0 .. issued'
  BY <1>1, <1>4
<1> QED BY <1>1, <1>5, <1>6, <1>7, <1>8, CallKeeps

LEMMA CreateOneTimeKeeps ==
  ASSUME AccountsInv, NEW i \in Reqs, NEW call, call \notin Verifications,
         NEW kind, kind # "session", CreateOneTime(i, call, kind)
  PROVE  AccountsInv'
<1> DEFINE s == [store EXCEPT !.tokens = Set(@, Fresh, Token(kind, req[i].u, None, TokenTtl))]
<1>1. At(i, call) /\ Running(i) /\ issued' = Fresh
  BY CallsKnown DEF AccountsInv, CreateOneTime
<1>2. ReqMoves(i) /\ Written(i, s, grants, cut)
  <2>1. CASE disk' = s /\ Proceed(i) /\ UNCHANGED <<grants, cut>>
    BY <1>1, <2>1, ProceedMoves DEF AccountsInv, CreateOneTime, Persist, Written
  <2>2. CASE End(i) /\ UNCHANGED <<disk, grants, cut>>
    BY <2>2, EndMoves DEF AccountsInv, CreateOneTime, Persist, Written
  <2> QED BY <2>1, <2>2 DEF CreateOneTime, Persist
<1> QED BY <1>1, <1>2, NewTokenKeeps

LEMMA MfaEnabledKeeps ==
  ASSUME AccountsInv, NEW i \in Reqs, MfaEnabled(i) PROVE AccountsInv'
<1> DEFINE s == [store EXCEPT !.tokens = Set(@, Fresh, Token("challenge", req[i].u, None, TokenTtl))]
<1>1. At(i, "mfa_enabled") /\ "mfa_enabled" \notin Verifications
  BY DEF MfaEnabled, Verifications
<1>2. CASE MfaRecord(req[i].u) /\ store.mfa[req[i].u].enabled
  <2>1. issued' = Fresh /\ ReqMoves(i) /\ Written(i, s, grants, cut)
    BY <1>2, EndMoves DEF AccountsInv, MfaEnabled, Persist, Written
  <2> QED BY <1>1, <2>1, NewTokenKeeps
<1>3. CASE ~(MfaRecord(req[i].u) /\ store.mfa[req[i].u].enabled)
  BY <1>1, <1>3, DecideKeeps DEF MfaEnabled
<1> QED BY <1>2, <1>3

LEMMA LaterTransitive ==
  ASSUME NEW o, NEW r, NEW s, NEW iss, Later(o, r, iss), Later(r, s, iss)
  PROVE  Later(o, s, iss)
BY DEF Later

\* The token a running handler was given is of the handler's kind.
LEMMA TokenInHand ==
  ASSUME AccountsInv, NEW i \in Reqs, Running(i), Op(i) \in DOMAIN TokenKind
  PROVE  /\ req[i].t \in DOMAIN store.tokens /\ store.tokens[req[i].t].kind = TokenKind[Op(i)]
         /\ req[i].t \in 0 .. issued /\ req[i].t # None
<1>1. req[i].t \in DOMAIN store.tokens /\ store.tokens[req[i].t].kind = TokenKind[Op(i)]
  BY DEF AccountsInv, RequestsOK
<1>2. req[i].t \in 1 .. issued /\ issued \in Nat
  BY <1>1 DEF AccountsInv, RequestsOK, StoreOK, TokensOK
<1> QED BY <1>1, <1>2 DEF None

\* A live token is nobody's: nothing was granted for it, no request holds it.
LEMMA LiveIsFree ==
  ASSUME AccountsInv, NEW t \in DOMAIN store.tokens, store.tokens[t].live
  PROVE  /\ \A h \in grants : "session" \in DOMAIN h => h.token # t
         /\ \A j \in Reqs : Holds(j) => req[j].t # t
<1>1. ~Dead(store, t)
  BY DEF Dead
<1>2. \A h \in grants : "session" \in DOMAIN h => Dead(store, h.token)
  BY DEF AccountsInv, StoreOK, GrantsUsedUp
<1>3. \A j \in Reqs : Holds(j) => Dead(store, req[j].t)
  BY DEF AccountsInv, HoldersOK
<1> QED BY <1>1, <1>2, <1>3

LEMMA VerifySessionKeeps ==
  ASSUME AccountsInv, NEW i \in Reqs, VerifySession(i) PROVE AccountsInv'
<1>1. /\ At(i, "verify_session") /\ "verify_session" \notin Verifications
      /\ Running(i) /\ Op(i) = "refresh"
  BY CallsKnown DEF AccountsInv, VerifySession, Verifications, CallFacts
<1>2. ReqMoves(i)
  <2>1. CASE GoTo(i, 2, store.tokens[req[i].t].user)
    BY <1>1, <2>1, GoToMoves DEF AccountsInv
  <2>2. CASE GoTo(i, 3, req[i].u)
    BY <1>1, <2>2, GoToMoves DEF AccountsInv
  <2> QED BY <2>1, <2>2 DEF VerifySession
<1>3. UNCHANGED unchangedStore
  BY DEF VerifySession, unchangedStore
<1>4. Holds(i)' => Holds(i)
  BY <1>1, <1>2, <1>3, HoldsBefore DEF AccountsInv, unchangedStore
<1> QED BY <1>2, <1>3, <1>4, ReadKeeps

LEMMA RotateSessionKeeps ==
  ASSUME AccountsInv, NEW i \in Reqs, RotateSession(i) PROVE AccountsInv'
<1> DEFINE t == req[i].t
           old == store.tokens[t]
           tok == Token("session", old.user, old.root, SessionTtl)
           r == [store EXCEPT !.tokens = Spent(@, t)]
           s == [store EXCEPT !.tokens = Set(Spent(@, t), Fresh, tok)]
           g == [session |-> Fresh, token |-> t]
           G == grants \cup {g}
<1>1. /\ At(i, "rotate_session") /\ "rotate_session" \notin Verifications
      /\ Running(i) /\ Op(i) = "refresh" /\ issued \in Nat
  BY CallsKnown DEF AccountsInv, RequestsOK, RotateSession, Verifications, CallFacts
<1>2. CASE Rotatable(t)
  <2>1. issued' = issued + 1
    BY <1>2 DEF RotateSession, Fresh
  <2>2. /\ t \in DOMAIN store.tokens /\ old.kind = "session" /\ old.live
        /\ t \in 0 .. issued /\ t # None
    <3>1. Op(i) \in DOMAIN TokenKind /\ TokenKind[Op(i)] = "session"
      BY <1>1 DEF TokenKind
    <3> QED BY <1>1, <1>2, <3>1, TokenInHand DEF Rotatable, Live
  <2>3. TokensOK(store, issued, cut) /\ cut \subseteq 0 .. issued
    BY DEF AccountsInv, StoreOK, HistoryOK
  <2>4. ReqMoves(i) /\ Written(i, s, G, cut)
    <3>1. CASE disk' = s /\ GoTo(i, req[i].pc + 1, old.user) /\ grants' = G /\ UNCHANGED cut
      <4>1. req[i].pc + 1 \in Nat /\ req[i].pc + 1 > 1
        BY <1>1 DEF AccountsInv, RequestsOK, Running
      <4>2. ReqMoves(i)
        BY <1>1, <3>1, <4>1, GoToMoves DEF AccountsInv
      <4> QED BY <1>2, <3>1, <4>2 DEF RotateSession, Persist, Written
    <3>2. CASE End(i) /\ UNCHANGED <<disk, grants, cut>>
      BY <1>2, <3>2, EndMoves DEF AccountsInv, RotateSession, Persist, Written
    <3> QED BY <1>2, <3>1, <3>2 DEF RotateSession, Persist
  <2>5. /\ DOMAIN s = StoreFields /\ s.users = store.users /\ s.mfa = store.mfa
        /\ r.tokens = Spent(store.tokens, t) /\ s.tokens = Set(r.tokens, issued + 1, tok)
    BY StoreTyped DEF StoreFields, Fresh
  <2>6. DOMAIN tok = TokenFields /\ tok.live \in BOOLEAN /\ tok.root = old.root
    BY TokenShape
  <2>7. DOMAIN g = {"session", "token"} /\ g.token = t
    OBVIOUS
  <2> HIDE DEF tok, r, s, g
  <2>8. Killed(store, r, {t})
    BY <2>2, <2>3, <2>5, SpentKills
  <2>9. TokensOK(r, issued, cut) /\ Later(store, r, issued) /\ Dead(r, t)
    BY <2>3, <2>8, KillTokens
  <2>10. TokensOK(s, issued + 1, cut) /\ Later(r, s, issued)
    <3>1. old.root \in 0 .. issued /\ old.root # None /\ old.root \notin cut
      BY <2>2, <2>3 DEF TokensOK
    <3>2. \A v \in DOMAIN r.tokens :
            r.tokens[v].kind = "session" /\ r.tokens[v].live => r.tokens[v].root # old.root
      BY <2>2, <2>3, <2>8 DEF Killed, TokensOK
    <3>3. old.root \in 0 .. issued + 1
      BY <1>1, <3>1
    <3> QED BY <1>1, <2>5, <2>6, <2>9, <3>1, <3>2, <3>3, AddToken
  <2>11. Later(store, s, issued) /\ Dead(s, t)
    BY <2>2, <2>9, <2>10, LaterTransitive, DeadStaysDead
  <2>12. StoreOK(s, issued + 1, G, cut)
    <3>1. StoreOK(s, issued + 1, grants, cut)
      BY <2>1, <2>5, <2>10, <2>11, TokenStoreOK
    <3> QED BY <2>7, <2>11, <3>1, GrantAdded
  <2>13. Holds(i)' => Holds(i)
    BY <1>1, <2>4, HoldsBefore DEF AccountsInv, Written
  <2>14. NewGrant(g)
    <3>1. \A j \in Reqs : Holds(j)' => Holds(j)
      BY <2>4, <2>13 DEF Holds, Running, ReqMoves, Op, Written
    <3> QED BY <2>2, <2>7, <3>1, LiveIsFree DEF NewGrant
  <2>15. cut \subseteq 0 .. issued'
    BY <1>1, <2>1, <2>3
  <2> QED BY <2>1, <2>4, <2>11, <2>12, <2>13, <2>14, <2>15, CallKeeps
<1>3. CASE ~Rotatable(t)
  BY <1>3, RefuseKeeps DEF RotateSession
<1> QED BY <1>2, <1>3

\* The live sessions of a set are revoked together with their families.
LEMMA RevokeKeeps ==
  ASSUME AccountsInv, NEW i \in Reqs, NEW call, At(i, call), call \notin Verifications,
         NEW ts, Revoke(i, ts),
         \A t \in ts : t \in DOMAIN store.tokens /\ store.tokens[t].kind = "session" /\ store.tokens[t].live
  PROVE  AccountsInv'
<1> DEFINE f == [t \in DOMAIN store.tokens |->
                   IF t \in ts THEN [store.tokens[t] EXCEPT !.live = FALSE] ELSE store.tokens[t]]
           s == [store EXCEPT !.tokens = f]
           C == cut \cup {store.tokens[t].root : t \in ts}
<1>1. Running(i) /\ issued' = issued
  BY CallsKnown DEF AccountsInv, Revoke
<1>2. ReqMoves(i) /\ Written(i, s, grants, C)
  <2>1. CASE disk' = s /\ Proceed(i) /\ cut' = C /\ UNCHANGED grants
    BY <1>1, <2>1, ProceedMoves DEF AccountsInv, Revoke, Persist, Written
  <2>2. CASE End(i) /\ UNCHANGED <<disk, grants, cut>>
    BY <2>2, EndMoves DEF AccountsInv, Revoke, Persist, Written
  <2> QED BY <2>1, <2>2 DEF Revoke, Persist
<1>3. DOMAIN s = StoreFields /\ s.users = store.users /\ s.mfa = store.mfa /\ s.tokens = f
  BY StoreTyped DEF StoreFields
<1>4. TokensOK(store, issued, cut) /\ cut \subseteq 0 .. issued
  BY DEF AccountsInv, StoreOK, HistoryOK
<1>5. Killed(store, s, ts)
  <2>1. ASSUME NEW t \in DOMAIN store.tokens
        PROVE  /\ DOMAIN f[t] = TokenFields /\ f[t].live \in BOOLEAN
               /\ f[t].kind = store.tokens[t].kind /\ f[t].root = store.tokens[t].root
               /\ f[t].live => store.tokens[t].live /\ t \notin ts
    <3>1. DOMAIN store.tokens[t] = TokenFields /\ store.tokens[t].live \in BOOLEAN
      BY <1>4 DEF TokensOK
    <3>2. CASE t \in ts
      <4>1. f[t] = [store.tokens[t] EXCEPT !.live = FALSE]
        BY <3>2
      <4> HIDE DEF f
      <4>2. /\ DOMAIN f[t] = TokenFields /\ f[t].live = FALSE
            /\ f[t].kind = store.tokens[t].kind /\ f[t].root = store.tokens[t].root
        BY <3>1, <4>1 DEF TokenFields
      <4> QED BY <4>2
    <3>3. CASE t \notin ts
      BY <3>1, <3>3
    <3> QED BY <3>2, <3>3
  <2>2. DOMAIN f = DOMAIN store.tokens
    OBVIOUS
  <2> HIDE DEF f, s
  <2> QED BY <1>3, <2>1, <2>2 DEF Killed
<1> HIDE DEF f, s
<1>6. TokensOK(s, issued, cut) /\ Later(store, s, issued)
  BY <1>4, <1>5, KillTokens
<1>7. C \subseteq 0 .. issued
  BY <1>4 DEF TokensOK
<1>8. TokensOK(s, issued, C)
  <2>1. ASSUME NEW t \in DOMAIN s.tokens, s.tokens[t].kind = "session", s.tokens[t].live
        PROVE  s.tokens[t].root \notin C
    <3>1. /\ t \in DOMAIN store.tokens /\ store.tokens[t].kind = "session" /\ store.tokens[t].live
          /\ s.tokens[t].root = store.tokens[t].root /\ t \notin ts
      BY <1>5, <2>1 DEF Killed
    <3>2. \A v \in ts : store.tokens[v].root # store.tokens[t].root
      BY <1>4, <3>1 DEF TokensOK
    <3>3. s.tokens[t].root \notin cut
      BY <1>6, <2>1 DEF TokensOK
    <3> QED BY <3>1, <3>2, <3>3
  <2> HIDE DEF C
  <2> QED BY <1>6, <2>1 DEF TokensOK
<1>9. StoreOK(s, issued, grants, C)
  BY <1>3, <1>6, <1>8, TokenStoreOK
<1>10. Holds(i)' => Holds(i)
  BY <1>2, HoldsBefore DEF AccountsInv, Written
<1>11. cut \subseteq C
  OBVIOUS
<1> HIDE DEF C
<1> QED BY <1>1, <1>2, <1>6, <1>7, <1>9, <1>10, <1>11, CallKeeps

LEMMA RevokeSessionKeeps ==
  ASSUME AccountsInv, NEW i \in Reqs, RevokeSession(i) PROVE AccountsInv'
<1>1. /\ At(i, "revoke_session") /\ "revoke_session" \notin Verifications
      /\ Running(i) /\ Op(i) \in DOMAIN TokenKind /\ TokenKind[Op(i)] = "session"
  BY CallsKnown DEF AccountsInv, RevokeSession, Verifications, CallFacts
<1>2. CASE KnownToken(req[i].t) /\ store.tokens[req[i].t].live
  BY <1>1, <1>2, TokenInHand, RevokeKeeps DEF RevokeSession
<1>3. CASE ~(KnownToken(req[i].t) /\ store.tokens[req[i].t].live)
  BY <1>1, <1>3, DecideKeeps DEF RevokeSession
<1> QED BY <1>2, <1>3

LEMMA RevokeAllKeeps ==
  ASSUME AccountsInv, NEW i \in Reqs, RevokeAllSessionsForUser(i) PROVE AccountsInv'
<1>1. At(i, "revoke_all") /\ "revoke_all" \notin Verifications /\ Revoke(i, SessionsOf(req[i].u))
  BY DEF RevokeAllSessionsForUser, Verifications
<1>2. \A t \in SessionsOf(req[i].u) :
        t \in DOMAIN store.tokens /\ store.tokens[t].kind = "session" /\ store.tokens[t].live
  BY DEF SessionsOf
<1> QED BY <1>1, <1>2, RevokeKeeps

LEMMA VerifyOneTimeKeeps ==
  ASSUME AccountsInv, NEW i \in Reqs, NEW call, VerifyOneTime(i, call),
         call \in {"verify_recovery_token", "verify_magiclink_token", "verify_oauth_state"}
  PROVE  AccountsInv'
<1> DEFINE t == req[i].t
           s == [store EXCEPT !.tokens = Consume(@, t)]
<1>1. At(i, call) /\ Running(i) /\ CallFacts(Op(i), req[i].pc, call)
  BY CallsKnown DEF AccountsInv, VerifyOneTime
<1>2. Op(i) # "admin_super"
  BY <1>1 DEF CallFacts
<1>3. CASE Live(t)
  <2>1. issued' = issued /\ t \in DOMAIN store.tokens /\ store.tokens[t].live
    BY <1>3 DEF VerifyOneTime, Live
  <2>2. ReqMoves(i) /\ Written(i, s, grants, cut)
    <3>1. CASE disk' = s /\ (\E u : GoTo(i, req[i].pc + 1, u)) /\ UNCHANGED <<grants, cut>>
      <4>1. req[i].pc + 1 \in Nat /\ req[i].pc + 1 > 1
        BY <1>1 DEF AccountsInv, RequestsOK, Running
      <4>2. ReqMoves(i)
        BY <1>1, <1>2, <3>1, <4>1, GoToMoves DEF AccountsInv
      <4> QED BY <1>3, <3>1, <4>2 DEF VerifyOneTime, Persist, Written
    <3>2. CASE End(i) /\ UNCHANGED <<disk, grants, cut>>
      BY <1>3, <3>2, EndMoves DEF AccountsInv, VerifyOneTime, Persist, Written
    <3> QED BY <1>3, <3>1, <3>2 DEF VerifyOneTime, Persist
  <2>3. /\ DOMAIN s = StoreFields /\ s.users = store.users /\ s.mfa = store.mfa
        /\ s.tokens = Spent(store.tokens, t)
    BY StoreTyped DEF StoreFields, Consume
  <2> HIDE DEF s
  <2>4. TokensOK(store, issued, cut) /\ cut \subseteq 0 .. issued
    BY DEF AccountsInv, StoreOK, HistoryOK
  <2>5. TokensOK(s, issued, cut) /\ Later(store, s, issued) /\ Dead(s, t)
    <3>1. Killed(store, s, {t})
      BY <2>1, <2>3, <2>4, SpentKills
    <3> QED BY <2>4, <3>1, KillTokens
  <2>6. StoreOK(s, issued, grants, cut)
    BY <2>3, <2>5, TokenStoreOK
  <2>7. Claims(i)
    BY <2>1, <2>2, <2>5 DEF Claims, Written
  <2> QED BY <2>1, <2>2, <2>4, <2>5, <2>6, <2>7, CallKeeps
<1>4. CASE ~Live(t)
  BY <1>4, RefuseKeeps DEF VerifyOneTime
<1> QED BY <1>3, <1>4

LEMMA OauthKeeps ==
  ASSUME AccountsInv, NEW i \in Reqs, OauthLinkOrCreate(i) PROVE AccountsInv'
<1> DEFINE who == Arg(i)
           u == IF who \in DOMAIN store.users THEN Suffixed(who) ELSE who
           s == [store EXCEPT !.users = Set(@, u, NewUser(FALSE, None)), !.ids = Set(@, who, u)]
<1>1. /\ At(i, "oauth_link_or_create") /\ "oauth_link_or_create" \notin Verifications
      /\ Running(i) /\ Op(i) = "callback"
  BY CallsKnown DEF AccountsInv, OauthLinkOrCreate, Verifications, CallFacts
<1>2. req[i].pc + 1 \in Nat /\ req[i].pc + 1 > 1 /\ Op(i) # "admin_super"
  BY <1>1 DEF AccountsInv, RequestsOK, Running
<1>3. CASE who \in DOMAIN store.ids
  <2>1. GoTo(i, req[i].pc + 1, store.ids[who]) /\ UNCHANGED unchangedStore
    BY <1>3 DEF OauthLinkOrCreate, unchangedStore
  <2>2. ReqMoves(i)
    BY <1>1, <1>2, <2>1, GoToMoves DEF AccountsInv
  <2>3. Holds(i)' => Holds(i)
    BY <1>1, <2>1, <2>2, HoldsBefore DEF AccountsInv, unchangedStore
  <2> QED BY <2>1, <2>2, <2>3, ReadKeeps
<1>4. CASE who \notin DOMAIN store.ids
  <2>1. issued' = issued + 1 /\ issued \in Nat
    BY <1>4 DEF OauthLinkOrCreate, Fresh, AccountsInv, RequestsOK
  <2>2. ReqMoves(i) /\ Written(i, s, grants, cut)
    <3>1. CASE disk' = s /\ GoTo(i, req[i].pc + 1, u) /\ UNCHANGED <<grants, cut>>
      <4>1. ReqMoves(i)
        <5> HIDE DEF u
        <5> QED BY <1>1, <1>2, <3>1, GoToMoves DEF AccountsInv
      <4> QED BY <1>4, <3>1, <4>1 DEF OauthLinkOrCreate, Persist, Written
    <3>2. CASE End(i) /\ UNCHANGED <<disk, grants, cut>>
      BY <1>4, <3>2, EndMoves DEF AccountsInv, OauthLinkOrCreate, Persist, Written
    <3> QED BY <1>4, <3>1, <3>2 DEF OauthLinkOrCreate, Persist
  <2>3. u \notin Superusers(store)
    <3>1. Suffixed(who) \notin GivenNames(load)
      BY <1>1, WorkAssumption DEF AccountsInv, RequestsOK, Reqs, Op, Arg
    <3> QED BY <3>1, StoreTyped DEF UsersOK, Superusers
  <2>4. /\ DOMAIN s = StoreFields /\ s.tokens = store.tokens /\ s.mfa = store.mfa
        /\ s.users = Set(store.users, u, NewUser(FALSE, None))
    BY StoreTyped DEF StoreFields
  <2> HIDE DEF s, u
  <2>5. UsersOK(s)
    BY <2>3, <2>4, StoreTyped, NewUserOK
  <2>6. StoreOK(s, issued + 1, grants, cut)
    <3>1. StoreOK(s, issued, grants, cut)
      BY <2>4, <2>5, UsersStoreOK DEF AccountsInv
    <3> QED BY <2>1, <3>1, StoreOKWeaker
  <2>7. Later(store, s, issued)
    BY <2>4, SameTokensLater
  <2>8. Holds(i)' => Holds(i)
    BY <1>1, <2>2, HoldsBefore DEF AccountsInv, Written
  <2>9. cut \subseteq 0 .. issued'
    <3>1. 0 .. issued \subseteq 0 .. issued'
      BY <2>1
    <3> QED BY <3>1 DEF AccountsInv, HistoryOK
  <2> QED BY <2>1, <2>2, <2>6, <2>7, <2>8, <2>9, CallKeeps
<1> QED BY <1>3, <1>4
-----------------------------------------------------------------------------
(* The second factor. *)

\* The record of one user changes, and what was granted for its codes stays
\* used up.
LEMMA MfaStoreOK ==
  ASSUME AccountsInv, NEW s, DOMAIN s = StoreFields, s.users = store.users,
         NEW iss \in {issued, issued + 1}, TokensOK(s, iss, cut), Later(store, s, issued),
         NEW u, NEW rec, rec \in MfaRecords(iss), s.mfa = Set(store.mfa, u, rec),
         \A g \in grants : "code" \in DOMAIN g /\ g.code[1] = u /\ g.code[2] = rec.gen =>
           /\ rec.enabled /\ (g.code[3] <= rec.last \/ g.code[3] <= 0) /\ g.code[3] \notin rec.codes
  PROVE  StoreOK(s, iss, grants, cut)
<1>1. issued \in Nat
  BY DEF AccountsInv, RequestsOK
<1>2. /\ DOMAIN s.mfa = DOMAIN store.mfa \cup {u} /\ s.mfa[u] = rec
      /\ \A v \in DOMAIN store.mfa : v # u => s.mfa[v] = store.mfa[v]
  BY DEF Set
<1>3. UsersOK(s)
  BY DEF AccountsInv, StoreOK, UsersOK, Superusers
<1>4. MfaOK(s, iss)
  <2>1. MfaRecords(issued) \subseteq MfaRecords(iss)
    BY <1>1 DEF MfaRecords
  <2> QED BY <1>2, <2>1 DEF AccountsInv, StoreOK, MfaOK
<1>5. GrantsUsedUp(s, grants)
  <2>1. ASSUME NEW g \in grants, "session" \in DOMAIN g PROVE Dead(s, g.token)
    <3>1. g.token \in 0 .. issued
      BY <2>1 DEF AccountsInv, HistoryOK
    <3>2. Dead(store, g.token)
      BY <2>1 DEF AccountsInv, StoreOK, GrantsUsedUp
    <3> QED BY <3>1, <3>2, DeadStaysDead
  <2>2. ASSUME NEW g \in grants, "code" \in DOMAIN g PROVE UsedUp(s, g.code)
    <3>1. CASE g.code[1] = u
      BY <2>2, <3>1, <1>2 DEF UsedUp
    <3>2. CASE g.code[1] # u
      <4>1. UsedUp(store, g.code)
        BY <2>2 DEF AccountsInv, StoreOK, GrantsUsedUp
      <4> QED BY <3>2, <4>1, <1>2 DEF UsedUp
    <3> QED BY <3>1, <3>2
  <2> QED BY <2>1, <2>2 DEF GrantsUsedUp
<1> QED BY <1>3, <1>4, <1>5 DEF StoreOK

LEMMA MfaEnrollKeeps ==
  ASSUME AccountsInv, NEW i \in Reqs, MfaEnroll(i) PROVE AccountsInv'
<1> DEFINE u == req[i].u
           rec == [enabled |-> FALSE, last |-> 0, codes |-> {}, gen |-> Fresh]
           s == [store EXCEPT !.mfa = Set(@, u, rec)]
<1>1. At(i, "mfa_enroll") /\ "mfa_enroll" \notin Verifications /\ Running(i) /\ issued \in Nat
  BY CallsKnown DEF AccountsInv, RequestsOK, MfaEnroll, Verifications
<1>2. CASE u \in DOMAIN store.users /\ ~(MfaRecord(u) /\ store.mfa[u].enabled)
  <2>1. issued' = issued + 1
    BY <1>2 DEF MfaEnroll, Fresh
  <2>2. ReqMoves(i) /\ Written(i, s, grants, cut)
    <3>1. CASE disk' = s /\ Proceed(i) /\ UNCHANGED <<grants, cut>>
      BY <1>1, <1>2, <3>1, ProceedMoves DEF AccountsInv, MfaEnroll, Persist, Written
    <3>2. CASE End(i) /\ UNCHANGED <<disk, grants, cut>>
      BY <1>2, <3>2, EndMoves DEF AccountsInv, MfaEnroll, Persist, Written
    <3> QED BY <1>2, <3>1, <3>2 DEF MfaEnroll, Persist
  <2>3. /\ DOMAIN s = StoreFields /\ s.users = store.users /\ s.tokens = store.tokens
        /\ s.mfa = Set(store.mfa, u, rec)
    BY StoreTyped DEF StoreFields
  <2>4. rec \in MfaRecords(issued + 1) /\ rec.gen = issued + 1
    BY <1>1 DEF MfaRecords, Fresh
  <2> HIDE DEF s, rec
  <2>5. TokensOK(s, issued + 1, cut) /\ Later(store, s, issued)
    <3>1. StoreOK(store, issued + 1, grants, cut)
      BY <1>1, StoreOKWeaker DEF AccountsInv
    <3> QED BY <2>3, <3>1, SameTokensLater DEF StoreOK, TokensOK
  <2>6. ASSUME NEW g \in grants, "code" \in DOMAIN g PROVE g.code[2] # rec.gen
    <3>1. g.code[2] \in 0 .. issued
      BY <2>6 DEF AccountsInv, HistoryOK
    <3> QED BY <1>1, <2>4, <3>1
  <2>7. StoreOK(s, issued + 1, grants, cut)
    BY <2>3, <2>4, <2>5, <2>6, MfaStoreOK
  <2>8. Holds(i)' => Holds(i)
    BY <1>1, <2>2, HoldsBefore DEF AccountsInv, Written
  <2>9. cut \subseteq 0 .. issued'
    <3>1. 0 .. issued \subseteq 0 .. issued'
      BY <1>1, <2>1
    <3> QED BY <3>1 DEF AccountsInv, HistoryOK
  <2> QED BY <2>1, <2>2, <2>5, <2>7, <2>8, <2>9, CallKeeps
<1>3. CASE ~(u \in DOMAIN store.users /\ ~(MfaRecord(u) /\ store.mfa[u].enabled))
  BY <1>3, RefuseKeeps DEF MfaEnroll
<1> QED BY <1>2, <1>3

LEMMA MfaConfirmKeeps ==
  ASSUME AccountsInv, NEW i \in Reqs, MfaConfirm(i) PROVE AccountsInv'
<1> DEFINE u == req[i].u
           old == store.mfa[u]
           rec == [old EXCEPT !.enabled = TRUE, !.last = req[i].code, !.codes = {-1}]
           s == [store EXCEPT !.mfa[u] = rec]
<1>1. CASE MfaRecord(u) /\ ~old.enabled /\ CodeAccepted(req[i].code, old.last)
  <2>1. At(i, "mfa_confirm") /\ "mfa_confirm" \notin Verifications /\ Change(i, s)
    BY <1>1 DEF MfaConfirm, Verifications
  <2>2. old \in MfaRecords(issued) /\ u \in DOMAIN store.mfa
    BY <1>1 DEF AccountsInv, StoreOK, MfaOK, MfaRecord
  <2>3. req[i].code \in Nat
    BY <1>1 DEF CodeAccepted, AccountsInv, RequestsOK
  <2>4. rec \in MfaRecords(issued) /\ rec.gen = old.gen
    BY <2>2, <2>3 DEF MfaRecords
  <2>5. /\ DOMAIN s = StoreFields /\ s.users = store.users /\ s.tokens = store.tokens
        /\ s.mfa = [store.mfa EXCEPT ![u] = rec]
    BY StoreTyped DEF StoreFields
  <2> HIDE DEF s, rec
  <2>6. s.mfa = Set(store.mfa, u, rec)
    BY <2>2, <2>5 DEF Set
  <2>7. TokensOK(s, issued, cut) /\ Later(store, s, issued)
    BY <2>5, SameTokensLater DEF AccountsInv, StoreOK, TokensOK
  <2>8. ASSUME NEW g \in grants, "code" \in DOMAIN g, g.code[1] = u, g.code[2] = rec.gen PROVE FALSE
    <3>1. UsedUp(store, g.code)
      BY <2>8 DEF AccountsInv, StoreOK, GrantsUsedUp
    <3> QED BY <1>1, <2>2, <2>4, <2>8, <3>1 DEF UsedUp
  <2>9. StoreOK(s, issued, grants, cut)
    BY <2>4, <2>5, <2>6, <2>7, <2>8, MfaStoreOK
  <2> QED BY <2>1, <2>7, <2>9, ChangeKeeps
<1>2. CASE ~(MfaRecord(u) /\ ~old.enabled /\ CodeAccepted(req[i].code, old.last))
  BY <1>2, RefuseKeeps DEF MfaConfirm
<1> QED BY <1>1, <1>2

LEMMA MfaDisableKeeps ==
  ASSUME AccountsInv, NEW i \in Reqs, MfaDisable(i) PROVE AccountsInv'
<1> DEFINE u == req[i].u
           s == [store EXCEPT !.mfa = Drop(@, u)]
<1>1. CASE Change(i, s)
  <2>1. At(i, "mfa_disable") /\ "mfa_disable" \notin Verifications
    BY DEF MfaDisable, Verifications
  <2>2. /\ DOMAIN s = StoreFields /\ s.users = store.users /\ s.tokens = store.tokens
        /\ s.mfa = Drop(store.mfa, u)
    BY StoreTyped DEF StoreFields
  <2> HIDE DEF s
  <2>3. DOMAIN s.mfa \subseteq DOMAIN store.mfa /\ \A v \in DOMAIN s.mfa : s.mfa[v] = store.mfa[v]
    BY <2>2 DEF Drop
  <2>4. UsersOK(s)
    BY <2>2, StoreTyped DEF UsersOK, Superusers
  <2> QED BY <1>1, <2>1, <2>2, <2>3, <2>4, UserChangeKeeps
<1>2. CASE Refuse(i)
  BY <1>2, RefuseKeeps
<1> QED BY <1>1, <1>2 DEF MfaDisable

\* The record a right code leaves behind takes neither that code again nor any
\* it had refused before.
LEMMA AfterCodeUsesUp ==
  ASSUME NEW iss, NEW old \in MfaRecords(iss), NEW code \in Int, old.enabled,
         CodeAccepted(code, old.last) \/ code \in old.codes
  PROVE  LET rec == AfterCode(old, code) IN
         /\ rec \in MfaRecords(iss) /\ rec.gen = old.gen /\ rec.enabled
         /\ (code <= rec.last \/ code <= 0) /\ code \notin rec.codes
         /\ old.last <= rec.last /\ rec.codes \subseteq old.codes
<1> DEFINE rec == AfterCode(old, code)
<1>1. old.last \in Nat /\ old.codes \subseteq {-1} /\ DOMAIN old = {"enabled", "last", "codes", "gen"}
  BY DEF MfaRecords
<1>2. CASE CodeAccepted(code, old.last)
  <2>1. code > old.last /\ code > 0
    BY <1>2 DEF CodeAccepted
  <2>2. rec = [old EXCEPT !.last = code]
    BY <1>2 DEF AfterCode
  <2> HIDE DEF rec
  <2>3. code \in Nat /\ code \notin old.codes
    BY <1>1, <2>1
  <2>4. rec.last = code /\ rec.codes = old.codes /\ rec.gen = old.gen /\ rec.enabled = old.enabled
    BY <1>1, <2>2
  <2>5. rec \in MfaRecords(iss)
    BY <2>2, <2>3 DEF MfaRecords
  <2>6. code <= rec.last /\ old.last <= rec.last
    BY <1>1, <2>1, <2>4
  <2> QED BY <2>3, <2>4, <2>5, <2>6 DEF rec
<1>3. CASE ~CodeAccepted(code, old.last)
  <2>1. code \in old.codes /\ code <= 0
    BY <1>1, <1>3
  <2>2. rec = [old EXCEPT !.codes = old.codes \ {code}]
    BY <1>3 DEF AfterCode
  <2> HIDE DEF rec
  <2>3. rec.last = old.last /\ rec.codes = old.codes \ {code} /\ rec.gen = old.gen /\ rec.enabled = old.enabled
    BY <1>1, <2>2
  <2>4. rec \in MfaRecords(iss)
    BY <2>2 DEF MfaRecords
  <2>5. old.last <= rec.last
    BY <1>1, <2>3
  <2> QED BY <2>1, <2>3, <2>4, <2>5 DEF rec
<1> QED BY <1>2, <1>3

LEMMA VerifyMfaChallengeKeeps ==
  ASSUME AccountsInv, NEW i \in Reqs, VerifyMfaChallenge(i) PROVE AccountsInv'
<1> DEFINE t == req[i].t
           u == store.tokens[t].user
           old == store.mfa[u]
           code == req[i].code
           rec == AfterCode(old, code)
           s == [store EXCEPT !.tokens = Consume(@, t), !.mfa[u] = AfterCode(@, code)]
           g == [code |-> <<u, old.gen, code>>, token |-> t]
           G == grants \cup {g}
           may == /\ Live(t) /\ MfaRecord(u) /\ old.enabled
                  /\ CodeAccepted(code, old.last) \/ code \in old.codes
<1>1. /\ At(i, "verify_mfa_challenge") /\ Running(i) /\ Op(i) # "admin_super"
      /\ issued \in Nat /\ code \in Int
  BY CallsKnown DEF AccountsInv, RequestsOK, VerifyMfaChallenge, CallFacts
<1>2. CASE may
  <2>1. issued' = issued /\ t \in DOMAIN store.tokens /\ store.tokens[t].live /\ u \in DOMAIN store.mfa
    BY <1>2 DEF VerifyMfaChallenge, Live, MfaRecord
  <2>2. ReqMoves(i) /\ Written(i, s, G, cut)
    <3>1. CASE disk' = s /\ GoTo(i, req[i].pc + 1, u) /\ grants' = G /\ UNCHANGED cut
      <4>1. req[i].pc + 1 \in Nat /\ req[i].pc + 1 > 1
        BY <1>1 DEF AccountsInv, RequestsOK, Running
      <4>2. ReqMoves(i)
        BY <1>1, <3>1, <4>1, GoToMoves DEF AccountsInv
      <4> QED BY <1>2, <3>1, <4>2 DEF VerifyMfaChallenge, Persist, Written
    <3>2. CASE End(i) /\ UNCHANGED <<disk, grants, cut>>
      BY <1>2, <3>2, EndMoves DEF AccountsInv, VerifyMfaChallenge, Persist, Written
    <3> QED BY <1>2, <3>1, <3>2 DEF VerifyMfaChallenge, Persist
  <2>3. /\ DOMAIN s = StoreFields /\ s.users = store.users
        /\ s.tokens = Spent(store.tokens, t) /\ s.mfa = [store.mfa EXCEPT ![u] = rec]
    BY StoreTyped DEF StoreFields, Consume
  <2>4. DOMAIN g = {"code", "token"} /\ g.code = <<u, old.gen, code>>
    OBVIOUS
  <2>5. old \in MfaRecords(issued)
    BY <2>1 DEF AccountsInv, StoreOK, MfaOK
  <2>6. /\ rec \in MfaRecords(issued) /\ rec.gen = old.gen /\ rec.enabled
        /\ (code <= rec.last \/ code <= 0) /\ code \notin rec.codes
        /\ old.last <= rec.last /\ rec.codes \subseteq old.codes
    <3>1. old.enabled /\ (CodeAccepted(code, old.last) \/ code \in old.codes)
      BY <1>2
    <3>2. code \in Int
      BY <1>1
    <3> HIDE DEF old, code, may
    <3> QED BY <3>1, <3>2, <2>5, AfterCodeUsesUp DEF rec
  <2>7. old.last \in Nat /\ rec.last \in Nat /\ old.gen \in 0 .. issued
    BY <2>5, <2>6 DEF MfaRecords
  <2> HIDE DEF s, g, rec
  <2>8. s.mfa = Set(store.mfa, u, rec)
    BY <2>1, <2>3 DEF Set
  <2>9. TokensOK(store, issued, cut) /\ cut \subseteq 0 .. issued
    BY DEF AccountsInv, StoreOK, HistoryOK
  <2>10. TokensOK(s, issued, cut) /\ Later(store, s, issued) /\ Dead(s, t)
    <3>1. Killed(store, s, {t})
      BY <2>1, <2>3, <2>9, SpentKills
    <3> QED BY <2>9, <3>1, KillTokens
  <2>11. ASSUME NEW h \in grants, "code" \in DOMAIN h, h.code[1] = u, h.code[2] = old.gen
         PROVE  /\ h.code[3] \in Int /\ (h.code[3] <= old.last \/ h.code[3] <= 0)
                /\ h.code[3] \notin old.codes
    <3>1. UsedUp(store, h.code) /\ h.code[3] \in Int
      BY <2>11 DEF AccountsInv, StoreOK, GrantsUsedUp, HistoryOK
    <3> QED BY <2>1, <2>11, <3>1 DEF UsedUp
  <2>12. StoreOK(s, issued, grants, cut)
    <3>1. ASSUME NEW h \in grants, "code" \in DOMAIN h, h.code[1] = u, h.code[2] = rec.gen
          PROVE  rec.enabled /\ (h.code[3] <= rec.last \/ h.code[3] <= 0) /\ h.code[3] \notin rec.codes
      <4>1. /\ h.code[3] \in Int /\ (h.code[3] <= old.last \/ h.code[3] <= 0)
            /\ h.code[3] \notin old.codes
        BY <2>6, <2>11, <3>1
      <4>2. h.code[3] <= rec.last \/ h.code[3] <= 0
        <5> DEFINE c == h.code[3]
                   a == old.last
                   b == rec.last
        <5>1. c \in Int /\ a \in Nat /\ b \in Nat /\ a <= b /\ (c <= a \/ c <= 0)
          BY <2>6, <2>7, <4>1
        <5> HIDE DEF c, a, b
        <5>2. c <= b \/ c <= 0
          BY <5>1
        <5> QED BY <5>2 DEF c, b
      <4> QED BY <2>6, <4>1, <4>2
    <3> QED BY <2>3, <2>6, <2>8, <2>10, <3>1, MfaStoreOK
  <2>13. StoreOK(s, issued, G, cut)
    <3>1. UsedUp(s, g.code)
      <4>1. g.code[1] = u /\ g.code[2] = old.gen /\ g.code[3] = code
        BY <2>4
      <4>2. s.mfa[u] = rec
        BY <2>1, <2>3
      <4> QED BY <2>6, <4>1, <4>2 DEF UsedUp
    <3> QED BY <2>4, <2>12, <3>1, GrantAdded
  <2>14. NewGrant(g)
    <3>1. ASSUME NEW h \in grants, "code" \in DOMAIN h, h.code = <<u, old.gen, code>> PROVE FALSE
      <4>1. h.code[1] = u /\ h.code[2] = old.gen /\ h.code[3] = code
        BY <3>1
      <4>2. (code <= old.last \/ code <= 0) /\ code \notin old.codes
        BY <2>11, <3>1, <4>1
      <4>3. code > old.last /\ code > 0
        BY <1>2, <4>2 DEF CodeAccepted
      <4>4. code \in Int /\ old.last \in Nat
        BY <1>1, <2>7
      <4> HIDE DEF code, old
      <4> QED BY <4>2, <4>3, <4>4
    <3>2. g.code[2] \in 0 .. issued /\ g.code[3] \in Int
      <4>1. g.code[2] = old.gen /\ g.code[3] = code
        BY <2>4
      <4>2. code \in Int /\ old.gen \in 0 .. issued
        BY <1>1, <2>7
      <4> HIDE DEF code, old
      <4> QED BY <4>1, <4>2
    <3> QED BY <2>4, <3>1, <3>2 DEF NewGrant
  <2>15. Claims(i)
    BY <2>1, <2>2, <2>10 DEF Claims, Written
  <2> QED BY <2>1, <2>2, <2>9, <2>10, <2>13, <2>14, <2>15, CallKeeps
<1>3. CASE ~may
  BY <1>3, RefuseKeeps DEF VerifyMfaChallenge
<1> QED BY <1>2, <1>3
-----------------------------------------------------------------------------
(* Arrivals, the clock and restarts. *)
LEMMA StartKeeps ==
  ASSUME AccountsInv, NEW i \in Reqs, Start(i) PROVE AccountsInv'
<1>1. PICK t \in IF Op(i) \in DOMAIN TokenKind
                 THEN {x \in DOMAIN store.tokens : store.tokens[x].kind = TokenKind[Op(i)]}
                 ELSE {None} :
      \E code \in IF Op(i) \in {"challenge", "confirm", "disable"}
                  THEN {now - 1, now, now + 1, -1} ELSE {None} :
        req' = [req EXCEPT ![i].pc = 1, ![i].t = t, ![i].code = code]
  BY DEF Start
<1>2. PICK code \in IF Op(i) \in {"challenge", "confirm", "disable"}
                  THEN {now - 1, now, now + 1, -1} ELSE {None} :
        req' = [req EXCEPT ![i].pc = 1, ![i].t = t, ![i].code = code]
  BY <1>1
<1>3. UNCHANGED unchangedStore /\ req[i].pc = 0
  BY DEF Start, unchangedStore
<1> USE DEF unchangedStore
<1>4. /\ DOMAIN req' = Reqs /\ \A j \in Reqs : j # i => req'[j] = req[j]
      /\ DOMAIN req'[i] = ReqFields /\ req'[i].pc = 1 /\ req'[i].t = t
      /\ req'[i].code = code /\ req'[i].u = req[i].u
  BY <1>2 DEF AccountsInv, RequestsOK, ReqFields
<1>5. Reqs' = Reqs /\ (\A j \in Reqs : Op(j)' = Op(j) /\ Work(load')[j] = Work(load)[j])
  BY <1>3 DEF Reqs, Op
<1>6. code \in Int
  BY <1>2 DEF AccountsInv, RequestsOK, None
<1>7. /\ Op(i) \notin DOMAIN TokenKind => t = None
      /\ Op(i) \in DOMAIN TokenKind =>
           t \in DOMAIN store.tokens /\ store.tokens[t].kind = TokenKind[Op(i)]
  BY <1>1
<1>8. t \in 0 .. issued
  <2>1. issued \in Nat /\ \A x \in DOMAIN store.tokens : x \in 1 .. issued
    BY DEF AccountsInv, RequestsOK, StoreOK, TokensOK
  <2> QED BY <1>7, <2>1 DEF None
<1>9. RequestsOK'
  <2>1. ASSUME NEW j \in Reqs
        PROVE  /\ DOMAIN req'[j] = ReqFields
               /\ req'[j].pc \in Nat /\ req'[j].t \in 0 .. issued /\ req'[j].code \in Int
               /\ Op(j) \notin DOMAIN TokenKind => req'[j].t = None
               /\ Op(j) = "admin_super" => req'[j].u = Work(load)[j].u
    BY <1>4, <1>6, <1>7, <1>8 DEF AccountsInv, RequestsOK
  <2>2. ASSUME NEW j \in Reqs, Running(j)', Op(j) \in DOMAIN TokenKind
        PROVE  req'[j].t \in DOMAIN store.tokens /\ store.tokens[req'[j].t].kind = TokenKind[Op(j)]
    <3>1. CASE j = i
      BY <2>2, <3>1, <1>4, <1>7
    <3>2. CASE j # i
      BY <2>2, <3>2, <1>4, <1>5 DEF AccountsInv, RequestsOK, Running
    <3> QED BY <3>1, <3>2
  <2> QED BY <1>3, <1>4, <1>5, <2>1, <2>2 DEF RequestsOK, AccountsInv
<1>10. StoreOK(store, issued, grants, cut)' /\ StoreOK(disk, issued, grants, cut)' /\ HistoryOK'
  BY <1>3 DEF AccountsInv, StoreOK, UsersOK, TokensOK, MfaOK, GrantsUsedUp, UsedUp, Dead, MfaRecords,
              Superusers, GivenNames, HistoryOK, GrantedOnce
<1>11. HoldersOK'
  <2>1. \A j \in Reqs : Holds(j)' => j # i /\ Holds(j)
    BY <1>4, <1>5 DEF Holds, Running
  <2>2. ASSUME NEW j \in Reqs, Holds(j)'
        PROVE  /\ Dead(store, req'[j].t) /\ Dead(disk, req'[j].t)
               /\ \A g \in grants : "session" \in DOMAIN g => g.token # req'[j].t
               /\ \A k \in Reqs : k # j /\ Holds(k)' => req'[k].t # req'[j].t
    BY <1>4, <2>1, <2>2 DEF AccountsInv, HoldersOK
  <2> QED BY <1>3, <1>5, <2>2 DEF HoldersOK, Dead
<1> QED BY <1>9, <1>10, <1>11 DEF AccountsInv

LEMMA TickKeeps ==
  ASSUME AccountsInv, Tick PROVE AccountsInv'
<1>1. now' \in Nat /\ UNCHANGED <<load, store, disk, issued, req, grants, cut>>
  BY DEF Tick, AccountsInv, RequestsOK
<1>2. RequestsOK'
  BY <1>1 DEF AccountsInv, RequestsOK, Reqs, Op, Running
<1>3. StoreOK(store, issued, grants, cut)' /\ StoreOK(disk, issued, grants, cut)' /\ HistoryOK'
  BY <1>1 DEF AccountsInv, StoreOK, UsersOK, TokensOK, MfaOK, GrantsUsedUp, UsedUp, Dead, MfaRecords,
              Superusers, GivenNames, HistoryOK, GrantedOnce
<1>4. HoldersOK'
  BY <1>1 DEF AccountsInv, HoldersOK, Holds, Reqs, Op, Running, Dead
<1> QED BY <1>2, <1>3, <1>4 DEF AccountsInv

\* A restart ends every request, and takes the store from the file.
LEMMA RestartKeeps ==
  ASSUME AccountsInv, Restart PROVE AccountsInv'
<1>1. store' = disk /\ UNCHANGED <<load, disk, now, issued, grants, cut>>
  BY DEF Restart
<1>2. Reqs' = Reqs /\ (\A j \in Reqs : Op(j)' = Op(j) /\ Work(load')[j] = Work(load)[j])
  BY <1>1 DEF Reqs, Op
<1>3. req' = [j \in Reqs |-> IF req[j].pc = 0 THEN req[j] ELSE [req[j] EXCEPT !.pc = Over]]
  BY DEF Restart, AccountsInv, RequestsOK
<1>4. ASSUME NEW j \in Reqs
      PROVE  /\ DOMAIN req'[j] = ReqFields /\ req'[j].t = req[j].t
             /\ req'[j].u = req[j].u /\ req'[j].code = req[j].code /\ (req'[j].pc = 0 \/ req'[j].pc = Over)
  <2>1. DOMAIN req[j] = ReqFields
    BY DEF AccountsInv, RequestsOK
  <2>2. CASE req[j].pc = 0
    BY <1>3, <2>1, <2>2
  <2>3. CASE req[j].pc # 0
    <3>1. req'[j] = [req[j] EXCEPT !.pc = Over]
      BY <1>3, <2>3
    <3> QED BY <2>1, <3>1 DEF ReqFields
  <2> QED BY <2>2, <2>3
<1>5. ASSUME NEW j \in Reqs PROVE ~(Running(j)') /\ ~(Holds(j)')
  <2>1. CASE req'[j].pc = Over
    BY <2>1, <1>1, OverHoldsNothing DEF AccountsInv
  <2>2. CASE req'[j].pc = 0
    BY <2>2 DEF Running, Holds
  <2> QED BY <1>4, <2>1, <2>2
<1>6. RequestsOK'
  <2>1. ASSUME NEW j \in Reqs
        PROVE  /\ DOMAIN req'[j] = ReqFields
               /\ req'[j].pc \in Nat /\ req'[j].t \in 0 .. issued /\ req'[j].code \in Int
               /\ Op(j) \notin DOMAIN TokenKind => req'[j].t = None
               /\ Op(j) = "admin_super" => req'[j].u = Work(load)[j].u
    BY <1>4 DEF AccountsInv, RequestsOK, Over
  <2>2. DOMAIN req' = Reqs
    BY <1>3
  <2> QED BY <1>1, <1>2, <1>5, <2>1, <2>2 DEF RequestsOK, AccountsInv
<1>7. StoreOK(store, issued, grants, cut)' /\ StoreOK(disk, issued, grants, cut)' /\ HistoryOK'
  BY <1>1 DEF AccountsInv, StoreOK, UsersOK, TokensOK, MfaOK, GrantsUsedUp, UsedUp, Dead, MfaRecords,
              Superusers, GivenNames, HistoryOK, GrantedOnce
<1>8. HoldersOK'
  BY <1>2, <1>5 DEF HoldersOK
<1> QED BY <1>6, <1>7, <1>8 DEF AccountsInv

\* A write of the store outside the requests, such as an authorization
\* statement, that leaves the tokens alone and enrols nobody.
LEMMA StatementKeeps ==
  ASSUME AccountsInv, NEW s, DOMAIN s = StoreFields, s.tokens = store.tokens,
         DOMAIN s.mfa \subseteq DOMAIN store.mfa, \A u \in DOMAIN s.mfa : s.mfa[u] = store.mfa[u],
         UsersOK(s), store' = s, disk' = s \/ disk' = disk,
         UNCHANGED <<load, now, issued, req, grants, cut>>
  PROVE  AccountsInv'
<1>1. RequestsOK'
  BY DEF AccountsInv, RequestsOK, Reqs, Op, Running
<1>2. StoreOK(s, issued, grants, cut) /\ StoreOK(disk, issued, grants, cut)
  BY UsersStoreOK DEF AccountsInv
<1>3. StoreOK(store, issued, grants, cut)' /\ StoreOK(disk, issued, grants, cut)'
  BY <1>2 DEF StoreOK, UsersOK, TokensOK, MfaOK, GrantsUsedUp, UsedUp, Dead, MfaRecords,
              Superusers, GivenNames
<1>4. HistoryOK'
  BY DEF AccountsInv, HistoryOK, GrantedOnce
<1>5. HoldersOK'
  BY DEF AccountsInv, HoldersOK, Holds, Reqs, Op, Running, Dead
<1> QED BY <1>1, <1>3, <1>4, <1>5 DEF AccountsInv
-----------------------------------------------------------------------------
LEMMA InitEstablishes == Init => AccountsInv
<1> SUFFICES ASSUME Init PROVE AccountsInv
  OBVIOUS
<1>1. /\ load \in Loads /\ store = disk /\ now = 1 /\ issued = 0 /\ grants = {} /\ cut = {}
      /\ store.users = FirstUsers(load) /\ store.tokens = <<>> /\ store.mfa = FirstMfa(load)
      /\ DOMAIN store = StoreFields
  BY DEF Init, StoreFields
<1>2. /\ DOMAIN req = Reqs
      /\ \A i \in Reqs : req[i] = [pc |-> 0, u |-> Work(load)[i].u, t |-> None, code |-> None]
  BY DEF Init, Reqs
<1>3. \A i \in Reqs : /\ DOMAIN req[i] = ReqFields /\ req[i].pc = 0 /\ req[i].u = Work(load)[i].u
                      /\ req[i].t = 0 /\ req[i].code = 0
  BY <1>2 DEF ReqFields, None
<1>4. \A i \in Reqs : ~Running(i) /\ ~Holds(i)
  BY <1>3 DEF Running, Holds
<1>5. RequestsOK
  BY <1>1, <1>2, <1>3, <1>4 DEF RequestsOK, None
<1>6. UsersOK(store)
  BY <1>1, UsersAssumption DEF UsersOK, UserFields, Superusers, GivenNames
<1>7. TokensOK(store, issued, cut)
  BY <1>1 DEF TokensOK
<1>8. MfaOK(store, issued)
  BY <1>1, UsersAssumption DEF MfaOK, MfaRecords
<1>9. StoreOK(store, issued, grants, cut)
  BY <1>1, <1>6, <1>7, <1>8 DEF StoreOK, GrantsUsedUp
<1>10. HistoryOK
  BY <1>1 DEF HistoryOK, GrantedOnce
<1> QED BY <1>1, <1>4, <1>5, <1>9, <1>10 DEF AccountsInv, HoldersOK

LEMMA CallStepKeeps ==
  ASSUME AccountsInv, NEW i \in Reqs, Call(i) PROVE AccountsInv'
<1>1. CASE CaptchaEnforce(i)
  BY <1>1, DecideKeeps DEF CaptchaEnforce, Verifications
<1>2. CASE IsCompromised(i)
  BY <1>2, DecideKeeps DEF IsCompromised, Verifications
<1>3. CASE VerifyPassword(i)
  BY <1>3, DecideKeeps DEF VerifyPassword, Verifications
<1>4. CASE IsBanned(i)
  BY <1>4, DecideKeeps DEF IsBanned, Verifications
<1>5. CASE UserExists(i)
  BY <1>5, DecideKeeps DEF UserExists, Verifications
<1>6. CASE SessionOwner(i)
  BY <1>6, DecideKeeps DEF SessionOwner, Verifications
<1>7. CASE Exchange(i)
  BY <1>7, DecideKeeps DEF Exchange, Verifications
<1>8. CASE CreateRecoveryToken(i)
  BY <1>8, CreateOneTimeKeeps DEF CreateRecoveryToken, Verifications
<1>9. CASE CreateMagiclinkToken(i)
  BY <1>9, CreateOneTimeKeeps DEF CreateMagiclinkToken, Verifications
<1>10. CASE CreateOauthState(i)
  BY <1>10, CreateOneTimeKeeps DEF CreateOauthState, Verifications
<1>11. CASE VerifyRecoveryToken(i)
  BY <1>11, VerifyOneTimeKeeps DEF VerifyRecoveryToken
<1>12. CASE VerifyMagiclinkToken(i)
  BY <1>12, VerifyOneTimeKeeps DEF VerifyMagiclinkToken
<1>13. CASE VerifyOauthState(i)
  BY <1>13, VerifyOneTimeKeeps DEF VerifyOauthState
<1> QED
  BY <1>1, <1>2, <1>3, <1>4, <1>5, <1>6, <1>7, <1>8, <1>9, <1>10, <1>11, <1>12, <1>13,
     SetPasswordKeeps, SetBannedKeeps, CreateUserKeeps, SetSuperuserKeeps, DropUserKeeps,
     CreateSessionKeeps, VerifySessionKeeps, RotateSessionKeeps, RevokeSessionKeeps, RevokeAllKeeps,
     OauthKeeps, MfaEnabledKeeps, MfaEnrollKeeps, MfaConfirmKeeps, MfaDisableKeeps,
     VerifyMfaChallengeKeeps
  DEF Call

LEMMA StepKeeps == AccountsInv /\ Next => AccountsInv'
<1> SUFFICES ASSUME AccountsInv, Next PROVE AccountsInv'
  OBVIOUS
<1>1. DOMAIN req = Reqs
  BY DEF AccountsInv, RequestsOK
<1> QED BY <1>1, StartKeeps, CallStepKeeps, TickKeeps, RestartKeeps DEF Next

LEMMA StutterKeeps == AccountsInv /\ UNCHANGED accountVars => AccountsInv'
<1> SUFFICES ASSUME AccountsInv, UNCHANGED accountVars PROVE AccountsInv'
  OBVIOUS
<1> QED BY StatementKeeps DEF AccountsInv, StoreOK, accountVars

\* Every reachable state of the identity store satisfies the invariant: the
\* stores in memory and on disk, the history and the requests fit together
\* (RoleStore and the authentication handlers).
THEOREM AccountsInvariance == Spec => []AccountsInv
BY InitEstablishes, StepKeeps, StutterKeeps, PTL DEF Spec

LEMMA InvariantImplies == AccountsInv => SuperuserRemains /\ SessionsSound
<1> SUFFICES ASSUME AccountsInv PROVE SuperuserRemains /\ SessionsSound
  OBVIOUS
<1>1. SuperuserRemains
  BY DEF AccountsInv, StoreOK, UsersOK, SuperuserRemains
<1>2. GrantedOnce
  BY DEF AccountsInv, HistoryOK
<1>3. RevokedStaysRevoked
  BY DEF AccountsInv, StoreOK, TokensOK, RevokedStaysRevoked
<1> QED BY <1>1, <1>2, <1>3 DEF SessionsSound

\* However demotions, drops, sign-ups, failed writes and restarts interleave,
\* a superuser is left in memory and in roles.json (set_superuser, DROP USER,
\* oauth_link_or_create).
THEOREM AdministratorRemains == Spec => []SuperuserRemains
BY AccountsInvariance, InvariantImplies, PTL

\* A refresh token, magic link, OAuth state or challenge gives one session and
\* a one-time code passes one challenge, and no session outlives the
\* revocation of its family, for any number of requests (rotate_session,
\* verify_mfa_challenge, revoke_all_sessions_for_user).
THEOREM SessionsAreSound == Spec => []SessionsSound
BY AccountsInvariance, InvariantImplies, PTL

-----------------------------------------------------------------------------
(* Authz: grants, memberships and policies.                                *)


\* RoleStore::apply: what belongs to a name goes with it.
NamesOK(s) ==
  LET known == DOMAIN s.users \cup s.roles IN
  /\ DOMAIN s.grants \subseteq known /\ DOMAIN s.members \subseteq known
  /\ \A g \in DOMAIN s.members : s.members[g] \subseteq s.roles
  /\ s.roles \subseteq Names

\* The scope of a grant in a store, and whether a fact gives a column.
ScopeIn(s, g, p) == IF g \in DOMAIN s.grants THEN s.grants[g][p] ELSE {}
Fact(s, g, p, c) == \E f \in s.facts : f[1] = g /\ f[2] = p /\ f[3] = c

\* GRANT, REVOKE and materialize_all_to_columns: a grant covers the columns of
\* its facts and no others.
GrantsOK(s) ==
  /\ \A g \in DOMAIN s.grants :
       /\ DOMAIN s.grants[g] = Privs
       /\ \A p \in Privs : s.grants[g][p] = All \/ s.grants[g][p] \subseteq AllCols
  /\ \A g, c : \A p \in Privs :
       Fact(s, g, p, c) <=> c \in AllCols /\ Covers(ScopeIn(s, g, p), c)

\* create_policy_inner, drop_policy_inner: the filters follow the policies.
FiltersOK ==
  /\ DOMAIN filter = Ops
  /\ \A o \in Ops : ~(overridden /\ o = "select") => filter[o] = FilterFrom(policies)[o]

\* REVOKE on columns: the grant it narrows is spelled out by then.
RevokingOK ==
  revoking # NotRevoking =>
    LET s == revoking[1] IN
    s.priv \in Privs /\ s.cols \subseteq AllCols /\ ScopeIn(store, s.name, s.priv) # All

AuthzInv ==
  /\ AccountsInv /\ restarts \in Nat
  /\ NamesOK(store) /\ NamesOK(disk)
  /\ GrantsOK(store) /\ GrantsOK(disk)
  /\ cols \subseteq AllCols
  /\ FiltersOK
  /\ RevokingOK
-----------------------------------------------------------------------------
(* The walk through the memberships. *)
LEMMA LeastNat ==
  ASSUME NEW T \in SUBSET Nat, T # {}
  PROVE  \E m \in T : \A k \in T : m <= k
<1>1. PICK x \in T : \A y \in T : ~(<<y, x>> \in OpToRel(<, Nat))
  <2> DEFINE R == OpToRel(<, Nat)
  <2>1. IsWellFoundedOn(R, Nat)
    BY NatLessThanWellFounded
  <2> HIDE DEF R
  <2>2. \E x \in T : \A y \in T : ~(<<y, x>> \in R)
    BY <2>1, WFMin
  <2> QED BY <2>2 DEF R
<1>2. \A y \in T : ~(y < x)
  BY <1>1 DEF OpToRel
<1> QED BY <1>2

Reach(S) == S \cup UNION {store.members[g] : g \in S \cap DOMAIN store.members}

\* A walk from u of n rounds.
IsWalk(f, u, n) ==
  /\ DOMAIN f = 0 .. n /\ f[0] = {u}
  /\ \A k \in 1 .. n : f[k] = Reach(f[k - 1])

LEMMA WalkExists ==
  ASSUME NEW u, NEW n \in Nat
  PROVE  \E f : IsWalk(f, u, n)
<1> DEFINE T == {m \in Nat : ~\E f : IsWalk(f, u, m)}
<1> SUFFICES ASSUME T # {} PROVE FALSE
  OBVIOUS
<1>1. PICK m \in T : \A k \in T : m <= k
  BY LeastNat
<1>2. CASE m = 0
  <2>1. IsWalk([k \in 0 .. 0 |-> {u}], u, 0)
    BY DEF IsWalk
  <2> QED BY <1>2, <2>1
<1>3. CASE m # 0
  <2>1. m - 1 \in Nat /\ ~(m <= m - 1)
    BY <1>3
  <2>2. PICK f : IsWalk(f, u, m - 1)
    BY <1>1, <2>1
  <2> DEFINE h == [k \in 0 .. m |-> IF k = m THEN Reach(f[m - 1]) ELSE f[k]]
  <2>3. DOMAIN h = 0 .. m /\ h[0] = {u} /\ h[m] = Reach(f[m - 1]) /\ \A k \in 0 .. (m - 1) : h[k] = f[k]
    BY <1>3, <2>1, <2>2 DEF IsWalk
  <2> HIDE DEF h
  <2>4. ASSUME NEW k \in 1 .. m PROVE h[k] = Reach(h[k - 1])
    <3>1. k - 1 \in 0 .. (m - 1) /\ h[k - 1] = f[k - 1]
      BY <2>3
    <3>2. CASE k = m
      BY <2>3, <3>1, <3>2
    <3>3. CASE k # m
      <4>1. k \in 1 .. (m - 1) /\ k \in 0 .. (m - 1)
        BY <3>3
      <4> QED BY <2>2, <2>3, <3>1, <4>1 DEF IsWalk
    <3> QED BY <3>2, <3>3
  <2>5. IsWalk(h, u, m)
    BY <2>3, <2>4 DEF IsWalk
  <2> QED BY <2>5
<1> QED BY <1>2, <1>3

LEMMA NamesCounted == Cardinality(Names) \in Nat
BY NamesAssumption, FS_CardinalityType

\* Grantees(u) is what a walk of as many rounds as there are names ends with.
LEMMA GranteesWalk ==
  ASSUME NEW u
  PROVE  \E f : IsWalk(f, u, Cardinality(Names)) /\ Grantees(u) = f[Cardinality(Names)]
<1> DEFINE n == Cardinality(Names)
           Is(f) == f = [k \in 0 .. n |->
                           IF k = 0 THEN {u}
                           ELSE f[k - 1] \cup UNION {store.members[g] : g \in f[k - 1] \cap DOMAIN store.members}]
           step == CHOOSE f : Is(f)
<1>1. n \in Nat
  BY NamesCounted
<1>2. Grantees(u) = step[n]
  BY DEF Grantees
<1> HIDE DEF n
<1>3. PICK f : IsWalk(f, u, n)
  BY <1>1, WalkExists
<1>4. \E w : Is(w)
  <2> DEFINE w == [k \in 0 .. n |-> f[k]]
  <2>1. \A k \in 0 .. n : w[k] = f[k]
    OBVIOUS
  <2>2. ASSUME NEW k \in 0 .. n
        PROVE  w[k] = IF k = 0 THEN {u}
                      ELSE w[k - 1] \cup UNION {store.members[g] : g \in w[k - 1] \cap DOMAIN store.members}
    <3>1. CASE k = 0
      BY <1>3, <3>1, <2>1 DEF IsWalk
    <3>2. CASE k # 0
      <4>1. k \in 1 .. n /\ k - 1 \in 0 .. n
        BY <1>1, <3>2
      <4>2. w[k] = f[k] /\ w[k - 1] = f[k - 1] /\ f[k] = Reach(f[k - 1])
        BY <1>3, <2>1, <4>1 DEF IsWalk
      <4> HIDE DEF w
      <4> QED BY <3>2, <4>2 DEF Reach
    <3> QED BY <3>1, <3>2
  <2>3. DOMAIN w = 0 .. n /\ w = [k \in 0 .. n |-> w[k]]
    OBVIOUS
  <2> HIDE DEF w
  <2>4. Is(w)
    BY <2>2, <2>3
  <2> QED BY <2>4
<1>5. Is(step)
  <2> HIDE DEF Is
  <2> QED BY <1>4
<1> HIDE DEF step
<1>6. IsWalk(step, u, n)
  <2>1. DOMAIN step = 0 .. n /\ step[0] = {u}
    BY <1>1, <1>5
  <2>2. ASSUME NEW k \in 1 .. n PROVE step[k] = Reach(step[k - 1])
    <3>1. k \in 0 .. n /\ k # 0
      BY <1>1
    <3> QED BY <1>5, <3>1 DEF Reach
  <2> QED BY <2>1, <2>2 DEF IsWalk
<1> QED BY <1>2, <1>6 DEF n

\* Every round stays inside a closed set that holds u.
LEMMA WalkInClosed ==
  ASSUME NEW u, NEW n \in Nat, NEW f, IsWalk(f, u, n), NEW S, u \in S, Closed(S)
  PROVE  \A k \in 0 .. n : f[k] \subseteq S
<1> DEFINE T == {m \in 0 .. n : ~(f[m] \subseteq S)}
<1> SUFFICES ASSUME T # {} PROVE FALSE
  OBVIOUS
<1>1. PICK m \in T : \A k \in T : m <= k
  <2>1. T \in SUBSET Nat
    OBVIOUS
  <2> HIDE DEF T
  <2> QED BY <2>1, LeastNat
<1>2. m # 0
  BY <1>1 DEF IsWalk
<1>3. m \in 1 .. n /\ m - 1 \in 0 .. n /\ ~(m <= m - 1)
  BY <1>2
<1>4. f[m - 1] \subseteq S /\ f[m] = Reach(f[m - 1])
  BY <1>1, <1>3 DEF IsWalk
<1>5. f[m] \subseteq S
  BY <1>4 DEF Reach, Closed
<1> QED BY <1>1, <1>5

\* A round that finds nothing new is the last that matters.
LEMMA ClosedForGood ==
  ASSUME NEW u, NEW n \in Nat, NEW f, IsWalk(f, u, n), NEW k \in 0 .. n, Closed(f[k])
  PROVE  Closed(f[n])
<1> DEFINE T == {m \in k .. n : ~Closed(f[m])}
<1> SUFFICES ASSUME T # {} PROVE FALSE
  BY DEF T
<1>1. PICK m \in T : \A j \in T : m <= j
  <2>1. T \in SUBSET Nat
    OBVIOUS
  <2> HIDE DEF T
  <2> QED BY <2>1, LeastNat
<1>2. m # k
  BY <1>1
<1>3. m \in 1 .. n /\ m - 1 \in k .. n /\ ~(m <= m - 1)
  BY <1>2
<1>4. Closed(f[m - 1]) /\ f[m] = Reach(f[m - 1])
  BY <1>1, <1>3 DEF IsWalk
<1>5. f[m] = f[m - 1]
  BY <1>4 DEF Reach, Closed
<1> QED BY <1>1, <1>4, <1>5

\* While no round is closed, each finds at least one name more.
LEMMA WalkGrows ==
  ASSUME NEW u, NEW n \in Nat, NEW f, IsWalk(f, u, n),
         NEW K, IsFiniteSet(K), \A k \in 0 .. n : f[k] \subseteq K /\ ~Closed(f[k])
  PROVE  \A k \in 0 .. n : Cardinality(f[k]) >= k + 1
<1> DEFINE T == {m \in 0 .. n : ~(Cardinality(f[m]) >= m + 1)}
<1> SUFFICES ASSUME T # {} PROVE FALSE
  OBVIOUS
<1>1. PICK m \in T : \A j \in T : m <= j
  <2>1. T \in SUBSET Nat
    OBVIOUS
  <2> HIDE DEF T
  <2> QED BY <2>1, LeastNat
<1>2. \A k \in 0 .. n : IsFiniteSet(f[k]) /\ Cardinality(f[k]) \in Nat
  BY FS_Subset, FS_CardinalityType
<1>3. CASE m = 0
  <2>1. Cardinality(f[0]) = 1
    BY FS_Singleton DEF IsWalk
  <2> QED BY <1>1, <1>3, <2>1
<1>4. CASE m # 0
  <2>1. m \in 1 .. n /\ m - 1 \in 0 .. n /\ ~(m <= m - 1)
    BY <1>4
  <2>2. Cardinality(f[m - 1]) >= m
    BY <1>1, <2>1
  <2>3. f[m] = Reach(f[m - 1]) /\ ~Closed(f[m - 1])
    BY <2>1 DEF IsWalk
  <2>4. PICK x : x \in f[m] /\ x \notin f[m - 1]
    BY <2>3 DEF Reach, Closed
  <2>5. f[m - 1] \cup {x} \subseteq f[m]
    BY <2>3, <2>4 DEF Reach
  <2>6. Cardinality(f[m - 1] \cup {x}) = Cardinality(f[m - 1]) + 1
    BY <1>2, <2>1, <2>4, FS_AddElement
  <2>7. Cardinality(f[m - 1] \cup {x}) <= Cardinality(f[m])
    BY <1>2, <2>5, FS_Subset
  <2>8. Cardinality(f[m]) >= m + 1
    BY <1>2, <2>1, <2>2, <2>6, <2>7
  <2> QED BY <1>1, <2>8
<1> QED BY <1>3, <1>4

\* resolve_column_grant and transitive_roles_for: the walk finds exactly the
\* names the user acts under.
LEMMA GranteesExact ==
  ASSUME NamesOK(store), NEW u
  PROVE  Grantees(u) = ActsUnder(u)
<1> DEFINE n == Cardinality(Names)
           K == store.roles \cup {u}
<1>1. n \in Nat
  BY NamesCounted
<1>2. PICK f : IsWalk(f, u, n) /\ Grantees(u) = f[n]
  BY GranteesWalk
<1> HIDE DEF n
<1>3. u \in K /\ Closed(K)
  BY DEF NamesOK, Closed
<1>4. \A k \in 0 .. n : f[k] \subseteq K
  BY <1>1, <1>2, <1>3, WalkInClosed
<1>5. IsFiniteSet(K) /\ Cardinality(K) \in Nat /\ Cardinality(K) <= n + 1
  <2>1. store.roles \in SUBSET Names
    BY DEF NamesOK
  <2>2. IsFiniteSet(store.roles) /\ Cardinality(store.roles) <= n
    BY <2>1, NamesAssumption, FS_Subset DEF n
  <2>3. Cardinality(store.roles) \in Nat
    BY <2>2, FS_CardinalityType
  <2>4. IsFiniteSet(K) /\ Cardinality(K) = IF u \in store.roles THEN Cardinality(store.roles)
                                           ELSE Cardinality(store.roles) + 1
    BY <2>2, FS_AddElement
  <2> QED BY <1>1, <2>2, <2>3, <2>4
<1> HIDE DEF K
<1>6. Closed(f[n])
  <2>1. CASE \E k \in 0 .. n : Closed(f[k])
    BY <1>1, <1>2, <2>1, ClosedForGood
  <2>2. CASE \A k \in 0 .. n : ~Closed(f[k])
    <3>1. n \in 0 .. n
      BY <1>1
    <3>2. Cardinality(f[n]) >= n + 1
      BY <1>1, <1>2, <1>4, <1>5, <2>2, <3>1, WalkGrows
    <3>3. f[n] \in SUBSET K
      BY <1>4, <3>1
    <3>4. Cardinality(f[n]) <= Cardinality(K) /\ (Cardinality(K) = Cardinality(f[n]) => K = f[n])
      BY <1>5, <3>3, FS_Subset
    <3>5. IsFiniteSet(f[n])
      BY <1>5, <3>3, FS_Subset
    <3>6. Cardinality(f[n]) \in Nat
      BY <3>5, FS_CardinalityType
    <3>7. K = f[n]
      BY <1>1, <1>5, <3>2, <3>4, <3>6
    <3> QED BY <1>3, <3>7
  <2> QED BY <2>1, <2>2
<1>7. u \in f[n]
  <2>1. {u} \subseteq f[n]
    <3> DEFINE T == {m \in 0 .. n : u \notin f[m]}
    <3>1. T = {}
      <4> SUFFICES ASSUME T # {} PROVE FALSE
        OBVIOUS
      <4>1. PICK m \in T : \A j \in T : m <= j
        <5>1. T \in SUBSET Nat
          BY <1>1
        <5> HIDE DEF T
        <5> QED BY <5>1, LeastNat
      <4>2. m # 0
        BY <1>2, <4>1 DEF IsWalk
      <4>3. m \in 1 .. n /\ m - 1 \in 0 .. n /\ ~(m <= m - 1)
        BY <1>1, <4>2
      <4>4. u \in f[m - 1] /\ f[m] = Reach(f[m - 1])
        BY <1>2, <4>1, <4>3 DEF IsWalk
      <4> QED BY <4>1, <4>4 DEF Reach
    <3> QED BY <1>1, <3>1
  <2> QED BY <2>1
<1>8. n \in 0 .. n
  BY <1>1
<1>9. f[n] \subseteq K
  BY <1>4, <1>8
<1>10. \A S : u \in S /\ Closed(S) => f[n] \subseteq S
  BY <1>1, <1>2, <1>8, WalkInClosed
<1>11. f[n] = ActsUnder(u)
  BY <1>6, <1>7, <1>9, <1>10 DEF ActsUnder, K
<1> QED BY <1>2, <1>11
-----------------------------------------------------------------------------
(* What the invariant gives. *)
LEMMA InvGivesGranteesExist == AuthzInv => GranteesExist
BY DEF AuthzInv, NamesOK, GranteesExist

LEMMA InvGivesPolicyFilter == AuthzInv => PolicyFilter
<1> SUFFICES ASSUME AuthzInv,
                    NEW u \in DOMAIN store.users \ Superusers(store),
                    NEW o \in {"select", "update", "delete"}, ~(overridden /\ o = "select")
             PROVE  LET governing == {p \in policies : Governs(p, o)}
                        roles == {"authenticated"} \cup UNION {store.members[g] : g \in ActsUnder(u) \cap DOMAIN store.members}
                    IN VisibleRows(u, o) =
                         IF governing = {} THEN TableRows
                         ELSE UNION {Rows(p.expr, u) : p \in {q \in governing : q.to = {} \/ q.to \cap roles # {}}}
  BY DEF PolicyFilter
<1> DEFINE governing == {p \in policies : Governs(p, o)}
           roles == {"authenticated"} \cup UNION {store.members[g] : g \in ActsUnder(u) \cap DOMAIN store.members}
           exprs == {p.expr : p \in {q \in governing : q.to = {} \/ q.to \cap roles # {}}}
<1>1. ~EffectiveSuperuser(u)
  BY DEF EffectiveSuperuser
<1>2. roles = EffectiveRoles(u)
  <2>1. Grantees(u) = ActsUnder(u)
    BY GranteesExact DEF AuthzInv
  <2> QED BY <2>1 DEF EffectiveRoles, RolesOf
<1>3. o \in Ops /\ o \notin {"insert", "check"}
  BY DEF Ops
<1>4. filter[o] = {p.expr : p \in {q \in policies : Governs(q, o) /\ q.to = {}}}
  <2>1. filter[o] = FilterFrom(policies)[o]
    BY <1>3 DEF AuthzInv, FiltersOK
  <2>2. FilterFrom(policies)[o] = {p.expr : p \in {q \in policies : Joined(q, o)}}
    BY <1>3 DEF FilterFrom
  <2>3. \A q \in policies : Joined(q, o) <=> Governs(q, o) /\ q.to = {}
    BY <1>3 DEF Joined
  <2> QED BY <2>1, <2>2, <2>3
<1> DEFINE scoped == {p.expr : p \in {q \in RoleScoped(o) : q.to \cap roles # {}}}
<1> HIDE DEF roles
<1>5. filter[o] \cup scoped = exprs
  BY <1>4 DEF RoleScoped
<1>6. VisibleRows(u, o) = IF exprs # {} THEN UNION {Rows(e, u) : e \in exprs}
                          ELSE IF RoleScoped(o) # {} THEN {} ELSE TableRows
  <2> HIDE DEF exprs
  <2> QED BY <1>1, <1>2, <1>3, <1>5 DEF VisibleRows
<1>7. UNION {Rows(e, u) : e \in exprs} =
        UNION {Rows(p.expr, u) : p \in {q \in governing : q.to = {} \/ q.to \cap roles # {}}}
  OBVIOUS
<1>8. CASE exprs # {}
  <2>1. governing # {}
    BY <1>8
  <2> QED BY <1>6, <1>7, <1>8, <2>1 DEF roles
<1>9. CASE exprs = {} /\ governing # {}
  <2>1. RoleScoped(o) # {}
    BY <1>9 DEF RoleScoped
  <2>2. UNION {Rows(e, u) : e \in exprs} = {}
    <3> HIDE DEF exprs
    <3> QED BY <1>9
  <2> QED BY <1>6, <1>7, <1>9, <2>1, <2>2 DEF roles
<1>10. CASE exprs = {} /\ governing = {}
  <2>1. RoleScoped(o) = {}
    BY <1>10 DEF RoleScoped
  <2> QED BY <1>6, <1>10, <2>1
<1> QED BY <1>8, <1>9, <1>10

\* What a user holds, in terms of the grants of the names it acts under.
LEMMA GrantsSayWhatIsHeld ==
  ASSUME AuthzInv, NEW u, NEW p \in Privs
  PROVE  LET held == Held(u)
             some == {h[1] : h \in held}
         IN /\ HasPrivilege(u, p) <=> p \in some
            /\ \A c \in AllCols : CheckOneColumn(u, p, c) <=> (p \in some => <<p, c>> \in held)
            /\ \A c \in AllCols : Covers(ColumnGrant(u, p), c) <=> <<p, c>> \in held
<1> DEFINE held == Held(u)
           some == {h[1] : h \in held}
           G == Grantees(u)
           scopes == {Scope(g, p) : g \in G}
<1>1. \A g : Scope(g, p) = ScopeIn(store, g, p)
  BY DEF Scope, ScopeIn
<1>2. \A c : <<p, c>> \in held <=> \E g \in G : Fact(store, g, p, c)
  <2>1. G = ActsUnder(u)
    BY GranteesExact DEF AuthzInv
  <2>2. held = {<<f[2], f[3]>> : f \in {f \in store.facts : f[1] \in G}}
    BY <2>1 DEF Held
  <2> HIDE DEF held, G
  <2> QED BY <2>2 DEF Fact
<1>3. p \in some <=> \E c : <<p, c>> \in held
  <2>1. \A h \in held : \E a, c : h = <<a, c>>
    BY DEF Held
  <2> HIDE DEF held
  <2>2. ASSUME NEW h \in held, h[1] = p PROVE \E c : <<p, c>> \in held
    <3>1. PICK a, c : h = <<a, c>>
      BY <2>1
    <3>2. a = p
      BY <2>2, <3>1
    <3> QED BY <3>1, <3>2
  <2>3. ASSUME NEW c, <<p, c>> \in held PROVE p \in some
    <3>1. <<p, c>>[1] = p
      OBVIOUS
    <3> QED BY <2>3, <3>1
  <2> QED BY <2>2, <2>3
<1>4. \A g, c : Fact(store, g, p, c) <=> c \in AllCols /\ Covers(Scope(g, p), c)
  BY <1>1 DEF AuthzInv, GrantsOK
<1>5. \A g : Scope(g, p) = All \/ Scope(g, p) \subseteq AllCols
  BY <1>1 DEF AuthzInv, GrantsOK, ScopeIn
<1> HIDE DEF held, some, G
<1>6. \A c : <<p, c>> \in held <=> c \in AllCols /\ \E g \in G : Covers(Scope(g, p), c)
  BY <1>2, <1>4
<1>7. ColumnGrant(u, p) = IF All \in scopes THEN All ELSE UNION scopes
  BY DEF ColumnGrant, G
<1>8. CASE All \in scopes
  <2>1. ColumnGrant(u, p) = All
    BY <1>7, <1>8
  <2>2. \A c \in AllCols : <<p, c>> \in held
    BY <1>6, <1>8 DEF Covers
  <2>3. p \in some
    BY <1>3, <2>2, ColumnsAssumption
  <2>4. All # {}
    BY DEF All
  <2> QED BY <2>1, <2>2, <2>3, <2>4 DEF HasPrivilege, CheckOneColumn, Covers, held, some
<1>9. CASE All \notin scopes
  <2> DEFINE U == UNION scopes
  <2>1. ColumnGrant(u, p) = U
    BY <1>7, <1>9
  <2>2. \A g \in G : Scope(g, p) # All
    BY <1>9
  <2>3. \A c : c \in U <=> \E g \in G : c \in Scope(g, p)
    OBVIOUS
  <2> HIDE DEF U
  <2>4. \A c : <<p, c>> \in held <=> c \in U
    BY <1>5, <1>6, <2>2, <2>3 DEF Covers
  <2>5. U # All
    BY <2>2, <2>3, <1>5, ColumnsAssumption DEF All
  <2>6. U # {} <=> p \in some
    BY <1>3, <2>4
  <2> QED BY <2>1, <2>4, <2>5, <2>6 DEF HasPrivilege, CheckOneColumn, Covers, held, some
<1> QED BY <1>8, <1>9

\* The columns and privileges a statement's checks are about exist.
LEMMA StatementColumns ==
  ASSUME AuthzInv, NEW st \in Statements, st.kind # "ddl"
  PROVE  /\ OwnPrivileges(st) \subseteq Privs
         /\ ColumnReads(st) \subseteq AllCols
         /\ \A w \in ColumnWrites(st) : w[1] \in Privs /\ w[2] \in AllCols
<1>1. cols \subseteq AllCols
  BY DEF AuthzInv
<1>2. /\ st.kind \in {"select", "setop", "insert", "update", "delete"}
      /\ st.proj \subseteq AllCols /\ st.pred \subseteq AllCols /\ st.rhs \subseteq AllCols
      /\ st.retcols \subseteq AllCols /\ st.target \subseteq AllCols /\ st.upd \subseteq AllCols
  BY StatementsAssumption
<1>3. "select" \in Privs /\ "insert" \in Privs /\ "update" \in Privs /\ "delete" \in Privs
  BY PrivsAssumption
<1>4. \A cs : cs \subseteq AllCols => Star(cs) \subseteq AllCols
  BY <1>1 DEF Star
<1>5. OwnPrivileges(st) \subseteq Privs
  BY <1>2, <1>3 DEF OwnPrivileges
<1>6. ColumnReads(st) \subseteq AllCols
  BY <1>2, <1>4 DEF ColumnReads
<1>7. ASSUME NEW w \in ColumnWrites(st) PROVE w[1] \in Privs /\ w[2] \in AllCols
  <2>1. Star(st.target) \subseteq AllCols
    BY <1>2, <1>4
  <2>2. PICK p \in {"insert", "update"}, c \in AllCols : w = <<p, c>>
    BY <1>2, <1>7, <2>1 DEF ColumnWrites
  <2> QED BY <1>3, <2>2
<1> QED BY <1>5, <1>6, <1>7

LEMMA InvGivesDecisionsExact == AuthzInv => DecisionsExact
<1> SUFFICES ASSUME AuthzInv, NEW u \in DOMAIN store.users \ Superusers(store)
             PROVE  LET held == Held(u)
                        some == {h[1] : h \in held}
                    IN
                    /\ \A st \in Statements :
                         CheckPlanPrivileges(u, st) <=>
                           /\ st.kind # "ddl"
                           /\ OwnPrivileges(st) \subseteq some
                           /\ \A c \in ColumnReads(st) : "select" \in some => <<"select", c>> \in held
                           /\ \A w \in ColumnWrites(st) : w[1] \in some => <<w[1], w[2]>> \in held
                    /\ \A r \in TableRows :
                         EventColumns(u, r) = IF r \in VisibleRows(u, "select")
                                              THEN {c \in cols : <<"select", c>> \in held} ELSE {}
  BY DEF DecisionsExact
<1> DEFINE held == Held(u)
           some == {h[1] : h \in held}
<1>1. ~EffectiveSuperuser(u)
  BY DEF EffectiveSuperuser
<1>2. \A p \in Privs :
        /\ HasPrivilege(u, p) <=> p \in some
        /\ \A c \in AllCols : CheckOneColumn(u, p, c) <=> (p \in some => <<p, c>> \in held)
        /\ \A c \in AllCols : Covers(ColumnGrant(u, p), c) <=> <<p, c>> \in held
  BY GrantsSayWhatIsHeld
<1>3. "select" \in Privs
  BY PrivsAssumption
<1>4. \A c : <<"select", c>> \in held => "select" \in some
  <2>1. \A c : <<"select", c>>[1] = "select"
    OBVIOUS
  <2> HIDE DEF held
  <2> QED BY <2>1
<1> HIDE DEF held, some
<1>5. ASSUME NEW st \in Statements
      PROVE  CheckPlanPrivileges(u, st) <=>
               /\ st.kind # "ddl"
               /\ OwnPrivileges(st) \subseteq some
               /\ \A c \in ColumnReads(st) : "select" \in some => <<"select", c>> \in held
               /\ \A w \in ColumnWrites(st) : w[1] \in some => <<w[1], w[2]>> \in held
  <2>1. CASE st.kind = "ddl"
    BY <1>1, <2>1 DEF CheckPlanPrivileges
  <2>2. CASE st.kind # "ddl"
    <3>1. /\ OwnPrivileges(st) \subseteq Privs
          /\ ColumnReads(st) \subseteq AllCols
          /\ \A w \in ColumnWrites(st) : w[1] \in Privs /\ w[2] \in AllCols
      BY <2>2, StatementColumns
    <3>2. (\A p \in OwnPrivileges(st) : HasPrivilege(u, p)) <=> OwnPrivileges(st) \subseteq some
      BY <1>2, <3>1
    <3>3. (\A c \in ColumnReads(st) : CheckOneColumn(u, "select", c))
            <=> \A c \in ColumnReads(st) : "select" \in some => <<"select", c>> \in held
      BY <1>2, <1>3, <3>1
    <3>4. (\A w \in ColumnWrites(st) : CheckOneColumn(u, w[1], w[2]))
            <=> \A w \in ColumnWrites(st) : w[1] \in some => <<w[1], w[2]>> \in held
      BY <1>2, <3>1
    <3> QED BY <1>1, <2>2, <3>2, <3>3, <3>4 DEF CheckPlanPrivileges
  <2> QED BY <2>1, <2>2
<1>6. ASSUME NEW r \in TableRows
      PROVE  EventColumns(u, r) = IF r \in VisibleRows(u, "select")
                                  THEN {c \in cols : <<"select", c>> \in held} ELSE {}
  <2>1. \A c \in cols : Covers(ColumnGrant(u, "select"), c) <=> <<"select", c>> \in held
    BY <1>2, <1>3 DEF AuthzInv
  <2>2. HasPrivilege(u, "select") <=> "select" \in some
    BY <1>2, <1>3
  <2>3. {c \in cols : Covers(ColumnGrant(u, "select"), c)} = {c \in cols : <<"select", c>> \in held}
    BY <2>1
  <2>4. "select" \notin some => {c \in cols : <<"select", c>> \in held} = {}
    BY <1>4
  <2> QED BY <1>1, <2>2, <2>3, <2>4 DEF EventColumns
<1> QED BY <1>5, <1>6 DEF held, some
-----------------------------------------------------------------------------
(* The identity store's own steps. *)
AuthSame(o, s) ==
  /\ s.roles = o.roles /\ s.members = o.members /\ s.grants = o.grants /\ s.facts = o.facts
  /\ DOMAIN o.users \subseteq DOMAIN s.users

LEMMA WithoutUserNames ==
  ASSUME NEW o, DOMAIN o = StoreFields, NEW u, NamesOK(o), GrantsOK(o)
  PROVE  LET s == WithoutUser(o, u) IN
         /\ NamesOK(s) /\ GrantsOK(s)
         /\ \A g, p : ScopeIn(s, g, p) = ScopeIn(o, g, p) \/ ScopeIn(s, g, p) = {}
<1> DEFINE s == WithoutUser(o, u)
<1>1. /\ s.users = Drop(o.users, u) /\ s.members = Drop(o.members, u) /\ s.grants = Drop(o.grants, u)
      /\ s.roles = o.roles /\ s.facts = {f \in o.facts : f[1] # u}
  BY DEF StoreFields, WithoutUser
<1> HIDE DEF s
<1>2. NamesOK(s)
  BY <1>1 DEF NamesOK, Drop
<1>3. \A g, p : ScopeIn(s, g, p) = IF g = u THEN {} ELSE ScopeIn(o, g, p)
  BY <1>1 DEF ScopeIn, Drop
<1>4. \A g, p, c : Fact(s, g, p, c) <=> g # u /\ Fact(o, g, p, c)
  BY <1>1 DEF Fact
<1>5. \A g \in DOMAIN s.grants : g \in DOMAIN o.grants /\ s.grants[g] = o.grants[g]
  BY <1>1 DEF Drop
<1>6. \A c : ~Covers({}, c)
  BY DEF Covers, All
<1>7. GrantsOK(s)
  <2>1. ASSUME NEW g, NEW c, NEW p \in Privs
        PROVE  Fact(s, g, p, c) <=> c \in AllCols /\ Covers(ScopeIn(s, g, p), c)
    <3>1. Fact(o, g, p, c) <=> c \in AllCols /\ Covers(ScopeIn(o, g, p), c)
      BY DEF GrantsOK
    <3>2. CASE g = u
      BY <1>3, <1>4, <1>6, <3>2
    <3>3. CASE g # u
      BY <1>3, <1>4, <3>1, <3>3
    <3> QED BY <3>2, <3>3
  <2> QED BY <1>5, <2>1 DEF GrantsOK
<1> QED BY <1>2, <1>3, <1>7 DEF s

LEMMA SameNames ==
  ASSUME NEW o, NEW s, AuthSame(o, s), NamesOK(o), GrantsOK(o)
  PROVE  /\ NamesOK(s) /\ GrantsOK(s)
         /\ \A g, p : ScopeIn(s, g, p) = ScopeIn(o, g, p)
<1>1. NamesOK(s)
  BY DEF AuthSame, NamesOK
<1>2. \A g, p : ScopeIn(s, g, p) = ScopeIn(o, g, p)
  BY DEF AuthSame, ScopeIn
<1>3. \A g, p, c : Fact(s, g, p, c) <=> Fact(o, g, p, c)
  BY DEF AuthSame, Fact
<1>4. GrantsOK(s)
  BY <1>2, <1>3 DEF AuthSame, GrantsOK
<1> QED BY <1>1, <1>2, <1>4

\* A call leaves roles, memberships and grants alone, or drops a user.
CallOnStore ==
  /\ restarts' = restarts
  /\ disk' = disk \/ disk' = store'
  /\ AuthSame(store, store') \/ \E u : store' = WithoutUser(store, u)

LEMMA SetAdds == ASSUME NEW f, NEW k, NEW v PROVE DOMAIN f \subseteq DOMAIN Set(f, k, v)
BY DEF Set

LEMMA CallsLeaveGrants ==
  ASSUME AccountsInv, NEW i \in Reqs, Call(i)
  PROVE  CallOnStore
<1>1. DOMAIN store = StoreFields
  BY StoreTyped
<1>2. ASSUME UNCHANGED <<restarts, store, disk>> PROVE CallOnStore
  BY <1>2 DEF CallOnStore, AuthSame
<1>3. ASSUME NEW s, store' = s, UNCHANGED restarts, disk' = s \/ UNCHANGED disk,
             \/ AuthSame(store, s)
             \/ \E u : s = WithoutUser(store, u)
      PROVE  CallOnStore
  BY <1>3 DEF CallOnStore
<1>4. CASE CaptchaEnforce(i) \/ IsCompromised(i) \/ VerifyPassword(i) \/ IsBanned(i) \/ UserExists(i)
           \/ SessionOwner(i) \/ Exchange(i) \/ VerifySession(i)
  BY <1>2, <1>4 DEF CaptchaEnforce, IsCompromised, VerifyPassword, IsBanned, UserExists, SessionOwner,
                    Exchange, VerifySession, Decide
<1>5. ASSUME Refuse(i) PROVE CallOnStore
  BY <1>2, <1>5 DEF Refuse
<1>6. ASSUME NEW goOn, Decide(i, goOn) PROVE CallOnStore
  BY <1>2, <1>6 DEF Decide
<1>7. ASSUME NEW s, AuthSame(store, s) \/ (\E u : s = WithoutUser(store, u)), Change(i, s) PROVE CallOnStore
  BY <1>3, <1>7 DEF Change, Persist
<1>8. CASE SetPassword(i)
  <2>1. AuthSame(store, [store EXCEPT !.users[req[i].u].pw = Arg(i)])
    BY <1>1 DEF AuthSame, StoreFields
  <2> QED BY <1>5, <1>7, <1>8, <2>1 DEF SetPassword
<1>9. CASE SetBanned(i)
  <2>1. AuthSame(store, [store EXCEPT !.users[req[i].u].banned = TRUE])
    BY <1>1 DEF AuthSame, StoreFields
  <2> QED BY <1>5, <1>7, <1>9, <2>1 DEF SetBanned
<1>10. CASE CreateUser(i)
  <2>1. AuthSame(store, [store EXCEPT !.users = Set(@, req[i].u, NewUser(FALSE, Arg(i)))])
    BY <1>1, SetAdds DEF AuthSame, StoreFields
  <2> QED BY <1>5, <1>7, <1>10, <2>1 DEF CreateUser
<1>11. CASE SetSuperuser(i)
  <2>1. AuthSame(store, [store EXCEPT !.users[req[i].u].super = Arg(i)])
    BY <1>1 DEF AuthSame, StoreFields
  <2> QED BY <1>5, <1>7, <1>11, <2>1 DEF SetSuperuser
<1>12. CASE DropUser(i)
  BY <1>5, <1>7, <1>12 DEF DropUser
<1>13. ASSUME NEW f PROVE AuthSame(store, [store EXCEPT !.tokens = f])
  BY <1>1 DEF AuthSame, StoreFields
<1>14. ASSUME NEW f PROVE AuthSame(store, [store EXCEPT !.mfa = f])
  BY <1>1 DEF AuthSame, StoreFields
<1>15. CASE CreateSession(i)
  BY <1>3, <1>13, <1>15 DEF CreateSession, Persist
<1>16. CASE RotateSession(i)
  BY <1>3, <1>5, <1>13, <1>16 DEF RotateSession, Persist
<1>17. ASSUME NEW ts, Revoke(i, ts) PROVE CallOnStore
  BY <1>3, <1>13, <1>17 DEF Revoke, Persist
<1>18. CASE RevokeSession(i) \/ RevokeAllSessionsForUser(i)
  BY <1>6, <1>17, <1>18 DEF RevokeSession, RevokeAllSessionsForUser
<1>19. ASSUME NEW call, NEW kind, CreateOneTime(i, call, kind) PROVE CallOnStore
  BY <1>3, <1>13, <1>19 DEF CreateOneTime, Persist
<1>20. CASE CreateRecoveryToken(i) \/ CreateMagiclinkToken(i) \/ CreateOauthState(i)
  BY <1>19, <1>20 DEF CreateRecoveryToken, CreateMagiclinkToken, CreateOauthState
<1>21. ASSUME NEW call, VerifyOneTime(i, call) PROVE CallOnStore
  BY <1>3, <1>5, <1>13, <1>21 DEF VerifyOneTime, Persist
<1>22. CASE VerifyRecoveryToken(i) \/ VerifyMagiclinkToken(i) \/ VerifyOauthState(i)
  BY <1>21, <1>22 DEF VerifyRecoveryToken, VerifyMagiclinkToken, VerifyOauthState
<1>23. CASE OauthLinkOrCreate(i)
  <2>1. ASSUME NEW u, NEW who
        PROVE  AuthSame(store, [store EXCEPT !.users = Set(@, u, NewUser(FALSE, None)), !.ids = Set(@, who, u)])
    BY <1>1, SetAdds DEF AuthSame, StoreFields
  <2>2. CASE Arg(i) \in DOMAIN store.ids
    BY <1>2, <1>23, <2>2 DEF OauthLinkOrCreate
  <2>3. CASE Arg(i) \notin DOMAIN store.ids
    BY <1>3, <1>23, <2>1, <2>3 DEF OauthLinkOrCreate, Persist
  <2> QED BY <2>2, <2>3
<1>24. CASE MfaEnabled(i)
  BY <1>3, <1>6, <1>13, <1>24 DEF MfaEnabled, Persist
<1>25. CASE MfaEnroll(i)
  BY <1>3, <1>5, <1>14, <1>25 DEF MfaEnroll, Persist
<1>26. CASE MfaConfirm(i)
  <2>1. ASSUME NEW u, NEW rec PROVE AuthSame(store, [store EXCEPT !.mfa[u] = rec])
    BY <1>1 DEF AuthSame, StoreFields
  <2> QED BY <1>5, <1>7, <1>26, <2>1 DEF MfaConfirm
<1>27. CASE MfaDisable(i)
  BY <1>5, <1>7, <1>14, <1>27 DEF MfaDisable
<1>28. CASE VerifyMfaChallenge(i)
  <2>1. ASSUME NEW f, NEW u, NEW rec PROVE AuthSame(store, [store EXCEPT !.tokens = f, !.mfa[u] = rec])
    BY <1>1 DEF AuthSame, StoreFields
  <2> QED BY <1>3, <1>5, <1>28, <2>1 DEF VerifyMfaChallenge, Persist
<1> QED
  BY <1>4, <1>8, <1>9, <1>10, <1>11, <1>12, <1>15, <1>16, <1>18, <1>20, <1>22, <1>23, <1>24, <1>25,
     <1>26, <1>27, <1>28 DEF Call

LEMMA AccountStepKeeps ==
  ASSUME AuthzInv, AccountStep PROVE AuthzInv'
<1>1. AccountsInv' /\ Next /\ UNCHANGED <<cols, policies, filter, overridden>>
  BY StepKeeps DEF AuthzInv, AccountStep
<1>2. cols' \subseteq AllCols /\ FiltersOK'
  BY <1>1 DEF AuthzInv, FiltersOK, FilterFrom, Joined, Governs
<1>3. CASE Restart
  <2>1. store' = disk /\ disk' = disk /\ restarts' # restarts /\ restarts' \in Nat
    BY <1>3 DEF Restart, AuthzInv
  <2>2. revoking' = NotRevoking
    BY <2>1 DEF AccountStep
  <2>3. NamesOK(store') /\ NamesOK(disk') /\ GrantsOK(store') /\ GrantsOK(disk')
    BY <2>1 DEF AuthzInv
  <2> QED BY <1>1, <1>2, <2>1, <2>2, <2>3 DEF AuthzInv, RevokingOK, NotRevoking, NamesOK, GrantsOK, Fact, ScopeIn
<1>4. CASE ~Restart
  <2>1. CallOnStore
    <3>1. DOMAIN req = Reqs
      BY DEF AuthzInv, AccountsInv, RequestsOK
    <3>2. CASE Tick \/ \E i \in DOMAIN req : Start(i)
      BY <3>2 DEF Tick, Start, CallOnStore, AuthSame
    <3>3. CASE \E i \in DOMAIN req : Call(i)
      BY <3>1, <3>3, CallsLeaveGrants DEF AuthzInv
    <3> QED BY <1>1, <1>4, <3>2, <3>3 DEF Next
  <2>2. revoking' = revoking /\ restarts' \in Nat
    BY <2>1 DEF AccountStep, CallOnStore, AuthzInv
  <2>3. /\ NamesOK(store') /\ GrantsOK(store')
        /\ \A g, p : ScopeIn(store', g, p) = ScopeIn(store, g, p) \/ ScopeIn(store', g, p) = {}
    <3>1. CASE AuthSame(store, store')
      BY <3>1, SameNames DEF AuthzInv
    <3>2. CASE \E u : store' = WithoutUser(store, u)
      BY <3>2, WithoutUserNames, StoreTyped DEF AuthzInv
    <3> QED BY <2>1, <3>1, <3>2 DEF CallOnStore
  <2>4. NamesOK(disk') /\ GrantsOK(disk')
    BY <2>1, <2>3 DEF CallOnStore, AuthzInv
  <2>5. RevokingOK'
    <3>1. {} # All
      BY DEF All
    <3> QED BY <2>2, <2>3, <3>1 DEF AuthzInv, RevokingOK, NotRevoking, ScopeIn
  <2> QED BY <1>1, <1>2, <2>2, <2>3, <2>4, <2>5 DEF AuthzInv, NamesOK, GrantsOK, Fact, ScopeIn
<1> QED BY <1>3, <1>4
-----------------------------------------------------------------------------
(* The authorization statements. *)
LEMMA ApplyKeeps ==
  ASSUME AuthzInv, NEW s, NEW next, ApplyThen(s, next),
         DOMAIN s = StoreFields, s.tokens = store.tokens,
         DOMAIN s.mfa \subseteq DOMAIN store.mfa, \A u \in DOMAIN s.mfa : s.mfa[u] = store.mfa[u],
         UsersOK(s), NamesOK(s), GrantsOK(s),
         next # NotRevoking =>
           next[1].priv \in Privs /\ next[1].cols \subseteq AllCols /\ ScopeIn(s, next[1].name, next[1].priv) # All
  PROVE  AuthzInv'
<1>1. /\ store' = s /\ (disk' = s \/ disk' = disk)
      /\ UNCHANGED <<load, now, issued, req, restarts, grants, cut, cols, policies, filter, overridden>>
      /\ revoking' = next \/ revoking' = NotRevoking
  BY DEF ApplyThen, Persist
<1>2. AccountsInv'
  BY <1>1, StatementKeeps DEF AuthzInv
<1>3. cols' \subseteq AllCols /\ FiltersOK'
  BY <1>1 DEF AuthzInv, FiltersOK, FilterFrom, Joined, Governs
<1>4. NamesOK(store') /\ NamesOK(disk') /\ GrantsOK(store') /\ GrantsOK(disk')
  BY <1>1 DEF AuthzInv
<1>5. RevokingOK'
  BY <1>1 DEF RevokingOK, NotRevoking, ScopeIn
<1> QED BY <1>1, <1>2, <1>3, <1>4, <1>5 DEF AuthzInv, NamesOK, GrantsOK, Fact, ScopeIn

\* Statements that only touch roles, memberships, grants and facts.
LEMMA RightsKeep ==
  ASSUME AuthzInv, NEW s, NEW next, ApplyThen(s, next),
         DOMAIN s = StoreFields, s.tokens = store.tokens, s.mfa = store.mfa, s.users = store.users,
         NamesOK(s), GrantsOK(s),
         next # NotRevoking =>
           next[1].priv \in Privs /\ next[1].cols \subseteq AllCols /\ ScopeIn(s, next[1].name, next[1].priv) # All
  PROVE  AuthzInv'
<1>1. UsersOK(s)
  BY StoreTyped DEF AuthzInv, UsersOK, Superusers
<1> QED BY <1>1, ApplyKeeps

LEMMA InvParts ==
  ASSUME AuthzInv
  PROVE  /\ DOMAIN store = StoreFields /\ UsersOK(store) /\ NamesOK(store) /\ GrantsOK(store)
         /\ load \in Loads
BY StoreTyped DEF AuthzInv, AccountsInv, RequestsOK

LEMMA CreateRoleKeeps ==
  ASSUME AuthzInv, CreateRole PROVE AuthzInv'
<1>1. PICK st \in Statement("create_role") :
        ApplyThen([store EXCEPT !.roles = @ \cup {st.name}], NotRevoking)
  BY DEF CreateRole, Apply
<1> DEFINE s == [store EXCEPT !.roles = @ \cup {st.name}]
<1>2. st.name \in Names
  BY AuthWorkAssumption, InvParts DEF Statement
<1>3. /\ DOMAIN s = StoreFields /\ s.tokens = store.tokens /\ s.mfa = store.mfa /\ s.users = store.users
      /\ s.roles = store.roles \cup {st.name} /\ s.members = store.members
      /\ s.grants = store.grants /\ s.facts = store.facts
  BY InvParts DEF StoreFields
<1>4. ApplyThen(s, NotRevoking)
  BY <1>1
<1> HIDE DEF s
<1>5. NamesOK(s)
  BY <1>2, <1>3, InvParts DEF NamesOK
<1>6. GrantsOK(s)
  BY <1>3, InvParts DEF GrantsOK, Fact, ScopeIn
<1> QED BY <1>3, <1>4, <1>5, <1>6, RightsKeep

\* A name loses its grants and facts.
LEMMA DropGrants ==
  ASSUME NEW o, GrantsOK(o), NEW s, NEW r, s.grants = Drop(o.grants, r), s.facts = {f \in o.facts : f[1] # r}
  PROVE  GrantsOK(s)
<1>1. \A g, p : ScopeIn(s, g, p) = IF g = r THEN {} ELSE ScopeIn(o, g, p)
  BY DEF ScopeIn, Drop
<1>2. \A g, p, c : Fact(s, g, p, c) <=> g # r /\ Fact(o, g, p, c)
  BY DEF Fact
<1>3. \A g \in DOMAIN s.grants : g \in DOMAIN o.grants /\ s.grants[g] = o.grants[g]
  BY DEF Drop
<1>4. \A c : ~Covers({}, c)
  BY DEF Covers, All
<1>5. ASSUME NEW g, NEW c, NEW p \in Privs
      PROVE  Fact(s, g, p, c) <=> c \in AllCols /\ Covers(ScopeIn(s, g, p), c)
  <2>1. Fact(o, g, p, c) <=> c \in AllCols /\ Covers(ScopeIn(o, g, p), c)
    BY DEF GrantsOK
  <2>2. CASE g = r
    BY <1>1, <1>2, <1>4, <2>2
  <2>3. CASE g # r
    BY <1>1, <1>2, <2>1, <2>3
  <2> QED BY <2>2, <2>3
<1> QED BY <1>3, <1>5 DEF GrantsOK

LEMMA DropRoleKeeps ==
  ASSUME AuthzInv, DropRole PROVE AuthzInv'
<1> DEFINE S(r) == [store EXCEPT !.roles = @ \ {r}, !.members = WithoutMember(@, r),
                                 !.grants = Drop(@, r), !.facts = {f \in @ : f[1] # r}]
<1>1. PICK st \in Statement("drop_role") : ApplyThen(S(st.name), NotRevoking)
  BY DEF DropRole, Apply
<1> DEFINE r == st.name
           s == S(r)
<1>2. /\ DOMAIN s = StoreFields /\ s.tokens = store.tokens /\ s.mfa = store.mfa /\ s.users = store.users
      /\ s.roles = store.roles \ {r} /\ s.members = WithoutMember(store.members, r)
      /\ s.grants = Drop(store.grants, r) /\ s.facts = {f \in store.facts : f[1] # r}
  BY InvParts DEF StoreFields
<1>3. ApplyThen(s, NotRevoking)
  BY <1>1
<1> HIDE DEF s, r, S
<1>4. NamesOK(s)
  BY <1>2, InvParts DEF NamesOK, WithoutMember, Drop
<1>5. GrantsOK(s)
  BY <1>2, InvParts, DropGrants
<1> QED BY <1>2, <1>3, <1>4, <1>5, RightsKeep

LEMMA CreateUserStmtKeeps ==
  ASSUME AuthzInv, CreateUserStmt PROVE AuthzInv'
<1> DEFINE S(n) == [store EXCEPT !.users = Set(@, n, NewUser(FALSE, None))]
<1>1. PICK st \in Statement("create_user") :
        st.name \notin DOMAIN store.users /\ ApplyThen(S(st.name), NotRevoking)
  BY DEF CreateUserStmt, Apply
<1> DEFINE n == st.name
           s == S(n)
<1>2. /\ DOMAIN s = StoreFields /\ s.tokens = store.tokens /\ s.mfa = store.mfa
      /\ s.users = Set(store.users, n, NewUser(FALSE, None))
      /\ s.roles = store.roles /\ s.members = store.members
      /\ s.grants = store.grants /\ s.facts = store.facts
  BY InvParts DEF StoreFields
<1>3. ApplyThen(s, NotRevoking) /\ n \notin DOMAIN store.users
  BY <1>1
<1> HIDE DEF s, n, S
<1>4. UsersOK(s)
  BY <1>2, <1>3, InvParts, NewUserOK DEF Superusers
<1>5. AuthSame(store, s)
  BY <1>2, SetAdds DEF AuthSame
<1>6. NamesOK(s) /\ GrantsOK(s)
  BY <1>5, InvParts, SameNames
<1> QED BY <1>2, <1>3, <1>4, <1>6, ApplyKeeps

LEMMA DropUserStmtKeeps ==
  ASSUME AuthzInv, DropUserStmt PROVE AuthzInv'
<1>1. PICK st \in Statement("drop_user") :
        MayLoseSuperuser(st.name) /\ ApplyThen(WithoutUser(store, st.name), NotRevoking)
  BY DEF DropUserStmt, Apply
<1> DEFINE s == WithoutUser(store, st.name)
<1>2. /\ DOMAIN s = StoreFields /\ s.tokens = store.tokens
      /\ DOMAIN s.mfa \subseteq DOMAIN store.mfa /\ \A v \in DOMAIN s.mfa : s.mfa[v] = store.mfa[v]
      /\ UsersOK(s)
  BY <1>1, InvParts, WithoutUserOK DEF MayLoseSuperuser
<1>3. NamesOK(s) /\ GrantsOK(s)
  BY InvParts, WithoutUserNames
<1>4. ApplyThen(s, NotRevoking)
  BY <1>1
<1> HIDE DEF s
<1> QED BY <1>2, <1>3, <1>4, ApplyKeeps

LEMMA GrantRoleKeeps ==
  ASSUME AuthzInv, GrantRole PROVE AuthzInv'
<1> DEFINE S(n, r) == [store EXCEPT !.members =
                         Set(@, n, {r} \cup IF n \in DOMAIN @ THEN @[n] ELSE {})]
<1>1. PICK st \in Statement("grant_role") :
        st.role \in store.roles /\ KnownGrantee(st.name) /\ ApplyThen(S(st.name, st.role), NotRevoking)
  BY DEF GrantRole, Apply
<1> DEFINE n == st.name
           r == st.role
           s == S(n, r)
<1>2. /\ DOMAIN s = StoreFields /\ s.tokens = store.tokens /\ s.mfa = store.mfa /\ s.users = store.users
      /\ s.members = Set(store.members, n, {r} \cup IF n \in DOMAIN store.members THEN store.members[n] ELSE {})
      /\ s.roles = store.roles /\ s.grants = store.grants /\ s.facts = store.facts
  BY InvParts DEF StoreFields
<1>3. ApplyThen(s, NotRevoking) /\ r \in store.roles /\ KnownGrantee(n)
  BY <1>1
<1> HIDE DEF s, n, r, S
<1>4. NamesOK(s)
  BY <1>2, <1>3, InvParts DEF NamesOK, Set, KnownGrantee
<1>5. GrantsOK(s)
  BY <1>2, InvParts DEF GrantsOK, Fact, ScopeIn
<1> QED BY <1>2, <1>3, <1>4, <1>5, RightsKeep

LEMMA RevokeRoleKeeps ==
  ASSUME AuthzInv, RevokeRole PROVE AuthzInv'
<1> DEFINE S(n, r) == [store EXCEPT !.members[n] = @ \ {r}]
<1>1. PICK st \in Statement("revoke_role") :
        st.name \in DOMAIN store.members /\ ApplyThen(S(st.name, st.role), NotRevoking)
  BY DEF RevokeRole, Apply
<1> DEFINE n == st.name
           r == st.role
           s == S(n, r)
<1>2. /\ DOMAIN s = StoreFields /\ s.tokens = store.tokens /\ s.mfa = store.mfa /\ s.users = store.users
      /\ s.members = [store.members EXCEPT ![n] = @ \ {r}]
      /\ s.roles = store.roles /\ s.grants = store.grants /\ s.facts = store.facts
  BY InvParts DEF StoreFields
<1>3. ApplyThen(s, NotRevoking) /\ n \in DOMAIN store.members
  BY <1>1
<1> HIDE DEF s, n, r, S
<1>4. NamesOK(s)
  BY <1>2, <1>3, InvParts DEF NamesOK
<1>5. GrantsOK(s)
  BY <1>2, InvParts DEF GrantsOK, Fact, ScopeIn
<1> QED BY <1>2, <1>3, <1>4, <1>5, RightsKeep

\* One scope is replaced, and the facts follow it.
FactsFollow(o, s, g, p, scope) ==
  \A x, c : \A q \in Privs :
    Fact(s, x, q, c) <=> IF x = g /\ q = p THEN c \in AllCols /\ Covers(scope, c) ELSE Fact(o, x, q, c)

LEMMA ScopeReplaced ==
  ASSUME NEW o, GrantsOK(o), NEW s, NEW g, NEW p \in Privs, NEW scope,
         scope = All \/ scope \subseteq AllCols,
         s.grants = WithScope(o.grants, g, p, scope), FactsFollow(o, s, g, p, scope)
  PROVE  GrantsOK(s) /\ DOMAIN s.grants = DOMAIN o.grants \cup {g} /\ ScopeIn(s, g, p) = scope
<1> DEFINE row == IF g \in DOMAIN o.grants THEN [o.grants[g] EXCEPT ![p] = scope]
                  ELSE [q \in Privs |-> IF q = p THEN scope ELSE {}]
<1>1. s.grants = Set(o.grants, g, row)
  BY DEF WithScope
<1>2. /\ DOMAIN row = Privs /\ row[p] = scope
      /\ \A q \in Privs : q # p => row[q] = ScopeIn(o, g, q)
  BY DEF GrantsOK, ScopeIn
<1> HIDE DEF row
<1>3. /\ DOMAIN s.grants = DOMAIN o.grants \cup {g} /\ s.grants[g] = row
      /\ \A x \in DOMAIN o.grants : x # g => s.grants[x] = o.grants[x]
  BY <1>1 DEF Set
<1>4. \A x : \A q \in Privs : ScopeIn(s, x, q) = IF x = g /\ q = p THEN scope ELSE ScopeIn(o, x, q)
  <2>1. \A q \in Privs : ScopeIn(s, g, q) = row[q]
    BY <1>3 DEF ScopeIn
  <2>2. \A x : x # g => \A q \in Privs : ScopeIn(s, x, q) = ScopeIn(o, x, q)
    BY <1>3 DEF ScopeIn
  <2> QED BY <1>2, <2>1, <2>2
<1>5. ASSUME NEW x \in DOMAIN s.grants
      PROVE  DOMAIN s.grants[x] = Privs /\ \A q \in Privs : s.grants[x][q] = All \/ s.grants[x][q] \subseteq AllCols
  <2>1. CASE x = g
    <3>1. ASSUME NEW q \in Privs PROVE row[q] = All \/ row[q] \subseteq AllCols
      BY <1>2 DEF GrantsOK, ScopeIn
    <3> QED BY <1>2, <1>3, <2>1, <3>1
  <2>2. CASE x # g
    BY <1>3, <2>2 DEF GrantsOK
  <2> QED BY <2>1, <2>2
<1>6. ASSUME NEW x, NEW c, NEW q \in Privs
      PROVE  Fact(s, x, q, c) <=> c \in AllCols /\ Covers(ScopeIn(s, x, q), c)
  <2>1. Fact(o, x, q, c) <=> c \in AllCols /\ Covers(ScopeIn(o, x, q), c)
    BY DEF GrantsOK
  <2>2. CASE x = g /\ q = p
    BY <1>4, <2>2 DEF FactsFollow
  <2>3. CASE ~(x = g /\ q = p)
    BY <1>4, <2>1, <2>3 DEF FactsFollow
  <2> QED BY <2>2, <2>3
<1>7. GrantsOK(s)
  BY <1>5, <1>6 DEF GrantsOK
<1> QED BY <1>3, <1>4, <1>7

LEMMA GrantPrivsKeeps ==
  ASSUME AuthzInv, GrantPrivs PROVE AuthzInv'
<1> DEFINE New(st) == IF st.cols = All \/ Scope(st.name, st.priv) = All THEN All
                      ELSE Scope(st.name, st.priv) \cup st.cols
           Given(st) == IF st.cols = All THEN AllCols ELSE st.cols
           S(st) == [store EXCEPT !.grants = WithScope(@, st.name, st.priv, New(st)),
                                  !.facts = @ \cup {<<st.name, st.priv, c>> : c \in Given(st)}]
<1>1. PICK st \in Statement("grant") : KnownGrantee(st.name) /\ ApplyThen(S(st), NotRevoking)
  BY DEF GrantPrivs, Apply
<1> DEFINE g == st.name
           p == st.priv
           scope == New(st)
           given == Given(st)
           old == ScopeIn(store, g, p)
           s == S(st)
<1>2. p \in Privs /\ (st.cols = All \/ st.cols \subseteq AllCols)
  BY AuthWorkAssumption, InvParts DEF Statement
<1>3. old = All \/ old \subseteq AllCols
  BY <1>2, InvParts DEF GrantsOK, ScopeIn
<1>4. /\ scope = All \/ scope \subseteq AllCols
      /\ \A c \in AllCols : Covers(scope, c) <=> Covers(old, c) \/ c \in given
  <2>1. Scope(g, p) = old
    BY DEF Scope, ScopeIn
  <2> HIDE DEF old
  <2>2. scope = IF st.cols = All \/ old = All THEN All ELSE old \cup st.cols
    BY <2>1
  <2>3. given = IF st.cols = All THEN AllCols ELSE st.cols
    OBVIOUS
  <2> HIDE DEF scope, given
  <2>4. CASE st.cols = All
    BY <2>2, <2>3, <2>4 DEF Covers
  <2>5. CASE st.cols # All /\ old = All
    BY <2>2, <2>3, <2>5 DEF Covers
  <2>6. CASE st.cols # All /\ old # All
    <3>1. scope = old \cup st.cols /\ given = st.cols
      BY <2>2, <2>3, <2>6
    <3>2. scope # All /\ scope \subseteq AllCols
      BY <1>2, <1>3, <2>6, <3>1, ColumnsAssumption DEF All
    <3> QED BY <2>6, <3>1, <3>2 DEF Covers
  <2> QED BY <2>4, <2>5, <2>6
<1>5. given \subseteq AllCols
  BY <1>2
<1>6. /\ DOMAIN s = StoreFields /\ s.tokens = store.tokens /\ s.mfa = store.mfa /\ s.users = store.users
      /\ s.roles = store.roles /\ s.members = store.members
      /\ s.grants = WithScope(store.grants, g, p, scope)
      /\ s.facts = store.facts \cup {<<g, p, c>> : c \in given}
  BY InvParts DEF StoreFields
<1>7. ApplyThen(s, NotRevoking) /\ KnownGrantee(g)
  BY <1>1
<1>8. \A c : <<g, p, c>>[1] = g /\ <<g, p, c>>[2] = p /\ <<g, p, c>>[3] = c
  OBVIOUS
<1> HIDE DEF s, scope, given, old, g, p, S, New, Given
<1>9. ASSUME NEW x, NEW c, NEW q \in Privs
      PROVE  Fact(s, x, q, c) <=> Fact(store, x, q, c) \/ (x = g /\ q = p /\ c \in given)
  <2>1. ASSUME Fact(s, x, q, c) PROVE Fact(store, x, q, c) \/ (x = g /\ q = p /\ c \in given)
    <3>1. PICK f \in s.facts : f[1] = x /\ f[2] = q /\ f[3] = c
      BY <2>1 DEF Fact
    <3> QED BY <1>6, <1>8, <3>1 DEF Fact
  <2>2. ASSUME x = g, q = p, c \in given PROVE Fact(s, x, q, c)
    <3>1. <<g, p, c>> \in s.facts
      BY <1>6, <2>2
    <3> QED BY <1>8, <2>2, <3>1 DEF Fact
  <2>3. ASSUME Fact(store, x, q, c) PROVE Fact(s, x, q, c)
    BY <1>6, <2>3 DEF Fact
  <2> QED BY <2>1, <2>2, <2>3
<1>10. ASSUME NEW x, NEW c, NEW q \in Privs
       PROVE  Fact(s, x, q, c) <=> IF x = g /\ q = p THEN c \in AllCols /\ Covers(scope, c) ELSE Fact(store, x, q, c)
  <2>1. CASE x = g /\ q = p
    <3>1. Fact(store, g, p, c) <=> c \in AllCols /\ Covers(old, c)
      BY <1>2, InvParts DEF GrantsOK, old
    <3> QED BY <1>4, <1>5, <1>9, <2>1, <3>1
  <2>2. CASE ~(x = g /\ q = p)
    BY <1>9, <2>2
  <2> QED BY <2>1, <2>2
<1>11. (scope = All \/ scope \subseteq AllCols) /\ FactsFollow(store, s, g, p, scope)
  BY <1>4, <1>10 DEF FactsFollow
<1>12. GrantsOK(s) /\ DOMAIN s.grants = DOMAIN store.grants \cup {g}
  <2>1. GrantsOK(store) /\ s.grants = WithScope(store.grants, g, p, scope) /\ p \in Privs
    BY <1>2, <1>6, InvParts
  <2> QED BY <1>11, <2>1, ScopeReplaced
<1>13. NamesOK(s)
  BY <1>6, <1>7, <1>12, InvParts DEF NamesOK, KnownGrantee
<1> QED BY <1>6, <1>7, <1>12, <1>13, RightsKeep

\* A scope is narrowed to a set of columns, and its facts with it.
FactsNarrowed(o, s, g, p, scope) ==
  /\ \A x, q, c : x # g \/ q # p => (Fact(s, x, q, c) <=> Fact(o, x, q, c))
  /\ \A c : Fact(s, g, p, c) <=> c \in scope

LEMMA ScopeNarrowed ==
  ASSUME NEW o, GrantsOK(o), NEW s, NEW g, NEW p \in Privs, NEW scope, scope \subseteq AllCols,
         s.grants = WithScope(o.grants, g, p, scope), FactsNarrowed(o, s, g, p, scope)
  PROVE  GrantsOK(s) /\ DOMAIN s.grants = DOMAIN o.grants \cup {g} /\ ScopeIn(s, g, p) = scope
<1>1. scope # All
  BY ColumnsAssumption DEF All
<1>2. FactsFollow(o, s, g, p, scope)
  BY <1>1 DEF FactsFollow, FactsNarrowed, Covers
<1> QED BY <1>2, ScopeReplaced

LEMMA RevokePrivsKeeps ==
  ASSUME AuthzInv, RevokePrivs PROVE AuthzInv'
<1> DEFINE S(st) == [store EXCEPT
                      !.grants = IF st.name \in DOMAIN @ THEN WithScope(@, st.name, st.priv, {}) ELSE @,
                      !.facts = {f \in @ : ~(f[1] = st.name /\ f[2] = st.priv)}]
<1>1. PICK st \in Statement("revoke") : ApplyThen(S(st), NotRevoking)
  BY DEF RevokePrivs, Apply
<1> DEFINE g == st.name
           p == st.priv
           s == S(st)
<1>2. p \in Privs
  BY AuthWorkAssumption, InvParts DEF Statement
<1>3. /\ DOMAIN s = StoreFields /\ s.tokens = store.tokens /\ s.mfa = store.mfa /\ s.users = store.users
      /\ s.roles = store.roles /\ s.members = store.members
      /\ s.grants = IF g \in DOMAIN store.grants THEN WithScope(store.grants, g, p, {}) ELSE store.grants
      /\ s.facts = {f \in store.facts : ~(f[1] = g /\ f[2] = p)}
  BY InvParts DEF StoreFields
<1>4. ApplyThen(s, NotRevoking)
  BY <1>1
<1> HIDE DEF s, g, p, S
<1>5. /\ \A x, q, c : x # g \/ q # p => (Fact(s, x, q, c) <=> Fact(store, x, q, c))
      /\ \A c : ~Fact(s, g, p, c)
  BY <1>3 DEF Fact
<1>6. CASE g \in DOMAIN store.grants
  <2>1. s.grants = WithScope(store.grants, g, p, {})
    BY <1>3, <1>6
  <2>2. FactsNarrowed(store, s, g, p, {})
    BY <1>5 DEF FactsNarrowed
  <2>3. GrantsOK(s) /\ DOMAIN s.grants = DOMAIN store.grants \cup {g}
    <3> DEFINE none == {}
    <3>1. /\ none \subseteq AllCols /\ s.grants = WithScope(store.grants, g, p, none)
          /\ FactsNarrowed(store, s, g, p, none)
      BY <2>1, <2>2
    <3> HIDE DEF none
    <3> QED BY <1>2, <3>1, InvParts, ScopeNarrowed
  <2>4. NamesOK(s)
    BY <1>3, <1>6, <2>3, InvParts DEF NamesOK
  <2> QED BY <1>3, <1>4, <2>3, <2>4, RightsKeep
<1>7. CASE g \notin DOMAIN store.grants
  <2>1. s.grants = store.grants
    BY <1>3, <1>7
  <2>2. \A x, q : ScopeIn(s, x, q) = ScopeIn(store, x, q)
    BY <2>1 DEF ScopeIn
  <2>3. ScopeIn(store, g, p) = {} /\ \A c : ~Covers({}, c)
    BY <1>7 DEF ScopeIn, Covers, All
  <2>4. GrantsOK(s)
    <3>1. ASSUME NEW x, NEW c, NEW q \in Privs
          PROVE  Fact(s, x, q, c) <=> c \in AllCols /\ Covers(ScopeIn(s, x, q), c)
      <4>1. Fact(store, x, q, c) <=> c \in AllCols /\ Covers(ScopeIn(store, x, q), c)
        BY InvParts DEF GrantsOK
      <4>2. CASE x = g /\ q = p
        BY <1>5, <2>2, <2>3, <4>2
      <4>3. CASE ~(x = g /\ q = p)
        BY <1>5, <2>2, <4>1, <4>3
      <4> QED BY <4>2, <4>3
    <3> QED BY <2>1, <3>1, InvParts DEF GrantsOK
  <2>5. NamesOK(s)
    BY <1>3, <2>1, InvParts DEF NamesOK
  <2> QED BY <1>3, <1>4, <2>4, <2>5, RightsKeep
<1> QED BY <1>6, <1>7

LEMMA MaterializeKeeps ==
  ASSUME AuthzInv, MaterializeAllToColumns PROVE AuthzInv'
<1> DEFINE S(st) == [store EXCEPT
                      !.grants = WithScope(@, st.name, st.priv, SpellOut(All, cols)),
                      !.facts = {f \in @ : f[1] = st.name /\ f[2] = st.priv => f[3] \in cols}]
<1>1. PICK st \in Statement("revoke") :
        /\ st.cols # All
        /\ IF Scope(st.name, st.priv) = All
           THEN ApplyThen(S(st), <<st>>)
           ELSE /\ revoking' = <<st>> /\ stmts' = stmts + 1
                /\ UNCHANGED <<accountVars, cols, policies, filter, overridden>>
  BY DEF MaterializeAllToColumns
<1> DEFINE g == st.name
           p == st.priv
           s == S(st)
<1>2. p \in Privs /\ st.cols \subseteq AllCols
  BY <1>1, AuthWorkAssumption, InvParts DEF Statement
<1>3. Scope(g, p) = ScopeIn(store, g, p)
  BY DEF Scope, ScopeIn
<1>4. <<st>>[1] = st /\ cols \subseteq AllCols
  BY DEF AuthzInv
<1>5. CASE ScopeIn(store, g, p) = All
  <2>1. /\ DOMAIN s = StoreFields /\ s.tokens = store.tokens /\ s.mfa = store.mfa /\ s.users = store.users
        /\ s.roles = store.roles /\ s.members = store.members
        /\ s.grants = WithScope(store.grants, g, p, cols)
        /\ s.facts = {f \in store.facts : f[1] = g /\ f[2] = p => f[3] \in cols}
    BY InvParts DEF StoreFields, SpellOut
  <2>2. ApplyThen(s, <<st>>)
    BY <1>1, <1>3, <1>5
  <2> HIDE DEF s, g, p, S
  <2>3. /\ \A x, q, c : x # g \/ q # p => (Fact(s, x, q, c) <=> Fact(store, x, q, c))
        /\ \A c : Fact(s, g, p, c) <=> Fact(store, g, p, c) /\ c \in cols
    BY <2>1 DEF Fact
  <2>4. \A c : Fact(store, g, p, c) <=> c \in AllCols
    BY <1>2, <1>5, InvParts DEF GrantsOK, Covers
  <2>5. FactsNarrowed(store, s, g, p, cols)
    BY <1>4, <2>3, <2>4 DEF FactsNarrowed
  <2>6. GrantsOK(s) /\ DOMAIN s.grants = DOMAIN store.grants \cup {g} /\ ScopeIn(s, g, p) = cols
    BY <1>2, <1>4, <2>1, <2>5, InvParts, ScopeNarrowed
  <2>7. g \in DOMAIN store.grants /\ cols # All
    BY <1>4, <1>5, ColumnsAssumption DEF ScopeIn, All
  <2>8. NamesOK(s)
    BY <2>1, <2>6, <2>7, InvParts DEF NamesOK
  <2>9. <<st>>[1].priv \in Privs /\ <<st>>[1].cols \subseteq AllCols /\ ScopeIn(s, <<st>>[1].name, <<st>>[1].priv) # All
    BY <1>2, <1>4, <2>6, <2>7 DEF g, p
  <2> QED BY <2>1, <2>2, <2>6, <2>8, <2>9, RightsKeep
<1>6. CASE ScopeIn(store, g, p) # All
  <2>1. revoking' = <<st>> /\ UNCHANGED <<accountVars, cols, policies, filter, overridden>>
    BY <1>1, <1>3, <1>6
  <2>2. AccountsInv' /\ restarts' \in Nat
    BY <2>1, StutterKeeps DEF AuthzInv, accountVars
  <2>3. cols' \subseteq AllCols /\ FiltersOK'
    BY <2>1 DEF AuthzInv, FiltersOK, FilterFrom, Joined, Governs
  <2>4. store' = store /\ disk' = disk
    BY <2>1 DEF accountVars
  <2>5. RevokingOK'
    <3>1. revoking'[1] = st
      BY <1>4, <2>1
    <3>2. st.priv \in Privs /\ st.cols \subseteq AllCols /\ ScopeIn(store, st.name, st.priv) # All
      BY <1>2, <1>6
    <3> HIDE DEF g, p
    <3> QED BY <2>4, <3>1, <3>2 DEF RevokingOK, ScopeIn
  <2> QED BY <2>2, <2>3, <2>4, <2>5 DEF AuthzInv, NamesOK, GrantsOK, Fact, ScopeIn
<1> QED BY <1>5, <1>6

LEMMA RevokeColumnsKeeps ==
  ASSUME AuthzInv, RevokeColumns PROVE AuthzInv'
<1> DEFINE st == revoking[1]
           g == st.name
           p == st.priv
           old == ScopeIn(store, g, p)
           s == [store EXCEPT
                  !.grants = IF old \in {{}, All} THEN @ ELSE WithScope(@, g, p, old \ st.cols),
                  !.facts = {f \in @ : ~(f[1] = g /\ f[2] = p /\ f[3] \in st.cols)}]
<1>1. p \in Privs /\ st.cols \subseteq AllCols /\ old # All
  BY DEF RevokeColumns, AuthzInv, RevokingOK
<1>2. ApplyThen(s, NotRevoking)
  <2>1. Scope(g, p) = old
    BY DEF Scope, ScopeIn
  <2> HIDE DEF old
  <2> QED BY <2>1 DEF RevokeColumns, Apply
<1>3. /\ DOMAIN s = StoreFields /\ s.tokens = store.tokens /\ s.mfa = store.mfa /\ s.users = store.users
      /\ s.roles = store.roles /\ s.members = store.members
      /\ s.grants = IF old \in {{}, All} THEN store.grants ELSE WithScope(store.grants, g, p, old \ st.cols)
      /\ s.facts = {f \in store.facts : ~(f[1] = g /\ f[2] = p /\ f[3] \in st.cols)}
  BY InvParts DEF StoreFields
<1>4. /\ \A c : Fact(store, g, p, c) <=> c \in AllCols /\ Covers(old, c)
      /\ old \subseteq AllCols
  BY <1>1, InvParts DEF GrantsOK, ScopeIn
<1>5. old = {} \/ g \in DOMAIN store.grants
  BY DEF ScopeIn
<1>6. \A x, q : ScopeIn(store, x, q) = IF x \in DOMAIN store.grants THEN store.grants[x][q] ELSE {}
  BY DEF ScopeIn
<1>7. old = ScopeIn(store, g, p)
  OBVIOUS
<1> HIDE DEF s, g, p, old
<1>8. /\ \A x, q, c : x # g \/ q # p => (Fact(s, x, q, c) <=> Fact(store, x, q, c))
      /\ \A c : Fact(s, g, p, c) <=> Fact(store, g, p, c) /\ c \notin st.cols
  BY <1>3 DEF Fact
<1>9. \A c : Fact(s, g, p, c) <=> c \in old \ st.cols
  BY <1>1, <1>4, <1>8 DEF Covers
<1>10. CASE old # {}
  <2>1. s.grants = WithScope(store.grants, g, p, old \ st.cols) /\ old \ st.cols \subseteq AllCols
    BY <1>1, <1>3, <1>4, <1>10
  <2>2. GrantsOK(s) /\ DOMAIN s.grants = DOMAIN store.grants \cup {g}
    <3> DEFINE left == old \ st.cols
    <3>1. \A c : Fact(s, g, p, c) <=> c \in left
      BY <1>9
    <3>2. left \subseteq AllCols /\ s.grants = WithScope(store.grants, g, p, left)
      BY <2>1
    <3> HIDE DEF left
    <3>3. FactsNarrowed(store, s, g, p, left)
      BY <1>8, <3>1 DEF FactsNarrowed
    <3> QED BY <1>1, <3>2, <3>3, InvParts, ScopeNarrowed
  <2>3. NamesOK(s)
    BY <1>3, <1>5, <1>10, <2>2, InvParts DEF NamesOK
  <2> QED BY <1>2, <1>3, <2>2, <2>3, RightsKeep
<1>11. CASE old = {}
  <2>1. s.grants = store.grants
    BY <1>3, <1>11
  <2>2. \A x, q : ScopeIn(s, x, q) = ScopeIn(store, x, q)
    BY <1>6, <2>1 DEF ScopeIn
  <2>3. \A x, q, c : Fact(s, x, q, c) <=> Fact(store, x, q, c)
    BY <1>4, <1>8, <1>9, <1>11, <1>1 DEF Covers
  <2>4. GrantsOK(s)
    BY <2>1, <2>2, <2>3, InvParts DEF GrantsOK
  <2>5. NamesOK(s)
    BY <1>3, <2>1, InvParts DEF NamesOK
  <2> QED BY <1>2, <1>3, <2>4, <2>5, RightsKeep
<1> QED BY <1>10, <1>11
-----------------------------------------------------------------------------
(* Columns and policies. *)
LEMMA AddColumnKeeps ==
  ASSUME AuthzInv, AddColumn PROVE AuthzInv'
<1>1. UNCHANGED <<accountVars, policies, filter, overridden, revoking>>
  BY DEF AddColumn
<1>2. cols' \subseteq AllCols
  BY AuthWorkAssumption, InvParts DEF AddColumn, Statement, AuthzInv
<1>3. AccountsInv' /\ restarts' \in Nat /\ store' = store /\ disk' = disk
  BY <1>1, StutterKeeps DEF AuthzInv, accountVars
<1>4. FiltersOK' /\ RevokingOK'
  BY <1>1, <1>3 DEF AuthzInv, FiltersOK, FilterFrom, Joined, Governs, RevokingOK, ScopeIn
<1> QED BY <1>2, <1>3, <1>4 DEF AuthzInv, NamesOK, GrantsOK, Fact, ScopeIn

LEMMA CatalogKeeps ==
  ASSUME AuthzInv, NEW f, NEW ps, NEW ov, CatalogOnly(f, ps, ov), DOMAIN f = Ops,
         \A o \in Ops : ~(ov /\ o = "select") => f[o] = FilterFrom(ps)[o]
  PROVE  AuthzInv'
<1>1. /\ UNCHANGED <<accountVars, cols, revoking>>
      /\ policies' = ps /\ filter' = f /\ overridden' = ov
  BY DEF CatalogOnly
<1>2. AccountsInv' /\ restarts' \in Nat /\ store' = store /\ disk' = disk /\ cols' = cols
  BY <1>1, StutterKeeps DEF AuthzInv, accountVars
<1>3. FiltersOK'
  BY <1>1 DEF FiltersOK, FilterFrom, Joined, Governs
<1>4. RevokingOK'
  BY <1>1, <1>2 DEF AuthzInv, RevokingOK, ScopeIn
<1>5. NamesOK(store') /\ NamesOK(disk') /\ GrantsOK(store') /\ GrantsOK(disk') /\ cols' \subseteq AllCols
  BY <1>2 DEF AuthzInv
<1> HIDE DEF FiltersOK, RevokingOK
<1> QED BY <1>2, <1>3, <1>4, <1>5 DEF AuthzInv, NamesOK, GrantsOK, Fact, ScopeIn

LEMMA PolicyStepKeeps ==
  ASSUME AuthzInv, CreatePolicy \/ DropPolicy \/ SetRlsPolicy PROVE AuthzInv'
<1>1. CASE CreatePolicy
  <2> DEFINE F(st) == [o \in Ops |-> filter[o] \cup IF Joined(st.pol, o) THEN {st.pol.expr} ELSE {}]
  <2>1. PICK st \in Statement("create_policy") : CatalogOnly(F(st), policies \cup {st.pol}, overridden)
    BY <1>1 DEF CreatePolicy
  <2>2. ASSUME NEW o \in Ops, ~(overridden /\ o = "select")
        PROVE  F(st)[o] = FilterFrom(policies \cup {st.pol})[o]
    <3>1. filter[o] = {q.expr : q \in {q \in policies : Joined(q, o)}}
      BY <2>2 DEF AuthzInv, FiltersOK, FilterFrom
    <3> QED BY <3>1 DEF FilterFrom
  <2>3. DOMAIN F(st) = Ops
    OBVIOUS
  <2> HIDE DEF F
  <2> QED BY <2>1, <2>2, <2>3, CatalogKeeps
<1>2. CASE DropPolicy
  <2>1. PICK ps : CatalogOnly(FilterFrom(ps), ps, FALSE)
    BY <1>2 DEF DropPolicy
  <2>2. DOMAIN FilterFrom(ps) = Ops
    BY DEF FilterFrom
  <2> QED BY <2>1, <2>2, CatalogKeeps
<1>3. CASE SetRlsPolicy
  <2>1. PICK st \in Statement("set_rls") :
          CatalogOnly([filter EXCEPT !["select"] = {st.expr}], policies, TRUE)
    BY <1>3 DEF SetRlsPolicy
  <2> DEFINE f == [filter EXCEPT !["select"] = {st.expr}]
  <2>2. DOMAIN f = Ops /\ \A o \in Ops : o # "select" => f[o] = filter[o]
    BY DEF AuthzInv, FiltersOK
  <2> DEFINE ov == TRUE
  <2>3. \A o \in Ops : ~(ov /\ o = "select") => f[o] = FilterFrom(policies)[o]
    BY <2>2 DEF AuthzInv, FiltersOK
  <2>4. CatalogOnly(f, policies, ov)
    BY <2>1
  <2> HIDE DEF f, ov
  <2> QED BY <2>2, <2>3, <2>4, CatalogKeeps
<1> QED BY <1>1, <1>2, <1>3
-----------------------------------------------------------------------------
LEMMA AuthzInitEstablishes == AuthzInit => AuthzInv
<1> SUFFICES ASSUME AuthzInit PROVE AuthzInv
  OBVIOUS
<1>1. AccountsInv /\ restarts \in Nat
  BY InitEstablishes, BoundAssumption DEF AuthzInit, Init
<1>2. /\ disk = store /\ store.roles = {} /\ store.members = <<>> /\ store.grants = <<>> /\ store.facts = {}
      /\ cols = FirstCols /\ policies = {} /\ filter = NoFilter /\ revoking = NotRevoking
  BY DEF AuthzInit, Init
<1>3. NamesOK(store)
  BY <1>2 DEF NamesOK
<1>4. GrantsOK(store)
  <2>1. \A g, p : ScopeIn(store, g, p) = {}
    BY <1>2 DEF ScopeIn
  <2>2. \A c : ~Covers({}, c)
    BY DEF Covers, All
  <2>3. \A g, p, c : ~Fact(store, g, p, c)
    BY <1>2 DEF Fact
  <2>4. DOMAIN store.grants = {}
    BY <1>2
  <2> QED BY <2>1, <2>2, <2>3, <2>4 DEF GrantsOK
<1>5. FiltersOK
  BY <1>2 DEF FiltersOK, FilterFrom, NoFilter
<1>6. RevokingOK /\ cols \subseteq AllCols
  BY <1>2, ColumnsAssumption DEF RevokingOK
<1> QED BY <1>1, <1>2, <1>3, <1>4, <1>5, <1>6 DEF AuthzInv

LEMMA AuthzStepKeeps == AuthzInv /\ [AuthzNext]_<<accountVars, authzVars>> => AuthzInv'
<1> SUFFICES ASSUME AuthzInv, [AuthzNext]_<<accountVars, authzVars>> PROVE AuthzInv'
  OBVIOUS
<1>1. CASE AuthzNext
  BY <1>1, AccountStepKeeps, CreateRoleKeeps, DropRoleKeeps, CreateUserStmtKeeps, DropUserStmtKeeps,
     GrantRoleKeeps, RevokeRoleKeeps, GrantPrivsKeeps, RevokePrivsKeeps, MaterializeKeeps,
     RevokeColumnsKeeps, AddColumnKeeps, PolicyStepKeeps
  DEF AuthzNext
<1>2. CASE UNCHANGED <<accountVars, authzVars>>
  <2>1. AccountsInv' /\ UNCHANGED <<restarts, store, disk, cols, policies, filter, overridden, revoking>>
    BY <1>2, StutterKeeps DEF AuthzInv, accountVars, authzVars
  <2>2. FiltersOK' /\ RevokingOK'
    BY <2>1 DEF AuthzInv, FiltersOK, FilterFrom, Joined, Governs, RevokingOK, ScopeIn
  <2> QED BY <2>1, <2>2 DEF AuthzInv, NamesOK, GrantsOK, Fact, ScopeIn
<1> QED BY <1>1, <1>2

\* Every reachable state satisfies the invariant, whatever statements, requests,
\* failed writes and restarts have led to it (RoleStore, create_policy_inner).
THEOREM AuthzInvariance == AuthzSpec => []AuthzInv
BY AuthzInitEstablishes, AuthzStepKeeps, PTL DEF AuthzSpec

\* Sessions stay sound and a superuser stays while authorization statements
\* run beside the handlers (DROP USER, CREATE USER in RoleStore::apply).
THEOREM AccountsStaySound == AuthzSpec => [](SuperuserRemains /\ SessionsSound)
<1>1. AuthzInv => SuperuserRemains /\ SessionsSound
  BY InvariantImplies DEF AuthzInv
<1> QED BY <1>1, AuthzInvariance, PTL

\* No grant and no membership outlives the user or role it belongs to
\* (RoleStore::apply).
THEOREM NothingOutlivesItsName == AuthzSpec => []GranteesExist
BY AuthzInvariance, InvGivesGranteesExist, PTL

\* A user sees the rows some policy lets it see, through any chain of roles
\* (create_policy_inner, drop_policy_inner, transitive_roles_for).
THEOREM PoliciesDecideRows == AuthzSpec => []PolicyFilter
BY AuthzInvariance, InvGivesPolicyFilter, PTL

\* A statement is admitted, and a change delivered, exactly as far as what was
\* granted and not revoked since reaches (check_plan_privileges,
\* resolve_column_grant, materialize_all_to_columns).
THEOREM DecisionsFollowGrants == AuthzSpec => []DecisionsExact
BY AuthzInvariance, InvGivesDecisionsExact, PTL
=============================================================================
