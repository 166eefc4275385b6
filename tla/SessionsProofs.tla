--------------------------- MODULE SessionsProofs ---------------------------
(***************************************************************************)
(* Theorems about Sessions, for every set of requests, tokens, links and    *)
(* passwords.                                                               *)
(***************************************************************************)
EXTENDS Sessions, TLAPS

-----------------------------------------------------------------------------
(* Type correctness.  Only what a registered user asked for is under way. *)

NeedUser == {"issue", "refresh", "rotate", "revoke"}
TypeInv == /\ TypeOK
           /\ \A r \in Requests : request[r].step \in NeedUser => registered

\* The fields a request has at each step.
LEMMA RequestFields ==
  ASSUME NEW q \in Request
  PROVE  /\ q.step = "register" => q.password \in Passwords
         /\ q.step = "refresh" => q.token \in Tokens
         /\ q.step \in {"rotate", "revoke"} =>
              q.next \in Passwords /\ q.by \in Links \cup {NoToken} /\ q.old \subseteq Tokens
         /\ q.step = "revoke" => q.seen \subseteq Tokens
         /\ q.step \in {"idle", "issue", "register", "refresh", "rotate", "revoke"}
  BY DEF Request, Idle, Issue

LEMMA InitTypeInv == Init => TypeInv
  <1> SUFFICES ASSUME Init PROVE TypeInv
    OBVIOUS
  <1>1. request \in [Requests -> Request] /\ \A r \in Requests : request[r].step = "idle"
    BY DEF Init, Request, Idle
  <1>2. /\ registered \in BOOLEAN /\ password \in Passwords
        /\ token \in [Tokens -> {"none", "live", "revoked", "expired"}] /\ Issued = {}
        /\ link \in [Links -> {"none", "outstanding", "consumed", "expired"}]
        /\ parent \in [Tokens -> Tokens \cup {NoToken}]
        /\ closed \subseteq Tokens /\ resets \in [Links -> Nat]
    BY DEF Init, Issued
  <1>3. \A k \in Links : link[k] = "none"
    BY DEF Init
  <1>4. QED BY <1>1, <1>2, <1>3 DEF TypeInv, TypeOK, NeedUser

LEMMA NextTypeInv == TypeInv /\ [Next]_vars => TypeInv'
  <1> SUFFICES ASSUME TypeInv, [Next]_vars PROVE TypeInv'
    OBVIOUS
  <1> USE DEF TypeInv, TypeOK, Issued, Live, history, tables
  <1>1. ASSUME NEW r \in Requests, NEW p \in Passwords, CheckEmail(r, p) PROVE TypeInv'
    BY <1>1 DEF CheckEmail, Request, NeedUser
  <1>2. ASSUME NEW r \in Requests, NEW p \in Passwords, Login(r, p) PROVE TypeInv'
    BY <1>2 DEF Login, Request, NeedUser, Issue
  <1>3. ASSUME NEW r \in Requests, NEW t \in Tokens, CreateRefreshToken(r, t) PROVE TypeInv'
    BY <1>3 DEF CreateRefreshToken, Request, NeedUser, Idle
  <1>4. ASSUME NEW r \in Requests, NEW t \in Tokens, Logout(r, t) PROVE TypeInv'
    BY <1>4 DEF Logout
  <1>5. ASSUME NEW r \in Requests, NEW t \in Tokens, ConsumeRefreshToken(r, t) PROVE TypeInv'
    BY <1>5 DEF ConsumeRefreshToken, Consumable, Request, NeedUser
  <1>6. ASSUME NEW r \in Requests, NEW t \in Tokens, CommitRefresh(r, t) PROVE TypeInv'
    BY <1>6, RequestFields DEF CommitRefresh, Request, NeedUser, Idle
  <1>7. ASSUME NEW r \in Requests, NEW k \in Links, NEW p \in Passwords, ResetPassword(r, k, p)
        PROVE  TypeInv'
    BY <1>7 DEF ResetPassword, Usable, Rotate, Request, NeedUser
  <1>8. ASSUME NEW r \in Requests, NEW p \in Passwords, NEW q \in Passwords,
               ChangePassword(r, p, q)
        PROVE  TypeInv'
    BY <1>8 DEF ChangePassword, Rotate, Request, NeedUser
  <1>9. ASSUME NEW r \in Requests, CreateUser(r) PROVE TypeInv'
    BY <1>9, RequestFields DEF CreateUser, Request, NeedUser, Issue
  <1>10. ASSUME NEW r \in Requests, UpdateUserPassword(r) PROVE TypeInv'
    <2>1. /\ request[r].next \in Passwords /\ request[r].by \in Links \cup {NoToken}
          /\ request[r].old \subseteq Tokens
      BY <1>10, RequestFields DEF UpdateUserPassword
    <2>2. request'[r] \in Request /\ request'[r].step = "revoke"
      BY <1>10, <2>1 DEF UpdateUserPassword, Request
    <2>3. QED BY <1>10, <2>2 DEF UpdateUserPassword, NeedUser
  <1>11. ASSUME NEW r \in Requests, CommitPassword(r) PROVE TypeInv'
    <2>1. /\ request[r].next \in Passwords /\ request[r].by \in Links \cup {NoToken}
          /\ request[r].seen \subseteq Tokens /\ registered
      BY <1>11, RequestFields DEF CommitPassword, NeedUser
    <2>2. resets' \in [Links -> Nat]
      BY <1>11, <2>1 DEF CommitPassword
    <2>3. request' \in [Requests -> Request]
      BY <1>11 DEF CommitPassword, Request
    <2>4. token' \in [Tokens -> {"none", "live", "revoked", "expired"}]
      BY <1>11 DEF CommitPassword, Revoked
    <2>5. QED BY <1>11, <2>1, <2>2, <2>3, <2>4 DEF CommitPassword, Unrevoked
  <1>12. ASSUME NEW r \in Requests, Fail(r) PROVE TypeInv'
    BY <1>12 DEF Fail, Request, NeedUser, Idle
  <1>13. ASSUME NEW t \in Tokens, TokenExpires(t) PROVE TypeInv'
    BY <1>13 DEF TokenExpires
  <1>14. ASSUME NEW k \in Links, IssueResetLink(k) PROVE TypeInv'
    BY <1>14 DEF IssueResetLink, MayIssueLink
  <1>15. ASSUME NEW k \in Links, LinkExpires(k) PROVE TypeInv'
    BY <1>15 DEF LinkExpires
  <1>16. CASE UNCHANGED vars
    BY <1>16 DEF vars
  <1>17. QED
    BY <1>1, <1>2, <1>3, <1>4, <1>5, <1>6, <1>7, <1>8, <1>9, <1>10, <1>11, <1>12, <1>13,
       <1>14, <1>15, <1>16 DEF Next

(* The tables of a user stay well formed: backend/db/migrations/00002_auth.sql. *)
THEOREM TypeCorrect == Spec => []TypeOK
  <1>1. TypeInv => TypeOK
    BY DEF TypeInv
  <1>2. QED BY <1>1, InitTypeInv, NextTypeInv, PTL DEF Spec

-----------------------------------------------------------------------------
(* A reset link. *)

UsedBy(r, k) == request[r].step \in {"rotate", "revoke"} /\ request[r].by = k

\* One request holds a consumed link, and a link that still works has set no password.
LinkInv == \A k \in Links :
             /\ resets[k] <= 1
             /\ link[k] \in {"none", "outstanding"} => resets[k] = 0
             /\ \A r \in Requests : UsedBy(r, k) =>
                  /\ resets[k] = 0 /\ link[k] \in {"consumed", "expired"}
                  /\ \A s \in Requests : UsedBy(s, k) => s = r

LEMMA InitLinkInv == Init => LinkInv
  BY DEF Init, LinkInv, UsedBy, Idle

\* A step after which no request uses a link it did not use, and that leaves links alone.
LEMMA LinkFrame ==
  ASSUME LinkInv, UNCHANGED <<link, resets>>,
         \A k \in Links, s \in Requests : UsedBy(s, k)' => UsedBy(s, k)
  PROVE  LinkInv'
  BY DEF LinkInv

LEMMA NextLinkInv == TypeInv /\ LinkInv /\ [Next]_vars => LinkInv'
  <1> SUFFICES ASSUME TypeInv, LinkInv, [Next]_vars PROVE LinkInv'
    OBVIOUS
  <1>0. /\ request \in [Requests -> Request] /\ resets \in [Links -> Nat]
        /\ link \in [Links -> {"none", "outstanding", "consumed", "expired"}]
    BY DEF TypeInv, TypeOK
  <1>1. ASSUME NEW r \in Requests, NEW k \in Links, NEW p \in Passwords, ResetPassword(r, k, p)
        PROVE  LinkInv'
    <2>1. /\ link[k] = "outstanding" /\ link' = [link EXCEPT ![k] = "consumed"]
          /\ resets' = resets
      BY <1>1 DEF ResetPassword, Usable, history
    <2>2. \A s \in Requests, j \in Links : UsedBy(s, j)' <=> IF s = r THEN j = k ELSE UsedBy(s, j)
      BY <1>0, <1>1 DEF ResetPassword, Rotate, UsedBy
    <2>3. \A s \in Requests : ~UsedBy(s, k)
      BY <2>1 DEF LinkInv
    <2>4. \A j \in Links : ~UsedBy(r, j)
      BY <1>1 DEF ResetPassword, UsedBy, Idle
    <2>5. QED BY <1>0, <2>1, <2>2, <2>3, <2>4 DEF LinkInv
  <1>2. ASSUME NEW r \in Requests, CommitPassword(r) PROVE LinkInv'
    <2>1. \A s \in Requests, j \in Links : UsedBy(s, j)' <=> s # r /\ UsedBy(s, j)
      BY <1>0, <1>2 DEF CommitPassword, UsedBy, Idle, Issue
    <2>2. CASE request[r].by = NoToken
      BY <1>2, <2>1, <2>2, LinkFrame DEF CommitPassword
    <2>3. CASE request[r].by # NoToken
      <3>1. PICK k \in Links : k = request[r].by
        BY <1>0, <1>2, <2>3, RequestFields DEF CommitPassword
      <3>2. UsedBy(r, k) /\ link' = link /\ resets' = [resets EXCEPT ![k] = @ + 1]
        BY <1>2, <2>3, <3>1 DEF CommitPassword, UsedBy
      <3>3. resets'[k] = 1 /\ link[k] \in {"consumed", "expired"}
            /\ \A s \in Requests : ~UsedBy(s, k)'
        <4>1. resets[k] = 0 /\ link[k] \in {"consumed", "expired"}
              /\ \A s \in Requests : UsedBy(s, k) => s = r
          BY <3>1, <3>2 DEF LinkInv
        <4>2. resets'[k] = resets[k] + 1
          BY <1>0, <3>1, <3>2
        <4>3. QED BY <2>1, <3>1, <4>1, <4>2
      <3>4. \A j \in Links \ {k} : resets'[j] = resets[j]
        BY <1>0, <3>1, <3>2
      <3>5. QED BY <2>1, <3>2, <3>3, <3>4 DEF LinkInv
    <2>4. QED BY <2>2, <2>3
  <1>3. ASSUME NEW k \in Links, IssueResetLink(k) \/ LinkExpires(k) PROVE LinkInv'
    <2>1. /\ UNCHANGED <<request, resets>>
          /\ \A j \in Links \ {k} : link'[j] = link[j]
          /\ \/ link[k] = "none" /\ link'[k] = "outstanding"
             \/ link[k] \in {"outstanding", "consumed"} /\ link'[k] = "expired"
      BY <1>0, <1>3 DEF IssueResetLink, MayIssueLink, LinkExpires, history
    <2>2. \A s \in Requests, j \in Links : UsedBy(s, j)' <=> UsedBy(s, j)
      BY <2>1 DEF UsedBy
    <2>3. QED BY <2>1, <2>2 DEF LinkInv
  <1>4. ASSUME NEW r \in Requests, UpdateUserPassword(r) PROVE LinkInv'
    <2>1. \A k \in Links, s \in Requests : UsedBy(s, k)' => UsedBy(s, k)
      BY <1>0, <1>4 DEF UpdateUserPassword, UsedBy
    <2>2. QED BY <1>4, <2>1, LinkFrame DEF UpdateUserPassword, tables, history
  <1>5. ASSUME NEW r \in Requests, NEW p \in Passwords, NEW q \in Passwords,
               ChangePassword(r, p, q)
        PROVE  LinkInv'
    <2>1. \A k \in Links, s \in Requests : UsedBy(s, k)' => UsedBy(s, k)
      BY <1>0, <1>5, NoTokenAssumption DEF ChangePassword, Rotate, UsedBy
    <2>2. QED BY <1>5, <2>1, LinkFrame DEF ChangePassword, tables, history
  <1>6. ASSUME NEW r \in Requests, UNCHANGED <<link, resets>>,
               \A s \in Requests \ {r} : request'[s] = request[s],
               request'[r].step \in {"idle", "register", "issue", "refresh"}
        PROVE  LinkInv'
    BY <1>6, LinkFrame DEF UsedBy
  <1>11. ASSUME NEW r \in Requests, CreateUser(r) \/ Fail(r) PROVE LinkInv'
    BY <1>0, <1>6, <1>11 DEF CreateUser, Fail, Idle, Issue, tables, history
  <1>12. ASSUME NEW r \in Requests, NEW p \in Passwords, CheckEmail(r, p) \/ Login(r, p)
         PROVE  LinkInv'
    BY <1>0, <1>6, <1>12 DEF CheckEmail, Login, Issue, tables, history
  <1>13. ASSUME NEW r \in Requests, NEW t \in Tokens,
                \/ CreateRefreshToken(r, t) \/ ConsumeRefreshToken(r, t) \/ CommitRefresh(r, t)
         PROVE  LinkInv'
    BY <1>0, <1>6, <1>13
       DEF CreateRefreshToken, ConsumeRefreshToken, CommitRefresh, Idle, tables, history
  <1>7. ASSUME UNCHANGED <<link, resets, request>> PROVE LinkInv'
    BY <1>7, LinkFrame DEF UsedBy
  <1>8. ASSUME NEW t \in Tokens, TokenExpires(t) \/ \E r \in Requests : Logout(r, t)
        PROVE  LinkInv'
    BY <1>7, <1>8 DEF Logout, TokenExpires, history
  <1>9. CASE UNCHANGED vars
    BY <1>7, <1>9 DEF vars, tables, history
  <1>10. QED
    BY <1>1, <1>2, <1>3, <1>4, <1>5, <1>8, <1>9, <1>11, <1>12, <1>13 DEF Next

(* A reset link sets one password at most, however many requests present it: Redis marks
   it consumed in one step (consumeResetTokenScript), before the password is set.        *)
THEOREM ResetLinkIsForOneUse == Spec => []LinkSetsOnePassword
  <1>1. LinkInv => LinkSetsOnePassword
    BY DEF LinkInv, LinkSetsOnePassword
  <1>2. QED BY <1>1, InitTypeInv, NextTypeInv, InitLinkInv, NextLinkInv, PTL DEF Spec

-----------------------------------------------------------------------------
(* A new password.  RevokeAllUserRefreshTokens starts after the request has, and no row
   of refresh_tokens is ever deleted: it sees every token the request began with.       *)

SeenInv == \A r \in Requests :
             /\ request[r].step \in {"rotate", "revoke"} => request[r].old \subseteq Issued
             /\ request[r].step = "revoke" =>
                  request[r].old \subseteq request[r].seen /\ request[r].seen \subseteq Issued

LEMMA InitSeenInv == Init => SeenInv
  BY DEF Init, SeenInv, Idle

\* No step takes a token out of the table.
LEMMA TokensStay == TypeInv /\ [Next]_vars => Issued \subseteq Issued'
  <1> SUFFICES ASSUME TypeInv, [Next]_vars, NEW t \in Tokens, token[t] # "none"
               PROVE  token'[t] # "none"
    BY DEF Issued
  <1>0. token \in [Tokens -> {"none", "live", "revoked", "expired"}]
    BY DEF TypeInv, TypeOK
  <1>1. ASSUME NEW r \in Requests, NEW u \in Tokens,
               CreateRefreshToken(r, u) \/ Logout(r, u) \/ CommitRefresh(r, u)
        PROVE  token'[t] # "none"
    BY <1>0, <1>1 DEF CreateRefreshToken, Logout, CommitRefresh
  <1>2. ASSUME NEW r \in Requests, CommitPassword(r) PROVE token'[t] # "none"
    BY <1>0, <1>2 DEF CommitPassword, Revoked
  <1>3. ASSUME NEW u \in Tokens, TokenExpires(u) PROVE token'[t] # "none"
    BY <1>0, <1>3 DEF TokenExpires
  <1>4. CASE UNCHANGED token
    BY <1>4
  <1>5. QED
    BY <1>1, <1>2, <1>3, <1>4
       DEF Next, CheckEmail, Login, ConsumeRefreshToken, ResetPassword, ChangePassword, CreateUser,
           UpdateUserPassword, Fail, IssueResetLink, LinkExpires, vars, tables

\* What a step makes of the request that takes it; the others stay as they are.
LEMMA RequestStep ==
  ASSUME TypeInv, [Next]_vars
  PROVE  \A r \in Requests :
           \/ request'[r] = request[r]
           \/ request'[r].step \in {"idle", "issue", "register", "refresh"}
           \/ request'[r].step = "rotate" /\ request'[r].old = Live
           \/ /\ request[r].step = "rotate" /\ request'[r].step = "revoke"
              /\ request'[r].old = request[r].old /\ request'[r].seen = Issued
  <1> DEFINE Step(r) == \/ request'[r] = request[r]
                        \/ request'[r].step \in {"idle", "issue", "register", "refresh"}
                        \/ request'[r].step = "rotate" /\ request'[r].old = Live
                        \/ /\ request[r].step = "rotate" /\ request'[r].step = "revoke"
                           /\ request'[r].old = request[r].old /\ request'[r].seen = Issued
  <1>0. DOMAIN request = Requests
    BY DEF TypeInv, TypeOK
  <1>1. ASSUME NEW s \in Requests, NEW p \in Passwords, CheckEmail(s, p) \/ Login(s, p)
        PROVE  \A r \in Requests : Step(r)
    BY <1>0, <1>1 DEF CheckEmail, Login, Issue
  <1>2. ASSUME NEW s \in Requests, NEW t \in Tokens,
               \/ CreateRefreshToken(s, t) \/ Logout(s, t)
               \/ ConsumeRefreshToken(s, t) \/ CommitRefresh(s, t)
        PROVE  \A r \in Requests : Step(r)
    BY <1>0, <1>2 DEF CreateRefreshToken, Logout, ConsumeRefreshToken, CommitRefresh, Idle
  <1>3. ASSUME NEW s \in Requests, NEW k \in Links, NEW p \in Passwords, ResetPassword(s, k, p)
        PROVE  \A r \in Requests : Step(r)
    BY <1>0, <1>3 DEF ResetPassword, Rotate
  <1>4. ASSUME NEW s \in Requests, NEW p \in Passwords, NEW q \in Passwords,
               ChangePassword(s, p, q)
        PROVE  \A r \in Requests : Step(r)
    BY <1>0, <1>4 DEF ChangePassword, Rotate
  <1>5. ASSUME NEW s \in Requests, UpdateUserPassword(s) PROVE \A r \in Requests : Step(r)
    BY <1>0, <1>5 DEF UpdateUserPassword
  <1>6. ASSUME NEW s \in Requests, CreateUser(s) \/ CommitPassword(s) \/ Fail(s)
        PROVE  \A r \in Requests : Step(r)
    BY <1>0, <1>6 DEF CreateUser, CommitPassword, Fail, Idle, Issue
  <1>7. CASE UNCHANGED request
    BY <1>7
  <1>8. QED
    BY <1>1, <1>2, <1>3, <1>4, <1>5, <1>6, <1>7
       DEF Next, TokenExpires, IssueResetLink, LinkExpires, vars

LEMMA NextSeenInv == TypeInv /\ SeenInv /\ [Next]_vars => SeenInv'
  <1> SUFFICES ASSUME TypeInv, SeenInv, [Next]_vars, NEW r \in Requests
               PROVE  /\ request'[r].step \in {"rotate", "revoke"} => request'[r].old \subseteq Issued'
                      /\ request'[r].step = "revoke" =>
                           /\ request'[r].old \subseteq request'[r].seen
                           /\ request'[r].seen \subseteq Issued'
    BY DEF SeenInv
  <1>1. Issued \subseteq Issued' /\ Live \subseteq Issued
    BY TokensStay DEF Live, Issued
  <1>2. CASE request'[r] = request[r]
    BY <1>1, <1>2 DEF SeenInv
  <1>3. CASE request'[r].step \in {"idle", "issue", "register", "refresh"}
    BY <1>3
  <1>4. CASE request'[r].step = "rotate" /\ request'[r].old = Live
    BY <1>1, <1>4
  <1>5. CASE /\ request[r].step = "rotate" /\ request'[r].step = "revoke"
             /\ request'[r].old = request[r].old /\ request'[r].seen = Issued
    BY <1>1, <1>5 DEF SeenInv
  <1>6. QED BY <1>2, <1>3, <1>4, <1>5, RequestStep

(* A new password ends every session whose token worked when ChangePassword or ResetPassword
   began: UpdateUserPassword and RevokeAllUserRefreshTokens are one transaction.            *)
THEOREM NewPasswordEndsSessions == Spec => NewPasswordEndsOldTokens
  <1>1. ASSUME TypeInv, SeenInv, NEW r \in Requests, CommitPassword(r)
        PROVE  \A t \in request[r].old : token'[t] # "live"
    <2>1. request[r].old \subseteq request[r].seen /\ request[r].old \subseteq Tokens
      BY <1>1 DEF SeenInv, CommitPassword, Issued
    <2>2. \A t \in Tokens : t \in request[r].seen => token'[t] = "revoked"
      BY <1>1 DEF CommitPassword, Revoked
    <2>3. QED BY <2>1, <2>2
  <1>2. TypeInv /\ SeenInv /\ [Next]_vars
          => [\A r \in Requests :
                CommitPassword(r) => \A t \in request[r].old : token'[t] # "live"]_vars
    BY <1>1
  <1>3. QED
    BY <1>2, InitTypeInv, NextTypeInv, InitSeenInv, NextSeenInv, PTL
       DEF Spec, NewPasswordEndsOldTokens

-----------------------------------------------------------------------------
(* A session is one chain of tokens.  The transaction that uses a token up has its row
   locked: it alone holds the token, which is neither revoked nor replaced so far.      *)

LockInv == \A r \in Requests : request[r].step = "refresh" =>
             /\ token[request[r].token] \in {"live", "expired"}
             /\ \A s \in Requests :
                  request[s].step = "refresh" /\ request[s].token = request[r].token => s = r
ChainInv == /\ SessionHasOneToken
            /\ \A t \in Tokens : /\ t \in closed => token[t] = "revoked"
                                 /\ token[t] = "none" => parent[t] = NoToken

LEMMA InitChainInv == Init => LockInv /\ ChainInv
  <1> SUFFICES ASSUME Init PROVE LockInv /\ ChainInv
    OBVIOUS
  <1>1. LockInv
    BY DEF Init, LockInv, Idle
  <1>2. \A t \in Tokens : Successors(t) = {} /\ token[t] = "none" /\ parent[t] = NoToken
    BY NoTokenAssumption DEF Init, Successors
  <1>3. closed = {}
    BY DEF Init
  <1>4. QED BY <1>1, <1>2, <1>3 DEF ChainInv, SessionHasOneToken

\* Neither invariant is about a step that leaves the tokens and the refreshes alone.
LEMMA ChainFrame ==
  ASSUME LockInv, ChainInv, UNCHANGED <<token, parent, closed>>,
         \A r \in Requests : request'[r].step = "refresh" => request'[r] = request[r]
  PROVE  LockInv' /\ ChainInv'
  BY DEF LockInv, ChainInv, SessionHasOneToken, Successors

\* A set of tokens nobody holds is revoked, by Logout or by a new password.
LEMMA RevokeKeepsChains ==
  ASSUME TypeInv, LockInv, ChainInv, NEW ts \in SUBSET Issued,
         \A t \in ts : ~Held(t),
         token' = Revoked(ts), parent' = parent, closed' = closed \cup (ts \cap Unrevoked),
         \A r \in Requests : request'[r].step = "refresh" => request'[r] = request[r]
  PROVE  LockInv' /\ ChainInv'
  <1>1. \A t \in Tokens : token'[t] = IF t \in ts THEN "revoked" ELSE token[t]
    BY DEF Revoked
  <1>2. \A t \in Tokens : t \in ts => token[t] \in {"live", "revoked", "expired"}
    BY DEF Issued, TypeInv, TypeOK
  <1>3. LockInv'
    <2>1. ASSUME NEW r \in Requests, request'[r].step = "refresh"
          PROVE  request'[r] = request[r] /\ token'[request[r].token] = token[request[r].token]
      <3>1. request'[r] = request[r] /\ Held(request[r].token)
        BY <2>1 DEF Held
      <3>2. request[r].token \in Tokens
        BY <2>1, <3>1, RequestFields DEF TypeInv, TypeOK
      <3>3. QED BY <1>1, <3>1, <3>2
    <2>2. QED BY <2>1 DEF LockInv
  <1>4. \A t \in Tokens : Successors(t)' = Successors(t)
    BY DEF Successors
  <1>5. \A t \in Tokens :
           (token'[t] = "revoked" /\ t \notin closed') <=> (token[t] = "revoked" /\ t \notin closed)
    BY <1>1, <1>2 DEF Unrevoked
  <1>6. SessionHasOneToken'
    BY <1>4, <1>5 DEF ChainInv, SessionHasOneToken
  <1>7. \A t \in Tokens : /\ t \in closed' => token'[t] = "revoked"
                          /\ token'[t] = "none" => parent'[t] = NoToken
    BY <1>1, <1>2 DEF ChainInv
  <1>8. QED BY <1>3, <1>6, <1>7 DEF ChainInv

LEMMA NextChainInv ==
  TypeInv /\ SeenInv /\ LockInv /\ ChainInv /\ [Next]_vars => LockInv' /\ ChainInv'
  <1> SUFFICES ASSUME TypeInv, SeenInv, LockInv, ChainInv, [Next]_vars PROVE LockInv' /\ ChainInv'
    OBVIOUS
  <1>0. /\ request \in [Requests -> Request] /\ parent \in [Tokens -> Tokens \cup {NoToken}]
        /\ token \in [Tokens -> {"none", "live", "revoked", "expired"}] /\ closed \subseteq Tokens
    BY DEF TypeInv, TypeOK
  <1>1. ASSUME NEW r \in Requests, NEW t \in Tokens, CommitRefresh(r, t)
        PROVE  LockInv' /\ ChainInv'
    <2>1. PICK u \in Tokens : u = request[r].token
      BY <1>0, <1>1, RequestFields DEF CommitRefresh
    <2>2. /\ token[u] \in {"live", "expired"} /\ token[t] = "none" /\ u # t
          /\ token' = [token EXCEPT ![u] = "revoked", ![t] = "live"]
          /\ parent' = [parent EXCEPT ![t] = u] /\ closed' = closed
          /\ request' = [request EXCEPT ![r] = Idle]
      BY <1>1, <2>1 DEF CommitRefresh, LockInv
    <2>3. Successors(u) = {} /\ parent[t] = NoToken /\ u \notin closed
      BY <2>2 DEF ChainInv, SessionHasOneToken
    <2>4. Successors(t) = {}
      BY <2>2 DEF ChainInv, SessionHasOneToken
    <2>5. LockInv'
      <3>1. ASSUME NEW s \in Requests, request'[s].step = "refresh"
            PROVE  /\ s # r /\ request'[s] = request[s] /\ request[s].token \in Tokens \ {u, t}
        <4>1. s # r /\ request'[s] = request[s]
          BY <1>0, <2>2, <3>1 DEF Idle
        <4>2. request[s].token \in Tokens
          BY <1>0, <3>1, <4>1, RequestFields
        <4>3. token[request[s].token] \in {"live", "expired"}
          BY <3>1, <4>1 DEF LockInv
        <4>4. request[s].token # u
          BY <1>1, <2>1, <3>1, <4>1 DEF LockInv, CommitRefresh
        <4>5. QED BY <2>2, <4>1, <4>2, <4>3, <4>4
      <3>2. \A v \in Tokens \ {u, t} : token'[v] = token[v]
        BY <1>0, <2>2
      <3>3. QED BY <3>1, <3>2 DEF LockInv
    <2>6. /\ \A v \in Tokens : token'[v] = IF v = u THEN "revoked" ELSE IF v = t THEN "live" ELSE token[v]
          /\ \A v \in Tokens : parent'[v] = IF v = t THEN u ELSE parent[v]
      BY <1>0, <2>2
    <2>7. \A v, w \in Tokens :
             parent'[w] = v <=> IF v = u THEN w = t ELSE parent[w] = v
      BY <2>3, <2>6, NoTokenAssumption DEF Successors
    <2>8. SessionHasOneToken'
      <3>1. Successors(u)' = {t}
        BY <2>7 DEF Successors
      <3>2. \A v \in Tokens \ {u} : Successors(v)' = Successors(v)
        BY <2>7 DEF Successors
      <3> SUFFICES ASSUME NEW v \in Tokens
                   PROVE  /\ Successors(v)' # {} <=> token'[v] = "revoked" /\ v \notin closed'
                          /\ \A x, y \in Successors(v)' : x = y
        BY DEF SessionHasOneToken
      <3>3. CASE v = u
        <4>1. token'[v] = "revoked" /\ closed' = closed /\ v \notin closed
          BY <2>2, <2>3, <2>6, <3>3
        <4>2. Successors(v)' = {t}
          BY <3>1, <3>3
        <4>3. QED BY <4>1, <4>2
      <3>4. CASE v = t
        <4>1. token'[v] = "live"
          BY <2>2, <2>6, <3>4
        <4>2. Successors(v)' = {}
          BY <2>2, <2>4, <3>2, <3>4
        <4>3. QED BY <4>1, <4>2
      <3>5. CASE v \notin {u, t}
        <4>1. token'[v] = token[v] /\ Successors(v)' = Successors(v) /\ closed' = closed
          BY <2>2, <2>6, <3>2, <3>5
        <4>2. QED BY <4>1 DEF ChainInv, SessionHasOneToken
      <3>6. QED BY <3>3, <3>4, <3>5
    <2>9. \A v \in Tokens : /\ v \in closed' => token'[v] = "revoked"
                            /\ token'[v] = "none" => parent'[v] = NoToken
      <3>1. SUFFICES ASSUME NEW v \in Tokens
                     PROVE  /\ v \in closed' => token'[v] = "revoked"
                            /\ token'[v] = "none" => parent'[v] = NoToken
        OBVIOUS
      <3>2. closed' = closed /\ u \notin closed /\ t \notin closed
        BY <2>2, <2>3 DEF ChainInv
      <3>3. QED BY <2>6, <3>2 DEF ChainInv
    <2>10. QED BY <2>5, <2>8, <2>9 DEF ChainInv
  <1>2. ASSUME NEW r \in Requests, NEW t \in Tokens, CreateRefreshToken(r, t)
        PROVE  LockInv' /\ ChainInv'
    <2>1. /\ token[t] = "none" /\ UNCHANGED <<parent, closed>>
          /\ \A v \in Tokens : token'[v] = IF v = t THEN "live" ELSE token[v]
      BY <1>0, <1>2 DEF CreateRefreshToken, history
    <2>2. \A s \in Requests : request'[s].step = "refresh" => request'[s] = request[s]
      BY <1>0, <1>2 DEF CreateRefreshToken, Idle
    <2>3. \A s \in Requests : request'[s].step = "refresh" => request'[s].token \in Tokens
      BY <1>0, <2>2, RequestFields
    <2>4. LockInv'
      BY <2>1, <2>2, <2>3 DEF LockInv
    <2>5. \A v \in Tokens : Successors(v)' = Successors(v)
      BY <2>1 DEF Successors
    <2>6. QED BY <2>1, <2>4, <2>5 DEF ChainInv, SessionHasOneToken
  <1>3. ASSUME NEW r \in Requests, NEW t \in Tokens, ConsumeRefreshToken(r, t)
        PROVE  LockInv' /\ ChainInv'
    <2>1. /\ token[t] = "live" /\ ~Held(t) /\ UNCHANGED <<token, parent, closed>>
          /\ request' = [request EXCEPT ![r] = [step |-> "refresh", token |-> t]]
      BY <1>3 DEF ConsumeRefreshToken, Consumable, tables, history
    <2>2. \A s \in Requests :
             request'[s] = IF s = r THEN [step |-> "refresh", token |-> t] ELSE request[s]
      BY <1>0, <2>1
    <2>3. LockInv'
      BY <2>1, <2>2 DEF LockInv, Held
    <2>4. QED BY <2>1, <2>3 DEF ChainInv, SessionHasOneToken, Successors
  <1>4. ASSUME NEW r \in Requests, NEW t \in Tokens, Logout(r, t) PROVE LockInv' /\ ChainInv'
    <2>1. /\ {t} \in SUBSET Issued /\ ~Held(t) /\ parent' = parent /\ request' = request
          /\ closed' = closed \cup ({t} \cap Unrevoked)
      BY <1>4 DEF Logout
    <2>2. token' = Revoked({t})
      BY <1>0, <1>4 DEF Logout, Revoked
    <2>3. QED BY <2>1, <2>2, RevokeKeepsChains
  <1>5. ASSUME NEW r \in Requests, CommitPassword(r) PROVE LockInv' /\ ChainInv'
    <2>1. PICK ts \in SUBSET Issued : ts = request[r].seen
      BY <1>5 DEF CommitPassword, SeenInv
    <2>2. /\ \A t \in ts : ~Held(t)
          /\ token' = Revoked(ts) /\ parent' = parent /\ closed' = closed \cup (ts \cap Unrevoked)
      BY <1>5, <2>1 DEF CommitPassword
    <2>3. \A s \in Requests : request'[s].step = "refresh" => request'[s] = request[s]
      BY <1>0, <1>5 DEF CommitPassword, Idle, Issue
    <2>4. QED BY <2>2, <2>3, RevokeKeepsChains
  <1>6. ASSUME NEW t \in Tokens, TokenExpires(t) PROVE LockInv' /\ ChainInv'
    <2>1. /\ token[t] = "live" /\ UNCHANGED <<request, parent, closed>>
          /\ \A v \in Tokens : token'[v] = IF v = t THEN "expired" ELSE token[v]
      BY <1>0, <1>6 DEF TokenExpires, history
    <2>2. \A s \in Requests : request[s].step = "refresh" => request[s].token \in Tokens
      BY <1>0, RequestFields
    <2>3. LockInv'
      BY <2>1, <2>2 DEF LockInv
    <2>4. \A v \in Tokens : Successors(v)' = Successors(v)
      BY <2>1 DEF Successors
    <2>5. QED BY <2>1, <2>3, <2>4 DEF ChainInv, SessionHasOneToken
  <1>7. ASSUME UNCHANGED <<token, parent, closed>>,
               \A s \in Requests : request'[s].step = "refresh" => request'[s] = request[s]
        PROVE  LockInv' /\ ChainInv'
    BY <1>7, ChainFrame
  <1>8. ASSUME NEW r \in Requests, NEW p \in Passwords, CheckEmail(r, p) \/ Login(r, p)
        PROVE  LockInv' /\ ChainInv'
    BY <1>0, <1>7, <1>8 DEF CheckEmail, Login, Issue, tables, history
  <1>9. ASSUME NEW r \in Requests, CreateUser(r) \/ UpdateUserPassword(r) \/ Fail(r)
        PROVE  LockInv' /\ ChainInv'
    BY <1>0, <1>7, <1>9 DEF CreateUser, UpdateUserPassword, Fail, Idle, Issue, tables, history
  <1>10. ASSUME NEW r \in Requests, NEW k \in Links, NEW p \in Passwords, ResetPassword(r, k, p)
         PROVE  LockInv' /\ ChainInv'
    BY <1>0, <1>7, <1>10 DEF ResetPassword, Rotate, history
  <1>11. ASSUME NEW r \in Requests, NEW p \in Passwords, NEW q \in Passwords,
                ChangePassword(r, p, q)
         PROVE  LockInv' /\ ChainInv'
    BY <1>0, <1>7, <1>11 DEF ChangePassword, Rotate, tables, history
  <1>12. ASSUME NEW k \in Links, IssueResetLink(k) \/ LinkExpires(k)
         PROVE  LockInv' /\ ChainInv'
    BY <1>7, <1>12 DEF IssueResetLink, LinkExpires, history
  <1>13. CASE UNCHANGED vars
    BY <1>7, <1>13 DEF vars, tables, history
  <1>14. QED
    BY <1>1, <1>2, <1>3, <1>4, <1>5, <1>6, <1>8, <1>9, <1>10, <1>11, <1>12, <1>13 DEF Next

(* A token that is used up has exactly one successor, and no other token has one: however
   many requests present a token and whichever of them fail, Refresh neither forks a
   session nor loses it, as its two statements are one transaction.                       *)
THEOREM SessionsNeverFork == Spec => []SessionHasOneToken
  <1>1. ChainInv => SessionHasOneToken
    BY DEF ChainInv
  <1>2. QED
    BY <1>1, InitTypeInv, NextTypeInv, InitSeenInv, NextSeenInv, InitChainInv, NextChainInv, PTL
       DEF Spec
=============================================================================
