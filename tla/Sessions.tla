------------------------------ MODULE Sessions ------------------------------
(***************************************************************************)
(* The sessions of one user (backend/internal/auth/service.go).  A session  *)
(* is a chain of refresh tokens: Register, Login and ReissueSession start    *)
(* one, Refresh consumes its token and inserts the next in one transaction,  *)
(* Logout, a new password and time end it.  A password reset link is good    *)
(* for one use: Redis marks it consumed before the transaction that changes  *)
(* the password begins.                                                      *)
(*                                                                           *)
(* READ COMMITTED: an UPDATE sees the rows committed when it starts, waits   *)
(* for the lock of each and judges it again afterwards.  UpdateUserPassword  *)
(* keeps the user's row until its transaction ends.                          *)
(***************************************************************************)
EXTENDS Integers, FiniteSets

CONSTANTS Requests,   \* requests the server handles at one time
          Tokens,     \* refresh tokens that may be generated
          Links,      \* password reset tokens that may be generated
          Passwords,
          NoToken

ASSUME NoTokenAssumption == NoToken \notin Tokens \cup Links

VARIABLES registered,  \* whether the user's row exists
          password,    \* the password its hash is of
          token,       \* refresh_tokens: what each token is good for
          link,        \* the Redis key of each reset token
          request,     \* what each request is at, and what it has read
          parent,      \* history: the token each one was refreshed from
          closed,      \* history: tokens revoked by Logout or a new password, not used up
          resets       \* history: passwords set with each reset token

tables  == <<registered, password, token, link>>
history == <<parent, closed, resets>>
vars == <<tables, request, history>>

Idle == [step |-> "idle"]
Issue == [step |-> "issue"]

Request == {Idle, Issue}
             \cup [step : {"register"}, password : Passwords]
             \cup [step : {"refresh"}, token : Tokens]
             \cup [step : {"rotate"}, next : Passwords, by : Links \cup {NoToken},
                   old : SUBSET Tokens]
             \cup [step : {"revoke"}, next : Passwords, by : Links \cup {NoToken},
                   old : SUBSET Tokens, seen : SUBSET Tokens]

Init == /\ registered = FALSE
        /\ password \in Passwords
        /\ token = [t \in Tokens |-> "none"]
        /\ link = [k \in Links |-> "none"]
        /\ request = [r \in Requests |-> Idle]
        /\ parent = [t \in Tokens |-> NoToken]
        /\ closed = {}
        /\ resets = [k \in Links |-> 0]

Issued == {t \in Tokens : token[t] # "none"}
Live   == {t \in Tokens : token[t] = "live"}
Unrevoked == {t \in Tokens : token[t] \in {"live", "expired"}}

\* The row locks of transactions under way.
Held(t)  == \E r \in Requests : request[r].step = "refresh" /\ request[r].token = t
Rotating == \E r \in Requests : request[r].step = "revoke"

-----------------------------------------------------------------------------
(* CreateRefreshToken: the insert that ends Register, Login and ReissueSession. *)
CreateRefreshToken(r, t) ==
  /\ request[r].step = "issue" /\ token[t] = "none"
  /\ token' = [token EXCEPT ![t] = "live"]
  /\ request' = [request EXCEPT ![r] = Idle]
  /\ UNCHANGED <<registered, password, link, history>>

\* Mutant: the consumption is not part of the transaction.
FailKeepsConsumed(r) ==
  /\ request[r] # Idle
  /\ request' = [request EXCEPT ![r] = Idle]
  /\ token' = [t \in Tokens |-> IF request[r].step = "refresh" /\ request[r].token = t
                                THEN "revoked" ELSE token[t]]
  /\ UNCHANGED <<registered, password, link, history>>

\* A transaction rolls back, or a statement outside one fails.
Fail(r) == /\ request[r] # Idle
           /\ request' = [request EXCEPT ![r] = Idle]
           /\ UNCHANGED <<tables, history>>

-----------------------------------------------------------------------------
\* Register: the email is looked up, then user, org and membership are one transaction.
CheckEmail(r, p) == /\ request[r] = Idle /\ ~registered
                    /\ request' = [request EXCEPT ![r] = [step |-> "register", password |-> p]]
                    /\ UNCHANGED <<tables, history>>

\* UNIQUE (email): the second of two registrations fails here.
CreateUser(r) == /\ request[r].step = "register" /\ ~registered
                 /\ registered' = TRUE
                 /\ password' = request[r].password
                 /\ request' = [request EXCEPT ![r] = Issue]
                 /\ UNCHANGED <<token, link, history>>

Login(r, p) == /\ request[r] = Idle /\ registered /\ p = password
               /\ request' = [request EXCEPT ![r] = Issue]
               /\ UNCHANGED <<tables, history>>

-----------------------------------------------------------------------------
\* WHERE revoked = FALSE AND expires_at > NOW(), judged once the row can be locked.
Consumable(t) == token[t] = "live" /\ ~Held(t)

ConsumeRefreshToken(r, t) ==
  /\ request[r] = Idle /\ Consumable(t)
  /\ request' = [request EXCEPT ![r] = [step |-> "refresh", token |-> t]]
  /\ UNCHANGED <<tables, history>>

CommitRefresh(r, t) ==
  /\ request[r].step = "refresh" /\ token[t] = "none"
  /\ token' = [token EXCEPT ![request[r].token] = "revoked", ![t] = "live"]
  /\ parent' = [parent EXCEPT ![t] = request[r].token]
  /\ request' = [request EXCEPT ![r] = Idle]
  /\ UNCHANGED <<registered, password, link, closed, resets>>

\* RevokeRefreshToken looks at nothing but the token, and waits for its row.
Logout(r, t) == /\ request[r] = Idle /\ t \in Issued /\ ~Held(t)
                /\ token' = [token EXCEPT ![t] = "revoked"]
                /\ closed' = closed \cup ({t} \cap Unrevoked)
                /\ UNCHANGED <<registered, password, link, request, parent, resets>>

TokenExpires(t) == /\ token[t] = "live"
                   /\ token' = [token EXCEPT ![t] = "expired"]
                   /\ UNCHANGED <<registered, password, link, request, history>>

-----------------------------------------------------------------------------
MayIssueLink(k) == registered /\ link[k] = "none"

\* ForgotPassword, and IssuePasswordResetURL for an approved early-access request.
IssueResetLink(k) == /\ MayIssueLink(k)
                     /\ link' = [link EXCEPT ![k] = "outstanding"]
                     /\ UNCHANGED <<registered, password, token, request, history>>

LinkExpires(k) == /\ link[k] \in {"outstanding", "consumed"}
                  /\ link' = [link EXCEPT ![k] = "expired"]
                  /\ UNCHANGED <<registered, password, token, request, history>>

\* Mutant: the marker the script leaves is taken for a user.
UsableTwice(k) == link[k] \in {"outstanding", "consumed"}

Usable(k) == link[k] = "outstanding"

\* A password about to be set: with which link, if any, and the tokens that work now.
Rotate(p, by) == [step |-> "rotate", next |-> p, by |-> by, old |-> Live]

\* consumeResetTokenScript, one step of Redis.
ResetPassword(r, k, p) == /\ request[r] = Idle /\ Usable(k)
                          /\ link' = [link EXCEPT ![k] = "consumed"]
                          /\ request' = [request EXCEPT ![r] = Rotate(p, k)]
                          /\ UNCHANGED <<registered, password, token, history>>

\* The current password is compared before the transaction, and never again.
ChangePassword(r, current, p) ==
  /\ request[r] = Idle /\ registered /\ current = password
  /\ request' = [request EXCEPT ![r] = Rotate(p, NoToken)]
  /\ UNCHANGED <<tables, history>>

\* UpdateUserPassword; RevokeAllUserRefreshTokens then starts, and sees what is committed.
UpdateUserPassword(r) ==
  LET q == request[r]
  IN /\ q.step = "rotate" /\ ~Rotating
     /\ request' = [request EXCEPT ![r] = [step |-> "revoke", next |-> q.next, by |-> q.by,
                                           old |-> q.old, seen |-> Issued]]
     /\ UNCHANGED <<tables, history>>

\* Mutant: the new password leaves the tokens alone.
RevokedNone(ts) == token

Revoked(ts) == [t \in Tokens |-> IF t \in ts THEN "revoked" ELSE token[t]]

\* Once every row it saw could be locked.  ChangePassword goes on to ReissueSession.
CommitPassword(r) ==
  LET q == request[r]
  IN /\ q.step = "revoke" /\ \A t \in q.seen : ~Held(t)
     /\ password' = q.next
     /\ token' = Revoked(q.seen)
     /\ closed' = closed \cup (q.seen \cap Unrevoked)
     /\ resets' = IF q.by = NoToken THEN resets ELSE [resets EXCEPT ![q.by] = @ + 1]
     /\ request' = [request EXCEPT ![r] = IF q.by = NoToken THEN Issue ELSE Idle]
     /\ UNCHANGED <<registered, link, parent>>

-----------------------------------------------------------------------------
Next ==
  \/ \E r \in Requests :
       \/ \E p \in Passwords : CheckEmail(r, p) \/ Login(r, p)
       \/ \E t \in Tokens : \/ CreateRefreshToken(r, t) \/ Logout(r, t)
                           \/ ConsumeRefreshToken(r, t) \/ CommitRefresh(r, t)
       \/ \E k \in Links, p \in Passwords : ResetPassword(r, k, p)
       \/ \E p, q \in Passwords : ChangePassword(r, p, q)
       \/ CreateUser(r) \/ UpdateUserPassword(r) \/ CommitPassword(r) \/ Fail(r)
  \/ \E t \in Tokens : TokenExpires(t)
  \/ \E k \in Links : IssueResetLink(k) \/ LinkExpires(k)

Spec == Init /\ [][Next]_vars

-----------------------------------------------------------------------------
(* Types of the tables of the user. *)
TypeOK == /\ registered \in BOOLEAN /\ password \in Passwords
          /\ token \in [Tokens -> {"none", "live", "revoked", "expired"}]
          /\ link \in [Links -> {"none", "outstanding", "consumed", "expired"}]
          /\ request \in [Requests -> Request]
          /\ parent \in [Tokens -> Tokens \cup {NoToken}]
          /\ closed \subseteq Tokens /\ resets \in [Links -> Nat]
          /\ ~registered => Issued = {} /\ \A k \in Links : link[k] = "none"

(* A refresh replaces a token by exactly one other: however many requests present it
   and whichever of them fail, a token that is used up has one successor, and one that
   still works, has expired, or was ended by Logout or a new password has none.        *)
Successors(t) == {u \in Tokens : parent[u] = t}
SessionHasOneToken ==
  \A t \in Tokens :
     /\ Successors(t) # {} <=> token[t] = "revoked" /\ t \notin closed
     /\ \A u, v \in Successors(t) : u = v

(* A new password ends every session whose token worked when ChangePassword or
   ResetPassword began, whatever was refreshed or logged out in the meantime; a token
   inserted by a request that overlaps it may stay.                                  *)
NewPasswordEndsOldTokens ==
  [][\A r \in Requests :
       CommitPassword(r) => \A t \in request[r].old : token'[t] # "live"]_vars

(* A reset link sets one password at most, however many requests present it. *)
LinkSetsOnePassword == \A k \in Links : resets[k] <= 1
=============================================================================
