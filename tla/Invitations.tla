---------------------------- MODULE Invitations -----------------------------
(***************************************************************************)
(* Invitations to a scheme (backend/internal/invitation).  None of the     *)
(* requests is one transaction: Create inserts, mails and, when the mail   *)
(* fails, revokes; Resend mails before it stores the new token; Accept     *)
(* reads the invitation and the user, grants in a transaction of its own,  *)
(* stores a refresh token and marks the invitation last.  Every one of     *)
(* these is a step, and each may be the last the request gets to.          *)
(***************************************************************************)
EXTENDS Membership

CONSTANTS Invites,     \* ids of rows of invitations
          Tokens,      \* random links; a subset of Nat, drawn in order
          Requests,    \* requests that may be under way at one time
          NoId         \* an idle request's invitation

ASSUME InvitationsAssumption == Tokens \subseteq Nat /\ Requests # {} /\ NoId \notin Invites

VARIABLES invitation,  \* id -> row
          drawn,       \* tokens generated so far
          mailed,      \* tokens some recipient holds
          request      \* request -> what it is doing

inviteVars == <<invitation, drawn, mailed, request>>

NoToken == 0
InviteStatus == {"none", "pending", "accepted", "revoked"}
NoInvite == [status |-> "none", email |-> CHOOSE e \in Emails: TRUE, seat |-> NoMember,
             token |-> NoToken, expired |-> FALSE]
Invitation == [status: InviteStatus, email: Emails, seat: Seats \cup {NoMember},
               token: Tokens \cup {NoToken}, expired: BOOLEAN]

Idle == [at |-> "idle", id |-> NoId, token |-> NoToken, known |-> FALSE]
Request == [at: {"idle", "send", "unsend", "mail", "store", "revoke", "lookup", "grant", "mark"},
            id: Invites \cup {NoId}, token: Tokens \cup {NoToken}, known: BOOLEAN]

InvitationsInit ==
  /\ invitation = [i \in Invites |-> NoInvite]
  /\ drawn = {} /\ mailed = {}
  /\ request = [r \in Requests |-> Idle]

(* generateToken: a link nobody has seen.                                  *)
Fresh == {t \in Tokens: \A d \in drawn: d < t}
Draws(t) == t \in Fresh /\ (\A u \in Fresh: t <= u) /\ drawn' = drawn \cup {t}

Becomes(r, at) == request' = [request EXCEPT ![r].at = at]
Ends(r) == request' = [request EXCEPT ![r] = Idle]

(***************************************************************************)
(* The queries.  The partial unique index allows one pending row per       *)
(* recipient and unit; UpdateInvitationStatus and UpdateInvitationToken    *)
(* write WHERE id, whatever the row's status has become.                   *)
(***************************************************************************)
Pending(i) == invitation[i].status = "pending"

DuplicateInvite(e, seat) ==
  \E i \in Invites: /\ Pending(i)
                    /\ invitation[i].email = e /\ invitation[i].seat.unit = seat.unit

CreateInvitation(i, e, seat, t) ==
  /\ invitation[i] = NoInvite
  /\ ~DuplicateInvite(e, seat)
  /\ invitation' = [invitation EXCEPT ![i] =
       [status |-> "pending", email |-> e, seat |-> seat, token |-> t, expired |-> FALSE]]

UpdateInvitationStatus(i, s) == invitation' = [invitation EXCEPT ![i].status = s]

(* A plausible bug: the new link makes the invitation pending again.       *)
RenewInvitation(i, t) ==
  invitation' = [invitation EXCEPT ![i].token = t, ![i].expired = FALSE, ![i].status = "pending"]

UpdateInvitationToken(i, t) ==
  invitation' = [invitation EXCEPT ![i].token = t, ![i].expired = FALSE]

GetInvitationByToken(t) == {i \in Invites: invitation[i].token = t}

Usable(i) == Pending(i) /\ ~invitation[i].expired

(***************************************************************************)
(* Create.  The mail goes out after the insert; when it fails the row is   *)
(* revoked, and when that fails too it stays pending with no link sent.    *)
(***************************************************************************)
Create(r, i, e, seat) ==
  /\ request[r] = Idle
  /\ \E t \in Tokens: /\ Draws(t)
                      /\ CreateInvitation(i, e, seat, t)
                      /\ request' = [request EXCEPT ![r] = [at |-> "send", id |-> i, token |-> t, known |-> FALSE]]
  /\ UNCHANGED <<mailed, accounts>>

SendInvitation(r) ==
  /\ request[r].at = "send"
  /\ \/ mailed' = mailed \cup {request[r].token} /\ Ends(r)
     \/ mailed' = mailed /\ Becomes(r, "unsend")
  /\ UNCHANGED <<invitation, drawn, accounts>>

RevokeUnsent(r) ==
  /\ request[r].at = "unsend"
  /\ UpdateInvitationStatus(request[r].id, "revoked")
  /\ Ends(r)
  /\ UNCHANGED <<drawn, mailed, accounts>>

(***************************************************************************)
(* Resend.  The stored link is replaced only after the new one was sent.   *)
(***************************************************************************)
Resend(r, i) ==
  /\ request[r] = Idle
  /\ Pending(i)
  /\ \E t \in Tokens: /\ Draws(t)
                      /\ request' = [request EXCEPT ![r] = [at |-> "mail", id |-> i, token |-> t, known |-> FALSE]]
  /\ UNCHANGED <<invitation, mailed, accounts>>

(* A plausible bug: the answer of the mail provider is dropped.            *)
MailResentAnyway(r) ==
  /\ request[r].at = "mail"
  /\ mailed' \in {mailed, mailed \cup {request[r].token}}
  /\ Becomes(r, "store")
  /\ UNCHANGED <<invitation, drawn, accounts>>

MailResent(r) ==
  /\ request[r].at = "mail"
  /\ mailed' = mailed \cup {request[r].token}
  /\ Becomes(r, "store")
  /\ UNCHANGED <<invitation, drawn, accounts>>

StoreToken(r) ==
  /\ request[r].at = "store"
  /\ UpdateInvitationToken(request[r].id, request[r].token)
  /\ Ends(r)
  /\ UNCHANGED <<drawn, mailed, accounts>>

(***************************************************************************)
(* Revoke reads the status and writes it in two statements.                *)
(***************************************************************************)
CheckRevoke(r, i) ==
  /\ request[r] = Idle
  /\ Pending(i)
  /\ request' = [request EXCEPT ![r] = [at |-> "revoke", id |-> i, token |-> NoToken, known |-> FALSE]]
  /\ UNCHANGED <<invitation, drawn, mailed, accounts>>

Revoke(r) ==
  /\ request[r].at = "revoke"
  /\ UpdateInvitationStatus(request[r].id, "revoked")
  /\ Ends(r)
  /\ UNCHANGED <<drawn, mailed, accounts>>

(***************************************************************************)
(* Accept, by whoever holds a link.                                        *)
(***************************************************************************)
Verify(r, t) ==
  /\ request[r] = Idle
  /\ t \in mailed
  /\ \E i \in GetInvitationByToken(t):
       /\ Usable(i)
       /\ request' = [request EXCEPT ![r] = [at |-> "lookup", id |-> i, token |-> t, known |-> FALSE]]
  /\ UNCHANGED <<invitation, drawn, mailed, accounts>>

LookUpUser(r) ==
  /\ request[r].at = "lookup"
  /\ request' = [request EXCEPT ![r].at = "grant",
                                ![r].known = GetUserByEmail(invitation[request[r].id].email)]
  /\ UNCHANGED <<invitation, drawn, mailed, accounts>>

(* The transaction: a known user gets the membership only, a new one is    *)
(* created with the organisation's membership as well, or, if somebody     *)
(* else registered the address meanwhile, the insert fails and the request *)
(* with it (RequestEnds).                                                  *)
Grant(r) ==
  LET inv == invitation[request[r].id] IN
  /\ request[r].at = "grant"
  /\ IF request[r].known THEN UNCHANGED <<users, orgRole>>
                         ELSE CreateUser(inv.email, inv.seat.role)
  /\ UpsertSchemeMembership(inv.email, inv.seat)
  /\ Becomes(r, "mark")
  /\ UNCHANGED <<invitation, drawn, mailed>>

(* Tokens are signed and the refresh token stored, then the row is marked. *)
MarkAccepted(r) ==
  /\ request[r].at = "mark"
  /\ UpdateInvitationStatus(request[r].id, "accepted")
  /\ Ends(r)
  /\ UNCHANGED <<drawn, mailed, accounts>>

(* Any statement may fail, and a process may die between two of them: the  *)
(* request answers an error and does nothing more.                         *)
RequestEnds(r) ==
  /\ request[r].at \notin {"idle", "send"}
  /\ Ends(r)
  /\ UNCHANGED <<invitation, drawn, mailed, accounts>>

(* Seven days pass.                                                        *)
InvitationExpires(i) ==
  /\ Pending(i) /\ ~invitation[i].expired
  /\ invitation' = [invitation EXCEPT ![i].expired = TRUE]
  /\ UNCHANGED <<drawn, mailed, request, accounts>>

InvitationsNext ==
  \/ \E r \in Requests, i \in Invites, e \in Emails, seat \in Seats: Create(r, i, e, seat)
  \/ \E r \in Requests, i \in Invites: Resend(r, i) \/ CheckRevoke(r, i)
  \/ \E r \in Requests, t \in Tokens: Verify(r, t)
  \/ \E r \in Requests: \/ SendInvitation(r) \/ RevokeUnsent(r) \/ MailResent(r) \/ StoreToken(r)
                        \/ Revoke(r) \/ LookUpUser(r) \/ Grant(r)
                        \/ MarkAccepted(r) \/ RequestEnds(r)
  \/ \E i \in Invites: InvitationExpires(i)
  \/ \E e \in Emails, seat \in Seats: UpdateMember(e, seat) /\ UNCHANGED inviteVars

InvitationsTypeOK ==
  /\ invitation \in [Invites -> Invitation]
  /\ drawn \subseteq Tokens /\ mailed \subseteq drawn
  /\ request \in [Requests -> Request]

(* An accepted invitation has made its addressee a member, although the    *)
(* grant and the mark are two transactions with failures in between.       *)
AcceptedIsMember ==
  \A i \in Invites: invitation[i].status = "accepted" => member[invitation[i].email] # NoMember

(* The only link an invitee can use is the stored one.  Resend must not    *)
(* replace it with one that never reached a mailbox: then the old mail is  *)
(* dead and there is no new one (service.go:272).                          *)
StoredLinkWasMailed ==
  [][\A i \in Invites: LET old == invitation[i].token
                           new == invitation[i].token'
                       IN  old # NoToken /\ new # old => new \in mailed]_inviteVars

(* Once an invitation is revoked and nobody was accepting it at that       *)
(* moment, it stays revoked: no resend under way revives it and no holder  *)
(* of an old or a new link gets in (service.go:307, 376).                  *)
Accepting(i) ==
  \E r \in Requests: request[r].id = i /\ request[r].at \in {"lookup", "grant", "mark"}

RevokedForGood ==
  [][\A i \in Invites: invitation[i].status = "revoked" /\ ~Accepting(i)
                         => invitation'[i].status = "revoked" /\ ~Accepting(i)']_inviteVars
=============================================================================
