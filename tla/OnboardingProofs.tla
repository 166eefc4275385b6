-------------------------- MODULE OnboardingProofs --------------------------
(***************************************************************************)
(* What holds of invitations and early access reviews for any number of    *)
(* addresses, units, invitations, applications and requests under way.     *)
(***************************************************************************)
EXTENDS MCOnboarding, TLAPS

(***************************************************************************)
(* The inductive invariant.  A row that exists offers a seat; a request is *)
(* about a row that exists, knows only users there are, has granted what   *)
(* it is about to mark and mailed what it is about to store; a review has  *)
(* an account for whom it mails and has mailed before it moves the row.    *)
(***************************************************************************)
RowsOK == \A i \in Invites: invitation[i].status # "none" => invitation[i].seat \in Seats

RequestOK(r) ==
  LET q == request[r] IN
  /\ q.at # "idle" => q.id \in Invites /\ invitation[q.id].status # "none"
  /\ q.at = "grant" /\ q.known => invitation[q.id].email \in users
  /\ q.at = "mark" => member[invitation[q.id].email] # NoMember
  /\ q.at = "store" => q.token \in mailed
  /\ q.at \in {"send", "mail", "store"} => q.token \in drawn

RequestsOK == \A r \in Requests: RequestOK(r)

ReviewOK(v) ==
  /\ review[v].at \in {"mail", "move"} => application[review[v].id].email \in users
  /\ review[v].at = "move" => review[v].id \in approvalSent
  /\ review[v].at # "idle" => application[review[v].id].status # "none"

ReviewsOK == \A v \in Reviews: ReviewOK(v)

IInv == TypeOK /\ NobodyIsOrphaned /\ AcceptedIsMember /\ ApprovedCanEnter
          /\ RowsOK /\ RequestsOK /\ ReviewsOK

(* A seat is never mistaken for no membership, nor an invitation's role    *)
(* for none of an organisation's.                                          *)
LEMMA SeatsAreReal == \A s \in Seats: s # NoMember /\ s.role \in OrgRole
BY DEF Seats, Seat, InvitableRole, NoMember, OrgRole

(***************************************************************************)
(* The tables both components write.                                       *)
(***************************************************************************)
LEMMA AccountsKeep ==
  ASSUME MembershipTypeOK, NobodyIsOrphaned, NEW e \in Emails, NEW role \in OrgRole, NEW seat \in Seats,
         CreateUser(e, role) \/ (e \in users /\ UNCHANGED <<users, orgRole>>),
         member' = member \/ UpsertSchemeMembership(e, seat)
  PROVE  /\ MembershipTypeOK' /\ NobodyIsOrphaned'
         /\ e \in users' /\ users \subseteq users'
         /\ \A f \in Emails: member[f] # NoMember => member'[f] # NoMember
         /\ UpsertSchemeMembership(e, seat) => member'[e] # NoMember
<1>1. /\ users \subseteq Emails /\ orgRole \in [Emails -> SUBSET OrgRole]
      /\ member \in [Emails -> Seats \cup {NoMember}]
  BY DEF MembershipTypeOK
<1>2. /\ users' = users \cup {e}
      /\ orgRole' \in [Emails -> SUBSET OrgRole] /\ orgRole'[e] # {}
      /\ \A f \in Emails \ {e}: orgRole'[f] = orgRole[f]
  <2>1. CASE CreateUser(e, role)
    BY <1>1, <2>1 DEF CreateUser
  <2>2. CASE e \in users /\ UNCHANGED <<users, orgRole>>
    BY <1>1, <2>2 DEF NobodyIsOrphaned
  <2> QED
    BY <2>1, <2>2
<1>3. /\ member' \in [Emails -> Seats \cup {NoMember}]
      /\ \A f \in Emails \ {e}: member'[f] = member[f]
      /\ member'[e] \in {member[e], seat}
      /\ UpsertSchemeMembership(e, seat) => member'[e] = seat
  BY <1>1 DEF UpsertSchemeMembership
<1>4. seat # NoMember
  BY SeatsAreReal
<1>5. MembershipTypeOK'
  BY <1>1, <1>2, <1>3 DEF MembershipTypeOK
<1>6. NobodyIsOrphaned'
  BY <1>2, <1>3 DEF NobodyIsOrphaned
<1> QED
  BY <1>2, <1>3, <1>4, <1>5, <1>6

(***************************************************************************)
(* What a step that changes one request, or none, leaves of the others.    *)
(***************************************************************************)
LEMMA OtherRequestsStay ==
  ASSUME RequestsOK, InvitationsTypeOK, NEW r \in Requests, NEW q, request' = [request EXCEPT ![r] = q],
         users \subseteq users', drawn \subseteq drawn', mailed \subseteq mailed',
         \A f \in Emails: member[f] # NoMember => member'[f] # NoMember,
         \A i \in Invites: invitation[i].status # "none" =>
                             /\ invitation'[i].status # "none"
                             /\ invitation'[i].email = invitation[i].email
  PROVE  /\ request'[r] = q
         /\ \A s \in Requests \ {r}: RequestOK(s)'
<1>1. request \in [Requests -> Request] /\ \A i \in Invites: invitation[i].email \in Emails
  BY DEF InvitationsTypeOK, Invitation
<1>2. request'[r] = q
  BY <1>1
<1>3. ASSUME NEW s \in Requests \ {r}
      PROVE  RequestOK(s)'
  <2>1. request'[s] = request[s] /\ RequestOK(s)
    BY <1>1 DEF RequestsOK
  <2> QED
    BY <1>1, <2>1 DEF RequestOK
<1> QED
  BY <1>2, <1>3

(* An idle request asks for nothing.                                       *)
LEMMA EndedIsOK ==
  ASSUME NEW r \in Requests, request'[r] = Idle
  PROVE  RequestOK(r)'
BY DEF RequestOK, Idle

(* A request that only moves on, or begins, changes no row and no account. *)
LEMMA QuietMove ==
  ASSUME IInv, UNCHANGED <<invitation, accounts, earlyVars>>, mailed \subseteq mailed',
         NEW r \in Requests, NEW q \in Request, request' = [request EXCEPT ![r] = q],
         drawn \subseteq drawn', drawn' \subseteq Tokens, mailed' \subseteq drawn', RequestOK(r)'
  PROVE  IInv'
<1>1. RequestsOK'
  <2>1. \A s \in Requests \ {r}: RequestOK(s)'
    BY OtherRequestsStay DEF IInv, TypeOK, accounts
  <2> QED
    BY <2>1 DEF RequestsOK
<1>2. InvitationsTypeOK'
  BY DEF IInv, TypeOK, InvitationsTypeOK
<1>3. MembershipTypeOK' /\ NobodyIsOrphaned' /\ AcceptedIsMember' /\ RowsOK'
  BY DEF IInv, TypeOK, MembershipTypeOK, NobodyIsOrphaned, AcceptedIsMember, RowsOK, accounts
<1>4. EarlyAccessTypeOK' /\ ApprovedCanEnter' /\ ReviewsOK'
  BY DEF IInv, TypeOK, EarlyAccessTypeOK, ApprovedCanEnter, ReviewsOK, ReviewOK, accounts, earlyVars
<1> QED
  BY <1>1, <1>2, <1>3, <1>4 DEF IInv, TypeOK

(***************************************************************************)
(* A row that exists is edited while its request ends, or none runs: its   *)
(* address and its seat stay, and it may become accepted only for members. *)
(***************************************************************************)
LEMMA RowEdited ==
  ASSUME IInv, UNCHANGED <<accounts, earlyVars, drawn, mailed>>,
         NEW i \in Invites, NEW row \in Invitation, invitation' = [invitation EXCEPT ![i] = row],
         row.email = invitation[i].email, row.seat = invitation[i].seat,
         invitation[i].status # "none", row.status # "none",
         row.status = "accepted" => member[row.email] # NoMember,
         NEW r \in Requests, request' \in {request, [request EXCEPT ![r] = Idle]}
  PROVE  IInv'
<1>1. /\ invitation \in [Invites -> Invitation] /\ request \in [Requests -> Request]
      /\ Idle \in Request
  BY DEF IInv, TypeOK, InvitationsTypeOK, Idle, Request
<1>2. /\ invitation'[i] = row
      /\ \A j \in Invites \ {i}: invitation'[j] = invitation[j]
  BY <1>1
<1>3. InvitationsTypeOK'
  BY <1>1 DEF IInv, TypeOK, InvitationsTypeOK
<1>4. RowsOK' /\ AcceptedIsMember'
  <2>1. member' = member
    BY DEF accounts
  <2> QED
    BY <1>2, <2>1 DEF IInv, RowsOK, AcceptedIsMember
<1>5. RequestsOK'
  <2>1. ASSUME NEW s \in Requests, request'[s] = request[s] PROVE RequestOK(s)'
    <3>1. RequestOK(s)
      BY DEF IInv, RequestsOK
    <3> QED
      BY <1>2, <2>1, <3>1 DEF RequestOK, accounts
  <2>2. \A s \in Requests: request'[s] = request[s] \/ request'[s] = Idle
    BY <1>1
  <2> QED
    BY <2>1, <2>2, EndedIsOK DEF RequestsOK
<1>6. MembershipTypeOK' /\ NobodyIsOrphaned'
  BY DEF IInv, TypeOK, MembershipTypeOK, NobodyIsOrphaned, accounts
<1>7. EarlyAccessTypeOK' /\ ApprovedCanEnter' /\ ReviewsOK'
  BY DEF IInv, TypeOK, EarlyAccessTypeOK, ApprovedCanEnter, ReviewsOK, ReviewOK, accounts, earlyVars
<1> QED
  BY <1>3, <1>4, <1>5, <1>6, <1>7 DEF IInv, TypeOK

(* The requests' steps that touch neither a row nor an account.            *)
LEMMA MovesKeep ==
  ASSUME IInv, UNCHANGED earlyVars, NEW r \in Requests,
         \/ \E i \in Invites: Resend(r, i) \/ CheckRevoke(r, i)
         \/ \E t \in Tokens: Verify(r, t)
         \/ SendInvitation(r) \/ MailResent(r) \/ LookUpUser(r) \/ RequestEnds(r)
  PROVE  IInv'
<1>1. /\ invitation \in [Invites -> Invitation] /\ request \in [Requests -> Request]
      /\ drawn \subseteq Tokens /\ mailed \subseteq drawn
      /\ request[r] \in Request /\ RequestOK(r)
  BY DEF IInv, TypeOK, InvitationsTypeOK, RequestsOK
<1>2. Idle \in Request
  BY DEF Idle, Request
<1>3. ASSUME NEW i \in Invites, Resend(r, i) PROVE IInv'
  <2>1. PICK t \in Tokens: /\ drawn' = drawn \cup {t}
          /\ request' = [request EXCEPT ![r] = [at |-> "mail", id |-> i, token |-> t, known |-> FALSE]]
    BY <1>3 DEF Resend, Draws
  <2>2. PICK q: q = [at |-> "mail", id |-> i, token |-> t, known |-> FALSE]
    OBVIOUS
  <2>3. q \in Request /\ request'[r] = q
    BY <1>1, <2>1, <2>2 DEF Request
  <2>4. RequestOK(r)'
    BY <1>3, <2>1, <2>2, <2>3 DEF RequestOK, Resend, Pending
  <2>5. UNCHANGED <<invitation, accounts, mailed>>
    BY <1>3 DEF Resend
  <2> QED
    BY <1>1, <2>1, <2>2, <2>3, <2>4, <2>5, QuietMove
<1>4. ASSUME NEW i \in Invites, CheckRevoke(r, i) PROVE IInv'
  <2>1. PICK q: q = [at |-> "revoke", id |-> i, token |-> NoToken, known |-> FALSE]
    OBVIOUS
  <2>2. q \in Request /\ request' = [request EXCEPT ![r] = q] /\ request'[r] = q
    BY <1>1, <1>4, <2>1 DEF Request, CheckRevoke
  <2>3. RequestOK(r)'
    BY <1>4, <2>1, <2>2 DEF RequestOK, CheckRevoke, Pending
  <2>4. UNCHANGED <<invitation, accounts, mailed, drawn>>
    BY <1>4 DEF CheckRevoke
  <2> QED
    BY <1>1, <2>2, <2>3, <2>4, QuietMove
<1>5. ASSUME NEW t \in Tokens, Verify(r, t) PROVE IInv'
  <2>1. PICK i \in Invites: /\ Usable(i)
          /\ request' = [request EXCEPT ![r] = [at |-> "lookup", id |-> i, token |-> t, known |-> FALSE]]
    BY <1>5 DEF Verify, GetInvitationByToken
  <2>2. PICK q: q = [at |-> "lookup", id |-> i, token |-> t, known |-> FALSE]
    OBVIOUS
  <2>3. q \in Request /\ request'[r] = q
    BY <1>1, <2>1, <2>2 DEF Request
  <2>4. UNCHANGED <<invitation, accounts, mailed, drawn>>
    BY <1>5 DEF Verify
  <2>5. RequestOK(r)'
    BY <2>1, <2>2, <2>3, <2>4 DEF RequestOK, Usable, Pending
  <2> QED
    BY <1>1, <2>1, <2>2, <2>3, <2>4, <2>5, QuietMove
<1>6. CASE SendInvitation(r)
  <2>1. PICK q: q = request'[r]
    OBVIOUS
  <2>2. /\ q \in {Idle, [request[r] EXCEPT !.at = "unsend"]} /\ request' = [request EXCEPT ![r] = q]
        /\ mailed' \in {mailed, mailed \cup {request[r].token}}
        /\ request[r].at = "send" /\ UNCHANGED <<invitation, drawn, accounts>>
    BY <1>1, <1>6, <2>1 DEF SendInvitation, Ends, Becomes
  <2>3. q \in Request /\ RequestOK(r)'
    BY <1>1, <1>2, <2>1, <2>2 DEF RequestOK, Request, Idle
  <2>4. mailed' \subseteq drawn
    BY <1>1, <2>2 DEF RequestOK
  <2> QED
    BY <1>1, <2>2, <2>3, <2>4, QuietMove
<1>7. CASE MailResent(r)
  <2>1. PICK q: q = [request[r] EXCEPT !.at = "store"]
    OBVIOUS
  <2>2. /\ request' = [request EXCEPT ![r] = q] /\ q \in Request /\ request'[r] = q
        /\ mailed' = mailed \cup {request[r].token}
        /\ request[r].at = "mail" /\ UNCHANGED <<invitation, drawn, accounts>>
    BY <1>1, <1>7, <2>1 DEF MailResent, Becomes, Request
  <2>3. RequestOK(r)'
    BY <1>1, <2>1, <2>2 DEF RequestOK, Request
  <2>4. mailed' \subseteq drawn
    BY <1>1, <2>2 DEF RequestOK
  <2> QED
    BY <1>1, <2>2, <2>3, <2>4, QuietMove
<1>8. CASE LookUpUser(r)
  <2> DEFINE knows == GetUserByEmail(invitation[request[r].id].email)
  <2>1. PICK k \in BOOLEAN: k = knows
    <3>1. CASE knows
      <4>1. knows = TRUE
        BY <3>1
      <4> QED
        BY <4>1
    <3>2. CASE ~knows
      <4>1. knows = FALSE
        BY <3>2
      <4> QED
        BY <4>1
    <3> QED
      BY <3>1, <3>2
  <2> HIDE DEF knows
  <2>2. PICK q: q = [request[r] EXCEPT !.at = "grant", !.known = k]
    OBVIOUS
  <2>3. request' = [request EXCEPT ![r].at = "grant", ![r].known = k]
    BY <1>8, <2>1 DEF LookUpUser, knows
  <2>4. /\ request' = [request EXCEPT ![r] = q] /\ q \in Request /\ request'[r] = q
        /\ q.at = "grant" /\ q.id = request[r].id /\ q.known = k
    BY <1>1, <2>2, <2>3 DEF Request
  <2>5. request[r].at = "lookup" /\ UNCHANGED <<invitation, drawn, mailed, users, accounts>>
    BY <1>8 DEF LookUpUser, accounts
  <2>6. k => invitation[request[r].id].email \in users
    BY <2>1 DEF knows, GetUserByEmail
  <2>7. RequestOK(r)'
    BY <1>1, <2>4, <2>5, <2>6 DEF RequestOK
  <2> QED
    BY <1>1, <2>4, <2>5, <2>7, QuietMove
<1>9. CASE RequestEnds(r)
  <2>1. /\ request' = [request EXCEPT ![r] = Idle] /\ request'[r] = Idle
        /\ UNCHANGED <<invitation, drawn, mailed, accounts>>
    BY <1>1, <1>9 DEF RequestEnds, Ends
  <2> QED
    BY <1>1, <1>2, <2>1, EndedIsOK, QuietMove
<1> QED
  BY <1>3, <1>4, <1>5, <1>6, <1>7, <1>8, <1>9

(* The steps that edit one row.                                            *)
LEMMA EditsKeep ==
  ASSUME IInv, UNCHANGED earlyVars,
         \/ \E r \in Requests: RevokeUnsent(r) \/ Revoke(r) \/ StoreToken(r) \/ MarkAccepted(r)
         \/ \E i \in Invites: InvitationExpires(i)
  PROVE  IInv'
<1>1. /\ invitation \in [Invites -> Invitation] /\ request \in [Requests -> Request]
      /\ mailed \subseteq Tokens
      /\ \A r \in Requests: RequestOK(r)
  BY DEF IInv, TypeOK, InvitationsTypeOK, RequestsOK
<1>2. ASSUME NEW r \in Requests, RevokeUnsent(r) \/ Revoke(r) \/ StoreToken(r) \/ MarkAccepted(r)
      PROVE  IInv'
  <2>1. PICK i: i = request[r].id
    OBVIOUS
  <2>2. /\ i \in Invites /\ invitation[i].status # "none" /\ invitation[i] \in Invitation
        /\ request[r].at = "mark" => member[invitation[i].email] # NoMember
        /\ request[r].at = "store" => request[r].token \in Tokens
    BY <1>1, <1>2, <2>1 DEF RequestOK, RevokeUnsent, Revoke, StoreToken, MarkAccepted
  <2>3. /\ request' = [request EXCEPT ![r] = Idle] /\ UNCHANGED <<drawn, mailed, accounts>>
    BY <1>2 DEF RevokeUnsent, Revoke, StoreToken, MarkAccepted, Ends
  <2>4. CASE RevokeUnsent(r) \/ Revoke(r)
    <3>1. PICK row: row = [invitation[i] EXCEPT !.status = "revoked"]
      OBVIOUS
    <3>2. invitation' = [invitation EXCEPT ![i] = row]
      BY <2>1, <2>4, <3>1 DEF RevokeUnsent, Revoke, UpdateInvitationStatus
    <3>3. /\ row \in Invitation /\ row.email = invitation[i].email /\ row.seat = invitation[i].seat
          /\ row.status = "revoked"
      BY <2>2, <3>1 DEF Invitation, InviteStatus
    <3> QED
      BY <2>2, <2>3, <3>2, <3>3, RowEdited
  <2>5. CASE StoreToken(r)
    <3>1. PICK row: row = [invitation[i] EXCEPT !.token = request[r].token, !.expired = FALSE]
      OBVIOUS
    <3>2. invitation' = [invitation EXCEPT ![i] = row]
      BY <2>1, <2>5, <3>1 DEF StoreToken, UpdateInvitationToken
    <3>3. /\ row \in Invitation /\ row.email = invitation[i].email /\ row.seat = invitation[i].seat
          /\ row.status = invitation[i].status
      BY <2>2, <2>5, <3>1 DEF Invitation, StoreToken
    <3>4. row.status = "accepted" => member[row.email] # NoMember
      BY <2>2, <3>3 DEF IInv, AcceptedIsMember
    <3> QED
      BY <2>2, <2>3, <3>2, <3>3, <3>4, RowEdited
  <2>6. CASE MarkAccepted(r)
    <3>1. PICK row: row = [invitation[i] EXCEPT !.status = "accepted"]
      OBVIOUS
    <3>2. invitation' = [invitation EXCEPT ![i] = row]
      BY <2>1, <2>6, <3>1 DEF MarkAccepted, UpdateInvitationStatus
    <3>3. /\ row \in Invitation /\ row.email = invitation[i].email /\ row.seat = invitation[i].seat
          /\ row.status = "accepted" /\ member[row.email] # NoMember
      BY <2>2, <2>6, <3>1 DEF Invitation, InviteStatus, MarkAccepted
    <3> QED
      BY <2>2, <2>3, <3>2, <3>3, RowEdited
  <2> QED
    BY <1>2, <2>4, <2>5, <2>6
<1>3. ASSUME NEW i \in Invites, InvitationExpires(i)
      PROVE  IInv'
  <2>1. PICK r \in Requests: TRUE
    BY InvitationsAssumption
  <2>2. PICK row: row = [invitation[i] EXCEPT !.expired = TRUE]
    OBVIOUS
  <2>3. /\ invitation' = [invitation EXCEPT ![i] = row] /\ invitation[i].status = "pending"
        /\ UNCHANGED <<drawn, mailed, request, accounts>>
    BY <1>3, <2>2 DEF InvitationExpires, Pending
  <2>4. /\ row \in Invitation /\ row.email = invitation[i].email /\ row.seat = invitation[i].seat
        /\ row.status = "pending"
    BY <1>1, <2>2, <2>3 DEF Invitation
  <2> QED
    BY <2>1, <2>3, <2>4, RowEdited
<1> QED
  BY <1>2, <1>3

(* A row is inserted: nobody was about to do anything with it.             *)
LEMMA CreateKeeps ==
  ASSUME IInv, UNCHANGED earlyVars,
         NEW r \in Requests, NEW i \in Invites, NEW e \in Emails, NEW seat \in Seats, Create(r, i, e, seat)
  PROVE  IInv'
<1>1. /\ invitation \in [Invites -> Invitation] /\ request \in [Requests -> Request]
      /\ drawn \subseteq Tokens /\ mailed \subseteq drawn
      /\ \A s \in Requests: RequestOK(s)
  BY DEF IInv, TypeOK, InvitationsTypeOK, RequestsOK
<1>2. PICK t \in Tokens:
        /\ drawn' = drawn \cup {t}
        /\ CreateInvitation(i, e, seat, t)
        /\ request' = [request EXCEPT ![r] = [at |-> "send", id |-> i, token |-> t, known |-> FALSE]]
  BY DEF Create, Draws
<1>3. PICK row: row = [status |-> "pending", email |-> e, seat |-> seat, token |-> t, expired |-> FALSE]
  OBVIOUS
<1>4. PICK q: q = [at |-> "send", id |-> i, token |-> t, known |-> FALSE]
  OBVIOUS
<1>5. row \in Invitation /\ q \in Request
  BY <1>3, <1>4 DEF Invitation, Request, InviteStatus
<1>6. /\ invitation' = [invitation EXCEPT ![i] = row] /\ invitation[i].status = "none"
      /\ request' = [request EXCEPT ![r] = q]
      /\ UNCHANGED <<mailed, users, orgRole, member>>
  <2>1. UNCHANGED <<mailed, users, orgRole, member>>
    BY DEF Create, accounts
  <2>2. invitation[i].status = "none"
    BY <1>2 DEF CreateInvitation, NoInvite
  <2>3. invitation' = [invitation EXCEPT ![i] = row]
    BY <1>2, <1>3 DEF CreateInvitation
  <2> QED
    BY <1>2, <1>4, <2>1, <2>2, <2>3
<1>7. /\ invitation'[i] = row /\ \A j \in Invites \ {i}: invitation'[j] = invitation[j]
      /\ request'[r] = q /\ \A s \in Requests \ {r}: request'[s] = request[s]
  BY <1>1, <1>6
<1>8. InvitationsTypeOK'
  BY <1>1, <1>2, <1>5, <1>6 DEF InvitationsTypeOK
<1>9. RowsOK' /\ AcceptedIsMember'
  BY <1>3, <1>6, <1>7 DEF IInv, RowsOK, AcceptedIsMember
<1>10. RequestsOK'
  <2>1. ASSUME NEW s \in Requests \ {r} PROVE RequestOK(s)'
    <3>1. request'[s] = request[s] /\ RequestOK(s)
      BY <1>1, <1>7
    <3>2. request[s].at # "idle" => request[s].id # i
      BY <1>6, <3>1 DEF RequestOK
    <3> QED
      BY <1>2, <1>6, <1>7, <3>1, <3>2 DEF RequestOK
  <2>2. RequestOK(r)'
    BY <1>2, <1>3, <1>4, <1>7 DEF RequestOK
  <2> QED
    BY <2>1, <2>2 DEF RequestsOK
<1>11. MembershipTypeOK' /\ NobodyIsOrphaned'
  BY <1>6 DEF IInv, TypeOK, MembershipTypeOK, NobodyIsOrphaned
<1>12. EarlyAccessTypeOK' /\ ApprovedCanEnter' /\ ReviewsOK'
  BY <1>6 DEF IInv, TypeOK, EarlyAccessTypeOK, ApprovedCanEnter, ReviewsOK, ReviewOK, earlyVars
<1> QED
  BY <1>8, <1>9, <1>10, <1>11, <1>12 DEF IInv, TypeOK

(* Seats are given to users there are, or that are made with them.         *)
LEMMA SeatsKeep ==
  ASSUME IInv, UNCHANGED earlyVars,
         \/ \E r \in Requests: Grant(r)
         \/ \E e \in Emails, seat \in Seats: UpdateMember(e, seat) /\ UNCHANGED inviteVars
  PROVE  IInv'
<1>1. /\ invitation \in [Invites -> Invitation] /\ request \in [Requests -> Request]
      /\ drawn \subseteq Tokens /\ mailed \subseteq drawn
      /\ \A s \in Requests: RequestOK(s)
      /\ MembershipTypeOK /\ NobodyIsOrphaned
  BY DEF IInv, TypeOK, InvitationsTypeOK, RequestsOK
<1>2. ASSUME users \subseteq users', UNCHANGED invitation,
             \A f \in Emails: member[f] # NoMember => member'[f] # NoMember
      PROVE  RowsOK' /\ AcceptedIsMember' /\ EarlyAccessTypeOK' /\ ApprovedCanEnter' /\ ReviewsOK'
  <2>1. \A i \in Invites: invitation[i].email \in Emails
    BY <1>1 DEF Invitation
  <2>2. RowsOK' /\ AcceptedIsMember'
    BY <1>2, <2>1 DEF IInv, RowsOK, AcceptedIsMember
  <2>3. EarlyAccessTypeOK' /\ ApprovedCanEnter' /\ ReviewsOK'
    BY <1>2 DEF IInv, TypeOK, EarlyAccessTypeOK, ApprovedCanEnter, ReviewsOK, ReviewOK, earlyVars
  <2> QED
    BY <2>2, <2>3
<1>3. ASSUME NEW r \in Requests, Grant(r)
      PROVE  IInv'
  <2>1. PICK i: i = request[r].id
    OBVIOUS
  <2>2. PICK e, seat: e = invitation[i].email /\ seat = invitation[i].seat
    OBVIOUS
  <2>3. /\ i \in Invites /\ invitation[i].status # "none"
        /\ request[r].known => e \in users
    BY <1>1, <1>3, <2>1, <2>2 DEF RequestOK, Grant
  <2>4. e \in Emails /\ seat \in Seats /\ seat.role \in OrgRole
    BY <1>1, <2>2, <2>3, SeatsAreReal DEF IInv, RowsOK, Invitation
  <2>5. /\ CreateUser(e, seat.role) \/ (e \in users /\ UNCHANGED <<users, orgRole>>)
        /\ UpsertSchemeMembership(e, seat)
        /\ UNCHANGED <<invitation, drawn, mailed>>
    BY <1>3, <2>1, <2>2, <2>3 DEF Grant
  <2>6. /\ MembershipTypeOK' /\ NobodyIsOrphaned' /\ users \subseteq users'
        /\ \A f \in Emails: member[f] # NoMember => member'[f] # NoMember
        /\ member'[e] # NoMember
    BY <1>1, <2>4, <2>5, AccountsKeep
  <2>7. PICK q: q = [request[r] EXCEPT !.at = "mark"]
    OBVIOUS
  <2>8. /\ request' = [request EXCEPT ![r] = q] /\ q \in Request /\ q.at = "mark" /\ q.id = i
    BY <1>1, <1>3, <2>1, <2>7 DEF Grant, Becomes, Request
  <2>9. RequestsOK'
    <3>1. request'[r] = q /\ \A s \in Requests \ {r}: RequestOK(s)'
      BY <2>5, <2>6, <2>8, OtherRequestsStay DEF IInv, TypeOK
    <3>2. RequestOK(r)'
      BY <2>2, <2>3, <2>5, <2>6, <2>8, <3>1 DEF RequestOK
    <3> QED
      BY <3>1, <3>2 DEF RequestsOK
  <2>10. InvitationsTypeOK'
    BY <1>1, <2>5, <2>8 DEF InvitationsTypeOK
  <2> QED
    BY <1>2, <2>5, <2>6, <2>9, <2>10 DEF IInv, TypeOK
<1>4. ASSUME NEW e \in Emails, NEW seat \in Seats, UpdateMember(e, seat), UNCHANGED inviteVars
      PROVE  IInv'
  <2>1. /\ e \in users /\ UNCHANGED <<users, orgRole>>
        /\ UpsertSchemeMembership(e, seat)
    BY <1>1, <1>4 DEF UpdateMember, NobodyIsOrphaned
  <2>2. /\ MembershipTypeOK' /\ NobodyIsOrphaned' /\ users \subseteq users'
        /\ \A f \in Emails: member[f] # NoMember => member'[f] # NoMember
    <3>1. seat.role \in OrgRole
      BY SeatsAreReal
    <3> QED
      BY <1>1, <2>1, <3>1, AccountsKeep
  <2>3. UNCHANGED <<invitation, drawn, mailed, request>>
    BY <1>4 DEF inviteVars
  <2>4. InvitationsTypeOK'
    BY <1>1, <2>3 DEF InvitationsTypeOK
  <2>5. RequestsOK'
    <3>1. ASSUME NEW s \in Requests PROVE RequestOK(s)'
      <4>1. /\ RequestOK(s) /\ request[s] \in Request
            /\ \A i \in Invites: invitation[i].email \in Emails
        BY <1>1 DEF Invitation
      <4> QED
        BY <2>2, <2>3, <4>1 DEF RequestOK
    <3> QED
      BY <3>1 DEF RequestsOK
  <2> QED
    BY <1>2, <2>2, <2>3, <2>4, <2>5 DEF IInv, TypeOK
<1> QED
  BY <1>3, <1>4

LEMMA InviteStepKeeps ==
  ASSUME IInv, InvitationsNext, UNCHANGED earlyVars
  PROVE  IInv'
BY MovesKeep, EditsKeep, CreateKeeps, SeatsKeep DEF InvitationsNext

(***************************************************************************)
(* Reviews.                                                                *)
(***************************************************************************)
LEMMA ReviewStepKeeps ==
  ASSUME IInv, EarlyAccessNext, UNCHANGED inviteVars
  PROVE  IInv'
<1>1. /\ application \in [Applications -> Application] /\ review \in [Reviews -> Review]
      /\ approvalSent \subseteq Applications
      /\ \A v \in Reviews: ReviewOK(v)
      /\ MembershipTypeOK /\ NobodyIsOrphaned /\ ApprovedCanEnter
      /\ NoReview \in Review /\ NoReview.at = "idle"
  <2>1. (CHOOSE a \in Applications: TRUE) \in Applications
    BY EarlyAccessAssumption
  <2>2. NoReview \in Review /\ NoReview.at = "idle"
    BY <2>1 DEF NoReview, Review
  <2> QED
    BY <2>2 DEF IInv, TypeOK, EarlyAccessTypeOK, ReviewsOK
<1>2. ASSUME users \subseteq users', UNCHANGED member
      PROVE  InvitationsTypeOK' /\ RowsOK' /\ AcceptedIsMember' /\ RequestsOK'
  <2>1. UNCHANGED <<invitation, drawn, mailed, request>>
    BY DEF inviteVars
  <2>2. InvitationsTypeOK' /\ RowsOK' /\ AcceptedIsMember'
    BY <1>2, <2>1 DEF IInv, TypeOK, InvitationsTypeOK, RowsOK, AcceptedIsMember
  <2>3. ASSUME NEW r \in Requests PROVE RequestOK(r)'
    <3>1. RequestOK(r)
      BY DEF IInv, RequestsOK
    <3> QED
      BY <1>2, <2>1, <3>1 DEF RequestOK
  <2> QED
    BY <2>2, <2>3 DEF RequestsOK
<1>3. ASSUME UNCHANGED accounts
      PROVE  /\ users \subseteq users' /\ UNCHANGED <<users, member>>
             /\ MembershipTypeOK' /\ NobodyIsOrphaned'
  BY <1>1, <1>3 DEF accounts, MembershipTypeOK, NobodyIsOrphaned
(* What one row or one review becomes, the others as they were.            *)
<1>4. ASSUME NEW a \in Applications, NEW s \in EarlyAccessStatus,
             application' = [application EXCEPT ![a].status = s],
             application[a].status = "none" \/ s # "none",
             s = "approved" => a \in approvalSent /\ application[a].email \in users,
             review' \in [Reviews -> Review],
             \A v \in Reviews: review'[v] = review[v] \/ review'[v].at = "idle",
             UNCHANGED <<approvalSent, accounts>>
      PROVE  IInv'
  <2>1. /\ application' \in [Applications -> Application]
        /\ \A b \in Applications: /\ application'[b].email = application[b].email
                                  /\ b # a => application'[b] = application[b]
                                  /\ application[b].status # "none" => application'[b].status # "none"
        /\ application'[a].status = s
    BY <1>1, <1>4 DEF Application
  <2>2. EarlyAccessTypeOK'
    BY <1>1, <1>4, <2>1 DEF EarlyAccessTypeOK
  <2>3. ApprovedCanEnter'
    BY <1>1, <1>3, <1>4, <2>1 DEF ApprovedCanEnter
  <2>4. ReviewsOK'
    <3>1. ASSUME NEW v \in Reviews PROVE ReviewOK(v)'
      BY <1>1, <1>3, <1>4, <2>1 DEF ReviewOK, Review
    <3> QED
      BY <3>1 DEF ReviewsOK
  <2> QED
    BY <1>2, <1>3, <1>4, <2>2, <2>3, <2>4 DEF IInv, TypeOK
<1>5. ASSUME NEW v \in Reviews, NEW q \in Review, review' = [review EXCEPT ![v] = q], UNCHANGED <<application, member>>,
             MembershipTypeOK', NobodyIsOrphaned', users \subseteq users', approvalSent \subseteq approvalSent',
             approvalSent' \subseteq Applications, ReviewOK(v)'
      PROVE  IInv'
  <2>1. EarlyAccessTypeOK'
    BY <1>1, <1>5 DEF EarlyAccessTypeOK
  <2>2. ApprovedCanEnter'
    BY <1>1, <1>5 DEF ApprovedCanEnter
  <2>3. ReviewsOK'
    <3>1. ASSUME NEW w \in Reviews \ {v} PROVE ReviewOK(w)'
      <4>1. review'[w] = review[w]
        BY <1>1, <1>5
      <4> QED
        BY <1>1, <1>5, <4>1 DEF ReviewOK
    <3> QED
      BY <1>5, <3>1 DEF ReviewsOK
  <2> QED
    BY <1>2, <1>5, <2>1, <2>2, <2>3 DEF IInv, TypeOK
<1>6. ASSUME NEW a \in Applications, Submit(a) PROVE IInv'
  <2>1. /\ application' = [application EXCEPT ![a].status = "pending"] /\ application[a].status = "none"
        /\ UNCHANGED <<approvalSent, review, accounts>>
    BY <1>6 DEF Submit
  <2> QED
    BY <1>1, <1>4, <2>1 DEF EarlyAccessStatus
<1>7. ASSUME NEW a \in Applications, Reject(a) PROVE IInv'
  <2>1. PICK s: s = IF application[a].status = "pending" THEN "rejected" ELSE application[a].status
    OBVIOUS
  <2>2. /\ application' = [application EXCEPT ![a].status = s]
        /\ UNCHANGED <<approvalSent, review, accounts>>
        /\ s \in EarlyAccessStatus /\ s # "none"
        /\ s = "approved" => application[a].status = "approved"
    BY <1>1, <1>7, <2>1 DEF Reject, transitionPendingReview, MayMove, Application, EarlyAccessStatus
  <2>3. /\ s = "approved" => a \in approvalSent /\ application[a].email \in users
        /\ review' \in [Reviews -> Review] /\ \A w \in Reviews: review'[w] = review[w]
    BY <1>1, <2>2 DEF ApprovedCanEnter
  <2> QED
    BY <1>4, <2>2, <2>3
<1>8. ASSUME NEW v \in Reviews, NEW a \in Applications, GetEarlyAccessRequest(v, a) PROVE IInv'
  <2>1. PICK q: q = [at |-> "register", id |-> a]
    OBVIOUS
  <2>2. /\ q \in Review /\ review' = [review EXCEPT ![v] = q] /\ review'[v] = q
        /\ UNCHANGED <<application, approvalSent, accounts>> /\ application[a].status = "pending"
    BY <1>1, <1>8, <2>1 DEF GetEarlyAccessRequest, Review
  <2>3. ReviewOK(v)'
    BY <2>1, <2>2 DEF ReviewOK
  <2> QED
    BY <1>1, <1>3, <1>5, <2>2, <2>3
<1>9. ASSUME NEW v \in Reviews,
             LookUpApplicant(v) \/ IssuePasswordResetURL(v) \/ SendApproval(v) \/ ReviewFails(v)
      PROVE  IInv'
  <2>1. PICK old: old = review[v]
    OBVIOUS
  <2>2. PICK q: q = review'[v]
    OBVIOUS
  <2>3. UNCHANGED <<application, accounts>>
    BY <1>9 DEF LookUpApplicant, IssuePasswordResetURL, SendApproval, ReviewFails
  <2>4. old \in Review /\ application[old.id].email \in Emails
    BY <1>1, <2>1 DEF Review, Application
  <2>5. /\ review' = [review EXCEPT ![v] = q] /\ q \in Review
        /\ approvalSent' \in {approvalSent, approvalSent \cup {old.id}}
        /\ q.at = "idle" \/ (q.id = old.id /\ old.at # "idle")
        /\ q.at \in {"mail", "move"} => application[q.id].email \in users
        /\ q.at = "move" => q.id \in approvalSent'
    <3>1. CASE LookUpApplicant(v)
      <4>1. PICK at \in {"issue", "insert"}: review' = [review EXCEPT ![v].at = at]
        BY <3>1 DEF LookUpApplicant, Goes
      <4> QED
        BY <1>1, <2>1, <2>2, <2>4, <3>1, <4>1 DEF LookUpApplicant, Review
    <3>2. CASE IssuePasswordResetURL(v)
      BY <1>1, <2>1, <2>2, <2>4, <3>2 DEF IssuePasswordResetURL, Goes, Review, GetUserByEmail
    <3>3. CASE SendApproval(v)
      BY <1>1, <2>1, <2>2, <2>4, <3>3 DEF SendApproval, Goes, Review, ReviewOK
    <3>4. CASE ReviewFails(v)
      BY <1>1, <2>1, <2>2, <2>4, <3>4 DEF ReviewFails, Done
    <3> QED
      BY <1>9, <3>1, <3>2, <3>3, <3>4
  <2>6. approvalSent \subseteq approvalSent' /\ approvalSent' \subseteq Applications
    BY <1>1, <2>4, <2>5 DEF Review
  <2>7. ReviewOK(v)'
    BY <1>1, <1>3, <2>1, <2>2, <2>3, <2>5 DEF ReviewOK
  <2> QED
    BY <1>3, <1>5, <2>3, <2>5, <2>6, <2>7
<1>10. ASSUME NEW v \in Reviews, Register(v) PROVE IInv'
  <2>1. PICK q: q = [review[v] EXCEPT !.at = "issue"]
    OBVIOUS
  <2>2. PICK e: e = application[review[v].id].email
    OBVIOUS
  <2>3. /\ q \in Review /\ review' = [review EXCEPT ![v] = q] /\ review'[v] = q
        /\ UNCHANGED <<application, approvalSent, member>> /\ CreateUser(e, "admin")
        /\ e \in Emails /\ review[v].at = "insert" /\ q.at = "issue" /\ q.id = review[v].id
    BY <1>1, <1>10, <2>1, <2>2 DEF Register, Goes, Review, Application
  <2>4. MembershipTypeOK' /\ NobodyIsOrphaned' /\ users \subseteq users'
    <3>1. "admin" \in OrgRole
      BY DEF OrgRole
    <3>2. [role |-> "trustee", unit |-> NoUnit] \in Seats
      BY DEF Seats, Seat, SeatNamed, InvitableRole
    <3> QED
      BY <1>1, <2>3, <3>1, <3>2, AccountsKeep
  <2>5. ReviewOK(v)'
    BY <1>1, <2>3 DEF ReviewOK
  <2> QED
    BY <1>1, <1>5, <2>3, <2>4, <2>5
<1>11. ASSUME NEW v \in Reviews, Approve(v) PROVE IInv'
  <2>1. PICK a: a = review[v].id
    OBVIOUS
  <2>2. PICK s: s = IF application[a].status = "pending" THEN "approved" ELSE application[a].status
    OBVIOUS
  <2>3. /\ application' = [application EXCEPT ![a].status = s]
        /\ review' = [review EXCEPT ![v] = NoReview]
        /\ UNCHANGED <<approvalSent, accounts>>
        /\ review[v].at = "move"
    BY <1>11, <2>1, <2>2 DEF Approve, transitionPendingReview, MayMove, Done
  <2>4. /\ a \in Applications /\ a \in approvalSent
        /\ application[a].email \in users /\ application[a].status # "none"
    BY <1>1, <2>1, <2>3 DEF ReviewOK, Review
  <2>5. s \in EarlyAccessStatus /\ s # "none"
    BY <1>1, <2>2, <2>4 DEF Application, EarlyAccessStatus
  <2>6. /\ review' \in [Reviews -> Review]
        /\ \A w \in Reviews: review'[w] = review[w] \/ review'[w].at = "idle"
    BY <1>1, <2>3
  <2> QED
    BY <1>4, <2>3, <2>4, <2>5, <2>6
<1> QED
  BY <1>6, <1>7, <1>8, <1>9, <1>10, <1>11 DEF EarlyAccessNext

LEMMA Invariance == Spec => []IInv
<1>1. Init => IInv
  <2> SUFFICES ASSUME Init PROVE IInv
    OBVIOUS
  <2>1. (CHOOSE e \in Emails: TRUE) \in Emails /\ (CHOOSE a \in Applications: TRUE) \in Applications
    BY MembershipAssumption, EarlyAccessAssumption
  <2>2. NoInvite \in Invitation /\ NoInvite.status = "none"
    BY <2>1 DEF NoInvite, Invitation, InviteStatus
  <2>3. Idle \in Request /\ Idle.at = "idle"
    BY DEF Idle, Request
  <2>4. NoReview \in Review /\ NoReview.at = "idle"
    BY <2>1 DEF NoReview, Review
  <2>5. MembershipTypeOK /\ NobodyIsOrphaned
    BY DEF Init, MembershipInit, MembershipTypeOK, NobodyIsOrphaned
  <2>6. InvitationsTypeOK /\ AcceptedIsMember /\ RowsOK
    BY <2>2, <2>3 DEF Init, InvitationsInit, InvitationsTypeOK, AcceptedIsMember, RowsOK
  <2>7. RequestsOK
    BY <2>3 DEF Init, InvitationsInit, RequestsOK, RequestOK
  <2>8. /\ application \in [Applications -> Application]
        /\ \A a \in Applications: application[a].status = "none"
    BY DEF Init, EarlyAccessInit, Application, EarlyAccessStatus
  <2>9. EarlyAccessTypeOK /\ ApprovedCanEnter /\ ReviewsOK
    BY <2>4, <2>8 DEF Init, EarlyAccessInit, EarlyAccessTypeOK, ApprovedCanEnter, ReviewsOK, ReviewOK
  <2> QED
    BY <2>5, <2>6, <2>7, <2>9 DEF IInv, TypeOK
<1>2. IInv /\ [Next]_vars => IInv'
  <2> SUFFICES ASSUME IInv, [Next]_vars PROVE IInv'
    OBVIOUS
  <2>1. CASE Next
    BY <2>1, InviteStepKeeps, ReviewStepKeeps DEF Next
  <2>2. CASE UNCHANGED vars
    <3>1. UNCHANGED <<users, orgRole, member, invitation, drawn, mailed, request,
                      application, approvalSent, review>>
      BY <2>2 DEF vars, accounts, inviteVars, earlyVars
    <3>2. MembershipTypeOK' /\ InvitationsTypeOK' /\ EarlyAccessTypeOK'
      BY <3>1 DEF IInv, TypeOK, MembershipTypeOK, InvitationsTypeOK, EarlyAccessTypeOK
    <3>3. NobodyIsOrphaned' /\ AcceptedIsMember' /\ ApprovedCanEnter' /\ RowsOK'
      BY <3>1 DEF IInv, NobodyIsOrphaned, AcceptedIsMember, ApprovedCanEnter, RowsOK
    <3>4. RequestsOK' /\ ReviewsOK'
      BY <3>1 DEF IInv, RequestsOK, RequestOK, ReviewsOK, ReviewOK
    <3> QED
      BY <3>2, <3>3, <3>4 DEF IInv, TypeOK
  <2> QED
    BY <2>1, <2>2
<1> QED
  BY <1>1, <1>2, PTL DEF Spec

(* What the tables of users, invitations and applications hold keeps its   *)
(* type (the rows of internal/invitation and internal/earlyaccess).        *)
THEOREM TypeCorrect == Spec => []TypeOK
<1>1. IInv => TypeOK
  BY DEF IInv
<1> QED
  BY <1>1, Invariance, PTL

(* No account is left without an organisation and no member without an     *)
(* account, wherever Accept or an approval stops.                          *)
THEOREM NobodyOrphaned == Spec => []NobodyIsOrphaned
<1>1. IInv => NobodyIsOrphaned
  BY DEF IInv
<1> QED
  BY <1>1, Invariance, PTL

(* Accept marks an invitation only after its transaction has granted.      *)
THEOREM AcceptedAreMembers == Spec => []AcceptedIsMember
<1>1. IInv => AcceptedIsMember
  BY DEF IInv
<1> QED
  BY <1>1, Invariance, PTL

(* An approval moves the row only after registering and mailing.           *)
THEOREM ApprovedEnter == Spec => []ApprovedCanEnter
<1>1. IInv => ApprovedCanEnter
  BY DEF IInv
<1> QED
  BY <1>1, Invariance, PTL

(* Resend never stores a link that was not mailed.                         *)
THEOREM StoredLinksWereMailed == Spec => StoredLinkWasMailed
<1> DEFINE Kept == \A i \in Invites: LET old == invitation[i].token
                                         new == invitation[i].token'
                                     IN  old # NoToken /\ new # old => new \in mailed
<1>1. IInv /\ [Next]_vars => [Kept]_inviteVars
  <2> SUFFICES ASSUME IInv, Next, inviteVars' # inviteVars, NEW i \in Invites,
                      invitation[i].token # NoToken, invitation'[i].token # invitation[i].token
               PROVE  invitation'[i].token \in mailed
    BY DEF vars, inviteVars
  <2>1. /\ invitation \in [Invites -> Invitation]
        /\ \A r \in Requests: RequestOK(r)
    BY DEF IInv, TypeOK, InvitationsTypeOK, RequestsOK
  <2>2. InvitationsNext
    BY DEF Next
  <2>3. ASSUME NEW r \in Requests, NEW j \in Invites, NEW e \in Emails, NEW seat \in Seats,
               Create(r, j, e, seat)
        PROVE  FALSE
    <3>1. PICK row: invitation' = [invitation EXCEPT ![j] = row] /\ invitation[j] = NoInvite
      BY <2>3 DEF Create, CreateInvitation
    <3> QED
      BY <2>1, <3>1 DEF NoInvite
  <2>4. ASSUME NEW r \in Requests, StoreToken(r)
        PROVE  invitation'[i].token \in mailed
    <3>1. /\ request[r].id \in Invites /\ request[r].token \in mailed
          /\ invitation' = [invitation EXCEPT ![request[r].id].token = request[r].token,
                                              ![request[r].id].expired = FALSE]
      BY <2>1, <2>4 DEF StoreToken, UpdateInvitationToken, RequestOK
    <3> QED
      BY <2>1, <3>1 DEF Invitation
  <2>5. ASSUME NEW r \in Requests, RevokeUnsent(r) \/ Revoke(r) \/ MarkAccepted(r)
        PROVE  FALSE
    <3>1. PICK s: invitation' = [invitation EXCEPT ![request[r].id].status = s]
      BY <2>5 DEF RevokeUnsent, Revoke, MarkAccepted, UpdateInvitationStatus
    <3> QED
      BY <2>1, <3>1 DEF Invitation
  <2>6. ASSUME NEW j \in Invites, InvitationExpires(j)
        PROVE  FALSE
    <3>1. invitation' = [invitation EXCEPT ![j].expired = TRUE]
      BY <2>6 DEF InvitationExpires
    <3> QED
      BY <2>1, <3>1 DEF Invitation
  <2>7. ASSUME UNCHANGED invitation
        PROVE  FALSE
    BY <2>7
  <2> QED
    BY <2>2, <2>3, <2>4, <2>5, <2>6, <2>7
       DEF InvitationsNext, Resend, CheckRevoke, Verify, SendInvitation, MailResent, LookUpUser, Grant,
           RequestEnds, inviteVars
<1> QED
  BY <1>1, Invariance, PTL DEF Spec, StoredLinkWasMailed

(* Once revoked with nobody accepting it, an invitation stays revoked.     *)
THEOREM RevokedStays == Spec => RevokedForGood
<1> DEFINE Kept == \A i \in Invites: invitation[i].status = "revoked" /\ ~Accepting(i)
                                       => invitation'[i].status = "revoked" /\ ~Accepting(i)'
<1>1. IInv /\ [Next]_vars => [Kept]_inviteVars
  <2> SUFFICES ASSUME IInv, Next, inviteVars' # inviteVars, NEW i \in Invites,
                      invitation[i].status = "revoked", ~Accepting(i)
               PROVE  invitation'[i].status = "revoked" /\ ~Accepting(i)'
    BY DEF vars, inviteVars
  <2>1. /\ invitation \in [Invites -> Invitation] /\ request \in [Requests -> Request]
        /\ \A r \in Requests: ~(request[r].id = i /\ request[r].at \in {"lookup", "grant", "mark"})
    BY DEF IInv, TypeOK, InvitationsTypeOK, Accepting
  <2>2. InvitationsNext
    BY DEF Next
  (* Requests that begin or go on without being an acceptance of i.        *)
  <2>3. ASSUME NEW r \in Requests, NEW q, request' = [request EXCEPT ![r] = q],
               ~(q.id = i /\ q.at \in {"lookup", "grant", "mark"})
        PROVE  ~Accepting(i)'
    <3>1. request'[r] = q /\ \A s \in Requests \ {r}: request'[s] = request[s]
      BY <2>1, <2>3
    <3> QED
      BY <2>1, <2>3, <3>1 DEF Accepting
  <2>4. ASSUME NEW r \in Requests, Ends(r)
        PROVE  ~Accepting(i)'
    BY <2>3, <2>4 DEF Ends, Idle
  <2>5. ASSUME NEW r \in Requests, NEW at, Becomes(r, at),
               at \notin {"lookup", "grant", "mark"} \/ request[r].at \in {"lookup", "grant"}
        PROVE  ~Accepting(i)'
    <3>1. PICK q: q = [request[r] EXCEPT !.at = at]
      OBVIOUS
    <3>2. request' = [request EXCEPT ![r] = q] /\ q.at = at /\ q.id = request[r].id
      BY <2>1, <2>5, <3>1 DEF Becomes, Request
    <3> QED
      BY <2>1, <2>3, <2>5, <3>2
  <2>6. ASSUME NEW r \in Requests, NEW j \in Invites, NEW e \in Emails, NEW seat \in Seats,
               Create(r, j, e, seat)
        PROVE  invitation'[i].status = "revoked" /\ ~Accepting(i)'
    <3>1. PICK row, t: /\ invitation' = [invitation EXCEPT ![j] = row] /\ invitation[j] = NoInvite
                       /\ request' = [request EXCEPT ![r] = [at |-> "send", id |-> j, token |-> t, known |-> FALSE]]
      BY <2>6 DEF Create, CreateInvitation
    <3>2. j # i
      BY <3>1 DEF NoInvite
    <3> QED
      BY <2>1, <2>3, <3>1, <3>2
  <2>7. ASSUME NEW r \in Requests, NEW j \in Invites, Resend(r, j) \/ CheckRevoke(r, j)
        PROVE  invitation'[i].status = "revoked" /\ ~Accepting(i)'
    <3>1. CASE Resend(r, j)
      <4>1. PICK t: request' = [request EXCEPT ![r] = [at |-> "mail", id |-> j, token |-> t, known |-> FALSE]]
        BY <3>1 DEF Resend
      <4> QED
        BY <2>3, <3>1, <4>1 DEF Resend
    <3>2. CASE CheckRevoke(r, j)
      BY <2>3, <3>2 DEF CheckRevoke
    <3> QED
      BY <2>7, <3>1, <3>2
  <2>8. ASSUME NEW r \in Requests, NEW t \in Tokens, Verify(r, t)
        PROVE  invitation'[i].status = "revoked" /\ ~Accepting(i)'
    <3>1. PICK j \in Invites: /\ invitation[j].status = "pending"
            /\ request' = [request EXCEPT ![r] = [at |-> "lookup", id |-> j, token |-> t, known |-> FALSE]]
      BY <2>8 DEF Verify, GetInvitationByToken, Usable, Pending
    <3> QED
      BY <2>3, <2>8, <3>1 DEF Verify
  <2>9. ASSUME NEW r \in Requests, LookUpUser(r)
        PROVE  invitation'[i].status = "revoked" /\ ~Accepting(i)'
    <3>1. PICK q: q = [request[r] EXCEPT !.at = "grant",
                                         !.known = GetUserByEmail(invitation[request[r].id].email)]
      OBVIOUS
    <3>2. request' = [request EXCEPT ![r] = q] /\ q.id = request[r].id
      BY <2>1, <2>9, <3>1 DEF LookUpUser, Request
    <3> QED
      BY <2>1, <2>3, <2>9, <3>2 DEF LookUpUser
  <2>10. ASSUME NEW r \in Requests, SendInvitation(r) \/ MailResent(r) \/ Grant(r) \/ RequestEnds(r)
         PROVE  invitation'[i].status = "revoked" /\ ~Accepting(i)'
    BY <2>4, <2>5, <2>10 DEF SendInvitation, MailResent, Grant, RequestEnds
  <2>11. ASSUME NEW r \in Requests, RevokeUnsent(r) \/ Revoke(r) \/ StoreToken(r) \/ MarkAccepted(r)
         PROVE  invitation'[i].status = "revoked" /\ ~Accepting(i)'
    <3>1. ~Accepting(i)'
      BY <2>4, <2>11 DEF RevokeUnsent, Revoke, StoreToken, MarkAccepted
    <3>2. CASE RevokeUnsent(r) \/ Revoke(r)
      BY <2>1, <3>1, <3>2 DEF RevokeUnsent, Revoke, UpdateInvitationStatus, Invitation
    <3>3. CASE StoreToken(r)
      BY <2>1, <3>1, <3>3 DEF StoreToken, UpdateInvitationToken, Invitation
    <3>4. CASE MarkAccepted(r)
      BY <2>1, <3>1, <3>4 DEF MarkAccepted, UpdateInvitationStatus, Invitation
    <3> QED
      BY <2>11, <3>2, <3>3, <3>4
  <2>12. ASSUME NEW j \in Invites, InvitationExpires(j)
         PROVE  invitation'[i].status = "revoked" /\ ~Accepting(i)'
    BY <2>1, <2>12 DEF InvitationExpires, Invitation, Accepting
  <2> QED
    BY <2>2, <2>6, <2>7, <2>8, <2>9, <2>10, <2>11, <2>12 DEF InvitationsNext
<1> QED
  BY <1>1, Invariance, PTL DEF Spec, RevokedForGood

(* Two reviews of one application: the first to move it decides.           *)
THEOREM ReviewsAreFinal == Spec => ReviewIsFinal
<1> DEFINE Kept == \A a \in Applications: application[a].status \in {"approved", "rejected"}
                                            => application'[a].status = application[a].status
<1>1. IInv /\ [Next]_vars => [Kept]_earlyVars
  <2> SUFFICES ASSUME IInv, Next, earlyVars' # earlyVars, NEW a \in Applications,
                      application[a].status \in {"approved", "rejected"}
               PROVE  application'[a].status = application[a].status
    BY DEF vars, earlyVars
  <2>1. application \in [Applications -> Application]
    BY DEF IInv, TypeOK, EarlyAccessTypeOK
  <2>2. EarlyAccessNext
    BY DEF Next
  <2>3. ASSUME NEW b, NEW s, transitionPendingReview(b, s)
        PROVE  application'[a].status = application[a].status
    BY <2>1, <2>3 DEF transitionPendingReview, MayMove, Application
  <2>4. ASSUME NEW b \in Applications, Submit(b)
        PROVE  application'[a].status = application[a].status
    BY <2>1, <2>4 DEF Submit, Application
  <2> QED
    BY <2>2, <2>3, <2>4 DEF EarlyAccessNext, Reject, Approve, GetEarlyAccessRequest, LookUpApplicant, Register,
                            IssuePasswordResetURL, SendApproval, ReviewFails
<1> QED
  BY <1>1, Invariance, PTL DEF Spec, ReviewIsFinal

=============================================================================
