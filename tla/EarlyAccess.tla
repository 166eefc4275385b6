---------------------------- MODULE EarlyAccess -----------------------------
(***************************************************************************)
(* Requests for early access and their review (backend/internal/           *)
(* earlyaccess).  The admin decides from the console or from the signed    *)
(* links of the notification mail; nothing stops two decisions from being  *)
(* under way at once.  An approval reads the request, registers the        *)
(* applicant, issues a password link, mails it, and only then moves the    *)
(* row; a rejection is the move alone.                                     *)
(***************************************************************************)
EXTENDS Membership

CONSTANTS Applications, \* ids of rows of early_access_requests
          Reviews       \* reviews that may be under way at one time

ASSUME EarlyAccessAssumption == Reviews # {} /\ Applications # {}

VARIABLES application,  \* id -> row
          approvalSent, \* applications whose approval mail went out
          review        \* review -> where it is

earlyVars == <<application, approvalSent, review>>

EarlyAccessStatus == {"none", "pending", "approved", "rejected"}
Application == [status: EarlyAccessStatus, email: Emails]

NoReview == [at |-> "idle", id |-> CHOOSE a \in Applications: TRUE]
Review == [at: {"idle", "register", "insert", "issue", "mail", "move"}, id: Applications]

EarlyAccessInit ==
  /\ application \in [Applications -> {[status |-> "none", email |-> e] : e \in Emails}]
  /\ approvalSent = {}
  /\ review = [v \in Reviews |-> NoReview]

Goes(v, at) == review' = [review EXCEPT ![v].at = at]
Done(v) == review' = [review EXCEPT ![v] = NoReview]

(* Submit: a pending request of the address is answered again, by the look *)
(* through the list or by the unique index, instead of a second row.       *)
getPendingByEmail(e) ==
  {a \in Applications: application[a].status = "pending" /\ application[a].email = e}

Submit(a) ==
  /\ application[a].status = "none"
  /\ getPendingByEmail(application[a].email) = {}
  /\ application' = [application EXCEPT ![a].status = "pending"]
  /\ UNCHANGED <<approvalSent, review, accounts>>

(* UpdateEarlyAccessStatus ... WHERE id = $1 AND status = 'pending'.       *)
MayMove(a) == application[a].status = "pending"

transitionPendingReview(a, s) ==
  application' = [application EXCEPT ![a].status = IF MayMove(a) THEN s ELSE @]

Reject(a) ==
  /\ application[a].status # "none"
  /\ transitionPendingReview(a, "rejected")
  /\ UNCHANGED <<approvalSent, review, accounts>>

(***************************************************************************)
(* Approve.                                                                *)
(***************************************************************************)
GetEarlyAccessRequest(v, a) ==
  /\ review[v] = NoReview
  /\ application[a].status = "pending"
  /\ review' = [review EXCEPT ![v] = [at |-> "register", id |-> a]]
  /\ UNCHANGED <<application, approvalSent, accounts>>

(* sendApproval: Register looks the address up and, if it is free, creates *)
(* the user as the admin of an organisation of its own; an address that is *)
(* taken is fine, one that is taken between the two is an error.           *)
LookUpApplicant(v) ==
  /\ review[v].at = "register"
  /\ Goes(v, IF GetUserByEmail(application[review[v].id].email) THEN "issue" ELSE "insert")
  /\ UNCHANGED <<application, approvalSent, accounts>>

Register(v) ==
  /\ review[v].at = "insert"
  /\ CreateUser(application[review[v].id].email, "admin")
  /\ Goes(v, "issue")
  /\ UNCHANGED <<application, approvalSent, member>>

IssuePasswordResetURL(v) ==
  /\ review[v].at = "issue"
  /\ GetUserByEmail(application[review[v].id].email)
  /\ Goes(v, "mail")
  /\ UNCHANGED <<application, approvalSent, accounts>>

(* A plausible bug: the failure to send is logged and the review goes on.  *)
SendApprovalAnyway(v) ==
  /\ review[v].at = "mail"
  /\ approvalSent' \in {approvalSent, approvalSent \cup {review[v].id}}
  /\ Goes(v, "move")
  /\ UNCHANGED <<application, accounts>>

SendApproval(v) ==
  /\ review[v].at = "mail"
  /\ approvalSent' = approvalSent \cup {review[v].id}
  /\ Goes(v, "move")
  /\ UNCHANGED <<application, accounts>>

Approve(v) ==
  /\ review[v].at = "move"
  /\ transitionPendingReview(review[v].id, "approved")
  /\ Done(v)
  /\ UNCHANGED <<approvalSent, accounts>>

(* Any call of the approval may fail and ends it where it stands.          *)
ReviewFails(v) ==
  /\ review[v] # NoReview
  /\ Done(v)
  /\ UNCHANGED <<application, approvalSent, accounts>>

EarlyAccessNext ==
  \/ \E a \in Applications: Submit(a) \/ Reject(a)
  \/ \E v \in Reviews, a \in Applications: GetEarlyAccessRequest(v, a)
  \/ \E v \in Reviews: \/ LookUpApplicant(v) \/ Register(v) \/ IssuePasswordResetURL(v)
                       \/ SendApproval(v) \/ Approve(v) \/ ReviewFails(v)

EarlyAccessTypeOK ==
  /\ application \in [Applications -> Application]
  /\ approvalSent \subseteq Applications
  /\ review \in [Reviews -> Review]

(* Two admins, or an admin and a mail client, may review one request at a  *)
(* time: whoever moves it first decides, and the later one is told so      *)
(* (service.go:298).                                                       *)
ReviewIsFinal ==
  [][\A a \in Applications: application[a].status \in {"approved", "rejected"}
                              => application'[a].status = application[a].status]_earlyVars

(* An approved applicant has an account and a mail with a link that sets   *)
(* its password: no failure on the way there leaves the row approved and   *)
(* the applicant outside (service.go:186).                                 *)
ApprovedCanEnter ==
  \A a \in Applications: application[a].status = "approved"
                           => a \in approvalSent /\ application[a].email \in users
=============================================================================
