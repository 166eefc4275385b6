----------------------------- MODULE Membership -----------------------------
(***************************************************************************)
(* The tables that decide who belongs to an organisation and to a scheme:  *)
(* users, org_memberships and scheme_memberships.  A user is named by the  *)
(* address it registered with.  One organisation ("ours") and one of its   *)
(* schemes are looked at; an account made by Register is also the admin of *)
(* an organisation of its own.  Invitations and EarlyAccess write these    *)
(* tables; what they keep to themselves is in their own modules.           *)
(***************************************************************************)
EXTENDS Naturals, FiniteSets

CONSTANTS Emails,      \* normalised addresses
          Units,       \* units of the scheme
          NoUnit       \* a membership without a unit (unit_id NULL)

ASSUME MembershipAssumption ==
  /\ IsFiniteSet(Emails) /\ Emails # {}
  /\ NoUnit \notin Units

VARIABLES users,       \* addresses with an account
          orgRole,     \* address -> roles it has in organisations
          member       \* address -> its row of scheme_memberships

accounts == <<users, orgRole, member>>

(* A seat of the scheme: what an invitation offers and a membership holds. *)
InvitableRole == {"trustee", "resident"}
Seat == [role: InvitableRole, unit: Units \cup {NoUnit}]

(* The handlers ask for a unit when the seat is a resident's.              *)
SeatNamed(s) == s.role = "resident" => s.unit # NoUnit
Seats == {s \in Seat: SeatNamed(s)}

NoMember == [role |-> "none", unit |-> NoUnit]
OrgRole == InvitableRole \cup {"admin"}

MembershipInit ==
  /\ users = {}
  /\ orgRole = [e \in Emails |-> {}]
  /\ member = [e \in Emails |-> NoMember]

(***************************************************************************)
(* GetUserByEmail; CreateUser, which the UNIQUE address refuses, together  *)
(* with the org_memberships row of the same transaction.                   *)
(***************************************************************************)
GetUserByEmail(e) == e \in users

CreateUser(e, role) ==
  /\ ~GetUserByEmail(e)
  /\ users' = users \cup {e}
  /\ orgRole' = [orgRole EXCEPT ![e] = @ \cup {role}]

(* UpsertSchemeMembership: one row per user and scheme, overwritten.       *)
UpsertSchemeMembership(e, seat) == member' = [member EXCEPT ![e] = seat]

(***************************************************************************)
(* UpdateMember: an admin gives a member another seat.  The membership is  *)
(* read first, but rows are never deleted while the scheme stands and what *)
(* is written does not depend on what was read, so one step is enough.     *)
(***************************************************************************)
UpdateMember(e, seat) ==
  /\ member[e] # NoMember
  /\ UpsertSchemeMembership(e, seat)
  /\ UNCHANGED <<users, orgRole>>

MembershipTypeOK ==
  /\ users \subseteq Emails
  /\ orgRole \in [Emails -> SUBSET OrgRole]
  /\ member \in [Emails -> Seats \cup {NoMember}]

(* Login refuses a user without an organisation, so whichever requests     *)
(* race or fail, an account has a role in one, and a member of the scheme  *)
(* has an account (auth Register, invitation Accept).                      *)
NobodyIsOrphaned ==
  \A e \in Emails: /\ e \in users <=> orgRole[e] # {}
                   /\ member[e] # NoMember => e \in users
=============================================================================
