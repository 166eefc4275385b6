---------------------------- MODULE MCOnboarding ----------------------------
(***************************************************************************)
(* Invitations and early access reviews at work on the same users and      *)
(* memberships.                                                            *)
(***************************************************************************)
EXTENDS Invitations, EarlyAccess, TLC

Init == MembershipInit /\ InvitationsInit /\ EarlyAccessInit

Next == \/ InvitationsNext /\ UNCHANGED earlyVars
        \/ EarlyAccessNext /\ UNCHANGED inviteVars

vars == <<accounts, inviteVars, earlyVars>>

Spec == Init /\ [][Next]_vars

(* Requests are alike, and so are invitations.                             *)
Alike == Permutations(Requests) \cup Permutations(Invites)

(* Types of the three modules' state.                                      *)
TypeOK == MembershipTypeOK /\ InvitationsTypeOK /\ EarlyAccessTypeOK
=============================================================================
