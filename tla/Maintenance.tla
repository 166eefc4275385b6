---------------------------- MODULE Maintenance -----------------------------
(***************************************************************************)
(* Maintenance requests of a scheme and the reviews of the contractors who *)
(* worked on them (backend/internal/maintenance, contractors.CreateReview).*)
(* A decision reads the request, checks it and writes WHERE id = $1: every *)
(* read and every write is a step.  Residents are refused every decision.  *)
(***************************************************************************)
EXTENDS Contractors

CONSTANTS Tickets,     \* ids of rows of maintenance_requests
          Clerks,      \* decisions that may be under way at one time
          ByName       \* a contractor who is only named, not in the directory

Nobody == "nobody"

ASSUME MaintenanceAssumption == ByName \notin Contractors /\ Nobody \notin Contractors \cup {ByName}

VARIABLES ticket,      \* id -> row
          reviews,     \* rows of contractor_reviews, as <<contractor, ticket>>
          clerk,       \* decision -> what it is about to write
          worked       \* history: <<contractor, ticket>> when a ticket was resolved

deskVars == <<contractor, ticket, reviews, clerk, worked>>

TicketStatus == {"none", "pending_approval", "open", "in_progress", "resolved"}
Ticket == [status: TicketStatus, contractor: Contractors \cup {ByName, Nobody}, late: BOOLEAN]
NoTicket == [status |-> "none", contractor |-> Nobody, late |-> FALSE]

AtRest == [op |-> "idle"]
Busy(k) == clerk[k] # AtRest
Takes(k, rec) == ~Busy(k) /\ clerk' = [clerk EXCEPT ![k] = rec]
Leaves(k) == clerk' = [clerk EXCEPT ![k] = AtRest]

MaintenanceInit ==
  /\ ContractorsInit
  /\ ticket = [t \in Tickets |-> NoTicket]
  /\ reviews = {} /\ worked = {}
  /\ clerk = [k \in Clerks |-> AtRest]

(***************************************************************************)
(* The queries.                                                            *)
(***************************************************************************)
(* CreateMaintenanceRequest, and UpdateMaintenanceStatus to               *)
(* pending_approval in the same transaction where the code does so.        *)
CreateMaintenanceRequest(t, status) ==
  /\ ticket[t] = NoTicket
  /\ ticket' = [ticket EXCEPT ![t].status = status]

(* AssignMaintenanceContractor and AssignMaintenanceContractorProfile.     *)
AssignMaintenanceContractor(t, c) ==
  ticket' = [ticket EXCEPT ![t].status = "in_progress", ![t].contractor = c]

ResolveMaintenanceRequest(t) == ticket' = [ticket EXCEPT ![t].status = "resolved"]

CountOpenMaintenanceByScheme == Cardinality({t \in Tickets: ticket[t].status \notin {"none", "resolved"}})
CountSlaBreachedMaintenanceByScheme ==
  Cardinality({t \in Tickets: ticket[t].status \notin {"none", "resolved", "pending_approval"} /\ ticket[t].late})

(***************************************************************************)
(* Create: what a resident asks for waits for approval.                    *)
(***************************************************************************)
Create(t, role) ==
  /\ CreateMaintenanceRequest(t, IF role = "resident" THEN "pending_approval" ELSE "open")
  /\ UNCHANGED <<contractor, reviews, clerk, worked>>

(***************************************************************************)
(* Assign.                                                                 *)
(***************************************************************************)
(* A plausible bug: work that is done can be given away again.            *)
MayReassign(t) == ticket[t].status # "none"
MayAssign(t) == ticket[t].status \in {"open", "pending_approval"}

Assign(k, t, c) ==
  /\ MayAssign(t)
  /\ Takes(k, [op |-> IF c = ByName THEN "assign" ELSE "check", t |-> t, c |-> c])
  /\ UNCHANGED <<contractor, ticket, reviews, worked>>

CheckAssignable(k) ==
  /\ clerk[k].op = "check"
  /\ IF ContractorAssignableToScheme(clerk[k].c) THEN clerk' = [clerk EXCEPT ![k].op = "assign"] ELSE Leaves(k)
  /\ UNCHANGED <<contractor, ticket, reviews, worked>>

CommitAssign(k) ==
  LET q == clerk[k] IN
  /\ q.op = "assign"
  /\ AssignMaintenanceContractor(q.t, q.c)
  /\ Leaves(k)
  /\ UNCHANGED <<contractor, reviews, worked>>

(***************************************************************************)
(* Resolve; a request that is resolved already is answered as it is.       *)
(***************************************************************************)
MayResolve(t) == ticket[t].status = "in_progress"

Resolve(k, t) ==
  /\ MayResolve(t)
  /\ Takes(k, [op |-> "resolve", t |-> t])
  /\ UNCHANGED <<contractor, ticket, reviews, worked>>

CommitResolve(k) ==
  LET t == clerk[k].t IN
  /\ clerk[k].op = "resolve"
  /\ ResolveMaintenanceRequest(t)
  /\ worked' = worked \cup {<<ticket[t].contractor, t>>}
  /\ Leaves(k)
  /\ UNCHANGED <<contractor, reviews>>

(***************************************************************************)
(* CreateReview, once for every contractor and request.                    *)
(***************************************************************************)
(* A plausible bug: the work need not be done yet.                         *)
MayReviewEarly(c, t) == ticket[t].contractor = c
MayReview(c, t) == ticket[t].contractor = c /\ ticket[t].status = "resolved"

CreateReview(k, c, t) ==
  /\ MayReview(c, t)
  /\ Takes(k, [op |-> "review", t |-> t, c |-> c])
  /\ UNCHANGED <<contractor, ticket, reviews, worked>>

CreateContractorReview(k) ==
  LET row == <<clerk[k].c, clerk[k].t>> IN
  /\ clerk[k].op = "review"
  /\ row \notin reviews
  /\ reviews' = reviews \cup {row}
  /\ Leaves(k)
  /\ UNCHANGED <<contractor, ticket, worked>>

(* A statement fails, or is refused by a constraint.                       *)
DecisionFails(k) ==
  /\ Busy(k)
  /\ Leaves(k)
  /\ UNCHANGED <<contractor, ticket, reviews, worked>>

(* The hours of the SLA pass.                                              *)
SlaPasses(t) ==
  /\ ticket[t].status # "none" /\ ~ticket[t].late
  /\ ticket' = [ticket EXCEPT ![t].late = TRUE]
  /\ UNCHANGED <<contractor, reviews, clerk, worked>>

MaintainDirectory(c, row) ==
  /\ CreateContractor(c, row) \/ UpdateContractor(c, row)
  /\ UNCHANGED <<ticket, reviews, clerk, worked>>

MaintenanceNext ==
  \/ \E t \in Tickets, role \in {"resident", "trustee"}: Create(t, role)
  \/ \E t \in Tickets: SlaPasses(t)
  \/ \E k \in Clerks, t \in Tickets: Resolve(k, t) \/ \E c \in Contractors \cup {ByName}: Assign(k, t, c)
  \/ \E k \in Clerks, c \in Contractors, t \in Tickets: CreateReview(k, c, t)
  \/ \E k \in Clerks: \/ CheckAssignable(k) \/ CommitAssign(k) \/ CommitResolve(k)
                      \/ CreateContractorReview(k) \/ DecisionFails(k)
  \/ \E c \in Contractors, row \in ContractorRow: MaintainDirectory(c, row)

(***************************************************************************)
(* Dashboard: the rows a member sees and the counters above them.          *)
(***************************************************************************)
isSlaBreached(t) == ticket[t].late /\ ticket[t].status \notin {"resolved", "pending_approval"}

Dashboard ==
  LET rows == {t \in Tickets: ticket[t] # NoTicket} IN
  [OpenCount |-> Cardinality({t \in rows: ticket[t].status # "resolved"}),
   SlaBreachedCount |-> Cardinality({t \in rows: isSlaBreached(t)})]

MaintenanceTypeOK ==
  /\ ContractorsTypeOK
  /\ ticket \in [Tickets -> Ticket]
  /\ reviews \subseteq Contractors \X Tickets
  /\ worked \subseteq (Contractors \cup {ByName}) \X Tickets

(* Work that is under way or done has somebody who does it, whatever       *)
(* decisions overlap.                                                      *)
WorkIsAssigned ==
  \A t \in Tickets: ticket[t].status \in {"in_progress", "resolved"} <=> ticket[t].contractor # Nobody

(* A review stands for work that was done: a decision that overtakes the   *)
(* review may move the request on, but not make the review one of somebody *)
(* who never finished it (contractors/service.go:285).                     *)
ReviewedWorkWasDone == reviews \subseteq worked

Assigning(t) == \E k \in Clerks: clerk[k].op \in {"check", "assign"} /\ clerk[k].t = t

StaysDone ==
  \A t \in Tickets: ticket[t].status = "resolved" /\ ~Assigning(t)
                       => ticket'[t].status = "resolved" /\ ~Assigning(t)'

(* A resolved request is done with, unless somebody was still assigning it *)
(* when it was resolved, which the code lets through (service.go:254).     *)
ResolvedIsDone == [][StaysDone]_deskVars

(* The counters of the dashboard, computed in Go over the rows, are those  *)
(* the scheme's health is computed from, counted in SQL.                   *)
CountersAgree ==
  Dashboard = [OpenCount |-> CountOpenMaintenanceByScheme,
               SlaBreachedCount |-> CountSlaBreachedMaintenanceByScheme]
=============================================================================
