----------------------------- MODULE DeskProofs -----------------------------
(***************************************************************************)
(* What holds of maintenance requests and the WhatsApp inbox for any       *)
(* number of contractors, requests, messages, worker slots and decisions   *)
(* under way, with the staff and the inbox at work together; and of bank   *)
(* statements at the desk, where requests run one after the other.         *)
(***************************************************************************)
EXTENDS MCDesk, LedgerProofs, FiniteSetTheorems, TLAPS

Directory == /\ ContractorsTypeOK
             /\ \A c \in Contractors: contractor[c].linked => contractor[c].org = Ours

(***************************************************************************)
(* The staff: what each decision under way has made sure of.               *)
(***************************************************************************)
StaffOps == {"check", "assign", "resolve", "review"}
InboxOps == {"ticket", "dismiss", "broadcast"}
Assignment == [op: {"check", "assign"}, t: Tickets, c: Contractors \cup {ByName}]

StaffClerkOK(k) ==
  /\ clerk[k].op \in {"check", "assign"} => clerk[k] \in Assignment
  /\ clerk[k].op = "resolve" => /\ clerk[k].t \in Tickets
                                /\ ticket[clerk[k].t].status \in {"in_progress", "resolved"}
  /\ clerk[k].op = "review" => /\ clerk[k].t \in Tickets /\ clerk[k].c \in Contractors
                               /\ <<clerk[k].c, clerk[k].t>> \in worked

TicketOK(t) ==
  /\ ticket[t].status \in {"in_progress", "resolved"} <=> ticket[t].contractor # Nobody
  /\ ticket[t].status = "resolved" => <<ticket[t].contractor, t>> \in worked

StaffInv ==
  /\ MaintenanceTypeOK
  /\ Directory
  /\ reviews \subseteq worked
  /\ DOMAIN clerk = Clerks
  /\ \A t \in Tickets: TicketOK(t)
  /\ \A k \in Clerks: StaffClerkOK(k)

(* What every step does to the decisions under way: one of them changes.   *)
OneClerk(k, ops) ==
  /\ DOMAIN clerk' = Clerks
  /\ clerk'[k].op \notin ops
  /\ \A j \in Clerks: j # k => clerk'[j] = clerk[j]

LEMMA TakesOne ==
  ASSUME DOMAIN clerk = Clerks, NEW k \in Clerks, NEW rec, clerk' = [clerk EXCEPT ![k] = rec]
  PROVE  /\ DOMAIN clerk' = Clerks /\ clerk'[k] = rec
         /\ \A j \in Clerks: j # k => clerk'[j] = clerk[j]
OBVIOUS

LEMMA LeavesOne ==
  ASSUME DOMAIN clerk = Clerks, NEW k \in Clerks, Leaves(k), NEW ops, "idle" \notin ops
  PROVE  OneClerk(k, ops)
<1>1. AtRest.op = "idle"
  BY DEF AtRest
<1> QED
  BY <1>1, TakesOne DEF Leaves, OneClerk

(* Steps that do nothing but make a request, or none, leave the staff's    *)
(* books in order.                                                         *)
LEMMA CreationsKeep ==
  ASSUME StaffInv, UNCHANGED <<contractor, reviews, worked>>,
         ticket' = ticket \/ \E t \in Tickets, status \in {"open", "pending_approval"}:
                               CreateMaintenanceRequest(t, status),
         clerk' = clerk \/ \E k \in Clerks: OneClerk(k, StaffOps)
  PROVE  StaffInv'
<1>0. /\ ticket \in [Tickets -> Ticket] /\ \A t \in Tickets: TicketOK(t)
      /\ DOMAIN clerk = Clerks /\ \A k \in Clerks: StaffClerkOK(k)
  BY DEF StaffInv, MaintenanceTypeOK
<1> DEFINE Stand == /\ ticket' \in [Tickets -> Ticket] /\ \A t \in Tickets: TicketOK(t)'
                    /\ \A t \in Tickets: ticket[t].status # "none" => ticket'[t] = ticket[t]
<1>1. Stand
  <2>1. CASE ticket' = ticket
    BY <1>0, <2>1 DEF TicketOK
  <2>2. ASSUME NEW t \in Tickets, NEW status \in {"open", "pending_approval"}, CreateMaintenanceRequest(t, status)
        PROVE  Stand
    <3>1. PICK row: row = [ticket[t] EXCEPT !.status = status]
      OBVIOUS
    <3>2. ticket[t].status = "none" /\ ticket[t].contractor = Nobody /\ ticket' = [ticket EXCEPT ![t] = row]
      BY <2>2, <3>1 DEF CreateMaintenanceRequest, NoTicket
    <3>3. row \in Ticket /\ row.status = status /\ row.contractor = Nobody
      BY <1>0, <3>1, <3>2 DEF Ticket, TicketStatus
    <3> QED
      BY <1>0, <3>2, <3>3 DEF TicketOK
  <2> QED
    BY <2>1, <2>2
<1>2. DOMAIN clerk' = Clerks /\ \A k \in Clerks: StaffClerkOK(k)'
  <2>1. ASSUME NEW k \in Clerks, clerk'[k] = clerk[k] PROVE StaffClerkOK(k)'
    BY <1>0, <1>1, <2>1 DEF StaffClerkOK, Assignment
  <2>2. ASSUME NEW k \in Clerks, clerk'[k].op \notin StaffOps PROVE StaffClerkOK(k)'
    BY <2>2 DEF StaffClerkOK, StaffOps
  <2> QED
    BY <1>0, <2>1, <2>2 DEF OneClerk
<1> QED
  BY <1>1, <1>2 DEF StaffInv, MaintenanceTypeOK, Directory, ContractorsTypeOK

(* Steps that leave contractors, requests and reviews alone, and what a    *)
(* decision checks is so.                                                  *)
LEMMA DecisionsKeep ==
  ASSUME StaffInv, UNCHANGED <<contractor, ticket, reviews, worked>>,
         NEW k \in Clerks, NEW rec, clerk' = [clerk EXCEPT ![k] = rec],
         rec.op \in {"check", "assign"} => rec \in Assignment,
         rec.op = "resolve" => rec.t \in Tickets /\ ticket[rec.t].status \in {"in_progress", "resolved"},
         rec.op = "review" => rec.t \in Tickets /\ rec.c \in Contractors /\ <<rec.c, rec.t>> \in worked
  PROVE  StaffInv'
<1>1. /\ DOMAIN clerk' = Clerks /\ clerk'[k] = rec
      /\ \A j \in Clerks: j # k => clerk'[j] = clerk[j]
  BY TakesOne DEF StaffInv
<1>2. \A j \in Clerks: StaffClerkOK(j)'
  <2>1. StaffClerkOK(k)'
    BY <1>1 DEF StaffClerkOK, Assignment
  <2>2. ASSUME NEW j \in Clerks, j # k PROVE StaffClerkOK(j)'
    BY <1>1, <2>2 DEF StaffInv, StaffClerkOK, Assignment
  <2> QED
    BY <2>1, <2>2
<1> QED
  BY <1>1, <1>2 DEF StaffInv, MaintenanceTypeOK, Directory, ContractorsTypeOK, TicketOK

(* A request moves on by the decision of k.                                *)
LEMMA WorkMovesOn ==
  ASSUME StaffInv, UNCHANGED <<contractor, reviews>>, NEW k \in Clerks, Leaves(k),
         NEW t \in Tickets, NEW row \in Ticket, ticket' = [ticket EXCEPT ![t] = row],
         row.status \in {"in_progress", "resolved"}, row.contractor # Nobody,
         worked \subseteq worked', worked' \subseteq (Contractors \cup {ByName}) \X Tickets,
         row.status = "resolved" => <<row.contractor, t>> \in worked'
  PROVE  StaffInv'
<1>0. /\ ticket \in [Tickets -> Ticket] /\ \A s \in Tickets: TicketOK(s)
      /\ DOMAIN clerk = Clerks /\ \A j \in Clerks: StaffClerkOK(j)
  BY DEF StaffInv, MaintenanceTypeOK
<1>1. /\ ticket' \in [Tickets -> Ticket] /\ ticket'[t] = row
      /\ \A s \in Tickets: s # t => ticket'[s] = ticket[s]
  BY <1>0
<1>2. \A s \in Tickets: TicketOK(s)'
  BY <1>0, <1>1 DEF TicketOK
<1>3. OneClerk(k, StaffOps)
  BY <1>0, LeavesOne DEF StaffOps
<1>4. \A j \in Clerks: StaffClerkOK(j)'
  <2>1. StaffClerkOK(k)'
    BY <1>3 DEF OneClerk, StaffOps, StaffClerkOK
  <2>2. ASSUME NEW j \in Clerks, j # k PROVE StaffClerkOK(j)'
    <3>1. clerk'[j] = clerk[j] /\ StaffClerkOK(j)
      BY <1>0, <1>3, <2>2 DEF OneClerk
    <3> QED
      BY <1>1, <3>1 DEF StaffClerkOK, Assignment
  <2> QED
    BY <2>1, <2>2
<1> QED
  BY <1>1, <1>2, <1>3, <1>4 DEF StaffInv, MaintenanceTypeOK, Directory, ContractorsTypeOK, OneClerk

LEMMA StaffStep == StaffInv /\ MaintenanceNext => StaffInv'
<1> SUFFICES ASSUME StaffInv, MaintenanceNext PROVE StaffInv'
  OBVIOUS
<1>0. /\ ticket \in [Tickets -> Ticket] /\ \A t \in Tickets: TicketOK(t)
      /\ DOMAIN clerk = Clerks /\ \A k \in Clerks: StaffClerkOK(k)
      /\ worked \subseteq (Contractors \cup {ByName}) \X Tickets
  BY DEF StaffInv, MaintenanceTypeOK
<1>1. ASSUME NEW t \in Tickets, NEW role \in {"resident", "trustee"}, Create(t, role) PROVE StaffInv'
  BY <1>1, CreationsKeep DEF Create
<1>2. ASSUME NEW t \in Tickets, SlaPasses(t) PROVE StaffInv'
  <2>1. PICK row: row = [ticket[t] EXCEPT !.late = TRUE]
    OBVIOUS
  <2>2. ticket' = [ticket EXCEPT ![t] = row] /\ UNCHANGED <<contractor, reviews, clerk, worked>>
    BY <1>2, <2>1 DEF SlaPasses
  <2>3. row \in Ticket /\ row.status = ticket[t].status /\ row.contractor = ticket[t].contractor
    BY <1>0, <2>1 DEF Ticket
  <2>4. ticket' \in [Tickets -> Ticket] /\ \A s \in Tickets: TicketOK(s)' /\ ticket'[s].status = ticket[s].status
    BY <1>0, <2>2, <2>3 DEF TicketOK
  <2>5. \A j \in Clerks: StaffClerkOK(j)'
    BY <1>0, <2>2, <2>4 DEF StaffClerkOK, Assignment
  <2> QED
    BY <2>2, <2>4, <2>5 DEF StaffInv, MaintenanceTypeOK, Directory, ContractorsTypeOK
<1>3. ASSUME NEW k \in Clerks, NEW t \in Tickets, Resolve(k, t) PROVE StaffInv'
  <2>1. PICK rec: rec = [op |-> "resolve", t |-> t]
    OBVIOUS
  <2>2. rec.op = "resolve" /\ rec.t = t /\ clerk' = [clerk EXCEPT ![k] = rec]
    BY <1>3, <2>1 DEF Resolve, Takes
  <2> QED
    BY <1>3, <2>2, DecisionsKeep DEF Resolve, MayResolve
<1>4. ASSUME NEW k \in Clerks, NEW t \in Tickets, NEW c \in Contractors \cup {ByName}, Assign(k, t, c) PROVE StaffInv'
  <2>1. PICK rec: rec = [op |-> IF c = ByName THEN "assign" ELSE "check", t |-> t, c |-> c]
    OBVIOUS
  <2>3. rec \in Assignment /\ rec.op \in {"check", "assign"}
    BY <2>1 DEF Assignment
  <2>4. clerk' = [clerk EXCEPT ![k] = rec]
    BY <1>4, <2>1 DEF Assign, Takes
  <2> QED
    BY <1>4, <2>3, <2>4, DecisionsKeep DEF Assign
<1>5. ASSUME NEW k \in Clerks, NEW c \in Contractors, NEW t \in Tickets, CreateReview(k, c, t) PROVE StaffInv'
  <2>1. PICK rec: rec = [op |-> "review", t |-> t, c |-> c]
    OBVIOUS
  <2>2. rec.op = "review" /\ rec.t = t /\ rec.c = c /\ clerk' = [clerk EXCEPT ![k] = rec]
    BY <1>5, <2>1 DEF CreateReview, Takes
  <2>3. <<c, t>> \in worked
    BY <1>0, <1>5 DEF CreateReview, MayReview, TicketOK
  <2> QED
    BY <1>5, <2>2, <2>3, DecisionsKeep DEF CreateReview
<1>6. ASSUME NEW k \in Clerks, CheckAssignable(k) PROVE StaffInv'
  <2>1. CASE Leaves(k)
    BY <1>0, <1>6, <2>1, LeavesOne, CreationsKeep DEF CheckAssignable, StaffOps
  <2>2. CASE clerk' = [clerk EXCEPT ![k].op = "assign"]
    <3>1. PICK rec: rec = [clerk[k] EXCEPT !.op = "assign"]
      OBVIOUS
    <3>2. clerk[k] \in Assignment
      BY <1>0, <1>6 DEF CheckAssignable, StaffClerkOK
    <3>3. rec \in Assignment /\ rec.op = "assign"
      BY <3>1, <3>2 DEF Assignment
    <3>4. clerk' = [clerk EXCEPT ![k] = rec]
      BY <2>2, <3>1
    <3> QED
      BY <1>6, <3>3, <3>4, DecisionsKeep DEF CheckAssignable
  <2> QED
    BY <1>6, <2>1, <2>2 DEF CheckAssignable
<1>7. ASSUME NEW k \in Clerks, CommitAssign(k) PROVE StaffInv'
  <2>1. PICK t, c: t = clerk[k].t /\ c = clerk[k].c
    OBVIOUS
  <2>2. t \in Tickets /\ c \in Contractors \cup {ByName} /\ c # Nobody
    BY <1>0, <1>7, <2>1, MaintenanceAssumption DEF CommitAssign, StaffClerkOK, Assignment
  <2>3. PICK row: row = [ticket[t] EXCEPT !.status = "in_progress", !.contractor = c]
    OBVIOUS
  <2>4. ticket' = [ticket EXCEPT ![t] = row]
    BY <1>0, <1>7, <2>1, <2>2, <2>3 DEF CommitAssign, AssignMaintenanceContractor
  <2>5. row \in Ticket /\ row.status = "in_progress" /\ row.contractor = c
    BY <1>0, <2>2, <2>3 DEF Ticket, TicketStatus
  <2> QED
    BY <1>0, <1>7, <2>2, <2>4, <2>5, WorkMovesOn DEF CommitAssign
<1>8. ASSUME NEW k \in Clerks, CommitResolve(k) PROVE StaffInv'
  <2>1. PICK t: t = clerk[k].t
    OBVIOUS
  <2>2. /\ t \in Tickets /\ ticket[t] \in Ticket /\ ticket[t].contractor # Nobody
        /\ ticket[t].contractor \in Contractors \cup {ByName}
    BY <1>0, <1>8, <2>1 DEF CommitResolve, StaffClerkOK, TicketOK, Ticket
  <2>3. PICK row: row = [ticket[t] EXCEPT !.status = "resolved"]
    OBVIOUS
  <2>4. ticket' = [ticket EXCEPT ![t] = row] /\ worked' = worked \cup {<<ticket[t].contractor, t>>}
    BY <1>8, <2>1, <2>3 DEF CommitResolve, ResolveMaintenanceRequest
  <2>5. row \in Ticket /\ row.status = "resolved" /\ row.contractor = ticket[t].contractor
    BY <2>2, <2>3 DEF Ticket, TicketStatus
  <2>6. /\ worked \subseteq worked' /\ worked' \subseteq (Contractors \cup {ByName}) \X Tickets
        /\ <<row.contractor, t>> \in worked'
    BY <1>0, <2>2, <2>4, <2>5
  <2>7. Leaves(k) /\ UNCHANGED <<contractor, reviews>>
    BY <1>8 DEF CommitResolve
  <2> QED
    BY <2>2, <2>4, <2>5, <2>6, <2>7, WorkMovesOn
<1>9. ASSUME NEW k \in Clerks, CreateContractorReview(k) PROVE StaffInv'
  <2>1. PICK row: row = <<clerk[k].c, clerk[k].t>>
    OBVIOUS
  <2>2. row \in worked /\ row \in Contractors \X Tickets
    BY <1>0, <1>9, <2>1 DEF CreateContractorReview, StaffClerkOK
  <2>3. reviews' = reviews \cup {row}
    BY <1>9, <2>1 DEF CreateContractorReview
  <2>4. OneClerk(k, StaffOps)
    BY <1>0, <1>9, LeavesOne DEF CreateContractorReview, StaffOps
  <2>5. UNCHANGED <<contractor, ticket, worked>>
    BY <1>9 DEF CreateContractorReview
  <2>6. \A j \in Clerks: StaffClerkOK(j)'
    BY <1>0, <2>4, <2>5 DEF OneClerk, StaffOps, StaffClerkOK, Assignment
  <2> QED
    BY <2>2, <2>3, <2>4, <2>5, <2>6
       DEF StaffInv, MaintenanceTypeOK, Directory, ContractorsTypeOK, TicketOK, OneClerk
<1>10. ASSUME NEW k \in Clerks, DecisionFails(k) PROVE StaffInv'
  BY <1>0, <1>10, LeavesOne, CreationsKeep DEF DecisionFails, StaffOps
<1>11. ASSUME NEW c \in Contractors, NEW row \in ContractorRow, MaintainDirectory(c, row) PROVE StaffInv'
  <2>1. /\ contractor' = [contractor EXCEPT ![c] = row] /\ (row.linked => row.org = Ours)
        /\ UNCHANGED <<ticket, reviews, clerk, worked>>
    BY <1>11 DEF MaintainDirectory, CreateContractor, UpdateContractor, WriteContractor, OwnLinks
  <2>2. Directory'
    BY <2>1 DEF StaffInv, Directory, ContractorsTypeOK
  <2>3. \A j \in Clerks: StaffClerkOK(j)'
    BY <1>0, <2>1 DEF StaffClerkOK, Assignment
  <2> QED
    BY <2>1, <2>2, <2>3 DEF StaffInv, MaintenanceTypeOK, Directory, TicketOK
<1> QED
  BY <1>1, <1>2, <1>3, <1>4, <1>5, <1>6, <1>7, <1>8, <1>9, <1>10, <1>11 DEF MaintenanceNext

(***************************************************************************)
(* The inbox: a message links to the request its intake names; a message   *)
(* nobody contested has at most that one, and whoever is about to decide   *)
(* on it has seen that there is none.                                      *)
(***************************************************************************)
Settled(m) ==
  /\ \A t \in Tickets: <<m, t>> \in origin <=> t = message[m].ticket
  /\ intake[m].status = "ticket_created" <=> message[m].ticket # NoTicketId
  /\ message[m].at \in {"count", "classify"} /\ message[m].kind # "chat" => message[m].ticket = NoTicketId

MessageOK(m) ==
  /\ message[m].ticket = intake[m].ticket
  /\ message[m].ticket # NoTicketId => /\ ticket[message[m].ticket].status # "none"
                                       /\ \A n \in Messages: n # m => message[n].ticket # message[m].ticket
  /\ message[m].at = "none" => message[m].ticket = NoTicketId /\ intake[m].status = "none"
  /\ m \notin contested => Settled(m)

InboxClerkOK(k) ==
  clerk[k].op \in {"ticket", "dismiss"} =>
    /\ clerk[k].m \in Messages /\ message[clerk[k].m].at # "none"
    /\ clerk[k].m \notin contested => message[clerk[k].m].ticket = NoTicketId

LinkInv ==
  /\ message \in [Messages -> Message] /\ intake \in [Messages -> Intake]
  /\ origin \subseteq Messages \X Tickets
  /\ \A m \in Messages: MessageOK(m)
  /\ \A k \in Clerks: InboxClerkOK(k)

(* Requests that are there stay there.                                     *)
TicketsStay ==
  /\ ticket \in [Tickets -> Ticket]
  /\ \A t \in Tickets: ticket[t].status # "none" => ticket'[t].status # "none"

LEMMA TicketStays ==
  ASSUME ticket \in [Tickets -> Ticket], NEW t \in Tickets, NEW status \in TicketStatus \ {"none"},
         CreateMaintenanceRequest(t, status)
  PROVE  TicketsStay /\ ticket[t].status = "none" /\ ticket'[t].status = status
<1>1. PICK row: row = [ticket[t] EXCEPT !.status = status]
  OBVIOUS
<1>2. ticket[t].status = "none" /\ ticket' = [ticket EXCEPT ![t] = row]
  BY <1>1 DEF CreateMaintenanceRequest, NoTicket
<1>3. row.status = status
  BY <1>1 DEF Ticket
<1> QED
  BY <1>2, <1>3 DEF TicketsStay

(* Steps that decide nothing: the stage of one message may move on, never  *)
(* back before the bot, and a decision under way may end.                  *)
LEMMA LinksStand ==
  ASSUME LinkInv, StaffInv, UNCHANGED <<intake, origin, contested>>, TicketsStay,
         message' \in [Messages -> Message],
         \A m \in Messages: /\ message'[m].ticket = message[m].ticket
                            /\ message[m].at # "none" => message'[m].at # "none" /\ message'[m].kind = message[m].kind
                            /\ message'[m].at = "classify" => message[m].at \in {"count", "classify"}
                            /\ message'[m].at = "count" => message[m].at \in {"none", "count"},
         clerk' = clerk \/ \E k \in Clerks: OneClerk(k, {"ticket", "dismiss"})
  PROVE  LinkInv'
<1>1. ASSUME NEW m \in Messages PROVE MessageOK(m)'
  <2>1. message[m] \in Message
    BY DEF LinkInv
  <2>2. message[m].ticket \in Tickets \/ message[m].ticket = NoTicketId
    BY <2>1 DEF Message
  <2>3. message'[m].at = "none" => message[m].at = "none"
    OBVIOUS
  <2>4. m \notin contested => Settled(m)'
    BY DEF LinkInv, MessageOK, Settled
  <2> QED
    BY <2>2, <2>3, <2>4 DEF LinkInv, MessageOK, TicketsStay
<1>2. ASSUME NEW k \in Clerks, clerk'[k] = clerk[k] PROVE InboxClerkOK(k)'
  BY <1>2 DEF LinkInv, InboxClerkOK
<1>3. ASSUME NEW k \in Clerks, clerk'[k].op \notin {"ticket", "dismiss"} PROVE InboxClerkOK(k)'
  BY <1>3 DEF InboxClerkOK
<1> QED
  BY <1>1, <1>2, <1>3 DEF LinkInv, OneClerk

(* Steps that only begin a decision.                                       *)
LEMMA DecisionBegins ==
  ASSUME LinkInv, StaffInv, UNCHANGED <<inboxVars, ticket>>,
         NEW k \in Clerks, NEW rec, clerk' = [clerk EXCEPT ![k] = rec],
         rec.m \in Messages, message[rec.m].at # "none",
         rec.m \notin contested => message[rec.m].ticket = NoTicketId
  PROVE  LinkInv'
<1>1. /\ DOMAIN clerk' = Clerks /\ clerk'[k] = rec
      /\ \A j \in Clerks: j # k => clerk'[j] = clerk[j]
  BY TakesOne DEF StaffInv
<1>2. \A j \in Clerks: InboxClerkOK(j)'
  <2>1. InboxClerkOK(k)'
    BY <1>1 DEF InboxClerkOK, inboxVars
  <2>2. ASSUME NEW j \in Clerks, j # k PROVE InboxClerkOK(j)'
    BY <1>1, <2>2 DEF LinkInv, InboxClerkOK, inboxVars
  <2> QED
    BY <2>1, <2>2
<1> QED
  BY <1>2 DEF LinkInv, MessageOK, Settled, inboxVars

(* A decision on message m by an actor: it links m to t, or to nothing new *)
(* when t is NoTicketId, and says so in its intake.                        *)
LEMMA Decision ==
  ASSUME LinkInv, StaffInv, TicketsStay, NEW m \in Messages, NEW actor, Decides(m, actor),
         NEW t \in Tickets \cup {NoTicketId}, NEW row \in Intake, intake' = [intake EXCEPT ![m] = row],
         message' \in [Messages -> Message],
         \A n \in Messages: n # m => message'[n] = message[n],
         message'[m].at \notin {"none", "count", "classify"} \/ (actor # m /\ message'[m].at = message[m].at),
         message'[m].kind = message[m].kind,
         message[m].at # "none", m \notin contested => message[m].ticket = NoTicketId,
         message'[m].ticket = IF t = NoTicketId THEN message[m].ticket ELSE t,
         row.ticket = message'[m].ticket,
         row.status = "ticket_created" <=> t # NoTicketId,
         t # NoTicketId => ticket[t].status = "none" /\ ticket'[t].status # "none",
         origin' = IF t = NoTicketId THEN origin ELSE origin \cup {<<m, t>>},
         \/ clerk' = clerk /\ actor = m
         \/ OneClerk(actor, {"ticket", "dismiss"}) /\ actor \in Clerks
  PROVE  LinkInv'
<1>0. /\ message \in [Messages -> Message] /\ intake \in [Messages -> Intake]
      /\ \A n \in Messages: MessageOK(n) /\ \A k \in Clerks: InboxClerkOK(k)
  BY DEF LinkInv
<1>1. /\ contested \subseteq contested' /\ \A n \in contested': n # m => n \in contested
      /\ m \notin contested' => m \notin contested /\ Deciders(m) \subseteq {actor}
  BY DEF Decides
<1>2. intake' \in [Messages -> Intake] /\ intake'[m] = row /\ \A n \in Messages: n # m => intake'[n] = intake[n]
  BY <1>0
<1>3. origin' \subseteq Messages \X Tickets
  BY DEF LinkInv
<1>4. \A n \in Messages: message[n].ticket # NoTicketId =>
        message[n].ticket \in Tickets /\ ticket[message[n].ticket].status # "none"
  <2> SUFFICES ASSUME NEW n \in Messages, message[n].ticket # NoTicketId
               PROVE  message[n].ticket \in Tickets /\ ticket[message[n].ticket].status # "none"
    OBVIOUS
  <2>1. message[n] \in Message
    BY <1>0
  <2>2. message[n].ticket \in Tickets
    BY <2>1 DEF Message
  <2> QED
    BY <1>0, <2>2 DEF MessageOK
<1>5. MessageOK(m)'
  <2>1. m \notin contested' => Settled(m)'
    <3> SUFFICES ASSUME m \notin contested' PROVE Settled(m)'
      OBVIOUS
    <3>1. message[m].ticket = NoTicketId /\ Settled(m) /\ Deciders(m) \subseteq {actor}
      BY <1>0, <1>1 DEF MessageOK
    <3>2. \A s \in Tickets: <<m, s>> \in origin' <=> s = message'[m].ticket
      BY <3>1, DeskAssumption DEF Settled
    <3>3. intake'[m].status = "ticket_created" <=> message'[m].ticket # NoTicketId
      BY <1>2, <3>1
    <3>4. message'[m].at \in {"count", "classify"} /\ message'[m].kind # "chat" => FALSE
      BY <3>1 DEF Deciders
    <3> QED
      BY <3>2, <3>3, <3>4 DEF Settled
  <2>2. message'[m].at # "none"
    OBVIOUS
  <2>3. message'[m].ticket # NoTicketId =>
          /\ ticket'[message'[m].ticket].status # "none"
          /\ \A n \in Messages: n # m => message'[n].ticket # message'[m].ticket
    BY <1>0, <1>4 DEF MessageOK, TicketsStay
  <2> QED
    BY <1>2, <2>1, <2>2, <2>3 DEF MessageOK
<1>6. ASSUME NEW n \in Messages, n # m PROVE MessageOK(n)'
  <2>1. message'[n] = message[n] /\ intake'[n] = intake[n] /\ (n \in contested' <=> n \in contested)
    BY <1>1, <1>2, <1>6
  <2>2. n \notin contested' => Settled(n)'
    <3>1. \A s \in Tickets: <<n, s>> \in origin' <=> <<n, s>> \in origin
      BY <1>6
    <3> QED
      BY <1>0, <2>1, <3>1 DEF MessageOK, Settled
  <2>3. message[n].ticket # NoTicketId =>
          /\ ticket'[message[n].ticket].status # "none"
          /\ \A o \in Messages: o # n => message'[o].ticket # message[n].ticket
    BY <1>0, <1>4, <1>6 DEF MessageOK, TicketsStay
  <2> QED
    BY <1>0, <2>1, <2>2, <2>3 DEF MessageOK
<1>7. ASSUME NEW k \in Clerks PROVE InboxClerkOK(k)'
  <2>1. CASE clerk'[k].op \notin {"ticket", "dismiss"}
    BY <2>1 DEF InboxClerkOK
  <2>2. CASE clerk'[k] = clerk[k] /\ clerk[k].op \in {"ticket", "dismiss"} /\ (k # actor \/ actor = m)
    <3>1. InboxClerkOK(k) /\ message'[clerk[k].m].at # "none"
      BY <1>0, <2>2 DEF InboxClerkOK
    <3>2. CASE clerk[k].m # m
      BY <1>1, <2>2, <3>1, <3>2 DEF InboxClerkOK
    <3>3. CASE clerk[k].m = m /\ k # actor
      <4>1. k \in Deciders(m)
        BY <2>2, <3>3 DEF Deciders
      <4> QED
        BY <1>1, <2>2, <3>1, <3>3, <4>1 DEF InboxClerkOK
    <3>4. k # m
      BY DeskAssumption
    <3> QED
      BY <2>2, <3>2, <3>3, <3>4
  <2> QED
    BY <2>1, <2>2 DEF OneClerk
<1> QED
  BY <1>2, <1>3, <1>5, <1>6, <1>7 DEF LinkInv

(***************************************************************************)
(* The counters.                                                           *)
(***************************************************************************)
Counted == {m \in Messages: message[m].counted}
InHand == {m \in Messages: Running(m)}

CountInv ==
  /\ unread \in Nat /\ slots \in Nat
  /\ \A m \in Messages: message[m].at \in {"none", "count"} => ~message[m].counted
  /\ \A k \in Clerks: clerk[k].op = "broadcast" => clerk[k].seen \in Nat /\ clerk[k].seen <= Cardinality(Counted)
  /\ unread <= Cardinality(Counted)
  /\ ~overwrote => unread = Cardinality(Counted)
  /\ slots = Cardinality(InHand)

LEMMA CountsAreFinite ==
  /\ IsFiniteSet(Counted) /\ IsFiniteSet(InHand)
  /\ Cardinality(Counted) \in Nat /\ Cardinality(InHand) \in Nat
<1>1. Counted \subseteq Messages /\ InHand \subseteq Messages
  BY DEF Counted, InHand
<1> QED
  BY <1>1, DeskAssumption, FS_Subset, FS_CardinalityType

(* One message changes its row, and the counters follow.                   *)
LEMMA CountsFollow ==
  ASSUME CountInv, message \in [Messages -> Message], NEW m \in Messages, NEW row \in Message,
         message' = [message EXCEPT ![m] = row],
         \/ /\ Running(m) <=> row.at \notin {"none", "done"}
            /\ slots' = slots
         \/ ~Running(m) /\ row.at \notin {"none", "done"} /\ slots' = slots + 1
         \/ Running(m) /\ row.at \in {"none", "done"} /\ slots' = slots - 1,
         \/ /\ row.counted <=> message[m].counted
            /\ unread' = unread
         \/ ~message[m].counted /\ row.counted /\ unread' = unread + 1,
         row.at \in {"none", "count"} => ~row.counted,
         overwrote' = overwrote,
         clerk' = clerk \/ \E k \in Clerks: OneClerk(k, {"broadcast"})
  PROVE  CountInv'
<1>1. message'[m] = row /\ \A n \in Messages: n # m => message'[n] = message[n]
  OBVIOUS
<1>2. slots' \in Nat /\ slots' = Cardinality(InHand')
  <2>1. CASE (Running(m) <=> row.at \notin {"none", "done"}) /\ slots' = slots
    <3>1. InHand' = InHand
      BY <1>1, <2>1 DEF InHand, Running
    <3> QED
      BY <2>1, <3>1 DEF CountInv
  <2>2. CASE ~Running(m) /\ row.at \notin {"none", "done"} /\ slots' = slots + 1
    <3>1. InHand' = InHand \cup {m} /\ m \notin InHand
      BY <1>1, <2>2 DEF InHand, Running
    <3>2. Cardinality(InHand') = Cardinality(InHand) + 1
      BY <3>1, CountsAreFinite, FS_AddElement
    <3> QED
      BY <2>2, <3>2, CountsAreFinite DEF CountInv
  <2>3. CASE Running(m) /\ row.at \in {"none", "done"} /\ slots' = slots - 1
    <3>1. InHand' = InHand \ {m} /\ m \in InHand
      BY <1>1, <2>3 DEF InHand, Running
    <3>2. Cardinality(InHand') = Cardinality(InHand) - 1 /\ Cardinality(InHand') \in Nat
      BY <3>1, CountsAreFinite, FS_RemoveElement, FS_CardinalityType
    <3> QED
      BY <2>3, <3>2 DEF CountInv
  <2> QED
    BY <2>1, <2>2, <2>3
<1>3. /\ unread' \in Nat /\ unread' <= Cardinality(Counted') /\ (~overwrote' => unread' = Cardinality(Counted'))
      /\ Cardinality(Counted) <= Cardinality(Counted') /\ Cardinality(Counted') \in Nat
  <2>1. CASE (row.counted <=> message[m].counted) /\ unread' = unread
    <3>1. Counted' = Counted
      BY <1>1, <2>1 DEF Counted
    <3> QED
      BY <2>1, <3>1, CountsAreFinite DEF CountInv
  <2>2. CASE ~message[m].counted /\ row.counted /\ unread' = unread + 1
    <3>1. Counted' = Counted \cup {m} /\ m \notin Counted
      BY <1>1, <2>2 DEF Counted
    <3>2. Cardinality(Counted') = Cardinality(Counted) + 1
      BY <3>1, CountsAreFinite, FS_AddElement
    <3> QED
      BY <2>2, <3>2, CountsAreFinite DEF CountInv
  <2> QED
    BY <2>1, <2>2
<1>4. ASSUME NEW k \in Clerks, clerk'[k].op = "broadcast"
      PROVE  clerk'[k].seen \in Nat /\ clerk'[k].seen <= Cardinality(Counted')
  <2>1. clerk'[k] = clerk[k]
    BY <1>4 DEF OneClerk
  <2> QED
    BY <1>3, <1>4, <2>1, CountsAreFinite DEF CountInv
<1>5. \A n \in Messages: message'[n].at \in {"none", "count"} => ~message'[n].counted
  BY <1>1 DEF CountInv
<1> QED
  BY <1>2, <1>3, <1>4, <1>5 DEF CountInv

(* No message changes.                                                     *)
LEMMA CountsRest ==
  ASSUME CountInv, UNCHANGED <<message, slots>>, DOMAIN clerk = Clerks,
         \/ clerk' = clerk /\ UNCHANGED <<unread, overwrote>>
         \/ (\E k \in Clerks: OneClerk(k, {"broadcast"})) /\ UNCHANGED <<unread, overwrote>>
         \/ \E k \in Clerks: CreateBroadcast(k) \/ TouchWhatsAppThread(k)
  PROVE  CountInv'
<1>1. Counted' = Counted /\ InHand' = InHand
  BY DEF Counted, InHand, Running
<1>2. CASE clerk' = clerk /\ UNCHANGED <<unread, overwrote>>
  BY <1>1, <1>2 DEF CountInv
<1>3. CASE (\E k \in Clerks: OneClerk(k, {"broadcast"})) /\ UNCHANGED <<unread, overwrote>>
  BY <1>1, <1>3 DEF CountInv, OneClerk
<1>4. ASSUME NEW k \in Clerks, CreateBroadcast(k) PROVE CountInv'
  <2>1. PICK rec: rec = [op |-> "broadcast", seen |-> unread]
    OBVIOUS
  <2>2. rec.seen = unread /\ clerk' = [clerk EXCEPT ![k] = rec] /\ UNCHANGED <<unread, overwrote>>
    BY <1>4, <2>1 DEF CreateBroadcast, Takes, inboxVars
  <2>3. clerk'[k] = rec /\ \A j \in Clerks: j # k => clerk'[j] = clerk[j]
    BY <2>2
  <2> QED
    BY <1>1, <2>2, <2>3 DEF CountInv
<1>5. ASSUME NEW k \in Clerks, TouchWhatsAppThread(k) PROVE CountInv'
  <2>1. OneClerk(k, {"broadcast"})
    BY <1>5, LeavesOne DEF TouchWhatsAppThread
  <2>2. PICK seen: seen = clerk[k].seen
    OBVIOUS
  <2>3. /\ unread' = seen /\ seen \in Nat /\ seen <= Cardinality(Counted)
        /\ overwrote' = (overwrote \/ unread # seen)
    BY <1>5, <2>2 DEF TouchWhatsAppThread, CountInv
  <2>4. ~overwrote' => unread' = Cardinality(Counted)
    BY <2>3 DEF CountInv
  <2> QED
    BY <1>1, <2>1, <2>3, <2>4 DEF CountInv, OneClerk
<1> QED
  BY <1>2, <1>3, <1>4, <1>5

(***************************************************************************)
(* The steps of the inbox, and of the staff while the inbox rests.         *)
(***************************************************************************)
DeskInv == StaffInv /\ LinkInv /\ CountInv

(* A message of which only the stage moves on.                             *)
LEMMA StageMoves ==
  ASSUME DeskInv, NEW m \in Messages, NEW at \in Stage \ {"none", "count"}, Moves(m, at), Running(m),
         at = "classify" => message[m].at = "count",
         UNCHANGED <<intake, unread, origin, contested, overwrote>>,
         slots' = IF at = "done" THEN slots - 1 ELSE slots,
         TicketsStay, clerk' = clerk
  PROVE  LinkInv' /\ CountInv'
<1>1. PICK row: row = [message[m] EXCEPT !.at = at]
  OBVIOUS
<1>2. message \in [Messages -> Message] /\ message[m] \in Message
  BY DEF DeskInv, LinkInv
<1>3. /\ row \in Message /\ row.at = at /\ row.kind = message[m].kind /\ row.ticket = message[m].ticket
      /\ row.counted = message[m].counted
  BY <1>1, <1>2 DEF Message
<1>4. message' = [message EXCEPT ![m] = row]
  BY <1>1 DEF Moves
<1>5. message' \in [Messages -> Message] /\ message'[m] = row /\ \A n \in Messages: n # m => message'[n] = message[n]
  BY <1>2, <1>3, <1>4
<1>6. message[m].at # "none"
  BY DEF Running
<1>7. LinkInv'
  BY <1>3, <1>5, <1>6, LinksStand DEF DeskInv
<1>8. CountInv'
  BY <1>2, <1>3, <1>4, CountsFollow DEF DeskInv, Running
<1> QED
  BY <1>7, <1>8

LEMMA StaffDesk == DeskInv /\ MaintenanceNext /\ UNCHANGED inboxVars => DeskInv'
<1> SUFFICES ASSUME DeskInv, MaintenanceNext, UNCHANGED inboxVars PROVE DeskInv'
  OBVIOUS
<1>0. /\ ticket \in [Tickets -> Ticket] /\ DOMAIN clerk = Clerks /\ \A k \in Clerks: StaffClerkOK(k)
  BY DEF DeskInv, StaffInv, MaintenanceTypeOK
<1> DEFINE Ops == {"ticket", "dismiss", "broadcast"}
<1>1. clerk' = clerk \/ \E k \in Clerks: OneClerk(k, Ops)
  <2>1. ASSUME NEW k \in Clerks, Leaves(k) PROVE OneClerk(k, Ops)
    BY <1>0, <2>1, LeavesOne
  <2>2. ASSUME NEW k \in Clerks, NEW rec, clerk' = [clerk EXCEPT ![k] = rec], rec.op \notin Ops
        PROVE  OneClerk(k, Ops)
    BY <1>0, <2>2, TakesOne DEF OneClerk
  <2>3. ASSUME NEW k \in Clerks, NEW t \in Tickets, Resolve(k, t) PROVE OneClerk(k, Ops)
    <3>1. PICK rec: rec = [op |-> "resolve", t |-> t]
      OBVIOUS
    <3> QED
      BY <2>2, <2>3, <3>1 DEF Resolve, Takes
  <2>4. ASSUME NEW k \in Clerks, NEW t \in Tickets, NEW c, Assign(k, t, c) PROVE OneClerk(k, Ops)
    <3>1. PICK rec: rec = [op |-> IF c = ByName THEN "assign" ELSE "check", t |-> t, c |-> c]
      OBVIOUS
    <3>2. rec.op \in {"assign", "check"}
      BY <3>1
    <3> QED
      BY <2>2, <2>4, <3>1, <3>2 DEF Assign, Takes
  <2>5. ASSUME NEW k \in Clerks, NEW t \in Tickets, NEW c, CreateReview(k, c, t) PROVE OneClerk(k, Ops)
    <3>1. PICK rec: rec = [op |-> "review", t |-> t, c |-> c]
      OBVIOUS
    <3> QED
      BY <2>2, <2>5, <3>1 DEF CreateReview, Takes
  <2>6. ASSUME NEW k \in Clerks, CheckAssignable(k) PROVE OneClerk(k, Ops)
    <3>1. PICK rec: rec = [clerk[k] EXCEPT !.op = "assign"]
      OBVIOUS
    <3>2. clerk[k] \in Assignment
      BY <1>0, <2>6 DEF CheckAssignable, StaffClerkOK
    <3>3. rec.op = "assign"
      BY <3>1, <3>2 DEF Assignment
    <3>4. Leaves(k) \/ clerk' = [clerk EXCEPT ![k] = rec]
      BY <2>6, <3>1 DEF CheckAssignable
    <3> QED
      BY <2>1, <2>2, <3>3, <3>4
  <2>7. ASSUME NEW k \in Clerks,
               CommitAssign(k) \/ CommitResolve(k) \/ CreateContractorReview(k) \/ DecisionFails(k)
        PROVE  OneClerk(k, Ops)
    BY <2>1, <2>7 DEF CommitAssign, CommitResolve, CreateContractorReview, DecisionFails
  <2> QED
    BY <2>3, <2>4, <2>5, <2>6, <2>7 DEF MaintenanceNext, Create, SlaPasses, MaintainDirectory
<1>2. TicketsStay
  <2>1. ASSUME NEW t \in Tickets, NEW role, Create(t, role) PROVE TicketsStay
    <3>1. PICK status \in {"pending_approval", "open"}: CreateMaintenanceRequest(t, status)
      BY <2>1 DEF Create
    <3> QED
      BY <1>0, <3>1, TicketStays DEF TicketStatus
  <2>2. ASSUME NEW t \in Tickets, SlaPasses(t) PROVE TicketsStay
    BY <1>0, <2>2 DEF SlaPasses, TicketsStay, Ticket
  <2>3. ASSUME NEW k \in Clerks, CommitAssign(k) \/ CommitResolve(k) PROVE TicketsStay
    BY <1>0, <2>3 DEF CommitAssign, CommitResolve, AssignMaintenanceContractor, ResolveMaintenanceRequest,
                      TicketsStay, Ticket
  <2>4. ASSUME ticket' = ticket PROVE TicketsStay
    BY <1>0, <2>4 DEF TicketsStay
  <2> QED
    BY <2>1, <2>2, <2>3, <2>4 DEF MaintenanceNext, Resolve, Assign, CreateReview, CheckAssignable,
                                  CreateContractorReview, DecisionFails, MaintainDirectory
<1>3. UNCHANGED <<message, intake, unread, slots, origin, contested, overwrote>>
  BY DEF inboxVars
<1>4. StaffInv'
  BY StaffStep DEF DeskInv
<1>5. message' \in [Messages -> Message] /\ (clerk' = clerk \/ \E k \in Clerks: OneClerk(k, {"ticket", "dismiss"}))
  BY <1>1, <1>3 DEF DeskInv, LinkInv, OneClerk
<1>6. LinkInv'
  BY <1>2, <1>3, <1>5, LinksStand DEF DeskInv
<1>7. clerk' = clerk \/ \E k \in Clerks: OneClerk(k, {"broadcast"})
  BY <1>1 DEF OneClerk
<1>8. CountInv'
  BY <1>0, <1>3, <1>7, CountsRest DEF DeskInv
<1> QED
  BY <1>4, <1>6, <1>8 DEF DeskInv

LEMMA InboxDesk == DeskInv /\ InboxNext => DeskInv'
<1> SUFFICES ASSUME DeskInv, InboxNext PROVE DeskInv'
  OBVIOUS
<1>0. /\ ticket \in [Tickets -> Ticket] /\ DOMAIN clerk = Clerks
      /\ message \in [Messages -> Message] /\ intake \in [Messages -> Intake]
      /\ \A m \in Messages: MessageOK(m)
      /\ \A k \in Clerks: InboxClerkOK(k)
      /\ StaffInv /\ LinkInv /\ CountInv
      /\ \A m \in Messages: message[m] \in Message /\ intake[m] \in Intake
  BY DEF DeskInv, StaffInv, LinkInv, MaintenanceTypeOK
<1>1. ticket' = ticket => TicketsStay
  BY <1>0 DEF TicketsStay
<1>2. ASSUME NEW m \in Messages, NEW at \in {"classify", "bot", "reply", "done"}, Moves(m, at), Running(m),
             at = "classify" => message[m].at = "count",
             UNCHANGED <<intake, unread, origin, contested, overwrote>>,
             slots' = IF at = "done" THEN slots - 1 ELSE slots, UNCHANGED deskVars
      PROVE  DeskInv'
  <2>1. LinkInv' /\ CountInv'
    BY <1>0, <1>1, <1>2, StageMoves DEF DeskInv, deskVars, Stage
  <2>2. StaffInv'
    BY <1>0, <1>2, CreationsKeep DEF deskVars
  <2> QED
    BY <2>1, <2>2 DEF DeskInv
<1>3. ASSUME NEW m \in Messages,
             RequestNotMade(m) \/ Respond(m) \/ ReplyAndRelease(m) \/ GivesUp(m)
      PROVE  DeskInv'
  BY <1>2, <1>3 DEF RequestNotMade, Respond, ReplyAndRelease, GivesUp, Running
<1>4. ASSUME NEW m \in Messages, NEW kind \in Kind, Inbound(m, kind) PROVE DeskInv'
  <2>1. PICK row: row = [NoMessage EXCEPT !.at = "count", !.kind = kind]
    OBVIOUS
  <2>2. /\ message[m].at = "none" /\ message[m].ticket = NoTicketId /\ ~message[m].counted
        /\ message' = [message EXCEPT ![m] = row] /\ slots' = slots + 1
        /\ UNCHANGED <<intake, unread, origin, contested, overwrote, deskVars>>
    BY <1>4, <2>1 DEF Inbound, NoMessage
  <2>3. row \in Message /\ row.at = "count" /\ row.ticket = NoTicketId /\ ~row.counted
    <3>1. NoMessage \in Message /\ NoMessage.ticket = NoTicketId /\ ~NoMessage.counted
      BY DEF NoMessage, Message, Stage, Kind
    <3> QED
      BY <2>1, <3>1 DEF Message, Stage
  <2>4. message' \in [Messages -> Message] /\ message'[m] = row /\ \A n \in Messages: n # m => message'[n] = message[n]
    BY <1>0, <2>2, <2>3
  <2>5. clerk' = clerk /\ ticket' = ticket /\ UNCHANGED <<contractor, reviews, worked>>
    BY <2>2 DEF deskVars
  <2>6. LinkInv'
    BY <1>0, <1>1, <2>2, <2>3, <2>4, <2>5, LinksStand
  <2>7. CountInv'
    BY <1>0, <2>2, <2>3, <2>5, CountsFollow DEF Running
  <2>8. StaffInv'
    BY <1>0, <2>5, CreationsKeep
  <2> QED
    BY <2>6, <2>7, <2>8 DEF DeskInv
<1>5. ASSUME NEW m \in Messages, IncrementWhatsAppThreadUnread(m) PROVE DeskInv'
  <2>1. CASE unread' = unread /\ Moves(m, "classify")
    BY <1>2, <1>5, <2>1 DEF IncrementWhatsAppThreadUnread, Running
  <2>2. CASE unread' = unread + 1 /\ message' = [message EXCEPT ![m].at = "classify", ![m].counted = TRUE]
    <3>1. PICK row: row = [message[m] EXCEPT !.at = "classify", !.counted = TRUE]
      OBVIOUS
    <3>2. message' = [message EXCEPT ![m] = row]
      BY <1>0, <2>2, <3>1
    <3>3. /\ row \in Message /\ row.at = "classify" /\ row.kind = message[m].kind
          /\ row.ticket = message[m].ticket /\ row.counted
      BY <1>0, <3>1 DEF Message, Stage
    <3>4. message' \in [Messages -> Message] /\ message'[m] = row
          /\ \A n \in Messages: n # m => message'[n] = message[n]
      BY <1>0, <3>2, <3>3
    <3>5. message[m].at = "count" /\ ~message[m].counted
      BY <1>0, <1>5 DEF IncrementWhatsAppThreadUnread, CountInv
    <3>6. UNCHANGED <<intake, slots, origin, contested, overwrote, deskVars>>
      BY <1>5 DEF IncrementWhatsAppThreadUnread
    <3>7. clerk' = clerk /\ ticket' = ticket /\ UNCHANGED <<contractor, reviews, worked>>
      BY <3>6 DEF deskVars
    <3>8. LinkInv'
      BY <1>0, <1>1, <3>3, <3>4, <3>5, <3>6, <3>7, LinksStand
    <3>9. CountInv'
      BY <1>0, <2>2, <3>2, <3>3, <3>5, <3>6, <3>7, CountsFollow DEF Running
    <3>10. StaffInv'
      BY <1>0, <3>7, CreationsKeep
    <3> QED
      BY <3>8, <3>9, <3>10 DEF DeskInv
  <2> QED
    BY <1>5, <2>1, <2>2 DEF IncrementWhatsAppThreadUnread
<1>6. ASSUME NEW m \in Messages, NEW t \in Tickets, MakeRequest(m, t) PROVE DeskInv'
  <2>1. PICK row: row = [message[m] EXCEPT !.at = "reply", !.ticket = t]
    OBVIOUS
  <2>2. /\ message' = [message EXCEPT ![m] = row] /\ message[m].at = "classify" /\ message[m].kind # "chat"
        /\ CreateMaintenanceRequest(t, "pending_approval")
        /\ CreateWhatsAppMaintenanceIntake(m, "ticket_created", t)
        /\ origin' = origin \cup {<<m, t>>} /\ Decides(m, m)
        /\ UNCHANGED <<unread, slots, overwrote, contractor, reviews, clerk, worked>>
    BY <1>0, <1>6, <2>1 DEF MakeRequest, createMaintenanceTicketForMessage, IsMaintenance
  <2>3. /\ row \in Message /\ row.at = "reply" /\ row.kind = message[m].kind /\ row.ticket = t
        /\ row.counted = message[m].counted
    BY <1>0, <2>1 DEF Message, Stage
  <2>4. message' \in [Messages -> Message] /\ message'[m] = row /\ \A n \in Messages: n # m => message'[n] = message[n]
    BY <1>0, <2>2, <2>3
  <2>5. TicketsStay /\ ticket[t].status = "none" /\ ticket'[t].status # "none"
    BY <1>0, <2>2, TicketStays DEF TicketStatus
  <2>6. t # NoTicketId /\ t \in Tickets \cup {NoTicketId}
    BY DeskAssumption
  <2>7. PICK new: new = [status |-> "ticket_created", ticket |-> t]
    OBVIOUS
  <2>8. /\ new \in Intake /\ new.ticket = t /\ new.status = "ticket_created"
        /\ intake' = [intake EXCEPT ![m] = new]
    BY <1>0, <2>2, <2>6, <2>7 DEF CreateWhatsAppMaintenanceIntake, Intake, IntakeStatus
  <2>9. m \notin contested => message[m].ticket = NoTicketId
    BY <1>0, <2>2 DEF MessageOK, Settled
  <2>10. LinkInv'
    BY <1>0, <2>2, <2>3, <2>4, <2>5, <2>6, <2>8, <2>9, Decision
  <2>11. CountInv'
    BY <1>0, <2>2, <2>3, CountsFollow DEF Running
  <2>12. StaffInv'
    BY <1>0, <2>2, CreationsKeep
  <2> QED
    BY <2>10, <2>11, <2>12 DEF DeskInv
<1>7. ASSUME NEW m \in Messages, MakeCandidate(m) PROVE DeskInv'
  <2>1. CASE UNCHANGED <<intake, contested>>
    BY <1>2, <1>7, <2>1 DEF MakeCandidate, Running
  <2>2. CASE /\ shouldCreateMaintenanceCandidate(message[m].kind)
             /\ CreateWhatsAppMaintenanceIntake(m, "candidate", NoTicketId)
             /\ Decides(m, m)
    <3>1. PICK row: row = [message[m] EXCEPT !.at = "bot"]
      OBVIOUS
    <3>2. /\ message' = [message EXCEPT ![m] = row] /\ message[m].at = "classify" /\ message[m].kind # "chat"
          /\ UNCHANGED <<unread, slots, origin, overwrote, deskVars>>
      BY <1>7, <2>2, <3>1 DEF MakeCandidate, Moves, shouldCreateMaintenanceCandidate
    <3>3. /\ row \in Message /\ row.at = "bot" /\ row.kind = message[m].kind /\ row.ticket = message[m].ticket
          /\ row.counted = message[m].counted
      BY <1>0, <3>1 DEF Message, Stage
    <3>4. message' \in [Messages -> Message] /\ message'[m] = row
          /\ \A n \in Messages: n # m => message'[n] = message[n]
      BY <1>0, <3>2, <3>3
    <3>5. clerk' = clerk /\ ticket' = ticket /\ UNCHANGED <<contractor, reviews, worked>>
      BY <3>2 DEF deskVars
    <3>6. PICK new: new = [status |-> "candidate", ticket |-> intake[m].ticket]
      OBVIOUS
    <3>7. /\ new \in Intake /\ new.ticket = message[m].ticket /\ new.status = "candidate"
          /\ intake' = [intake EXCEPT ![m] = new]
      BY <1>0, <2>2, <3>6 DEF CreateWhatsAppMaintenanceIntake, Intake, IntakeStatus, MessageOK
    <3>8. m \notin contested => message[m].ticket = NoTicketId
      BY <1>0, <3>2 DEF MessageOK, Settled
    <3>9. LinkInv'
      BY <1>0, <1>1, <2>2, <3>2, <3>3, <3>4, <3>5, <3>7, <3>8, Decision
    <3>10. CountInv'
      BY <1>0, <3>2, <3>3, <3>5, CountsFollow DEF Running
    <3>11. StaffInv'
      BY <1>0, <3>5, CreationsKeep
    <3> QED
      BY <3>9, <3>10, <3>11 DEF DeskInv
  <2> QED
    BY <1>7, <2>1, <2>2 DEF MakeCandidate
<1>8. ASSUME NEW m \in Messages, NEW t \in Tickets, logMaintenanceRequest(m, t) PROVE DeskInv'
  <2>1. TicketsStay
    BY <1>0, <1>8, TicketStays DEF logMaintenanceRequest, TicketStatus
  <2>2. LinkInv' /\ CountInv'
    BY <1>0, <1>8, <2>1, StageMoves DEF logMaintenanceRequest, DeskInv, Stage, Running
  <2>3. StaffInv'
    BY <1>0, <1>8, CreationsKeep DEF logMaintenanceRequest
  <2> QED
    BY <2>2, <2>3 DEF DeskInv
<1>9. ASSUME NEW k \in Clerks, NEW t \in Tickets, CommitTicket(k, t) PROVE DeskInv'
  <2>1. PICK m: m = clerk[k].m
    OBVIOUS
  <2>2. /\ m \in Messages /\ message[m].at # "none" /\ (m \notin contested => message[m].ticket = NoTicketId)
        /\ m # k
    BY <1>0, <1>9, <2>1, DeskAssumption DEF CommitTicket, InboxClerkOK
  <2>3. PICK row: row = [message[m] EXCEPT !.ticket = t]
    OBVIOUS
  <2>4. /\ message' = [message EXCEPT ![m] = row]
        /\ CreateMaintenanceRequest(t, "pending_approval")
        /\ CreateWhatsAppMaintenanceIntake(m, "ticket_created", t)
        /\ origin' = origin \cup {<<m, t>>} /\ Decides(m, k) /\ Leaves(k)
        /\ UNCHANGED <<unread, slots, overwrote, contractor, reviews, worked>>
    BY <1>9, <2>1, <2>3 DEF CommitTicket, createMaintenanceTicketForMessage
  <2>5. /\ row \in Message /\ row.at = message[m].at /\ row.kind = message[m].kind /\ row.ticket = t
        /\ row.counted = message[m].counted
    BY <1>0, <2>2, <2>3 DEF Message
  <2>6. message' \in [Messages -> Message] /\ message'[m] = row /\ \A n \in Messages: n # m => message'[n] = message[n]
    BY <1>0, <2>2, <2>4, <2>5
  <2>7. TicketsStay /\ ticket[t].status = "none" /\ ticket'[t].status # "none"
    BY <1>0, <2>4, TicketStays DEF TicketStatus
  <2>8. t # NoTicketId /\ t \in Tickets \cup {NoTicketId}
    BY DeskAssumption
  <2>9. PICK new: new = [status |-> "ticket_created", ticket |-> t]
    OBVIOUS
  <2>10. /\ new \in Intake /\ new.ticket = t /\ new.status = "ticket_created"
         /\ intake' = [intake EXCEPT ![m] = new]
    BY <1>0, <2>4, <2>8, <2>9 DEF CreateWhatsAppMaintenanceIntake, Intake, IntakeStatus
  <2>11. OneClerk(k, {"ticket", "dismiss"}) /\ OneClerk(k, {"broadcast"}) /\ OneClerk(k, StaffOps)
    BY <1>0, <2>4, LeavesOne DEF StaffOps
  <2>12. LinkInv'
    BY <1>0, <2>2, <2>4, <2>5, <2>6, <2>7, <2>8, <2>10, <2>11, Decision
  <2>13. CountInv'
    <3>1. row.at \in {"none", "count"} => ~row.counted
      BY <1>0, <2>2, <2>5 DEF CountInv
    <3> QED
      BY <1>0, <2>2, <2>4, <2>5, <2>11, <3>1, CountsFollow DEF Running
  <2>14. StaffInv'
    BY <1>0, <2>4, <2>11, CreationsKeep
  <2> QED
    BY <2>12, <2>13, <2>14 DEF DeskInv
<1>10. ASSUME NEW k \in Clerks, DismissWhatsAppMaintenanceIntake(k) PROVE DeskInv'
  <2>1. PICK m: m = clerk[k].m
    OBVIOUS
  <2>2. /\ m \in Messages /\ message[m].at # "none" /\ (m \notin contested => message[m].ticket = NoTicketId)
        /\ m # k
    BY <1>0, <1>10, <2>1, DeskAssumption DEF DismissWhatsAppMaintenanceIntake, InboxClerkOK
  <2>3. PICK new: new = [intake[m] EXCEPT !.status = "dismissed"]
    OBVIOUS
  <2>4. /\ intake' = [intake EXCEPT ![m] = new] /\ Decides(m, k) /\ Leaves(k)
        /\ UNCHANGED <<message, unread, slots, origin, overwrote, contractor, ticket, reviews, worked>>
    BY <1>10, <2>1, <2>3 DEF DismissWhatsAppMaintenanceIntake
  <2>5. new \in Intake /\ new.ticket = message[m].ticket /\ new.status = "dismissed"
    BY <1>0, <2>2, <2>3 DEF Intake, IntakeStatus, MessageOK
  <2>6. OneClerk(k, {"ticket", "dismiss"}) /\ OneClerk(k, {"broadcast"}) /\ OneClerk(k, StaffOps)
    BY <1>0, <2>4, LeavesOne DEF StaffOps
  <2>7. LinkInv'
    BY <1>0, <1>1, <2>2, <2>4, <2>5, <2>6, Decision
  <2>8. CountInv'
    BY <1>0, <2>4, <2>6, CountsRest
  <2>9. StaffInv'
    BY <1>0, <2>4, <2>6, CreationsKeep
  <2> QED
    BY <2>7, <2>8, <2>9 DEF DeskInv
<1>11. ASSUME NEW k \in Clerks, NEW m \in Messages,
              CreateMaintenanceFromMessage(k, m) \/ DismissMaintenanceIntake(k, m)
       PROVE  DeskInv'
  <2>1. PICK op \in {"ticket", "dismiss"}: clerk' = [clerk EXCEPT ![k] = [op |-> op, m |-> m]]
    BY <1>11 DEF CreateMaintenanceFromMessage, DismissMaintenanceIntake, Takes
  <2>2. PICK rec: rec = [op |-> op, m |-> m]
    OBVIOUS
  <2>3. rec.op = op /\ rec.m = m /\ clerk' = [clerk EXCEPT ![k] = rec]
    BY <2>1, <2>2
  <2>4. UNCHANGED <<inboxVars, contractor, ticket, reviews, worked>>
    BY <1>11 DEF CreateMaintenanceFromMessage, DismissMaintenanceIntake
  <2>5. m \notin contested => message[m].ticket = NoTicketId
    BY <1>0, <1>11 DEF CreateMaintenanceFromMessage, DismissMaintenanceIntake, MayMake, MessageOK, Settled
  <2>6. message[m].at # "none"
    <3>1. CASE DismissMaintenanceIntake(k, m)
      BY <1>0, <3>1 DEF DismissMaintenanceIntake, MessageOK
    <3> QED
      BY <1>11, <3>1 DEF CreateMaintenanceFromMessage
  <2>7. LinkInv'
    BY <1>0, <2>3, <2>4, <2>5, <2>6, DecisionBegins
  <2>8. OneClerk(k, {"broadcast"}) /\ OneClerk(k, StaffOps)
    BY <1>0, <2>3, TakesOne DEF OneClerk, StaffOps
  <2>9. CountInv'
    BY <1>0, <2>4, <2>8, CountsRest DEF inboxVars
  <2>10. StaffInv'
    BY <1>0, <2>4, <2>8, CreationsKeep
  <2> QED
    BY <2>7, <2>9, <2>10 DEF DeskInv
<1>12. ASSUME NEW k \in Clerks, CreateBroadcast(k) \/ TouchWhatsAppThread(k) PROVE DeskInv'
  <2>1. UNCHANGED <<message, intake, slots, origin, contested, contractor, ticket, reviews, worked>>
    BY <1>12 DEF CreateBroadcast, TouchWhatsAppThread, inboxVars
  <2>2. OneClerk(k, {"ticket", "dismiss"}) /\ OneClerk(k, StaffOps)
    <3>1. CASE TouchWhatsAppThread(k)
      BY <1>0, <3>1, LeavesOne DEF TouchWhatsAppThread, StaffOps
    <3>2. CASE CreateBroadcast(k)
      <4>1. PICK rec: rec = [op |-> "broadcast", seen |-> unread]
        OBVIOUS
      <4>2. rec.op = "broadcast" /\ clerk' = [clerk EXCEPT ![k] = rec]
        BY <3>2, <4>1 DEF CreateBroadcast, Takes
      <4> QED
        BY <1>0, <4>2, TakesOne DEF OneClerk, StaffOps
    <3> QED
      BY <1>12, <3>1, <3>2
  <2>3. message' \in [Messages -> Message]
    BY <1>0, <2>1
  <2>4. LinkInv'
    BY <1>0, <1>1, <2>1, <2>2, <2>3, LinksStand
  <2>5. CountInv'
    BY <1>0, <1>12, <2>1, CountsRest
  <2>6. StaffInv'
    BY <1>0, <2>1, <2>2, CreationsKeep
  <2> QED
    BY <2>4, <2>5, <2>6 DEF DeskInv
<1> QED
  BY <1>3, <1>4, <1>5, <1>6, <1>7, <1>8, <1>9, <1>10, <1>11, <1>12 DEF InboxNext

LEMMA DeskInvariance == WhatsAppSpec => []DeskInv
<1>1. MaintenanceInit /\ InboxInit => DeskInv
  <2> SUFFICES ASSUME MaintenanceInit, InboxInit PROVE DeskInv
    OBVIOUS
  <2>1. /\ NoTicket \in Ticket /\ NoTicket.status = "none" /\ NoTicket.contractor = Nobody
        /\ AtRest.op = "idle" /\ ~NoContractorRow.linked
    BY DEF NoTicket, Ticket, TicketStatus, AtRest, NoContractorRow
  <2>2. /\ NoMessage \in Message /\ NoMessage.at = "none" /\ NoMessage.ticket = NoTicketId /\ ~NoMessage.counted
        /\ NoIntake \in Intake /\ NoIntake.status = "none" /\ NoIntake.ticket = NoTicketId
    BY DEF NoMessage, Message, Stage, Kind, NoIntake, Intake, IntakeStatus
  <2>3. StaffInv
    BY <2>1 DEF StaffInv, MaintenanceInit, ContractorsInit, MaintenanceTypeOK, Directory, ContractorsTypeOK,
                TicketOK, StaffClerkOK
  <2>4. LinkInv
    <3>1. \A m \in Messages: MessageOK(m)
      BY <2>2, DeskAssumption DEF InboxInit, MessageOK, Settled
    <3> QED
      BY <2>1, <2>2, <3>1 DEF InboxInit, MaintenanceInit, LinkInv, InboxClerkOK
  <2>5. CountInv
    <3>1. Counted = {} /\ InHand = {}
      BY <2>2 DEF InboxInit, Counted, InHand, Running
    <3>2. Cardinality(Counted) = 0 /\ Cardinality(InHand) = 0
      BY <3>1, FS_EmptySet
    <3> QED
      BY <2>1, <2>2, <3>2 DEF CountInv, InboxInit, MaintenanceInit
  <2> QED
    BY <2>3, <2>4, <2>5 DEF DeskInv
<1>2. DeskInv /\ [(MaintenanceNext /\ UNCHANGED inboxVars) \/ InboxNext]_WhatsAppVars => DeskInv'
  <2>1. DeskInv /\ UNCHANGED WhatsAppVars => DeskInv'
    <3> SUFFICES ASSUME DeskInv, UNCHANGED WhatsAppVars PROVE DeskInv'
      OBVIOUS
    <3>1. UNCHANGED <<contractor, ticket, reviews, clerk, worked, message, intake, unread, slots, origin, contested, overwrote>>
      BY DEF WhatsAppVars, deskVars, inboxVars
    <3>2. StaffInv' /\ TicketsStay
      BY <3>1, CreationsKeep DEF DeskInv, StaffInv, MaintenanceTypeOK, TicketsStay
    <3>3. LinkInv'
      BY <3>1, <3>2, LinksStand DEF DeskInv, LinkInv
    <3>4. CountInv'
      BY <3>1, CountsRest DEF DeskInv, StaffInv
    <3> QED
      BY <3>2, <3>3, <3>4 DEF DeskInv
  <2> QED
    BY <2>1, StaffDesk, InboxDesk
<1> QED
  BY <1>1, <1>2, PTL DEF WhatsAppSpec

(* The rows of requests, reviews and the directory keep their shape.       *)
THEOREM MaintenanceTypeCorrect == WhatsAppSpec => []MaintenanceTypeOK
<1>1. DeskInv => MaintenanceTypeOK
  BY DEF DeskInv, StaffInv
<1> QED
  BY <1>1, DeskInvariance, PTL

(* The marketplace offers whom Assign accepts, and nobody else: no entry   *)
(* is linked to a scheme of another organisation.                          *)
THEOREM OffersAreAssignable == WhatsAppSpec => []OfferedIsAssignable
<1>1. DeskInv => OfferedIsAssignable
  <2> SUFFICES ASSUME DeskInv, NEW c \in Contractors
               PROVE  c \in SearchContractorMarketplace <=> ContractorAssignableToScheme(c)
    BY DEF OfferedIsAssignable, SearchContractorMarketplace
  <2>1. contractor[c].linked => contractor[c].org = Ours
    BY DEF DeskInv, StaffInv, Directory
  <2> QED
    BY <2>1 DEF SearchContractorMarketplace, ContractorAssignableToScheme
<1> QED
  BY <1>1, DeskInvariance, PTL

(* Reviews stand for work that was done, whatever decisions overlap.       *)
THEOREM ReviewsStandForWork == WhatsAppSpec => []ReviewedWorkWasDone
<1>1. DeskInv => ReviewedWorkWasDone
  BY DEF DeskInv, StaffInv, ReviewedWorkWasDone
<1> QED
  BY <1>1, DeskInvariance, PTL

(* Work under way or done has somebody who does it.                        *)
THEOREM AllWorkIsAssigned == WhatsAppSpec => []WorkIsAssigned
<1>1. DeskInv => WorkIsAssigned
  BY DEF DeskInv, StaffInv, TicketOK, WorkIsAssigned
<1> QED
  BY <1>1, DeskInvariance, PTL

(* A message that nobody contested has one request at most, and links are  *)
(* mutual whoever contested it.                                            *)
THEOREM MessagesAreDecidedOnce == WhatsAppSpec => []DecidedOnce
<1>1. DeskInv => DecidedOnce
  <2> SUFFICES ASSUME DeskInv PROVE DecidedOnce
    OBVIOUS
  <2>1. \A m \in Messages: MessageOK(m)
    BY DEF DeskInv, LinkInv
  <2>2. LinkIsMutual
    BY <2>1 DEF LinkIsMutual, MessageOK
  <2>3. ASSUME NEW m \in Messages \ contested
        PROVE  /\ Cardinality({t \in Tickets: <<m, t>> \in origin}) <= 1
               /\ intake[m].status = "ticket_created" <=> message[m].ticket # NoTicketId
    <3>1. Settled(m)
      BY <2>1 DEF MessageOK
    <3>2. PICK S: S = {t \in Tickets: <<m, t>> \in origin}
      OBVIOUS
    <3>3. S = {} \/ S = {message[m].ticket}
      BY <3>1, <3>2 DEF Settled
    <3>4. Cardinality(S) <= 1
      <4>1. CASE S = {}
        BY <4>1, FS_EmptySet
      <4>2. CASE S = {message[m].ticket}
        <5>1. Cardinality(S) = 1
          BY <4>2, FS_Singleton
        <5> QED
          BY <5>1
      <4> QED
        BY <3>3, <4>1, <4>2
    <3> QED
      BY <3>1, <3>2, <3>4 DEF Settled
  <2> QED
    BY <2>2, <2>3 DEF DecidedOnce
<1> QED
  BY <1>1, DeskInvariance, PTL

(* The unread counter and the worker slots add up.                         *)
THEOREM CountsStayHonest == WhatsAppSpec => []CountsAreHonest
<1>1. DeskInv => CountsAreHonest
  BY DEF DeskInv, CountInv, CountsAreHonest, Counted, InHand
<1> QED
  BY <1>1, DeskInvariance, PTL

(* The slots are a semaphore's: never more are taken than there are.       *)
THEOREM InboxTypeCorrect == WhatsAppSpec => []InboxTypeOK
<1>1. MaintenanceInit /\ InboxInit => slots <= Slots
  BY DeskAssumption DEF InboxInit
<1>2. DeskInv /\ slots <= Slots /\ [(MaintenanceNext /\ UNCHANGED inboxVars) \/ InboxNext]_WhatsAppVars => (slots <= Slots)'
  <2> SUFFICES ASSUME slots \in Nat, slots <= Slots,
                      [(MaintenanceNext /\ UNCHANGED inboxVars) \/ InboxNext]_WhatsAppVars
               PROVE  slots' <= Slots
    BY DEF DeskInv, CountInv
  <2>1. slots' <= Slots \/ slots' = slots \/ slots' = slots - 1
    <3>1. ASSUME NEW m \in Messages, NEW kind, Inbound(m, kind) PROVE slots' <= Slots
      BY <3>1, DeskAssumption DEF Inbound
    <3> QED
      BY <3>1 DEF InboxNext, IncrementWhatsAppThreadUnread, RequestNotMade, MakeCandidate, Respond, ReplyAndRelease,
             GivesUp, MakeRequest, logMaintenanceRequest, CreateBroadcast, TouchWhatsAppThread,
             DismissWhatsAppMaintenanceIntake, CreateMaintenanceFromMessage, DismissMaintenanceIntake,
             CommitTicket, inboxVars, WhatsAppVars
  <2> QED
    BY <2>1, DeskAssumption
<1>3. DeskInv /\ slots <= Slots => InboxTypeOK
  BY DeskAssumption DEF DeskInv, LinkInv, CountInv, InboxTypeOK
<1> QED
  BY <1>1, <1>2, <1>3, DeskInvariance, PTL DEF WhatsAppSpec

(* A row that is there never goes, and is only late once it is there.      *)
NoLateGhosts == \A t \in Tickets: ticket[t].status = "none" => ~ticket[t].late

LEMMA GhostsStay ==
  ASSUME DeskInv, (MaintenanceNext /\ UNCHANGED inboxVars) \/ InboxNext, NEW t \in Tickets, ticket'[t].status = "none"
  PROVE  ticket'[t] = ticket[t]
<1>0. /\ ticket \in [Tickets -> Ticket]
      /\ \A k \in Clerks: clerk[k].op \in {"assign", "resolve"} => clerk[k].t \in Tickets
  BY DEF DeskInv, StaffInv, MaintenanceTypeOK, StaffClerkOK, Assignment
<1>1. ASSUME NEW s \in Tickets, NEW status, status # "none", CreateMaintenanceRequest(s, status)
      PROVE  ticket'[t] = ticket[t]
  BY <1>0, <1>1 DEF CreateMaintenanceRequest, Ticket
<1>2. CASE MaintenanceNext
  <2>1. ASSUME NEW s \in Tickets, NEW role, Create(s, role) PROVE ticket'[t] = ticket[t]
    BY <1>1, <2>1 DEF Create
  <2>2. ASSUME NEW s \in Tickets, SlaPasses(s) PROVE ticket'[t] = ticket[t]
    BY <1>0, <2>2 DEF SlaPasses, Ticket
  <2>3. ASSUME NEW k \in Clerks, CommitAssign(k) PROVE ticket'[t] = ticket[t]
    BY <1>0, <2>3 DEF CommitAssign, AssignMaintenanceContractor, Ticket
  <2>4. ASSUME NEW k \in Clerks, CommitResolve(k) PROVE ticket'[t] = ticket[t]
    BY <1>0, <2>4 DEF CommitResolve, ResolveMaintenanceRequest, Ticket
  <2> QED
    BY <1>2, <2>1, <2>2, <2>3, <2>4 DEF MaintenanceNext, Resolve, Assign, CreateReview, CheckAssignable,
       CreateContractorReview, DecisionFails, MaintainDirectory
<1>3. CASE InboxNext
  <2>1. ASSUME NEW m \in Messages, NEW s \in Tickets, MakeRequest(m, s) \/ logMaintenanceRequest(m, s)
        PROVE  ticket'[t] = ticket[t]
    BY <1>1, <2>1 DEF MakeRequest, logMaintenanceRequest, createMaintenanceTicketForMessage
  <2>2. ASSUME NEW k \in Clerks, NEW s \in Tickets, CommitTicket(k, s) PROVE ticket'[t] = ticket[t]
    BY <1>1, <2>2 DEF CommitTicket, createMaintenanceTicketForMessage
  <2> QED
    BY <1>3, <2>1, <2>2 DEF InboxNext, Inbound, IncrementWhatsAppThreadUnread, RequestNotMade, MakeCandidate, Respond,
       ReplyAndRelease, GivesUp, CreateBroadcast, TouchWhatsAppThread, DismissWhatsAppMaintenanceIntake,
       CreateMaintenanceFromMessage, DismissMaintenanceIntake, deskVars
<1> QED
  BY <1>2, <1>3

(* The dashboard counts in Go what the scheme's health counts in SQL.      *)
THEOREM DashboardIsRight == WhatsAppSpec => []CountersAgree
<1>1. MaintenanceInit => NoLateGhosts
  BY DEF MaintenanceInit, NoLateGhosts, NoTicket
<1>2. DeskInv /\ NoLateGhosts /\ [(MaintenanceNext /\ UNCHANGED inboxVars) \/ InboxNext]_WhatsAppVars => NoLateGhosts'
  <2>1. (UNCHANGED WhatsAppVars) /\ NoLateGhosts => NoLateGhosts'
    BY DEF WhatsAppVars, deskVars, NoLateGhosts
  <2> QED
    BY <2>1, GhostsStay DEF NoLateGhosts
<1>3. DeskInv /\ NoLateGhosts => CountersAgree
  <2> SUFFICES ASSUME DeskInv, NoLateGhosts PROVE CountersAgree
    OBVIOUS
  <2>1. \A t \in Tickets: ticket[t] = NoTicket <=> ticket[t].status = "none"
    <3> SUFFICES ASSUME NEW t \in Tickets PROVE ticket[t] = NoTicket <=> ticket[t].status = "none"
      OBVIOUS
    <3>1. ticket[t] \in Ticket /\ TicketOK(t) /\ (ticket[t].status = "none" => ticket[t].late = FALSE)
      BY DEF DeskInv, StaffInv, MaintenanceTypeOK, NoLateGhosts, Ticket
    <3>2. ticket[t].status = "none" => ticket[t].contractor = Nobody
      BY <3>1 DEF TicketOK
    <3>3. ticket[t] = [status |-> ticket[t].status, contractor |-> ticket[t].contractor, late |-> ticket[t].late]
      BY <3>1 DEF Ticket
    <3>4. ticket[t].status = "none" => ticket[t] = NoTicket
      BY <3>1, <3>2, <3>3 DEF NoTicket
    <3>5. NoTicket.status = "none"
      BY DEF NoTicket
    <3> QED
      BY <3>4, <3>5
  <2>2. {t \in {u \in Tickets: ticket[u] # NoTicket}: ticket[t].status # "resolved"}
          = {t \in Tickets: ticket[t].status \notin {"none", "resolved"}}
    BY <2>1
  <2>3. {t \in {u \in Tickets: ticket[u] # NoTicket}: isSlaBreached(t)}
          = {t \in Tickets: ticket[t].status \notin {"none", "resolved", "pending_approval"} /\ ticket[t].late}
    BY <2>1 DEF isSlaBreached
  <2> QED
    BY <2>2, <2>3 DEF CountersAgree, Dashboard, CountOpenMaintenanceByScheme, CountSlaBreachedMaintenanceByScheme
<1> QED
  BY <1>1, <1>2, <1>3, DeskInvariance, PTL DEF WhatsAppSpec

(* A resolved request stays resolved unless an assignment was under way.   *)
THEOREM ResolvedStays == WhatsAppSpec => ResolvedIsDone
<1>1. DeskInv /\ ((MaintenanceNext /\ UNCHANGED inboxVars) \/ InboxNext) => StaysDone
  <2> SUFFICES ASSUME DeskInv, MaintenanceNext \/ InboxNext, NEW t \in Tickets,
                      ticket[t].status = "resolved", ~Assigning(t)
               PROVE  ticket'[t].status = "resolved" /\ ~Assigning(t)'
    BY DEF StaysDone
  <2>0. /\ ticket \in [Tickets -> Ticket] /\ DOMAIN clerk = Clerks /\ \A k \in Clerks: StaffClerkOK(k)
        /\ \A k \in Clerks: clerk[k].op \in {"check", "assign"} => clerk[k].t # t
    BY DEF DeskInv, StaffInv, MaintenanceTypeOK, Assigning
  <2> DEFINE Away(k) == clerk'[k].op \in {"check", "assign"} => clerk'[k].t # t
  <2>1. (\A k \in Clerks: Away(k)) => ~Assigning(t)'
    BY DEF Assigning
  <2>2. ASSUME NEW k \in Clerks, Leaves(k) PROVE ~Assigning(t)'
    <3>1. OneClerk(k, {"check", "assign"})
      BY <2>0, <2>2, LeavesOne
    <3> QED
      BY <2>0, <2>1, <3>1 DEF OneClerk
  <2>3. ASSUME NEW k \in Clerks, NEW rec, Takes(k, rec), rec.op \in {"check", "assign"} => rec.t # t
        PROVE  ~Assigning(t)'
    <3>1. clerk'[k] = rec /\ \A j \in Clerks: j # k => clerk'[j] = clerk[j]
      BY <2>0, <2>3 DEF Takes
    <3> QED
      BY <2>0, <2>1, <2>3, <3>1
  <2>4. clerk' = clerk => ~Assigning(t)'
    BY DEF Assigning
  <2>5. ASSUME NEW s \in Tickets, NEW status, CreateMaintenanceRequest(s, status)
        PROVE  ticket'[t] = ticket[t]
    <3>1. s # t
      BY <2>5 DEF CreateMaintenanceRequest, NoTicket
    <3> QED
      BY <2>0, <2>5, <3>1 DEF CreateMaintenanceRequest
  <2>6. CASE MaintenanceNext
    <3>1. ASSUME NEW s \in Tickets, NEW role, Create(s, role) PROVE ticket'[t].status = "resolved" /\ ~Assigning(t)'
      BY <2>4, <2>5, <3>1 DEF Create
    <3>2. ASSUME NEW s \in Tickets, SlaPasses(s) PROVE ticket'[t].status = "resolved" /\ ~Assigning(t)'
      BY <2>0, <2>4, <3>2 DEF SlaPasses, Ticket
    <3>3. ASSUME NEW k \in Clerks, NEW s \in Tickets, Resolve(k, s)
          PROVE  ticket'[t].status = "resolved" /\ ~Assigning(t)'
      <4>1. PICK rec: rec = [op |-> "resolve", t |-> s]
        OBVIOUS
      <4> QED
        BY <2>3, <3>3, <4>1 DEF Resolve
    <3>4. ASSUME NEW k \in Clerks, NEW s \in Tickets, NEW c, Assign(k, s, c)
          PROVE  ticket'[t].status = "resolved" /\ ~Assigning(t)'
      <4>1. PICK rec: rec = [op |-> IF c = ByName THEN "assign" ELSE "check", t |-> s, c |-> c]
        OBVIOUS
      <4>2. s # t
        BY <3>4 DEF Assign, MayAssign
      <4>3. rec.t # t /\ Takes(k, rec) /\ ticket' = ticket
        BY <3>4, <4>1, <4>2 DEF Assign
      <4> QED
        BY <2>3, <4>3
    <3>5. ASSUME NEW k \in Clerks, NEW s \in Tickets, NEW c, CreateReview(k, c, s)
          PROVE  ticket'[t].status = "resolved" /\ ~Assigning(t)'
      <4>1. PICK rec: rec = [op |-> "review", t |-> s, c |-> c]
        OBVIOUS
      <4> QED
        BY <2>3, <3>5, <4>1 DEF CreateReview
    <3>6. ASSUME NEW k \in Clerks, CheckAssignable(k) PROVE ticket'[t].status = "resolved" /\ ~Assigning(t)'
      <4>1. clerk[k] \in Assignment /\ clerk[k].t # t
        BY <2>0, <3>6 DEF CheckAssignable, StaffClerkOK
      <4>2. PICK rec: rec = [clerk[k] EXCEPT !.op = "assign"]
        OBVIOUS
      <4>3. rec.t # t
        BY <4>1, <4>2 DEF Assignment
      <4>4. CASE clerk' = [clerk EXCEPT ![k].op = "assign"]
        <5>1. clerk'[k] = rec /\ \A j \in Clerks: j # k => clerk'[j] = clerk[j]
          BY <2>0, <4>2, <4>4
        <5> QED
          BY <2>0, <2>1, <3>6, <4>3, <5>1 DEF CheckAssignable
      <4> QED
        BY <2>2, <3>6, <4>4 DEF CheckAssignable
    <3>7. ASSUME NEW k \in Clerks, CommitAssign(k) PROVE ticket'[t].status = "resolved" /\ ~Assigning(t)'
      <4>1. clerk[k].t # t
        BY <2>0, <3>7 DEF CommitAssign
      <4>2. ticket'[t] = ticket[t]
        BY <2>0, <3>7, <4>1 DEF CommitAssign, AssignMaintenanceContractor
      <4> QED
        BY <2>2, <3>7, <4>2 DEF CommitAssign
    <3>8. ASSUME NEW k \in Clerks, CommitResolve(k) PROVE ticket'[t].status = "resolved" /\ ~Assigning(t)'
      <4>1. ticket'[t].status = "resolved"
        BY <2>0, <3>8 DEF CommitResolve, ResolveMaintenanceRequest, Ticket
      <4> QED
        BY <2>2, <3>8, <4>1 DEF CommitResolve
    <3>9. ASSUME NEW k \in Clerks, CreateContractorReview(k) \/ DecisionFails(k)
          PROVE  ticket'[t].status = "resolved" /\ ~Assigning(t)'
      BY <2>2, <3>9 DEF CreateContractorReview, DecisionFails
    <3>10. ASSUME NEW c, NEW row, MaintainDirectory(c, row) PROVE ticket'[t].status = "resolved" /\ ~Assigning(t)'
      BY <2>4, <3>10 DEF MaintainDirectory
    <3> QED
      BY <2>6, <3>1, <3>2, <3>3, <3>4, <3>5, <3>6, <3>7, <3>8, <3>9, <3>10 DEF MaintenanceNext
  <2>7. CASE InboxNext
    <3>1. ASSUME NEW m \in Messages, NEW s \in Tickets, MakeRequest(m, s) \/ logMaintenanceRequest(m, s)
          PROVE  ticket'[t].status = "resolved" /\ ~Assigning(t)'
      BY <2>4, <2>5, <3>1 DEF MakeRequest, logMaintenanceRequest, createMaintenanceTicketForMessage
    <3>2. ASSUME NEW k \in Clerks, NEW s \in Tickets, CommitTicket(k, s)
          PROVE  ticket'[t].status = "resolved" /\ ~Assigning(t)'
      BY <2>2, <2>5, <3>2 DEF CommitTicket, createMaintenanceTicketForMessage
    <3>3. ASSUME NEW k \in Clerks, TouchWhatsAppThread(k) \/ DismissWhatsAppMaintenanceIntake(k)
          PROVE  ticket'[t].status = "resolved" /\ ~Assigning(t)'
      BY <2>2, <3>3 DEF TouchWhatsAppThread, DismissWhatsAppMaintenanceIntake
    <3>4. ASSUME NEW k \in Clerks, NEW m \in Messages,
                 CreateMaintenanceFromMessage(k, m) \/ DismissMaintenanceIntake(k, m)
          PROVE  ticket'[t].status = "resolved" /\ ~Assigning(t)'
      <4>1. PICK op \in {"ticket", "dismiss"}: Takes(k, [op |-> op, m |-> m]) /\ ticket' = ticket
        BY <3>4 DEF CreateMaintenanceFromMessage, DismissMaintenanceIntake
      <4>2. PICK rec: rec = [op |-> op, m |-> m]
        OBVIOUS
      <4>3. rec.op = op /\ Takes(k, rec)
        BY <4>1, <4>2
      <4> QED
        BY <2>3, <4>1, <4>3
    <3>5. ASSUME NEW k \in Clerks, CreateBroadcast(k) PROVE ticket'[t].status = "resolved" /\ ~Assigning(t)'
      <4>1. PICK rec: rec = [op |-> "broadcast", seen |-> unread]
        OBVIOUS
      <4>2. rec.op = "broadcast" /\ Takes(k, rec) /\ ticket' = ticket
        BY <3>5, <4>1 DEF CreateBroadcast
      <4> QED
        BY <2>3, <4>2
    <3>6. ASSUME UNCHANGED deskVars PROVE ticket'[t].status = "resolved" /\ ~Assigning(t)'
      BY <2>4, <3>6 DEF deskVars
    <3> QED
      BY <2>7, <3>1, <3>2, <3>3, <3>4, <3>5, <3>6
         DEF InboxNext, Inbound, IncrementWhatsAppThreadUnread, RequestNotMade, MakeCandidate, Respond,
             ReplyAndRelease, GivesUp
  <2> QED
    BY <2>6, <2>7
<1>2. (UNCHANGED WhatsAppVars) => UNCHANGED deskVars
  BY DEF WhatsAppVars
<1> QED
  BY <1>1, <1>2, DeskInvariance, PTL DEF WhatsAppSpec, ResolvedIsDone

(* What holds of the staff and the inbox together holds of the desk, where *)
(* one of its parts is at work and the others rest.                        *)
THEOREM DeskIsTheirs == DeskSpec => WhatsAppSpec
<1>1. DeskInit => MaintenanceInit /\ InboxInit
  BY DEF DeskInit
<1>2. [DeskNext]_allVars => [(MaintenanceNext /\ UNCHANGED inboxVars) \/ InboxNext]_WhatsAppVars
  BY DEF DeskNext, allVars, WhatsAppVars
<1> QED
  BY <1>1, <1>2, PTL DEF DeskSpec, WhatsAppSpec

(***************************************************************************)
(* The bank statements.  In the part where requests and handlers run one   *)
(* after the other, what is shown is exact as well.                        *)
(***************************************************************************)
\* What holds of statements and payments holds at the desk, whose parts all do their steps.
THEOREM DeskIsTheLedgers == DeskSpec => Spec
<1>1. DeskInit => Init
  BY DEF DeskInit
<1>2. [DeskNext]_allVars => [Next]_vars
  BY DEF DeskNext, allVars
<1> QED
  BY <1>1, <1>2, PTL DEF DeskSpec, Spec

Serially == part # "one statement"

LEMMA SerialStep ==
  ASSUME Serially', [DeskNext]_allVars
  PROVE  Serially /\ [Next /\ OneAtATime]_vars
BY DEF Serially, DeskNext, allVars

LEMMA SerialExact ==
  ASSUME TypeInv, TypeInv', Serially => ExactInv, [DeskNext]_allVars
  PROVE  (Serially => ExactInv)'
BY SerialStep, NextKeepsExact

LEMMA SerialRead ==
  ASSUME TypeInv, TypeInv', OnceInv, Serially => ReadInv, [DeskNext]_allVars
  PROVE  (Serially => ReadInv)'
BY SerialStep, NextKeepsRead

LEMMA SerialShown ==
  ASSUME LinesAreNoDeposits, TypeInv, TypeInv', OnceInv, Serially => ReadInv,
         Serially => ShownInv, [DeskNext]_allVars
  PROVE  (Serially => ShownInv)'
BY SerialStep, NextKeepsShown

LEMMA SerialCounters ==
  ASSUME TypeInv, TypeInv', OnceInv, DoneInv, Serially => ReadInv,
         Serially => CountersInv, [DeskNext]_allVars
  PROVE  (Serially => CountersInv)'
<1>1. [Next]_vars
  BY DEF DeskNext, allVars
<1> QED
  BY <1>1, SerialStep, NextKeepsCounters

LEMMA AlwaysOnce == Spec => [](TypeInv /\ OnceInv)
BY InitIsOnce, NextKeepsOnce, LedgerTypes, PTL DEF Spec

LEMMA AlwaysRead == DeskSpec => [](Serially => ReadInv)
<1>1. DeskInit => ReadInv
  BY InitIsRead DEF DeskInit
<1>2. TypeInv /\ TypeInv' /\ OnceInv /\ (Serially => ReadInv) /\ [DeskNext]_allVars
        => (Serially => ReadInv)'
  BY SerialRead
<1> QED
  BY <1>1, <1>2, AlwaysOnce, DeskIsTheLedgers, PTL DEF DeskSpec

(* While they run one after the other, balances are the sums of the payments posted to   *)
(* them, after every rollback, retry and repeated upload; and so are the counters of an   *)
(* import the numbers of its rows, but for an import that a retry took up blind.          *)
THEOREM BooksStayExact == DeskSpec => []BooksAreExact
<1>1. DeskInit => Init /\ ExactInv /\ CountersInv
  BY InitIsExact, InitIsCounted DEF DeskInit
<1>2. TypeInv /\ TypeInv' /\ (Serially => ExactInv) /\ [DeskNext]_allVars => (Serially => ExactInv)'
  BY SerialExact
<1>3. TypeInv /\ TypeInv' /\ OnceInv /\ DoneInv /\ [Next]_vars => DoneInv'
  BY NextKeepsDone
<1>4. Spec => []DoneInv
  BY <1>3, InitIsDone, AlwaysOnce, PTL DEF Spec
<1>5. TypeInv /\ TypeInv' /\ OnceInv /\ DoneInv /\ (Serially => ReadInv)
        /\ (Serially => CountersInv) /\ [DeskNext]_allVars => (Serially => CountersInv)'
  BY SerialCounters
<1>6. (Serially => ExactInv) /\ (Serially => CountersInv) => BooksAreExact
  BY DEF Serially, ExactInv, CountersInv, BooksAreExact
<1> QED
  BY <1>1, <1>2, <1>4, <1>5, <1>6, AlwaysRead, AlwaysOnce, DeskIsTheLedgers, PTL DEF DeskSpec

(* While they run one after the other, a payment for a deposit is shown by a row of that  *)
(* deposit, whatever is uploaded, retried or clicked twice, when no payment line bears    *)
(* the fingerprint of a deposit.                                                          *)
THEOREM PaymentsKeepRows == ASSUME LinesAreNoDeposits PROVE DeskSpec => []EachPaymentHasRow
<1>1. DeskInit => ShownInv
  BY InitIsShown DEF DeskInit
<1>2. TypeInv /\ TypeInv' /\ OnceInv /\ (Serially => ReadInv) /\ (Serially => ShownInv)
        /\ [DeskNext]_allVars => (Serially => ShownInv)'
  BY SerialShown
<1>3. (Serially => ShownInv) => EachPaymentHasRow
  BY ShownHaveRows DEF Serially, EachPaymentHasRow
<1> QED
  BY <1>1, <1>2, <1>3, AlwaysRead, AlwaysOnce, DeskIsTheLedgers, PTL DEF DeskSpec
=============================================================================
