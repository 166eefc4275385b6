---------------------------- MODULE WhatsAppDesk ----------------------------
(***************************************************************************)
(* WhatsApp messages of residents and the maintenance requests made of     *)
(* them (backend/internal/whatsapp).  The webhook saves a message and      *)
(* answers 200; a goroutine that holds one of the worker slots then counts *)
(* it, makes a request or a candidate of it, and replies.  Meanwhile the   *)
(* staff make requests of messages, dismiss candidates and broadcast.  A   *)
(* message the provider delivers twice is two messages: nothing compares   *)
(* their ids.  One connected thread is looked at.                          *)
(***************************************************************************)
EXTENDS Maintenance

CONSTANTS Messages,    \* ids of rows of whatsapp_messages sent by residents
          Slots,       \* webhookWorkerCapacity
          NoTicketId   \* maintenance_request_id NULL

ASSUME DeskAssumption ==
  /\ Slots \in Nat \ {0} /\ NoTicketId \notin Tickets
  /\ IsFiniteSet(Messages) /\ Messages \cap Clerks = {}

VARIABLES message,     \* id -> row, with how far its goroutine is
          intake,      \* message id -> its row of whatsapp_maintenance_intakes
          unread,      \* unread_count of the thread
          slots,       \* worker slots taken
          origin,      \* history: <<message, ticket>> for tickets made of a message
          contested,   \* history: messages two actors decided on at one time
          overwrote    \* history: a broadcast wrote a count that had moved on

inboxVars == <<message, intake, unread, slots, origin, contested, overwrote>>

(* What the words and the pictures of a message amount to:                 *)
(* classifyMaintenanceIntent finds a request, or a hint that only makes a  *)
(* candidate; the bot logs a request of its own for whatever starts with   *)
(* "request", which the classifier wants as a word of its own.             *)
Kind == {"request", "hint", "chat", "requested hint"}
IsMaintenance(k) == k = "request"
shouldCreateMaintenanceCandidate(k) == k \in {"hint", "requested hint"}
BotLogs(k) == k = "requested hint"

Stage == {"none", "count", "classify", "bot", "reply", "done"}
Message == [at: Stage, kind: Kind, ticket: Tickets \cup {NoTicketId}, counted: BOOLEAN]
NoMessage == [at |-> "none", kind |-> "chat", ticket |-> NoTicketId, counted |-> FALSE]

IntakeStatus == {"none", "candidate", "ticket_created", "dismissed"}
Intake == [status: IntakeStatus, ticket: Tickets \cup {NoTicketId}]
NoIntake == [status |-> "none", ticket |-> NoTicketId]

InboxInit ==
  /\ message = [m \in Messages |-> NoMessage]
  /\ intake = [m \in Messages |-> NoIntake]
  /\ unread = 0 /\ slots = 0
  /\ origin = {} /\ contested = {} /\ overwrote = FALSE

Running(m) == message[m].at \notin {"none", "done"}
Moves(m, at) == message' = [message EXCEPT ![m].at = at]

(* Who may still decide on a message: its goroutine before it has got to   *)
(* the bot, and the staff whose checks are done.                           *)
Deciders(m) ==
  {k \in Clerks: clerk[k].op \in {"ticket", "dismiss"} /\ clerk[k].m = m}
    \cup (IF message[m].at \in {"count", "classify"} /\ message[m].kind # "chat" THEN {m} ELSE {})
Decides(m, actor) == contested' = IF Deciders(m) \subseteq {actor} THEN contested ELSE contested \cup {m}

(***************************************************************************)
(* The upsert of an intake: one row per message, its ticket kept when the  *)
(* new row has none, its status not; and the transaction that makes a      *)
(* ticket of a message.                                                    *)
(***************************************************************************)
CreateWhatsAppMaintenanceIntake(m, status, t) ==
  intake' = [intake EXCEPT ![m] = [status |-> status, ticket |-> IF t = NoTicketId THEN @.ticket ELSE t]]

createMaintenanceTicketForMessage(m, t) ==
  /\ CreateMaintenanceRequest(t, "pending_approval")
  /\ CreateWhatsAppMaintenanceIntake(m, "ticket_created", t)
  /\ origin' = origin \cup {<<m, t>>}

(***************************************************************************)
(* The webhook.                                                            *)
(***************************************************************************)
Inbound(m, kind) ==
  /\ message[m] = NoMessage
  /\ slots < Slots
  /\ slots' = slots + 1
  /\ message' = [message EXCEPT ![m] = [NoMessage EXCEPT !.at = "count", !.kind = kind]]
  /\ UNCHANGED <<intake, unread, origin, contested, overwrote, deskVars>>

(* A failure to count is only logged.                                      *)
IncrementWhatsAppThreadUnread(m) ==
  /\ message[m].at = "count"
  /\ \/ unread' = unread + 1 /\ message' = [message EXCEPT ![m].at = "classify", ![m].counted = TRUE]
     \/ unread' = unread /\ Moves(m, "classify")
  /\ UNCHANGED <<intake, slots, origin, contested, overwrote, deskVars>>

MakeRequest(m, t) ==
  /\ message[m].at = "classify" /\ IsMaintenance(message[m].kind)
  /\ createMaintenanceTicketForMessage(m, t)
  /\ message' = [message EXCEPT ![m].at = "reply", ![m].ticket = t]
  /\ Decides(m, m)
  /\ UNCHANGED <<unread, slots, overwrote, contractor, reviews, clerk, worked>>

(* The transaction fails, and the resident is told to try again.           *)
RequestNotMade(m) ==
  /\ message[m].at = "classify" /\ IsMaintenance(message[m].kind)
  /\ Moves(m, "reply")
  /\ UNCHANGED <<intake, unread, slots, origin, contested, overwrote, deskVars>>

(* The candidate, or nothing; either way the bot is asked for the reply.   *)
MakeCandidate(m) ==
  /\ message[m].at = "classify" /\ ~IsMaintenance(message[m].kind)
  /\ Moves(m, "bot")
  /\ \/ UNCHANGED <<intake, contested>>
     \/ /\ shouldCreateMaintenanceCandidate(message[m].kind)
        /\ CreateWhatsAppMaintenanceIntake(m, "candidate", NoTicketId)
        /\ Decides(m, m)
  /\ UNCHANGED <<unread, slots, origin, overwrote, deskVars>>

Respond(m) ==
  /\ message[m].at = "bot"
  /\ Moves(m, "reply")
  /\ UNCHANGED <<intake, unread, slots, origin, contested, overwrote, deskVars>>

(* logMaintenanceRequest: nothing links the message to it.                 *)
logMaintenanceRequest(m, t) ==
  /\ message[m].at = "bot" /\ BotLogs(message[m].kind)
  /\ CreateMaintenanceRequest(t, "open")
  /\ Moves(m, "reply")
  /\ UNCHANGED <<intake, unread, slots, origin, contested, overwrote, contractor, reviews, clerk, worked>>

(* The reply is sent or not, and the deferred calls give the slot back.    *)
ReplyAndRelease(m) ==
  /\ message[m].at = "reply"
  /\ Moves(m, "done")
  /\ slots' = slots - 1
  /\ UNCHANGED <<intake, unread, origin, contested, overwrote, deskVars>>

(* A plausible bug: the slot is only given back after a reply.             *)
KeepsSlot(m) ==
  /\ Running(m)
  /\ Moves(m, "done")
  /\ UNCHANGED <<intake, unread, slots, origin, contested, overwrote, deskVars>>

(* A panic anywhere, or the 30 seconds of the context: the goroutine ends. *)
GivesUp(m) ==
  /\ Running(m)
  /\ Moves(m, "done")
  /\ slots' = slots - 1
  /\ UNCHANGED <<intake, unread, origin, contested, overwrote, deskVars>>

(***************************************************************************)
(* The staff.                                                              *)
(***************************************************************************)
(* CreateMaintenanceFromMessage: not of a dismissed message, and not twice *)
(* (a plausible bug forgets the second).                                   *)
MayMakeAgain(m) == intake[m].status # "dismissed"
MayMake(m) ==
  /\ intake[m].status # "dismissed"
  /\ ~(intake[m].status # "none" /\ message[m].ticket # NoTicketId)

CreateMaintenanceFromMessage(k, m) ==
  /\ message[m].at # "none"
  /\ MayMake(m)
  /\ Takes(k, [op |-> "ticket", m |-> m])
  /\ UNCHANGED <<inboxVars, contractor, ticket, reviews, worked>>

CommitTicket(k, t) ==
  LET m == clerk[k].m IN
  /\ clerk[k].op = "ticket"
  /\ createMaintenanceTicketForMessage(m, t)
  /\ message' = [message EXCEPT ![m].ticket = t]
  /\ Decides(m, k)
  /\ Leaves(k)
  /\ UNCHANGED <<unread, slots, overwrote, contractor, reviews, worked>>

DismissMaintenanceIntake(k, m) ==
  /\ intake[m].status = "candidate"
  /\ Takes(k, [op |-> "dismiss", m |-> m])
  /\ UNCHANGED <<inboxVars, contractor, ticket, reviews, worked>>

DismissWhatsAppMaintenanceIntake(k) ==
  LET m == clerk[k].m IN
  /\ clerk[k].op = "dismiss"
  /\ intake' = [intake EXCEPT ![m].status = "dismissed"]
  /\ Decides(m, k)
  /\ Leaves(k)
  /\ UNCHANGED <<message, unread, slots, origin, overwrote, contractor, ticket, reviews, worked>>

(* CreateBroadcast lists the threads with their counts and writes the      *)
(* counts back as it goes through them.                                    *)
CreateBroadcast(k) ==
  /\ Takes(k, [op |-> "broadcast", seen |-> unread])
  /\ UNCHANGED <<inboxVars, contractor, ticket, reviews, worked>>

TouchWhatsAppThread(k) ==
  /\ clerk[k].op = "broadcast"
  /\ unread' = clerk[k].seen
  /\ overwrote' = (overwrote \/ unread # clerk[k].seen)
  /\ Leaves(k)
  /\ UNCHANGED <<message, intake, slots, origin, contested, contractor, ticket, reviews, worked>>

InboxNext ==
  \/ \E m \in Messages, kind \in Kind: Inbound(m, kind)
  \/ \E m \in Messages: \/ IncrementWhatsAppThreadUnread(m) \/ RequestNotMade(m) \/ MakeCandidate(m)
                        \/ Respond(m) \/ ReplyAndRelease(m) \/ GivesUp(m)
                        \/ \E t \in Tickets: MakeRequest(m, t) \/ logMaintenanceRequest(m, t)
  \/ \E k \in Clerks: \/ CreateBroadcast(k) \/ TouchWhatsAppThread(k) \/ DismissWhatsAppMaintenanceIntake(k)
                      \/ \E m \in Messages: CreateMaintenanceFromMessage(k, m) \/ DismissMaintenanceIntake(k, m)
                      \/ \E t \in Tickets: CommitTicket(k, t)

(* The staff and the inbox at work together.                               *)
WhatsAppVars == <<deskVars, inboxVars>>
WhatsAppSpec == /\ MaintenanceInit /\ InboxInit
                /\ [][(MaintenanceNext /\ UNCHANGED inboxVars) \/ InboxNext]_WhatsAppVars

InboxTypeOK ==
  /\ message \in [Messages -> Message]
  /\ intake \in [Messages -> Intake]
  /\ unread \in Nat /\ slots \in 0..Slots
  /\ origin \subseteq Messages \X Tickets

(* The request a message links to is the one its intake names, and no two  *)
(* messages share one.                                                     *)
LinkIsMutual ==
  \A m \in Messages: /\ message[m].ticket = intake[m].ticket
                     /\ message[m].ticket # NoTicketId =>
                          \A n \in Messages \ {m}: message[n].ticket # message[m].ticket

(* Upserts that overtake each other may change what an intake says of its  *)
(* request but never lose it; and while nobody else decides on a message   *)
(* at the time, one request at most is made of it, and none once its       *)
(* candidate is dismissed.  The request the bot logs is beside the intake  *)
(* and not counted (webhook.go:243, service.go:705).                       *)
DecidedOnce ==
  /\ LinkIsMutual
  /\ \A m \in Messages \ contested:
       /\ Cardinality({t \in Tickets: <<m, t>> \in origin}) <= 1
       /\ intake[m].status = "ticket_created" <=> message[m].ticket # NoTicketId

(* The unread counter counts the messages that were counted; a broadcast   *)
(* may write an old count over a newer one, but never too high a one       *)
(* (service.go:311).  And a worker slot is taken exactly while a message   *)
(* is in hand, however its goroutine ends: a slot that is not given back   *)
(* is gone until the restart (webhook.go:185).                             *)
CountsAreHonest ==
  LET counted == Cardinality({m \in Messages: message[m].counted}) IN
  /\ unread <= counted
  /\ ~overwrote => unread = counted
  /\ slots = Cardinality({m \in Messages: Running(m)})
=============================================================================
