-------------------------- MODULE ReminderDelivery --------------------------
(***************************************************************************)
(* Collection reminders from the click to the provider: SendReminder       *)
(* (backend/internal/levy/service.go) records a collection_events row and  *)
(* enqueues one job per enabled channel; the handlers of                   *)
(* backend/internal/jobs/collection_reminders.go call the provider and     *)
(* write the outcome on that row.  Composes JobQueue: a job's key is an    *)
(* account's channel, its payload the collection event.                    *)
(***************************************************************************)
EXTENDS JobQueue

CONSTANT Reminders  \* the channels (keys) one reminder may enable, as sets

Events == Payloads

ASSUME RemindersAssumption == Reminders \subseteq SUBSET Registered

VARIABLES delivery,  \* collection_events: the status of each channel of each event
          todo,      \* channels SendReminder still has to enqueue; empty before and after
          sending,   \* the provider's answer a handler has not recorded yet
          copies     \* history: messages the provider delivered for an event and channel

reminderVars == <<delivery, todo, sending, copies>>
allVars == <<vars, reminderVars>>

Answer == [claim : Claim, accepted : BOOLEAN]

ReminderInit == /\ Init
                /\ delivery = [e \in Events |-> [k \in Keys |-> "none"]]
                /\ todo = [e \in Events |-> {}]
                /\ sending = [w \in Workers |-> {}]
                /\ copies = [e \in Events |-> [k \in Keys |-> 0]]

-----------------------------------------------------------------------------
(* The request handler.  The event commits on its own; each enqueue follows in a
   statement of its own, and the process may stop between any two of them.        *)
RecordReminder(e, channels) ==
  /\ \A k \in Keys : delivery[e][k] = "none"
  /\ channels # {}
  /\ delivery' = [delivery EXCEPT ![e] = [k \in Keys |-> IF k \in channels THEN "queued"
                                                                           ELSE "skipped"]]
  /\ todo' = [todo EXCEPT ![e] = channels]
  /\ UNCHANGED <<vars, sending, copies>>

EnqueueReminder(e, k) ==
  /\ k \in todo[e]
  /\ (\E j \in Jobs : EnqueueInserts(j, k, e)) \/ EnqueueConflicts(k)
  /\ todo' = [todo EXCEPT ![e] = @ \ {k}]
  /\ UNCHANGED <<delivery, sending, copies>>

\* The error of the mark that follows a failed enqueue is dropped.
EnqueueFails(e, k) ==
  /\ k \in todo[e]
  /\ \/ delivery' = [delivery EXCEPT ![e][k] = "failed"]
     \/ UNCHANGED delivery
  /\ todo' = [todo EXCEPT ![e] = @ \ {k}]
  /\ UNCHANGED <<vars, sending, copies>>

-----------------------------------------------------------------------------
(* The handlers.  A provider call that errors may still have delivered. *)
ProviderAnswers(w, c, delivered, accepted) ==
  LET e == jobs[c.job].payload
      k == jobs[c.job].key
  IN /\ phase[w] = "handle" /\ c \in batch[w] /\ sending[w] = {}
     /\ accepted => delivered
     /\ sending' = [sending EXCEPT ![w] = {[claim |-> c, accepted |-> accepted]}]
     /\ copies' = [copies EXCEPT ![e][k] = IF delivered THEN @ + 1 ELSE @]
     /\ UNCHANGED <<vars, delivery, todo>>

\* Mutant: a success that may not have been recorded.
SucceedsAnyway(accepted, recorded) == accepted

Outcome(accepted) == IF accepted THEN "sent" ELSE "failed"

\* An accepted message is a success only once it is recorded; a refusal always retries.
Succeeds(accepted, recorded) == accepted /\ recorded

HandlerReturns(w, recorded) ==
  \E a \in sending[w] :
    LET e == jobs[a.claim.job].payload
        k == jobs[a.claim.job].key
    IN /\ Handle(w, a.claim, IF Succeeds(a.accepted, recorded) THEN "ok" ELSE "retry")
       /\ delivery' = IF recorded
                      THEN [delivery EXCEPT ![e][k] = Outcome(a.accepted)]
                      ELSE delivery
       /\ sending' = [sending EXCEPT ![w] = {}]
       /\ UNCHANGED <<todo, copies>>

WorkerCrash(w) ==
  /\ Crash(w)
  /\ sending' = [sending EXCEPT ![w] = {}]
  /\ UNCHANGED <<delivery, todo, copies>>

QueueStep == /\ \/ \E w \in Workers : \/ RecoverStaleBackgroundJobs(w)
                                      \/ ClaimDueBackgroundJobs(w)
                                      \/ Settle(w)
                \/ \E j \in Jobs : BecomesDue(j) \/ LeaseExpires(j)
             /\ UNCHANGED reminderVars

ReminderNext ==
  \/ \E e \in Events, channels \in Reminders : RecordReminder(e, channels)
  \/ \E e \in Events, k \in Keys : EnqueueReminder(e, k) \/ EnqueueFails(e, k)
  \/ \E w \in Workers, delivered, accepted \in BOOLEAN :
       \E c \in batch[w] : ProviderAnswers(w, c, delivered, accepted)
  \/ \E w \in Workers, recorded \in BOOLEAN : HandlerReturns(w, recorded)
  \/ \E w \in Workers : WorkerCrash(w)
  \/ QueueStep

(* Only the worker and the clock are relied on: requests come and go. *)
ReminderFairness ==
  /\ \A w \in Workers :
       /\ WF_allVars(RecoverStaleBackgroundJobs(w) /\ UNCHANGED reminderVars)
       /\ WF_allVars(ClaimDueBackgroundJobs(w) /\ UNCHANGED reminderVars)
       /\ WF_allVars(Settle(w) /\ UNCHANGED reminderVars)
       /\ WF_allVars(\E delivered, accepted \in BOOLEAN :
                       \E c \in batch[w] : ProviderAnswers(w, c, delivered, accepted))
       /\ WF_allVars(\E recorded \in BOOLEAN : HandlerReturns(w, recorded))
  /\ \A j \in Jobs : WF_allVars((BecomesDue(j) \/ LeaseExpires(j)) /\ UNCHANGED reminderVars)

ReminderSpec == ReminderInit /\ [][ReminderNext]_allVars /\ ReminderFairness

-----------------------------------------------------------------------------
(* Types of the reminder state. *)
ReminderTypeOK ==
  /\ delivery \in [Events -> [Keys -> {"none", "skipped", "queued", "sent", "failed"}]]
  /\ todo \in [Events -> SUBSET Keys]
  /\ \A w \in Workers : sending[w] \subseteq Answer /\ Cardinality(sending[w]) <= 1
  /\ copies \in [Events -> [Keys -> Nat]]

(* A reminder shown as sent was delivered, and a succeeded job's reminder is shown
   as sent: the handler that reported success was the last to write the event,
   although earlier attempts may have written "failed" and crashed in any place.   *)
SuccessIsShown ==
  /\ \A e \in Events, k \in Keys : delivery[e][k] = "sent" => copies[e][k] > 0
  /\ \A j \in Jobs : jobs[j].status = "succeeded"
                       => delivery[jobs[j].payload][jobs[j].key] = "sent"

(* Retries, crashes and recoveries together never send an owner more than
   MaxAttempts copies of one reminder (at-least-once, but bounded).          *)
CopiesBounded == \A e \in Events, k \in Keys : copies[e][k] <= MaxAttempts

(* Once a reminder has a job of its own, it ends sent or failed, or the operator
   finds the job failed (the mark itself may have been lost).                     *)
HasJob(e, k) == \E j \in Jobs : jobs[j].payload = e /\ jobs[j].key = k
JobFailed(e, k) ==
  \E j \in Jobs : jobs[j].payload = e /\ jobs[j].key = k /\ jobs[j].status = "failed"

ReminderWithJobEnds ==
  \A e \in Events, k \in Keys :
    HasJob(e, k) ~> delivery[e][k] \in {"sent", "failed"} \/ JobFailed(e, k)

(* docs/production-reliability-runbook.md:361: "The API records collection reminders
   with delivery status `queued` and inserts one job per enabled channel".  So a
   queued channel the API is done with has a job that names its event.              *)
QueuedHasJob ==
  \A e \in Events, k \in Keys :
    delivery[e][k] = "queued" /\ k \notin todo[e] => HasJob(e, k)
=============================================================================
