------------------------------ MODULE Billing -------------------------------
(***************************************************************************)
(* Subscriptions of organisations (backend/internal/billing).  A checkout  *)
(* reads the row, calls the provider and writes the row back; a webhook    *)
(* reads the row, merges the event into it and writes it back.  Nothing    *)
(* locks the row in between, and the provider delivers what it has sent in *)
(* any order, more than once, or again after an error.  One subscription   *)
(* per organisation at a time; plan and period are not told apart.         *)
(***************************************************************************)
EXTENDS Naturals, Sequences, FiniteSets, FiniteSetsExt

CONSTANTS Payers,      \* organisations
          Calls,       \* requests and deliveries that may be under way at one time
          MaxSent      \* bound: events the provider has sent

ASSUME BillingAssumption == Payers # {} /\ MaxSent \in Nat

VARIABLES subscription, \* organisation -> row of org_subscriptions
          standing,     \* the provider's: organisation -> status of its subscription
          sent,         \* events the provider has sent, in order
          call,         \* call -> what it has read
          last,         \* history: organisation -> newest subscription event applied
          disorder      \* history: organisations whose row was written out of turn

billingVars == <<subscription, standing, sent, call, last, disorder>>

EntitledStatus == {"active", "trialing"}
ProviderStatus == {"active", "past_due"}
SubscriptionStatus == ProviderStatus \cup {"none", "checkout_pending", "checkout_completed"}

(* known: the row holds the provider's ids, by which an event is matched   *)
(* that does not name its organisation.                                    *)
Subscription == [status: SubscriptionStatus, known: BOOLEAN]
NoSubscription == [status |-> "none", known |-> FALSE]

Waiting == [op |-> "waiting"]

BillingInit ==
  /\ subscription = [o \in Payers |-> NoSubscription]
  /\ standing = [o \in Payers |-> "none"]
  /\ sent = <<>>
  /\ call = [h \in Calls |-> Waiting]
  /\ last = [o \in Payers |-> 0]
  /\ disorder = {}

(***************************************************************************)
(* The provider: it sends what happens to a subscription, and that a       *)
(* checkout has been completed.  Metadata may have been lost on the way.   *)
(***************************************************************************)
WebhookEvent == [org: Payers, status: ProviderStatus \cup {"checkout_completed"}, named: BOOLEAN]

Sends(event) == Len(sent) < MaxSent /\ sent' = Append(sent, event)

SubscriptionChanges(o, status, named) ==
  /\ standing[o] # status
  /\ standing' = [standing EXCEPT ![o] = status]
  /\ Sends([org |-> o, status |-> status, named |-> named])
  /\ UNCHANGED <<subscription, call, last, disorder>>

CheckoutCompletes(o) ==
  /\ subscription[o].status # "none"
  /\ Sends([org |-> o, status |-> "checkout_completed", named |-> TRUE])
  /\ UNCHANGED <<subscription, standing, call, last, disorder>>

(***************************************************************************)
(* The queries.                                                            *)
(***************************************************************************)
GetOrgSubscription(o) == subscription[o]

UpsertOrgSubscription(h, o, row) ==
  /\ subscription' = [subscription EXCEPT ![o] = row]
  /\ call' = [call EXCEPT ![h] = Waiting]

(* A plausible bug: a completed checkout counts as a subscription.         *)
entitledAfterCheckout(status) == status \in EntitledStatus \cup {"checkout_completed"}
entitlementActive(status) == status \in EntitledStatus

HasActiveEntitlement(o) == entitlementActive(GetOrgSubscription(o).status)

(* The middleware: sign-in, billing and onboarding are open to all.        *)
Entitlement(o, area) == area \in {"auth", "billing", "onboarding"} \/ HasActiveEntitlement(o)

(***************************************************************************)
(* CreateCheckoutSession.                                                  *)
(***************************************************************************)
CreateCheckoutSession(h, o) ==
  /\ call[h] = Waiting
  /\ call' = [call EXCEPT ![h] = [op |-> "checkout", org |-> o, read |-> GetOrgSubscription(o)]]
  /\ UNCHANGED <<subscription, standing, sent, last, disorder>>

(* The row as it was read, now with a session: an error is only logged.    *)
StoreCheckoutSession(h) ==
  LET c == call[h] IN
  /\ c.op = "checkout"
  /\ UpsertOrgSubscription(h, c.org, [c.read EXCEPT !.status = IF @ = "none" THEN "checkout_pending" ELSE @])
  /\ disorder' = IF c.read = subscription[c.org] THEN disorder ELSE disorder \cup {c.org}
  /\ UNCHANGED <<standing, sent, last>>

(***************************************************************************)
(* HandleWebhook.                                                          *)
(***************************************************************************)
(* resolveWebhookOrgID; an event nobody can be found for is an error, and  *)
(* the provider will try it again.                                         *)
Resolvable(event) == event.named \/ subscription[event.org].known

HandleWebhook(h, i) ==
  /\ call[h] = Waiting
  /\ Resolvable(sent[i])
  /\ call' = [call EXCEPT ![h] = [op |-> "webhook", org |-> sent[i].org, event |-> i,
                                  read |-> GetOrgSubscription(sent[i].org)]]
  /\ UNCHANGED <<subscription, standing, sent, last, disorder>>

(* A plausible bug: the event's status is taken whatever it is.            *)
EventStatus(row, event) == event.status

MergedStatus(row, event) ==
  IF event.status = "checkout_completed" /\ entitlementActive(row.status) THEN row.status ELSE event.status

ApplyWebhook(h) ==
  LET c == call[h]
      event == sent[c.event]
      news == event.status # "checkout_completed"
  IN
  /\ c.op = "webhook"
  /\ UpsertOrgSubscription(h, c.org, [status |-> MergedStatus(c.read, event), known |-> TRUE])
  /\ last' = [last EXCEPT ![c.org] = IF news /\ c.event > @ THEN c.event ELSE @]
  /\ disorder' = IF c.read # subscription[c.org] \/ (news /\ c.event < last[c.org])
                 THEN disorder \cup {c.org} ELSE disorder
  /\ UNCHANGED <<standing, sent>>

CallFails(h) ==
  /\ call[h] # Waiting
  /\ call' = [call EXCEPT ![h] = Waiting]
  /\ UNCHANGED <<subscription, standing, sent, last, disorder>>

BillingNext ==
  \/ \E o \in Payers: \/ \E status \in ProviderStatus, named \in BOOLEAN: SubscriptionChanges(o, status, named)
                      \/ CheckoutCompletes(o)
  \/ \E h \in Calls: \/ \E o \in Payers: CreateCheckoutSession(h, o)
                     \/ \E i \in DOMAIN sent: HandleWebhook(h, i)
                     \/ StoreCheckoutSession(h) \/ ApplyWebhook(h) \/ CallFails(h)

BillingSpec == BillingInit /\ [][BillingNext]_billingVars

BillingTypeOK ==
  /\ subscription \in [Payers -> Subscription]
  /\ standing \in [Payers -> ProviderStatus \cup {"none"}]
  /\ sent \in Seq(WebhookEvent) /\ Len(sent) <= MaxSent
  /\ last \in [Payers -> 0..MaxSent] /\ disorder \subseteq Payers

News(o) == {i \in DOMAIN sent: sent[i].org = o /\ sent[i].status # "checkout_completed"}

(* Nobody gets at the product without the provider having said of this     *)
(* very organisation that it subscribes: whatever the order of checkouts   *)
(* and events, whatever is repeated, lost or written over                  *)
(* (service.go:183, 251).                                                  *)
EntitledOnProvidersWord ==
  \A o \in Payers: Entitlement(o, "product") => \E i \in News(o): sent[i].status \in EntitledStatus

(* When an organisation's calls came one at a time and its subscription's  *)
(* events in order, the newest one decides, although a checkout may be     *)
(* completed or begun again before, between and after them                 *)
(* (service.go:239).                                                       *)
OrderedIsCurrent ==
  \A o \in Payers \ disorder:
    News(o) # {} /\ last[o] = Max(News(o)) => HasActiveEntitlement(o) = (standing[o] \in EntitledStatus)
=============================================================================
