----------------------------- MODULE Attention ------------------------------
(***************************************************************************)
(* The attention queue (backend/internal/levy/attention.go and the rows    *)
(* service.go builds it from): how urgent an overdue levy account is and   *)
(* what the queue recommends, as days pass, payments come in and the staff *)
(* record what they did.  Only the last event of an account counts.  One   *)
(* account is looked at.                                                   *)
(***************************************************************************)
EXTENDS Integers

CONSTANTS FirstDays,   \* days an account may be overdue when it is first looked at
          Days,        \* bound: days that are looked at
          Balances     \* outstanding amounts, in cents

ASSUME AttentionAssumption ==
  /\ FirstDays \subseteq Nat /\ Days \in Nat
  /\ Balances \subseteq Nat \ {0}

VARIABLES arrears,     \* the account: days overdue, cents outstanding
          action,      \* its last collection event
          today        \* days passed

attentionVars == <<arrears, action, today>>

EventType == {"reminder_sent", "follow_up_logged", "legal_review_flagged", "promise_to_pay"}

(* Without an event the fields keep Go's zero values.                      *)
NoAction == [type |-> "", daysAgo |-> 0, promised |-> 0]

AttentionInit ==
  /\ today = 0
  /\ action = NoAction
  /\ arrears \in [daysOverdue: FirstDays, cents: Balances]

(***************************************************************************)
(* buildAttentionQueueFromData: a promise counts down to its date, which   *)
(* begins at midnight, so that it is over on the day it names.             *)
(***************************************************************************)
PromiseDateOverdue == action.type = "promise_to_pay" /\ action.promised <= 0
HasActivePromise == action.type = "promise_to_pay" /\ action.promised > 0

(***************************************************************************)
(* scoreAttentionItem.                                                     *)
(***************************************************************************)
recentLegalReview == action.type = "legal_review_flagged" /\ action.daysAgo <= 7
recentReminder == action.type = "reminder_sent" /\ action.daysAgo <= 2
noRecentFollowUp == action.daysAgo >= 7

OverduePoints(days) == IF days >= 90 THEN 40 ELSE IF days >= 30 THEN 25 ELSE 10
BalancePoints(cents) == IF cents >= 700000 THEN 25 ELSE IF cents >= 250000 THEN 15 ELSE 5

(* A plausible bug: a fresh event counts for the account, an old one       *)
(* against it.                                                             *)
SilenceRewarded == IF noRecentFollowUp THEN -10 ELSE IF action.type = "follow_up_logged" THEN 15 ELSE 0

FollowUpPoints ==
  IF noRecentFollowUp THEN 15 ELSE IF action.type = "follow_up_logged" THEN -10 ELSE 0

RecencyPoints == IF recentReminder THEN -20 ELSE IF recentLegalReview THEN -25 ELSE 0

RecommendedAction ==
  CASE recentReminder \/ recentLegalReview -> "follow_up_logged"
    [] HasActivePromise -> "active_promise"
    [] ~(recentReminder \/ recentLegalReview \/ HasActivePromise)
         /\ (PromiseDateOverdue \/ arrears.daysOverdue >= 90) -> "legal_review_flagged"
    [] OTHER -> IF action.type = "follow_up_logged" /\ action.daysAgo <= 3
                THEN "follow_up_logged" ELSE "reminder_sent"

PromisePoints ==
  CASE RecommendedAction = "active_promise" -> -20
    [] RecommendedAction = "legal_review_flagged" -> 20
    [] OTHER -> 0

Clamped(score) == IF score < 0 THEN 0 ELSE IF score > 100 THEN 100 ELSE score

RiskScore ==
  Clamped(OverduePoints(arrears.daysOverdue) + BalancePoints(arrears.cents)
            + FollowUpPoints + RecencyPoints + PromisePoints)

(***************************************************************************)
(* What happens to the account.                                            *)
(***************************************************************************)
DayPasses ==
  /\ today < Days
  /\ today' = today + 1
  /\ arrears' = [arrears EXCEPT !.daysOverdue = @ + 1]
  /\ action' = IF action = NoAction THEN NoAction
               ELSE [action EXCEPT !.daysAgo = @ + 1, !.promised = @ - 1]

PartPaid(cents) ==
  /\ cents < arrears.cents
  /\ arrears' = [arrears EXCEPT !.cents = cents]
  /\ UNCHANGED <<action, today>>

(* RecordCollectionEvent; validateCollectionEventInput asks for the date   *)
(* of a promise but not that it lies ahead.                                *)
RecordCollectionEvent(type, days) ==
  /\ type # "promise_to_pay" => days = 0
  /\ action' = [type |-> type, daysAgo |-> 0, promised |-> days]
  /\ UNCHANGED <<arrears, today>>

AttentionNext ==
  \/ DayPasses
  \/ \E cents \in Balances: PartPaid(cents)
  \/ \E type \in EventType, days \in -1..2: RecordCollectionEvent(type, days)

AttentionSpec == AttentionInit /\ [][AttentionNext]_attentionVars

(* Waiting never makes an account less urgent and paying never more: where *)
(* one penalty of the score ends and a bonus begins they meet without a    *)
(* dip, whichever event was last (attention.go:41).                        *)
UrgencyIsMonotone ==
  [][/\ today' # today => RiskScore' >= RiskScore
     /\ arrears'.cents < arrears.cents => RiskScore' <= RiskScore]_attentionVars
=============================================================================
