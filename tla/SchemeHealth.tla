---------------------------- MODULE SchemeHealth ----------------------------
(***************************************************************************)
(* The health of a scheme (backend/internal/scheme: computeHealthScore and *)
(* its five factors), over what the other components keep: the current     *)
(* levy period, open and late maintenance requests, compliance items, the  *)
(* reserve fund and the meetings.  They are counted here, not modelled     *)
(* again.  Percentages are of integers; the code's doubles are exact on    *)
(* every value the instance reaches.                                       *)
(***************************************************************************)
EXTENDS Integers

CONSTANTS Billed,      \* cents billed in the current period
          MaxOpen,     \* bound: open maintenance requests
          MaxItems,    \* bound: compliance items
          Target,      \* target of the reserve fund
          MonthMarks   \* months since a meeting that are looked at

ASSUME HealthAssumption ==
  /\ Billed \in Nat \ {0} /\ Target \in Nat \ {0}
  /\ MaxOpen \in Nat /\ MaxItems \in Nat
  /\ MonthMarks \subseteq Nat

VARIABLE facts         \* what the factors are computed from

NoMeeting == -1
NoPeriod == -1
NoFund == -1
ItemStatus == {"compliant", "at_risk", "non_compliant"}

(* paid: cents of the current period, overpayments cut off, or NoPeriod.   *)
Facts == [paid: {NoPeriod} \cup 0..Billed, open: 0..MaxOpen, late: 0..MaxOpen,
          items: [ItemStatus -> 0..MaxItems], balance: {NoFund} \cup 0..(Target + 1),
          months: {NoMeeting} \cup MonthMarks]

HealthInit ==
  facts = [paid |-> NoPeriod, open |-> 0, late |-> 0, items |-> [i \in ItemStatus |-> 0],
           balance |-> NoFund, months |-> NoMeeting]

(***************************************************************************)
(* The factors.                                                            *)
(***************************************************************************)
Rounded(a, b) == (2 * a + b) \div (2 * b)
Total(items) == items["compliant"] + items["at_risk"] + items["non_compliant"]

computeLevyFactor(f) == IF f.paid = NoPeriod THEN 0 ELSE Rounded(f.paid * 100, Billed)

computeMaintenanceFactor(f) == IF f.open = 0 THEN 100 ELSE Rounded((f.open - f.late) * 100, f.open)

computeComplianceFactor(f) ==
  IF Total(f.items) = 0 THEN 100
  ELSE ((10 * f.items["compliant"] + 5 * f.items["at_risk"]) * 100) \div (10 * Total(f.items))

computeReserveFundFactor(f) ==
  LET pct == Rounded(f.balance * 100, Target)
  IN  IF f.balance = NoFund \/ pct > 100 THEN 100 ELSE pct

computeAGMRecencyFactor(f) ==
  IF f.months = NoMeeting THEN 0
  ELSE IF f.months <= 12 THEN 100
  ELSE IF f.months >= 32 THEN 0
  ELSE 100 - (f.months - 12) * 5

(* A plausible bug: the share of late requests counts for the scheme.      *)
ScoreOfLate(f) ==
  Rounded(35 * computeLevyFactor(f) + 25 * (100 - computeMaintenanceFactor(f))
            + 20 * computeComplianceFactor(f) + 15 * computeReserveFundFactor(f)
            + 5 * computeAGMRecencyFactor(f), 100)

computeHealthScore(f) ==
  Rounded(35 * computeLevyFactor(f) + 25 * computeMaintenanceFactor(f)
            + 20 * computeComplianceFactor(f) + 15 * computeReserveFundFactor(f)
            + 5 * computeAGMRecencyFactor(f), 100)

(***************************************************************************)
(* What happens to the scheme.                                             *)
(***************************************************************************)
PeriodBilled == facts' = [facts EXCEPT !.paid = 0]

LevyPaid == facts.paid \in 0..(Billed - 1) /\ facts' = [facts EXCEPT !.paid = @ + 1]

RequestOpened == facts.open < MaxOpen /\ facts' = [facts EXCEPT !.open = @ + 1]
RequestLate == facts.late < facts.open /\ facts' = [facts EXCEPT !.late = @ + 1]
LateRequestResolved == facts.late > 0 /\ facts' = [facts EXCEPT !.open = @ - 1, !.late = @ - 1]
RequestResolved == facts.late < facts.open /\ facts' = [facts EXCEPT !.open = @ - 1]

ItemCreated ==
  Total(facts.items) < MaxItems /\ facts' = [facts EXCEPT !.items["non_compliant"] = @ + 1]
ItemMoved(from, to) ==
  facts.items[from] > 0 /\ from # to /\ facts' = [facts EXCEPT !.items[from] = @ - 1, !.items[to] = @ + 1]
ItemDeleted(status) == facts.items[status] > 0 /\ facts' = [facts EXCEPT !.items[status] = @ - 1]

ReserveUpdated(cents) == facts' = [facts EXCEPT !.balance = cents]

MeetingHeld == facts' = [facts EXCEPT !.months = 0]
MonthsPass(n) == facts.months # NoMeeting /\ n > facts.months /\ facts' = [facts EXCEPT !.months = n]

HealthNext ==
  \/ PeriodBilled \/ LevyPaid
  \/ RequestOpened \/ RequestLate \/ LateRequestResolved \/ RequestResolved
  \/ ItemCreated \/ \E from \in ItemStatus: ItemDeleted(from) \/ \E to \in ItemStatus: ItemMoved(from, to)
  \/ \E cents \in 0..(Target + 1): ReserveUpdated(cents)
  \/ MeetingHeld \/ \E n \in MonthMarks: MonthsPass(n)

HealthSpec == HealthInit /\ [][HealthNext]_facts

(***************************************************************************)
(* What is good for a scheme and what is bad for it.  To resolve a request *)
(* that is not late is neither: the rate of late ones goes up; nor is to   *)
(* set up a reserve fund, without which its factor is 100.                 *)
(***************************************************************************)
Worth(status) == CASE status = "compliant" -> 2 [] status = "at_risk" -> 1 [] OTHER -> 0

Better ==
  \/ LevyPaid \/ LateRequestResolved \/ MeetingHeld
  \/ \E cents \in 0..(Target + 1): facts.balance \in 0..(cents - 1) /\ ReserveUpdated(cents)
  \/ \E from, to \in ItemStatus: Worth(to) > Worth(from) /\ ItemMoved(from, to)

Worse ==
  \/ RequestLate \/ \E n \in MonthMarks: MonthsPass(n)
  \/ \E cents \in 0..Target: cents < facts.balance /\ ReserveUpdated(cents)
  \/ \E from, to \in ItemStatus: Worth(to) < Worth(from) /\ ItemMoved(from, to)

(* What is good for a scheme never lowers its health and what is bad never *)
(* raises it, through five roundings, a cut-off and the weights, and the   *)
(* score stays a percentage (scheme/service.go:912).                       *)
HealthFollowsFacts ==
  [][/\ Better => computeHealthScore(facts') >= computeHealthScore(facts)
     /\ Worse => computeHealthScore(facts') <= computeHealthScore(facts)
     /\ computeHealthScore(facts') \in 0..100]_facts
=============================================================================
