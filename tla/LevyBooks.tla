------------------------------ MODULE LevyBooks ------------------------------
(***************************************************************************)
(* The levy periods of a scheme (backend/internal/levy: CreatePeriod and   *)
(* Dashboard) and the figures the financial dashboard makes of them        *)
(* (backend/internal/financials).  CreatePeriod reads the units and the    *)
(* periods, checks, and then writes the period and an account for every    *)
(* unit it has read in one transaction; no index keeps labels apart.       *)
(* How payments get posted is in LevyLedger; here balances just rise.      *)
(***************************************************************************)
EXTENDS Integers, FiniteSets, FiniteSetsExt, Folds

CONSTANTS Periods,     \* levy periods, numbered in the order of their due dates
          Names,       \* what labels say; two spellings of each
          Homes,       \* units the scheme may come to have
          Levy,        \* amount_cents of a period
          Payments,    \* balances an account may come to have
          Costs,       \* actual_cents of a budget line
          Reserves,    \* balances and targets of the reserve fund
          Months,      \* months of the projection
          Nearest,     \* 1000 cents: recommendations are multiples of it
          Admins       \* CreatePeriod requests that may be under way at one time

ASSUME BooksAssumption ==
  /\ Periods \subseteq Nat /\ IsFiniteSet(Periods) /\ Levy \in Nat \ {0}
  /\ Payments \subseteq Nat /\ Costs \subseteq Nat /\ Reserves \subseteq Nat
  /\ Months \in Nat \ {0} /\ Nearest \in Nat \ {0}
  /\ IsFiniteSet(Homes)

VARIABLES home,        \* units
          period,      \* id -> label, or NoPeriodLabel
          account,     \* <<period, unit>> -> paid_cents, or NoAccount
          budget,      \* label -> actual_cents of its lines, or NoLine
          reserve,     \* row of reserve_funds
          admin,       \* request -> what it has read
          rushed       \* history: two CreatePeriods were under way at one time

booksVars == <<home, period, account, budget, reserve, admin, rushed>>

(* Two spellings that CreatePeriod takes for one label, as it trims and    *)
(* folds case; everything else compares labels as they are.                *)
Label == [name: Names, plain: BOOLEAN]
SameLabel(a, b) == a.name = b.name

NoPeriodLabel == [name |-> "none", plain |-> TRUE]
NoAccount == -1
NoLine == -1
AtHome == [op |-> "none"]

BooksInit ==
  /\ home = {} /\ rushed = FALSE
  /\ period = [p \in Periods |-> NoPeriodLabel]
  /\ account = [a \in Periods \X Homes |-> NoAccount]
  /\ budget = [l \in Label |-> NoLine]
  /\ reserve = [balance |-> 0, target |-> 0]
  /\ admin = [d \in Admins |-> AtHome]

ListLevyPeriodsByScheme == {p \in Periods: period[p] # NoPeriodLabel}
ListLevyAccountsByPeriod(p) == {a \in {p} \X home: account[a] # NoAccount}

(***************************************************************************)
(* CreatePeriod.                                                           *)
(***************************************************************************)
(* A plausible bug: labels are compared as they are.                       *)
AsItIs(label, units) == units # {} /\ \A p \in ListLevyPeriodsByScheme: period[p] # label

validateCreatePeriodInput(label, units) ==
  units # {} /\ \A p \in ListLevyPeriodsByScheme: ~SameLabel(period[p], label)

CreatePeriod(d, p, label) ==
  /\ admin[d] = AtHome
  /\ validateCreatePeriodInput(label, home)
  /\ admin' = [admin EXCEPT ![d] = [op |-> "create", p |-> p, label |-> label, units |-> home]]
  /\ rushed' = (rushed \/ \E e \in Admins: admin[e] # AtHome)
  /\ UNCHANGED <<home, period, account, budget, reserve>>

CreateLevyPeriod(d) ==
  LET q == admin[d] IN
  /\ q.op = "create" /\ period[q.p] = NoPeriodLabel
  /\ period' = [period EXCEPT ![q.p] = q.label]
  /\ account' = [a \in Periods \X Homes |-> IF a \in {q.p} \X q.units THEN 0 ELSE account[a]]
  /\ admin' = [admin EXCEPT ![d] = AtHome]
  /\ UNCHANGED <<home, budget, reserve, rushed>>

PeriodFails(d) ==
  /\ admin[d] # AtHome
  /\ admin' = [admin EXCEPT ![d] = AtHome]
  /\ UNCHANGED <<home, period, account, budget, reserve, rushed>>

(***************************************************************************)
(* What else changes: units are added, accounts paid, lines and the        *)
(* reserve set.                                                            *)
(***************************************************************************)
UnitAdded(u) ==
  /\ u \notin home
  /\ home' = home \cup {u}
  /\ UNCHANGED <<period, account, budget, reserve, admin, rushed>>

AccountPaid(a, cents) ==
  /\ account[a] # NoAccount /\ cents > account[a]
  /\ account' = [account EXCEPT ![a] = cents]
  /\ UNCHANGED <<home, period, budget, reserve, admin, rushed>>

UpsertBudgetLine(label, cents) ==
  /\ budget' = [budget EXCEPT ![label] = cents]
  /\ UNCHANGED <<home, period, account, reserve, admin, rushed>>

UpdateReserveFund(balance, target) ==
  /\ reserve' = [balance |-> balance, target |-> target]
  /\ UNCHANGED <<home, period, account, budget, admin, rushed>>

BooksNext ==
  \/ \E u \in Homes: UnitAdded(u)
  \/ \E d \in Admins: \/ CreateLevyPeriod(d) \/ PeriodFails(d)
                      \/ \E p \in Periods, label \in Label: CreatePeriod(d, p, label)
  \/ \E a \in Periods \X Homes, cents \in Payments: AccountPaid(a, cents)
  \/ \E label \in Label, cents \in Costs: UpsertBudgetLine(label, cents)
  \/ \E balance, target \in Reserves: UpdateReserveFund(balance, target)

BooksSpec == BooksInit /\ [][BooksNext]_booksVars

(***************************************************************************)
(* buildLevySummary and the levy dashboard: the newest period.             *)
(***************************************************************************)
minInt64(a, b) == IF a < b THEN a ELSE b
RoundedTo(a, b) == (2 * a + b) \div (2 * b)

BilledCents(p) == Levy * Cardinality(ListLevyAccountsByPeriod(p))
CollectedCents(p) ==
  SumFunctionOnSet([a \in Periods \X Homes |-> minInt64(account[a], Levy)], ListLevyAccountsByPeriod(p))

(***************************************************************************)
(* buildLevyForecast, over all periods that billed anything.               *)
(***************************************************************************)
DataPoints == {p \in ListLevyPeriodsByScheme: BilledCents(p) > 0}
ExpensePoints == {p \in DataPoints: budget[period[p]] # NoLine}

AverageMonthlyIncome ==
  RoundedTo(SumFunctionOnSet([p \in DataPoints |-> CollectedCents(p)], DataPoints), Cardinality(DataPoints))

AverageMonthlyExpense ==
  IF ExpensePoints = {} THEN 0
  ELSE RoundedTo(SumFunctionOnSet([p \in ExpensePoints |-> budget[period[p]]], ExpensePoints),
                 Cardinality(ExpensePoints))

ProjectedReserveBalance == reserve.balance + (AverageMonthlyIncome - AverageMonthlyExpense) * Months

ProjectedShortfall ==
  IF reserve.target > ProjectedReserveBalance THEN reserve.target - ProjectedReserveBalance ELSE 0

LatestUnitCount == Cardinality(ListLevyAccountsByPeriod(Max(ListLevyPeriodsByScheme)))

(* A plausible bug: the recommendation is rounded to the nearest multiple. *)
roundNearest(cents) == RoundedTo(cents, Nearest) * Nearest
roundUpToNearest(cents) == ((cents + Nearest - 1) \div Nearest) * Nearest

RecommendedMonthlyIncrease ==
  IF ProjectedShortfall = 0 \/ LatestUnitCount = 0 THEN 0
  ELSE LET months == Months * LatestUnitCount
       IN  roundUpToNearest((ProjectedShortfall + months - 1) \div months)

(* Charged to every unit of the newest period for every month projected,   *)
(* the recommended increase makes up the shortfall, whatever was rounded   *)
(* on the way, and it is no more than one step too high                    *)
(* (financials/service.go:581).                                            *)
IncreaseCovers ==
  DataPoints # {} /\ LatestUnitCount > 0 =>
    LET raised == RecommendedMonthlyIncrease * LatestUnitCount * Months IN
    /\ raised >= ProjectedShortfall
    /\ ProjectedShortfall > 0 => raised < ProjectedShortfall + (Nearest + 1) * LatestUnitCount * Months

(* A label is billed once, however it is spelled, unless two requests made *)
(* periods at one time; and every period bills somebody, so that the       *)
(* collection rates, each of which treats a period without accounts in a   *)
(* way of its own, have one to speak of (levy/service.go:286).             *)
BilledOnce ==
  \A p \in ListLevyPeriodsByScheme:
    /\ BilledCents(p) > 0
    /\ ~rushed => \A q \in ListLevyPeriodsByScheme \ {p}: ~SameLabel(period[p], period[q])
=============================================================================
