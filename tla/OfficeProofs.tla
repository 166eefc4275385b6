---------------------------- MODULE OfficeProofs ----------------------------
(***************************************************************************)
(* What holds of the office for any number of schemes, units, requests,    *)
(* organisations, events, items, periods, accounts and days.  Each         *)
(* component is proved by itself; that every behaviour of the office is    *)
(* one of its components comes last.                                       *)
(***************************************************************************)
EXTENDS MCOffice, SumTheorems, FiniteSetTheorems, TLAPS

(***************************************************************************)
(* Division: what the levy books and the health of a scheme round with.    *)
(***************************************************************************)
(* What division gives.                                                    *)
LEMMA Quotient ==
  ASSUME NEW a \in Int, NEW b \in Nat \ {0}
  PROVE  a \div b \in Int /\ b * (a \div b) <= a /\ a < b * (a \div b) + b
OBVIOUS

LEMMA DivAtLeast ==
  ASSUME NEW a \in Int, NEW b \in Nat \ {0}, NEW k \in Int, b * k <= a
  PROVE  k <= a \div b
<1> DEFINE q == a \div b
<1>1. q \in Int /\ a < b * q + b
  BY Quotient
<1> HIDE DEF q
<1> SUFFICES ASSUME q < k PROVE FALSE
  BY <1>1 DEF q
<1>2. PICK d \in Nat: k = q + 1 + d
  <2>1. k - (q + 1) \in Nat /\ k = q + 1 + (k - (q + 1))
    BY <1>1
  <2> QED
    BY <2>1
<1>3. b * k = b * q + b + b * d /\ b * d \in Nat /\ b * q \in Int
  BY <1>1, <1>2
<1> QED
  BY <1>1, <1>3

LEMMA DivAtMost ==
  ASSUME NEW a \in Int, NEW b \in Nat \ {0}, NEW k \in Int, a < b * (k + 1)
  PROVE  a \div b <= k
<1> DEFINE q == a \div b
<1>1. q \in Int /\ b * q <= a
  BY Quotient
<1> HIDE DEF q
<1> SUFFICES ASSUME k < q PROVE FALSE
  BY <1>1 DEF q
<1>2. PICK d \in Nat: q = (k + 1) + d
  <2>1. q - (k + 1) \in Nat /\ q = (k + 1) + (q - (k + 1))
    BY <1>1
  <2> QED
    BY <2>1
<1>3. b * q = b * (k + 1) + b * d /\ b * d \in Nat /\ b * (k + 1) \in Int
  BY <1>1, <1>2
<1> QED
  BY <1>1, <1>3

LEMMA DivIsMonotone ==
  ASSUME NEW a \in Int, NEW c \in Int, NEW b \in Nat \ {0}, a <= c
  PROVE  a \div b <= c \div b
<1>1. a \div b \in Int /\ b * (a \div b) <= a
  BY Quotient
<1>2. b * (a \div b) \in Int
  BY <1>1
<1>3. b * (a \div b) <= c
  BY <1>1, <1>2
<1> QED
  BY <1>1, <1>3, DivAtLeast

(***************************************************************************)
(* Compliance.  An update under way that nobody crosses writes what the    *)
(* row would be with its edit, and is the only one of its item.            *)
(***************************************************************************)
AloneOK(o, i) ==
  Updating(o, i) /\ i \notin crossed /\ item[i] # NoItem
    => /\ officer[o].row = WithEdit(item[i], officer[o].edit)
       /\ \A p \in Officers: Updating(p, i) => p = o

ComplianceInv ==
  /\ item \in [Items -> Item \cup {NoItem}] /\ meant \in [Items -> Item \cup {NoItem}]
  /\ DOMAIN officer = Officers
  /\ \A o \in Officers: officer[o].op = "update" =>
       officer[o].i \in Items /\ officer[o].edit \in Edit /\ officer[o].row \in Item
  /\ EditsKept
  /\ \A i \in Items: item[i] = NoItem <=> meant[i] = NoItem
  /\ \A o \in Officers, i \in Items: AloneOK(o, i)

LEMMA EditsAreItems ==
  ASSUME NEW row \in Item, NEW edit \in Edit
  PROVE  WithEdit(row, edit) \in Item /\ Item \cap {NoItem} = {}
BY DEF WithEdit, Item, Edit, Kept, ComplianceStatus, DueDate, NoItem

LEMMA ComplianceStep == ComplianceInv /\ [ComplianceNext]_complianceVars => ComplianceInv'
<1> SUFFICES ASSUME ComplianceInv, [ComplianceNext]_complianceVars PROVE ComplianceInv'
  OBVIOUS
<1>0. /\ item \in [Items -> Item \cup {NoItem}] /\ meant \in [Items -> Item \cup {NoItem}]
      /\ DOMAIN officer = Officers
      /\ \A o \in Officers: officer[o].op = "update" =>
           officer[o].i \in Items /\ officer[o].edit \in Edit /\ officer[o].row \in Item
      /\ \A i \in Items: i \notin crossed => item[i] = meant[i]
      /\ \A i \in Items: item[i] = NoItem <=> meant[i] = NoItem
      /\ \A o \in Officers, i \in Items: AloneOK(o, i)
  BY DEF ComplianceInv, EditsKept
<1>1. ASSUME NEW i \in Items, NEW due \in DueDate, CreateItem(i, due)
      PROVE  ComplianceInv'
  <2>1. PICK row: row = [status |-> "non_compliant", due |-> due]
    OBVIOUS
  <2>2. /\ item' = [item EXCEPT ![i] = row] /\ meant' = [meant EXCEPT ![i] = row]
        /\ UNCHANGED <<officer, crossed>> /\ \A o \in Officers: ~Updating(o, i)
    BY <1>0, <1>1, <2>1 DEF CreateItem
  <2>3. row \in Item
    BY <2>1 DEF Item, ComplianceStatus
  <2>4. \A o \in Officers, j \in Items: AloneOK(o, j)'
    BY <1>0, <2>2 DEF AloneOK, Updating
  <2> QED
    BY <1>0, <2>2, <2>3, <2>4 DEF ComplianceInv, EditsKept
<1>2. ASSUME NEW i \in Items, DeleteItem(i)
      PROVE  ComplianceInv'
  <2>1. /\ item' = [item EXCEPT ![i] = NoItem] /\ meant' = [meant EXCEPT ![i] = NoItem]
        /\ crossed' = crossed \ {i} /\ officer' = officer
    BY <1>2 DEF DeleteItem
  <2>2. \A o \in Officers, j \in Items: AloneOK(o, j)'
    BY <1>0, <2>1 DEF AloneOK, Updating
  <2> QED
    BY <1>0, <2>1, <2>2 DEF ComplianceInv, EditsKept
<1>3. ASSUME NEW o \in Officers, NEW i \in Items, NEW edit \in Edit, UpdateItem(o, i, edit)
      PROVE  ComplianceInv'
  <2>1. PICK rec: rec = [op |-> "update", i |-> i, edit |-> edit, row |-> WithEdit(item[i], edit)]
    OBVIOUS
  <2>2. /\ officer[o] = Away /\ item[i] # NoItem
        /\ officer' = [officer EXCEPT ![o] = rec]
        /\ crossed' = IF \E p \in Officers: Updating(p, i) THEN crossed \cup {i} ELSE crossed
        /\ UNCHANGED <<item, meant>>
    BY <1>3, <2>1 DEF UpdateItem, Comes
  <2>3. rec.row \in Item
    BY <1>0, <2>1, <2>2, EditsAreItems
  <2>4. /\ officer'[o] = rec /\ \A p \in Officers \ {o}: officer'[p] = officer[p]
        /\ DOMAIN officer' = Officers
        /\ ~\E j \in Items: Updating(o, j)
    BY <1>0, <2>2 DEF Updating, Away
  <2>5. ASSUME NEW p \in Officers, NEW j \in Items PROVE AloneOK(p, j)'
    <3>1. CASE j = i /\ \E q \in Officers: Updating(q, i)
      BY <2>2, <3>1 DEF AloneOK
    <3>2. CASE j = i /\ ~\E q \in Officers: Updating(q, i)
      BY <2>1, <2>2, <2>4, <3>2 DEF AloneOK, Updating
    <3>3. CASE j # i
      <4>1. \A q \in Officers: Updating(q, j)' => Updating(q, j) /\ q # o
        BY <2>1, <2>4, <3>3 DEF Updating
      <4>2. \A q \in Officers \ {o}: officer'[q] = officer[q]
        BY <2>4
      <4> QED
        BY <1>0, <2>2, <3>3, <4>1, <4>2 DEF AloneOK
    <3> QED
      BY <3>1, <3>2, <3>3
  <2>6. \A p \in Officers: officer'[p].op = "update" =>
          officer'[p].i \in Items /\ officer'[p].edit \in Edit /\ officer'[p].row \in Item
    BY <1>0, <2>1, <2>3, <2>4
  <2> QED
    BY <1>0, <2>2, <2>4, <2>5, <2>6 DEF ComplianceInv, EditsKept
<1>4. ASSUME NEW o \in Officers, UpdateComplianceItem(o)
      PROVE  ComplianceInv'
  <2>1. PICK i, edit, row: i = officer[o].i /\ edit = officer[o].edit /\ row = officer[o].row
    OBVIOUS
  <2>2. /\ i \in Items /\ edit \in Edit /\ row \in Item /\ item[i] # NoItem /\ Updating(o, i)
        /\ item' = [item EXCEPT ![i] = row]
        /\ meant' = [meant EXCEPT ![i] = WithEdit(meant[i], edit)]
        /\ officer' = [officer EXCEPT ![o] = Away] /\ crossed' = crossed
    BY <1>0, <1>4, <2>1 DEF UpdateComplianceItem, Goes, Updating, WithEdit
  <2>3. /\ officer'[o] = Away /\ \A p \in Officers \ {o}: officer'[p] = officer[p]
        /\ DOMAIN officer' = Officers
    BY <1>0, <2>2
  <2>4. i \notin crossed => row = WithEdit(meant[i], edit)
    BY <1>0, <2>1, <2>2 DEF AloneOK
  <2>5. /\ item' \in [Items -> Item \cup {NoItem}] /\ EditsKept'
    BY <1>0, <2>2, <2>4 DEF EditsKept
  <2>6. WithEdit(meant[i], edit) \in Item
    <3>1. meant[i] \in Item
      BY <1>0, <2>2
    <3> QED
      BY <2>2, <3>1, EditsAreItems
  <2>7. ASSUME NEW p \in Officers, NEW j \in Items PROVE AloneOK(p, j)'
    <3>1. \A q \in Officers: Updating(q, j)' => Updating(q, j) /\ q # o
      BY <2>3 DEF Updating, Away
    <3>2. CASE j = i
      BY <1>0, <2>2, <3>1, <3>2 DEF AloneOK
    <3>3. CASE j # i
      BY <1>0, <2>2, <2>3, <3>1, <3>3 DEF AloneOK
    <3> QED
      BY <3>2, <3>3
  <2> QED
    BY <1>0, <2>2, <2>3, <2>5, <2>6, <2>7, EditsAreItems DEF ComplianceInv, Away
(* Assessments, and requests that end.                                     *)
<1>5. ASSUME NEW o \in Officers, NEW rec, rec.op # "update", officer' = [officer EXCEPT ![o] = rec],
             UNCHANGED <<item, meant, crossed>>
      PROVE  ComplianceInv'
  <2>1. /\ officer'[o] = rec /\ \A p \in Officers \ {o}: officer'[p] = officer[p]
        /\ DOMAIN officer' = Officers
    BY <1>0, <1>5
  <2>2. ASSUME NEW p \in Officers, NEW j \in Items PROVE AloneOK(p, j)'
    <3>1. \A q \in Officers: Updating(q, j)' => Updating(q, j) /\ q # o
      BY <1>5, <2>1 DEF Updating
    <3> QED
      BY <1>0, <1>5, <2>1, <3>1 DEF AloneOK
  <2> QED
    BY <1>0, <1>5, <2>1, <2>2 DEF ComplianceInv, EditsKept
<1>6. ASSUME NEW o \in Officers, CreateComplianceAssessment(o) \/ OfficerFails(o)
      PROVE  ComplianceInv'
  BY <1>5, <1>6 DEF CreateComplianceAssessment, OfficerFails, Goes, Away
<1>7. ASSUME NEW o \in Officers, Assess(o)
      PROVE  ComplianceInv'
  <2>1. PICK rec: rec = [op |-> "assess", seen |-> dashboardForScheme]
    OBVIOUS
  <2> QED
    BY <1>5, <1>7, <2>1 DEF Assess, Comes
<1>8. CASE UNCHANGED complianceVars
  BY <1>0, <1>8 DEF ComplianceInv, complianceVars, EditsKept, AloneOK, Updating
<1> QED
  BY <1>1, <1>2, <1>3, <1>4, <1>6, <1>7, <1>8 DEF ComplianceNext

(* Fields that are left out stay, unless two updates of an item overlap:   *)
(* compliance.UpdateItem writes back what it read with its edit.           *)
THEOREM EditsAreKept == ComplianceSpec => []EditsKept
<1>1. ComplianceInit => ComplianceInv
  BY DEF ComplianceInit, ComplianceInv, EditsKept, AloneOK, Updating, Away
<1>2. ComplianceInv => EditsKept
  BY DEF ComplianceInv
<1> QED
  BY <1>1, <1>2, ComplianceStep, PTL DEF ComplianceSpec

(***************************************************************************)
(* Levy periods.  While no two requests run at one time, a request that    *)
(* passed its checks still would when it writes; and it writes an account  *)
(* for every unit it read, which are units still.                          *)
(***************************************************************************)
BillsSomebody(p) == period[p] # NoPeriodLabel => \E u \in home: account[<<p, u>>] # NoAccount

Unused(label) == \A p \in Periods: period[p] # NoPeriodLabel => ~SameLabel(period[p], label)

BooksInv ==
  /\ home \subseteq Homes
  /\ DOMAIN period = Periods /\ DOMAIN account = Periods \X Homes /\ DOMAIN admin = Admins
  /\ \A a \in Periods \X Homes: account[a] \in Int /\ account[a] >= -1
  /\ \A p \in Periods: BillsSomebody(p)
  /\ \A d \in Admins: admin[d].op = "create" =>
       /\ admin[d].p \in Periods /\ admin[d].units \subseteq home /\ admin[d].units # {}
       /\ ~rushed => Unused(admin[d].label)
  /\ \A d, e \in Admins: ~rushed /\ admin[d] # AtHome /\ admin[e] # AtHome => d = e
  /\ ~rushed => \A p, q \in Periods: p # q /\ period[p] # NoPeriodLabel /\ period[q] # NoPeriodLabel
                                      => ~SameLabel(period[p], period[q])

LEMMA BooksStep == BooksInv /\ [BooksNext]_booksVars => BooksInv'
<1> SUFFICES ASSUME BooksInv, [BooksNext]_booksVars PROVE BooksInv'
  OBVIOUS
<1>0. BooksInv
  OBVIOUS
<1>1. ASSUME NEW u \in Homes, UnitAdded(u)
      PROVE  BooksInv'
  BY <1>0, <1>1 DEF BooksInv, UnitAdded, BillsSomebody, Unused
<1>2. ASSUME NEW a \in Periods \X Homes, NEW cents \in Payments, AccountPaid(a, cents)
      PROVE  BooksInv'
  <2>1. /\ account' = [account EXCEPT ![a] = cents] /\ cents \in Nat
        /\ UNCHANGED <<home, period, admin, rushed>>
    BY <1>2, BooksAssumption DEF AccountPaid
  <2>2. \A p \in Periods: BillsSomebody(p)'
    BY <1>0, <2>1 DEF BooksInv, BillsSomebody, NoAccount
  <2> QED
    BY <1>0, <2>1, <2>2 DEF BooksInv, Unused
<1>3. ASSUME NEW d \in Admins, NEW p \in Periods, NEW label \in Label, CreatePeriod(d, p, label)
      PROVE  BooksInv'
  <2>1. PICK rec: rec = [op |-> "create", p |-> p, label |-> label, units |-> home]
    OBVIOUS
  <2>2. /\ admin[d] = AtHome /\ home # {} /\ Unused(label)
        /\ admin' = [admin EXCEPT ![d] = rec]
        /\ rushed' = (rushed \/ \E e \in Admins: admin[e] # AtHome)
        /\ UNCHANGED <<home, period, account>>
    BY <1>3, <2>1 DEF CreatePeriod, validateCreatePeriodInput, ListLevyPeriodsByScheme, Unused
  <2>3. /\ admin'[d] = rec /\ \A e \in Admins \ {d}: admin'[e] = admin[e]
        /\ DOMAIN admin' = Admins
    BY <1>0, <2>2 DEF BooksInv
  <2>4. ~rushed' => ~rushed /\ \A e \in Admins: admin[e] = AtHome
    BY <2>2
  <2>5. \A e \in Admins: admin'[e].op = "create" =>
       /\ admin'[e].p \in Periods /\ admin'[e].units \subseteq home' /\ admin'[e].units # {}
       /\ ~rushed' => Unused(admin[e].label)'
    BY <1>0, <2>1, <2>2, <2>3, <2>4 DEF BooksInv, Unused
  <2>6. \A e, f \in Admins: ~rushed' /\ admin'[e] # AtHome /\ admin'[f] # AtHome => e = f
    BY <2>3, <2>4
  <2> QED
    BY <1>0, <2>2, <2>3, <2>4, <2>5, <2>6 DEF BooksInv, BillsSomebody
<1>4. ASSUME NEW d \in Admins, CreateLevyPeriod(d)
      PROVE  BooksInv'
  <2>1. PICK r, label, units: r = admin[d].p /\ label = admin[d].label /\ units = admin[d].units
    OBVIOUS
  <2>2. /\ r \in Periods /\ units \subseteq home /\ units # {} /\ home \subseteq Homes
        /\ ~rushed => Unused(label) /\ \A e \in Admins: admin[e] # AtHome => d = e
        /\ period[r] = NoPeriodLabel /\ period' = [period EXCEPT ![r] = label]
        /\ account' = [a \in Periods \X Homes |-> IF a \in {r} \X units THEN 0 ELSE account[a]]
        /\ admin' = [admin EXCEPT ![d] = AtHome]
        /\ UNCHANGED <<home, rushed>>
    BY <1>0, <1>4, <2>1 DEF BooksInv, CreateLevyPeriod, AtHome
  <2>3. /\ period'[r] = label /\ \A p \in Periods \ {r}: period'[p] = period[p]
        /\ DOMAIN period' = Periods
        /\ admin'[d] = AtHome /\ \A e \in Admins \ {d}: admin'[e] = admin[e]
        /\ DOMAIN admin' = Admins
    BY <1>0, <2>2 DEF BooksInv
  <2>4. \A a \in Periods \X Homes: account'[a] \in Int /\ account'[a] >= -1
    BY <1>0, <2>2 DEF BooksInv
  <2>5. ASSUME NEW p \in Periods PROVE BillsSomebody(p)'
    <3>1. CASE p = r
      <4>1. PICK u \in units: TRUE
        BY <2>2
      <4>2. account'[<<p, u>>] = 0 /\ u \in home'
        BY <2>2, <3>1, <4>1
      <4> QED
        BY <4>2 DEF BillsSomebody, NoAccount
    <3>2. CASE p # r
      <4>1. \A u \in home: account'[<<p, u>>] = account[<<p, u>>]
        BY <2>2, <3>2
      <4> QED
        BY <1>0, <2>2, <2>3, <3>2, <4>1 DEF BooksInv, BillsSomebody
    <3> QED
      BY <3>1, <3>2
  <2>6. ASSUME NEW e \in Admins, admin'[e].op = "create"
        PROVE  /\ admin'[e].p \in Periods /\ admin'[e].units \subseteq home' /\ admin'[e].units # {}
               /\ rushed'
    <3>1. e # d /\ admin'[e] = admin[e] /\ admin[e] # AtHome
      BY <2>3, <2>6 DEF AtHome
    <3> QED
      BY <1>0, <2>2, <2>6, <3>1 DEF BooksInv
  <2>7. ~rushed' => \A p, q \in Periods: p # q /\ period'[p] # NoPeriodLabel /\ period'[q] # NoPeriodLabel
                                         => ~SameLabel(period'[p], period'[q])
    BY <1>0, <2>2, <2>3 DEF BooksInv, Unused, SameLabel
  <2>8. \A e, f \in Admins: ~rushed' /\ admin'[e] # AtHome /\ admin'[f] # AtHome => e = f
    BY <2>2, <2>3
  <2> QED
    BY <2>2, <2>3, <2>4, <2>5, <2>6, <2>7, <2>8 DEF BooksInv
<1>5. ASSUME NEW d \in Admins, PeriodFails(d)
      PROVE  BooksInv'
  <2>1. /\ admin' = [admin EXCEPT ![d] = AtHome] /\ UNCHANGED <<home, period, account, rushed>>
    BY <1>5 DEF PeriodFails
  <2>2. /\ admin'[d] = AtHome /\ \A e \in Admins \ {d}: admin'[e] = admin[e]
        /\ DOMAIN admin' = Admins
    BY <1>0, <2>1 DEF BooksInv
  <2> QED
    BY <1>0, <2>1, <2>2 DEF BooksInv, BillsSomebody, Unused, AtHome
<1>6. CASE UNCHANGED <<home, period, account, admin, rushed>>
  BY <1>0, <1>6 DEF BooksInv, BillsSomebody, Unused
<1> QED
  BY <1>1, <1>2, <1>3, <1>4, <1>5, <1>6 DEF BooksNext, UpsertBudgetLine, UpdateReserveFund, booksVars

(* A label is billed once unless two requests overlap, and every period    *)
(* bills some unit (levy.CreatePeriod).                                    *)
THEOREM LabelsAreBilledOnce == BooksSpec => []BilledOnce
<1>1. BooksInit => BooksInv
  BY DEF BooksInit, BooksInv, BillsSomebody, Unused, AtHome, NoAccount
<1>2. BooksInv => BilledOnce
  <2> SUFFICES ASSUME BooksInv, NEW p \in Periods, period[p] # NoPeriodLabel
               PROVE  /\ BilledCents(p) > 0
                      /\ ~rushed => \A q \in ListLevyPeriodsByScheme \ {p}: ~SameLabel(period[p], period[q])
    BY DEF BilledOnce, ListLevyPeriodsByScheme
  <2>1. PICK u \in home: account[<<p, u>>] # NoAccount
    BY DEF BooksInv, BillsSomebody
  <2>2. ListLevyAccountsByPeriod(p) # {}
    BY <2>1 DEF ListLevyAccountsByPeriod
  <2>3. IsFiniteSet({p} \X home)
    BY BooksAssumption, FS_Subset, FS_Singleton, FS_Product DEF BooksInv
  <2>4. /\ IsFiniteSet(ListLevyAccountsByPeriod(p))
        /\ Cardinality(ListLevyAccountsByPeriod(p)) \in Nat
        /\ Cardinality(ListLevyAccountsByPeriod(p)) # 0
    BY <2>2, <2>3, FS_Subset, FS_CardinalityType, FS_EmptySet DEF ListLevyAccountsByPeriod
  <2>5. BilledCents(p) > 0
    <3>1. PICK n \in Nat: n = Cardinality(ListLevyAccountsByPeriod(p))
      BY <2>4
    <3>2. n > 0 /\ Levy \in Nat /\ Levy > 0
      BY <2>4, <3>1, BooksAssumption
    <3>3. Levy * n > 0
      BY <3>2
    <3> QED
      BY <3>1, <3>3 DEF BilledCents
  <2>6. ~rushed => \A q \in ListLevyPeriodsByScheme \ {p}: ~SameLabel(period[p], period[q])
    BY DEF BooksInv, ListLevyPeriodsByScheme
  <2> QED
    BY <2>5, <2>6
<1> QED
  BY <1>1, <1>2, BooksStep, PTL DEF BooksSpec

LEMMA RoundedToIsInt ==
  ASSUME NEW a \in Int, NEW b \in Nat \ {0}
  PROVE  RoundedTo(a, b) \in Int
<1>1. 2 * a + b \in Int /\ 2 * b \in Nat \ {0}
  OBVIOUS
<1>2. PICK x \in Int, y \in Nat \ {0}: x = 2 * a + b /\ y = 2 * b
  BY <1>1
<1> QED
  BY <1>2, Quotient DEF RoundedTo

LEMMA CeilingCovers ==
  ASSUME NEW a \in Nat, NEW b \in Nat \ {0}
  PROVE  LET c == (a + b - 1) \div b IN c \in Nat /\ a <= b * c /\ b * c <= a + b - 1
<1> DEFINE c == (a + b - 1) \div b
<1>1. c \in Int /\ b * c <= a + b - 1 /\ a + b - 1 < b * c + b
  <2>1. a + b - 1 \in Int
    OBVIOUS
  <2> QED
    BY <2>1, Quotient
<1> HIDE DEF c
<1>2. b * c \in Int /\ a <= b * c
  BY <1>1
<1>3. c \in Nat
  <2>1. CASE c < 0
    <3>1. c + 1 <= 0 /\ b * (c + 1) = b * c + b /\ b > 0
      BY <1>1, <2>1
    <3>2. b * (c + 1) <= 0
      BY <1>1, <3>1
    <3> QED
      BY <1>1, <3>1, <3>2
  <2> QED
    BY <1>1, <2>1
<1> QED
  BY <1>1, <1>2, <1>3 DEF c

(* A multiple that makes up for what is short, by a step at most.          *)
LEMMA RoundUpToNearestFits ==
  ASSUME NEW cents \in Nat
  PROVE  /\ roundUpToNearest(cents) \in Nat
         /\ cents <= roundUpToNearest(cents) /\ roundUpToNearest(cents) <= cents + Nearest - 1
<1>1. Nearest \in Nat \ {0}
  BY BooksAssumption
<1> DEFINE c == (cents + Nearest - 1) \div Nearest
<1>2. c \in Nat /\ cents <= Nearest * c /\ Nearest * c <= cents + Nearest - 1
  BY <1>1, CeilingCovers
<1>3. roundUpToNearest(cents) = c * Nearest
  BY DEF roundUpToNearest
<1> HIDE DEF c
<1>4. c * Nearest = Nearest * c /\ Nearest * c \in Nat
  BY <1>1, <1>2
<1> QED
  BY <1>2, <1>3, <1>4

(***************************************************************************)
(* The figures.  The types of what they are made of.                       *)
(***************************************************************************)
FiguresInv ==
  /\ budget \in [Label -> Int] /\ reserve \in [balance: Nat, target: Nat]
  /\ \A p \in Periods: period[p] = NoPeriodLabel \/ period[p] \in Label
  /\ \A d \in Admins: admin[d].op = "create" => admin[d].label \in Label

LEMMA FiguresStep == BooksInv /\ FiguresInv /\ [BooksNext]_booksVars => FiguresInv'
<1> SUFFICES ASSUME BooksInv, FiguresInv, [BooksNext]_booksVars PROVE FiguresInv'
  OBVIOUS
<1>0. DOMAIN period = Periods /\ DOMAIN admin = Admins
  BY DEF BooksInv
<1>1. ASSUME NEW d \in Admins, NEW p \in Periods, NEW label \in Label, CreatePeriod(d, p, label)
      PROVE  FiguresInv'
  <2>1. PICK rec: rec = [op |-> "create", p |-> p, label |-> label, units |-> home]
    OBVIOUS
  <2>2. /\ \A e \in Admins: admin'[e] = IF e = d THEN rec ELSE admin[e]
        /\ UNCHANGED <<period, budget, reserve>>
    BY <1>0, <1>1, <2>1 DEF CreatePeriod
  <2> QED
    BY <2>1, <2>2 DEF FiguresInv
<1>2. ASSUME NEW d \in Admins, CreateLevyPeriod(d)
      PROVE  FiguresInv'
  <2>1. PICK r, label: r = admin[d].p /\ label = admin[d].label
    OBVIOUS
  <2>2. /\ label \in Label /\ \A p \in Periods: period'[p] = IF p = r THEN label ELSE period[p]
        /\ \A e \in Admins: admin'[e] = IF e = d THEN AtHome ELSE admin[e]
        /\ UNCHANGED <<budget, reserve>>
    BY <1>0, <1>2, <2>1 DEF CreateLevyPeriod, FiguresInv
  <2> QED
    BY <2>2 DEF FiguresInv, AtHome
<1>3. ASSUME NEW d \in Admins, PeriodFails(d)
      PROVE  FiguresInv'
  <2>1. /\ \A e \in Admins: admin'[e] = IF e = d THEN AtHome ELSE admin[e]
        /\ UNCHANGED <<period, budget, reserve>>
    BY <1>0, <1>3 DEF PeriodFails
  <2> QED
    BY <2>1 DEF FiguresInv, AtHome
<1>4. ASSUME NEW label \in Label, NEW cents \in Costs, UpsertBudgetLine(label, cents)
      PROVE  FiguresInv'
  <2>1. cents \in Int
    BY BooksAssumption
  <2> QED
    BY <1>4, <2>1 DEF UpsertBudgetLine, FiguresInv
<1>5. ASSUME NEW balance \in Reserves, NEW target \in Reserves, UpdateReserveFund(balance, target)
      PROVE  FiguresInv'
  <2>1. balance \in Nat /\ target \in Nat
    BY BooksAssumption
  <2>2. reserve' \in [balance: Nat, target: Nat]
    BY <1>5, <2>1 DEF UpdateReserveFund
  <2> QED
    BY <1>5, <2>2 DEF UpdateReserveFund, FiguresInv
<1>6. CASE UNCHANGED <<period, budget, reserve, admin>>
  BY <1>6 DEF FiguresInv
<1> QED
  BY <1>1, <1>2, <1>3, <1>4, <1>5, <1>6 DEF BooksNext, UnitAdded, AccountPaid, booksVars

(* Averages are whole cents, and the shortfall is never negative.          *)
LEMMA AccountsAreFinite ==
  ASSUME BooksInv, NEW p
  PROVE  /\ IsFiniteSet(ListLevyAccountsByPeriod(p)) /\ Cardinality(ListLevyAccountsByPeriod(p)) \in Nat
         /\ p \in Periods => ListLevyAccountsByPeriod(p) \subseteq Periods \X Homes
<1>1. home \subseteq Homes /\ IsFiniteSet(Homes)
  BY BooksAssumption DEF BooksInv
<1>2. IsFiniteSet(home) /\ IsFiniteSet({p})
  BY <1>1, FS_Subset, FS_Singleton
<1>3. IsFiniteSet({p} \X home)
  BY <1>2, FS_Product
<1>4. ListLevyAccountsByPeriod(p) \subseteq {p} \X home
  BY DEF ListLevyAccountsByPeriod
<1>5. IsFiniteSet(ListLevyAccountsByPeriod(p))
  BY <1>3, <1>4, FS_Subset
<1> QED
  BY <1>1, <1>4, <1>5, FS_CardinalityType

LEMMA CollectedIsInt ==
  ASSUME BooksInv, NEW p \in Periods
  PROVE  CollectedCents(p) \in Int
<1> DEFINE f == [a \in Periods \X Homes |-> minInt64(account[a], Levy)]
           as == ListLevyAccountsByPeriod(p)
<1>1. Levy \in Int
  BY BooksAssumption
<1>2. \A a \in Periods \X Homes: f[a] \in Int
  BY <1>1 DEF BooksInv, minInt64
<1>3. IsFiniteSet(as) /\ as \subseteq Periods \X Homes
  BY AccountsAreFinite
<1>4. CollectedCents(p) = SumFunctionOnSet(f, as)
  BY DEF CollectedCents
<1> HIDE DEF f, as
<1> QED
  BY <1>2, <1>3, <1>4, SumIsInt

LEMMA ShortfallIsNat ==
  ASSUME BooksInv, FiguresInv, DataPoints # {}
  PROVE  ProjectedShortfall \in Nat
<1>1. /\ DataPoints \subseteq Periods /\ ExpensePoints \subseteq DataPoints
      /\ \A p \in DataPoints: period[p] \in Label
  BY DEF DataPoints, ExpensePoints, ListLevyPeriodsByScheme, FiguresInv
<1>2. IsFiniteSet(DataPoints) /\ IsFiniteSet(ExpensePoints)
  BY <1>1, BooksAssumption, FS_Subset
<1>3. AverageMonthlyIncome \in Int
  <2> DEFINE f == [p \in DataPoints |-> CollectedCents(p)]
  <2>1. \A p \in DataPoints: f[p] \in Int
    BY <1>1, CollectedIsInt
  <2>2. AverageMonthlyIncome = RoundedTo(SumFunctionOnSet(f, DataPoints), Cardinality(DataPoints))
    BY DEF AverageMonthlyIncome
  <2>3. Cardinality(DataPoints) \in Nat \ {0}
    BY <1>2, FS_CardinalityType, FS_EmptySet
  <2> HIDE DEF f
  <2>4. SumFunctionOnSet(f, DataPoints) \in Int
    BY <1>2, <2>1, SumIsInt
  <2> QED
    BY <2>2, <2>3, <2>4, RoundedToIsInt
<1>4. AverageMonthlyExpense \in Int
  <2>1. CASE ExpensePoints = {}
    BY <2>1 DEF AverageMonthlyExpense
  <2>2. CASE ExpensePoints # {}
    <3> DEFINE f == [p \in ExpensePoints |-> budget[period[p]]]
    <3>1. \A p \in ExpensePoints: f[p] \in Int
      BY <1>1 DEF FiguresInv
    <3>2. AverageMonthlyExpense = RoundedTo(SumFunctionOnSet(f, ExpensePoints), Cardinality(ExpensePoints))
      BY <2>2 DEF AverageMonthlyExpense
    <3>3. Cardinality(ExpensePoints) \in Nat \ {0}
      BY <1>2, <2>2, FS_CardinalityType, FS_EmptySet
    <3> HIDE DEF f
    <3>4. SumFunctionOnSet(f, ExpensePoints) \in Int
      BY <1>2, <3>1, SumIsInt
    <3> QED
      BY <3>2, <3>3, <3>4, RoundedToIsInt
  <2> QED
    BY <2>1, <2>2
<1>5. reserve.balance \in Nat /\ reserve.target \in Nat /\ Months \in Nat
  BY BooksAssumption DEF FiguresInv
<1>6. (AverageMonthlyIncome - AverageMonthlyExpense) * Months \in Int
  <2>1. AverageMonthlyIncome - AverageMonthlyExpense \in Int
    BY <1>3, <1>4
  <2> QED
    BY <1>5, <2>1
<1>7. ProjectedReserveBalance \in Int
  BY <1>5, <1>6 DEF ProjectedReserveBalance
<1> QED
  BY <1>5, <1>7 DEF ProjectedShortfall

LEMMA IncreaseIsEnough == BooksInv /\ FiguresInv => IncreaseCovers
<1> SUFFICES ASSUME BooksInv, FiguresInv, DataPoints # {}, LatestUnitCount > 0
             PROVE  /\ RecommendedMonthlyIncrease * LatestUnitCount * Months >= ProjectedShortfall
                    /\ ProjectedShortfall > 0 =>
                         RecommendedMonthlyIncrease * LatestUnitCount * Months
                           < ProjectedShortfall + (Nearest + 1) * LatestUnitCount * Months
  BY DEF IncreaseCovers
<1>1. /\ ProjectedShortfall \in Nat /\ Months \in Nat \ {0} /\ Nearest \in Nat \ {0}
      /\ LatestUnitCount \in Nat \ {0}
  <2>1. LatestUnitCount \in Nat
    BY AccountsAreFinite DEF LatestUnitCount
  <2> QED
    BY <2>1, ShortfallIsNat, BooksAssumption
<1>2. CASE ProjectedShortfall = 0
  BY <1>1, <1>2 DEF RecommendedMonthlyIncrease
<1>3. CASE ProjectedShortfall # 0
  <2>1. PICK short \in Nat \ {0}, units \in Nat \ {0}, m \in Nat \ {0}:
          short = ProjectedShortfall /\ units = LatestUnitCount /\ m = Months * units
    <3>1. Months * LatestUnitCount \in Nat \ {0}
      BY <1>1
    <3> QED
      BY <1>1, <1>3, <3>1
  <2> DEFINE c == (short + m - 1) \div m
             inc == roundUpToNearest(c)
  <2>2. RecommendedMonthlyIncrease = inc
    BY <1>1, <2>1 DEF RecommendedMonthlyIncrease
  <2>3. c \in Nat /\ short <= m * c /\ m * c <= short + m - 1
    BY <2>1, CeilingCovers
  <2> HIDE DEF c
  <2>4. inc \in Nat /\ c <= inc /\ inc <= c + Nearest - 1
    BY <2>3, RoundUpToNearestFits
  <2> HIDE DEF inc
  <2>5. /\ inc * LatestUnitCount * Months = m * inc
        /\ (Nearest + 1) * LatestUnitCount * Months = m * (Nearest + 1)
    BY <1>1, <2>1, <2>4
  <2>6. m * c <= m * inc
    <3>1. PICK d \in Nat: inc = c + d
      <4>1. inc - c \in Nat /\ inc = c + (inc - c)
        BY <2>3, <2>4
      <4> QED
        BY <4>1
    <3>2. m * (c + d) = m * c + m * d /\ m * d \in Nat /\ m * c \in Nat
      BY <2>1, <2>3, <3>1
    <3> QED
      BY <3>1, <3>2
  <2>7. m * inc < short + m * (Nearest + 1)
    <3>1. PICK d \in Nat: inc + d = c + (Nearest - 1)
      <4>1. (c + (Nearest - 1)) - inc \in Nat /\ inc + ((c + (Nearest - 1)) - inc) = c + (Nearest - 1)
        BY <1>1, <2>3, <2>4
      <4> QED
        BY <4>1
    <3>2. m * inc + m * d = m * c + m * (Nearest - 1)
      BY <1>1, <2>1, <2>3, <2>4, <3>1
    <3>3. m * (Nearest + 1) = m * (Nearest - 1) + m + m
      BY <1>1, <2>1
    <3>4. m * d \in Nat /\ m * inc \in Nat /\ m * c \in Nat /\ m * (Nearest - 1) \in Nat
      BY <1>1, <2>1, <2>3, <2>4
    <3> QED
      BY <2>1, <2>3, <3>2, <3>3, <3>4
  <2>8. m * inc \in Nat /\ m * c \in Nat
    BY <2>1, <2>3, <2>4
  <2> QED
    BY <2>1, <2>2, <2>3, <2>5, <2>6, <2>7, <2>8
<1> QED
  BY <1>2, <1>3

(* The increase recommended makes up the shortfall and is one step too     *)
(* high at most, for any number of units, periods and cents                *)
(* (financials.buildLevyForecast).                                         *)
THEOREM IncreaseAlwaysCovers == BooksSpec => []IncreaseCovers
<1>1. BooksInit => BooksInv /\ FiguresInv
  <2>1. BooksInit => BooksInv
    BY DEF BooksInit, BooksInv, BillsSomebody, Unused, AtHome, NoAccount
  <2>2. BooksInit => FiguresInv
    BY DEF BooksInit, FiguresInv, AtHome, NoLine
  <2> QED
    BY <2>1, <2>2
<1> QED
  BY <1>1, BooksStep, FiguresStep, IncreaseIsEnough, PTL DEF BooksSpec

(***************************************************************************)
(* The health of a scheme.  Each factor is a percentage that moves the way *)
(* the facts do, and so does the score that weighs them.                   *)
(***************************************************************************)
FactShape == [paid: {NoPeriod} \cup 0..Billed, open: Nat, late: Nat, items: [ItemStatus -> Nat],
              balance: {NoFund} \cup Nat, months: {NoMeeting} \cup Nat]

Sound(f) == f \in FactShape /\ f.late <= f.open

LEMMA RoundedIsMonotone ==
  ASSUME NEW a \in Int, NEW c \in Int, NEW b \in Nat \ {0}, a <= c
  PROVE  Rounded(a, b) <= Rounded(c, b)
<1>1. PICK x \in Int, y \in Int, z \in Nat \ {0}: x = 2 * a + b /\ y = 2 * c + b /\ z = 2 * b
  OBVIOUS
<1>2. x <= y
  BY <1>1
<1> QED
  BY <1>1, <1>2, DivIsMonotone DEF Rounded

LEMMA RoundedIsPercentage ==
  ASSUME NEW a \in Nat, NEW b \in Nat \ {0}
  PROVE  Rounded(a, b) \in Nat /\ (a <= 100 * b => Rounded(a, b) <= 100)
<1>1. PICK x \in Nat, z \in Nat \ {0}: x = 2 * a + b /\ z = 2 * b
  OBVIOUS
<1>2. x \div z \in Int
  BY Quotient
<1>3. 0 <= x \div z
  BY DivAtLeast
<1>4. a <= 100 * b => x < z * (100 + 1)
  BY <1>1
<1>5. a <= 100 * b => x \div z <= 100
  BY <1>4, DivAtMost
<1> QED
  BY <1>1, <1>2, <1>3, <1>5 DEF Rounded

(* Of fewer, the same many are a higher share.                             *)
LEMMA RoundedOfFewer ==
  ASSUME NEW a \in Nat, NEW b \in Nat \ {0}
  PROVE  Rounded(a, b + 1) <= Rounded(a, b)
<1> DEFINE q == (2 * a + (b + 1)) \div (2 * (b + 1))
<1>1. PICK x \in Nat, z \in Nat \ {0}: x = 2 * a + (b + 1) /\ z = 2 * (b + 1)
  OBVIOUS
<1>2. q \in Int /\ z * q <= x /\ q >= 0
  <2>1. x \div z \in Int /\ z * (x \div z) <= x
    BY Quotient
  <2>2. 0 <= x \div z
    <3>1. z * 0 <= x
      OBVIOUS
    <3> QED
      BY <3>1, DivAtLeast
  <2>3. q = x \div z
    BY <1>1
  <2> QED
    BY <2>1, <2>2, <2>3
<1>3. Rounded(a, b + 1) = q /\ Rounded(a, b) = (2 * a + b) \div (2 * b)
  BY DEF Rounded
<1> HIDE DEF q
<1>4. PICK y \in Nat, w \in Nat \ {0}: y = 2 * a + b /\ w = 2 * b
  OBVIOUS
<1>5. w * q <= y
  <2>1. z * q = w * q + 2 * q /\ w * q \in Int
    BY <1>1, <1>2, <1>4
  <2>2. CASE q = 0
    BY <1>4, <2>2
  <2>3. CASE q > 0
    BY <1>1, <1>2, <1>4, <2>1, <2>3
  <2> QED
    BY <1>2, <2>2, <2>3
<1> QED
  BY <1>2, <1>3, <1>4, <1>5, DivAtLeast

(***************************************************************************)
(* The factors are percentages.                                            *)
(***************************************************************************)
LEMMA LevyFactorIsPercentage ==
  ASSUME NEW f, Sound(f)
  PROVE  computeLevyFactor(f) \in 0..100
<1>1. f.paid = NoPeriod \/ f.paid \in 0..Billed
  BY DEF Sound, FactShape
<1>2. CASE f.paid = NoPeriod
  BY <1>2 DEF computeLevyFactor
<1>3. CASE f.paid # NoPeriod
  <2>1. PICK a \in Nat: a = f.paid * 100 /\ a <= 100 * Billed
    BY <1>1, <1>3, HealthAssumption
  <2>2. Rounded(a, Billed) \in Nat /\ Rounded(a, Billed) <= 100
    BY <2>1, HealthAssumption, RoundedIsPercentage
  <2> QED
    BY <1>3, <2>1, <2>2 DEF computeLevyFactor
<1> QED
  BY <1>2, <1>3

LEMMA MaintenanceFactorIsPercentage ==
  ASSUME NEW f, Sound(f)
  PROVE  computeMaintenanceFactor(f) \in 0..100
<1>1. f.open \in Nat /\ f.late \in Nat /\ f.late <= f.open
  BY DEF Sound, FactShape
<1>2. CASE f.open = 0
  BY <1>2 DEF computeMaintenanceFactor
<1>3. CASE f.open # 0
  <2>1. PICK a \in Nat: a = (f.open - f.late) * 100 /\ a <= 100 * f.open
    BY <1>1
  <2>2. Rounded(a, f.open) \in Nat /\ Rounded(a, f.open) <= 100
    BY <1>1, <1>3, <2>1, RoundedIsPercentage
  <2> QED
    BY <1>3, <2>1, <2>2 DEF computeMaintenanceFactor
<1> QED
  BY <1>2, <1>3

(* Items of some status, in the order compliant, at risk, non-compliant.   *)
LEMMA ComplianceFactorIsPercentage ==
  ASSUME NEW f, Sound(f)
  PROVE  computeComplianceFactor(f) \in 0..100
<1>1. PICK c \in Nat, r \in Nat, n \in Nat:
        c = f.items["compliant"] /\ r = f.items["at_risk"] /\ n = f.items["non_compliant"]
  BY DEF Sound, FactShape, ItemStatus
<1>2. CASE c + r + n = 0
  BY <1>1, <1>2 DEF computeComplianceFactor, Total
<1>3. CASE c + r + n # 0
  <2>1. PICK x \in Nat, y \in Nat \ {0}: x = (10 * c + 5 * r) * 100 /\ y = 10 * (c + r + n)
    BY <1>3
  <2>2. y * 0 <= x /\ x < y * (100 + 1)
    BY <2>1
  <2>3. x \div y \in Int /\ 0 <= x \div y /\ x \div y <= 100
    BY <2>2, Quotient, DivAtLeast, DivAtMost
  <2>4. computeComplianceFactor(f) = ((10 * c + 5 * r) * 100) \div (10 * ((c + r) + n))
    <3>1. Total(f.items) = (c + r) + n
      BY <1>1 DEF Total
    <3> QED
      BY <1>1, <1>3, <3>1, Zenon DEF computeComplianceFactor
  <2> QED
    BY <2>1, <2>3, <2>4
<1> QED
  BY <1>2, <1>3

LEMMA ReserveFactorIsPercentage ==
  ASSUME NEW f, Sound(f)
  PROVE  computeReserveFundFactor(f) \in 0..100
<1>1. f.balance = NoFund \/ f.balance \in Nat
  BY DEF Sound, FactShape
<1>2. CASE f.balance = NoFund
  BY <1>2 DEF computeReserveFundFactor
<1>3. CASE f.balance # NoFund
  <2>1. f.balance * 100 \in Nat
    BY <1>1, <1>3
  <2>2. Rounded(f.balance * 100, Target) \in Nat
    BY <2>1, HealthAssumption, RoundedIsPercentage
  <2> QED
    BY <1>3, <2>2 DEF computeReserveFundFactor
<1> QED
  BY <1>2, <1>3

LEMMA MeetingFactorIsPercentage ==
  ASSUME NEW f, Sound(f)
  PROVE  computeAGMRecencyFactor(f) \in 0..100
<1>1. f.months = NoMeeting \/ f.months \in Nat
  BY DEF Sound, FactShape
<1> QED
  BY <1>1 DEF computeAGMRecencyFactor

(***************************************************************************)
(* The score.                                                              *)
(***************************************************************************)
NoFactorLess(f, g) ==
  /\ computeLevyFactor(f) <= computeLevyFactor(g)
  /\ computeMaintenanceFactor(f) <= computeMaintenanceFactor(g)
  /\ computeComplianceFactor(f) <= computeComplianceFactor(g)
  /\ computeReserveFundFactor(f) <= computeReserveFundFactor(g)
  /\ computeAGMRecencyFactor(f) <= computeAGMRecencyFactor(g)

LEMMA FactorsArePercentages ==
  ASSUME NEW f, Sound(f)
  PROVE  /\ computeLevyFactor(f) \in 0..100 /\ computeMaintenanceFactor(f) \in 0..100
         /\ computeComplianceFactor(f) \in 0..100 /\ computeReserveFundFactor(f) \in 0..100
         /\ computeAGMRecencyFactor(f) \in 0..100
BY LevyFactorIsPercentage, MaintenanceFactorIsPercentage, ComplianceFactorIsPercentage,
   ReserveFactorIsPercentage, MeetingFactorIsPercentage

LEMMA ScoreIsPercentage ==
  ASSUME NEW f, Sound(f)
  PROVE  computeHealthScore(f) \in 0..100
<1>1. PICK a \in 0..100, b \in 0..100, c \in 0..100, d \in 0..100, e \in 0..100:
        /\ a = computeLevyFactor(f) /\ b = computeMaintenanceFactor(f) /\ c = computeComplianceFactor(f)
        /\ d = computeReserveFundFactor(f) /\ e = computeAGMRecencyFactor(f)
  BY FactorsArePercentages
<1>2. PICK x \in Nat: x = 35 * a + 25 * b + 20 * c + 15 * d + 5 * e /\ x <= 100 * 100
  OBVIOUS
<1>3. Rounded(x, 100) \in Nat /\ Rounded(x, 100) <= 100
  BY <1>2, RoundedIsPercentage
<1>4. computeHealthScore(f) = Rounded(x, 100)
  BY <1>1, <1>2 DEF computeHealthScore
<1> QED
  BY <1>3, <1>4

LEMMA ScoreIsMonotone ==
  ASSUME NEW f, NEW g, Sound(f), Sound(g), NoFactorLess(f, g)
  PROVE  computeHealthScore(f) <= computeHealthScore(g)
<1>1. PICK a \in 0..100, b \in 0..100, c \in 0..100, d \in 0..100, e \in 0..100:
        /\ a = computeLevyFactor(f) /\ b = computeMaintenanceFactor(f) /\ c = computeComplianceFactor(f)
        /\ d = computeReserveFundFactor(f) /\ e = computeAGMRecencyFactor(f)
  BY FactorsArePercentages
<1>2. PICK p \in 0..100, q \in 0..100, r \in 0..100, s \in 0..100, t \in 0..100:
        /\ p = computeLevyFactor(g) /\ q = computeMaintenanceFactor(g) /\ r = computeComplianceFactor(g)
        /\ s = computeReserveFundFactor(g) /\ t = computeAGMRecencyFactor(g)
  BY FactorsArePercentages
<1>3. a <= p /\ b <= q /\ c <= r /\ d <= s /\ e <= t
  BY <1>1, <1>2 DEF NoFactorLess
<1>4. PICK x \in Int, y \in Int: /\ x = 35 * a + 25 * b + 20 * c + 15 * d + 5 * e
                                 /\ y = 35 * p + 25 * q + 20 * r + 15 * s + 5 * t
  OBVIOUS
<1>5. x <= y
  BY <1>3, <1>4
<1>6. Rounded(x, 100) <= Rounded(y, 100)
  BY <1>5, RoundedIsMonotone
<1> QED
  BY <1>1, <1>2, <1>4, <1>6 DEF computeHealthScore

(***************************************************************************)
(* What happens to the facts, factor by factor.                            *)
(***************************************************************************)
LEMMA OthersAlike ==
  ASSUME NEW f, NEW g
  PROVE  /\ f.paid = g.paid => computeLevyFactor(f) = computeLevyFactor(g)
         /\ f.open = g.open /\ f.late = g.late => computeMaintenanceFactor(f) = computeMaintenanceFactor(g)
         /\ f.items = g.items => computeComplianceFactor(f) = computeComplianceFactor(g)
         /\ f.balance = g.balance => computeReserveFundFactor(f) = computeReserveFundFactor(g)
         /\ f.months = g.months => computeAGMRecencyFactor(f) = computeAGMRecencyFactor(g)
BY Zenon DEF computeLevyFactor, computeMaintenanceFactor, computeComplianceFactor, computeReserveFundFactor,
   computeAGMRecencyFactor

LEMMA PayingHelps ==
  ASSUME NEW f, NEW g, Sound(f), Sound(g), f.paid # NoPeriod, g.paid = f.paid + 1
  PROVE  computeLevyFactor(f) <= computeLevyFactor(g)
<1>1. f.paid \in Nat /\ g.paid # NoPeriod
  BY HealthAssumption DEF Sound, FactShape, NoPeriod
<1>2. PICK a \in Int, c \in Int: a = f.paid * 100 /\ c = g.paid * 100 /\ a <= c
  BY <1>1
<1>3. Rounded(a, Billed) <= Rounded(c, Billed)
  BY <1>2, HealthAssumption, RoundedIsMonotone
<1> QED
  BY <1>1, <1>2, <1>3 DEF computeLevyFactor

LEMMA BeingLateHurts ==
  ASSUME NEW f, NEW g, Sound(f), Sound(g), g.open = f.open, g.late = f.late + 1
  PROVE  computeMaintenanceFactor(g) <= computeMaintenanceFactor(f)
<1>1. PICK o \in Nat \ {0}, l \in Nat: o = f.open /\ l = f.late /\ g.open = o /\ g.late = l + 1
  BY DEF Sound, FactShape
<1>2. PICK a \in Int, c \in Int: a = (o - (l + 1)) * 100 /\ c = (o - l) * 100 /\ a <= c
  OBVIOUS
<1>3. Rounded(a, o) <= Rounded(c, o)
  BY <1>2, RoundedIsMonotone
<1> QED
  BY <1>1, <1>2, <1>3 DEF computeMaintenanceFactor

LEMMA ResolvingLateOnesHelps ==
  ASSUME NEW f, NEW g, Sound(f), Sound(g), g.open = f.open - 1, g.late = f.late - 1
  PROVE  computeMaintenanceFactor(f) <= computeMaintenanceFactor(g)
<1>1. PICK o \in Nat, l \in Nat: o = g.open /\ l = g.late /\ f.open = o + 1 /\ f.late = l + 1 /\ l <= o
  BY DEF Sound, FactShape
<1>2. CASE o = 0
  <2>1. computeMaintenanceFactor(g) = 100
    BY <1>1, <1>2 DEF computeMaintenanceFactor
  <2> QED
    BY <2>1, MaintenanceFactorIsPercentage
<1>3. CASE o # 0
  <2>1. PICK a \in Nat: a = (o - l) * 100
    BY <1>1
  <2>2. Rounded(a, o + 1) <= Rounded(a, o)
    BY <1>3, RoundedOfFewer
  <2>3. ((o + 1) - (l + 1)) * 100 = a
    BY <2>1
  <2> QED
    BY <1>1, <1>3, <2>1, <2>2, <2>3 DEF computeMaintenanceFactor
<1> QED
  BY <1>2, <1>3

LEMMA SavingHelps ==
  ASSUME NEW f, NEW g, Sound(f), Sound(g), f.balance # NoFund, f.balance <= g.balance
  PROVE  computeReserveFundFactor(f) <= computeReserveFundFactor(g)
<1>1. f.balance \in Nat /\ g.balance \in Nat /\ g.balance # NoFund
  BY DEF Sound, FactShape, NoFund
<1>2. PICK a \in Nat, c \in Nat: a = f.balance * 100 /\ c = g.balance * 100 /\ a <= c
  BY <1>1
<1>3. Rounded(a, Target) <= Rounded(c, Target) /\ Rounded(a, Target) \in Nat /\ Rounded(c, Target) \in Nat
  BY <1>2, HealthAssumption, RoundedIsMonotone, RoundedIsPercentage
<1> QED
  BY <1>1, <1>2, <1>3 DEF computeReserveFundFactor

LEMMA TimeHurts ==
  ASSUME NEW f, NEW g, Sound(f), Sound(g), f.months # NoMeeting, g.months >= f.months
  PROVE  computeAGMRecencyFactor(g) <= computeAGMRecencyFactor(f)
<1>1. f.months \in Nat /\ g.months \in Nat /\ g.months # NoMeeting
  BY DEF Sound, FactShape, NoMeeting
<1> QED
  BY <1>1 DEF computeAGMRecencyFactor

(* Of two ways to divide as many items, the one that weighs less.          *)
LEMMA HeavierItemsHelp ==
  ASSUME NEW f, NEW g, Sound(f), Sound(g), Total(f.items) = Total(g.items),
         2 * f.items["compliant"] + f.items["at_risk"] <= 2 * g.items["compliant"] + g.items["at_risk"]
  PROVE  computeComplianceFactor(f) <= computeComplianceFactor(g)
<1>1. PICK c \in Nat, r \in Nat, n \in Nat:
        c = f.items["compliant"] /\ r = f.items["at_risk"] /\ n = f.items["non_compliant"]
  BY DEF Sound, FactShape, ItemStatus
<1>2. PICK d \in Nat, s \in Nat: d = g.items["compliant"] /\ s = g.items["at_risk"]
  BY DEF Sound, FactShape, ItemStatus
<1>3. PICK t \in Nat: t = Total(f.items) /\ t = Total(g.items)
  <2>1. Total(f.items) \in Nat
    BY <1>1 DEF Total
  <2> QED
    BY <2>1
<1>4. CASE t = 0
  BY <1>3, <1>4 DEF computeComplianceFactor
<1>5. CASE t # 0
  <2>1. PICK x \in Int, y \in Int, z \in Nat \ {0}:
          x = (10 * c + 5 * r) * 100 /\ y = (10 * d + 5 * s) * 100 /\ z = 10 * t
    BY <1>5
  <2>2. x <= y
    BY <1>1, <1>2, <2>1
  <2>3. x \div z <= y \div z
    BY <2>2, DivIsMonotone
  <2>4. /\ computeComplianceFactor(f) = ((10 * c + 5 * r) * 100) \div (10 * t)
        /\ computeComplianceFactor(g) = ((10 * d + 5 * s) * 100) \div (10 * t)
    BY <1>1, <1>2, <1>3, <1>5, Zenon DEF computeComplianceFactor
  <2> QED
    BY <2>1, <2>3, <2>4
<1> QED
  BY <1>4, <1>5

(***************************************************************************)
(* The steps.                                                              *)
(***************************************************************************)
(* A step changes the fields it names and no others.                       *)
LEMMA ItemsMove ==
  ASSUME Sound(facts), NEW from \in ItemStatus, NEW to \in ItemStatus, ItemMoved(from, to)
  PROVE  /\ facts' = [facts EXCEPT !.items = facts'.items]
         /\ facts'.items = [i \in ItemStatus |-> IF i = from THEN facts.items[i] - 1
                                                 ELSE IF i = to THEN facts.items[i] + 1 ELSE facts.items[i]]
         /\ from # to /\ facts.items[from] > 0
         /\ Sound(facts')
<1> DEFINE moved == [i \in ItemStatus |-> IF i = from THEN facts.items[i] - 1
                                          ELSE IF i = to THEN facts.items[i] + 1 ELSE facts.items[i]]
<1>1. facts \in FactShape /\ facts.items \in [ItemStatus -> Nat] /\ facts.late <= facts.open
  BY DEF Sound, FactShape
<1>2. /\ facts' = [facts EXCEPT !.items = [[facts.items EXCEPT ![from] = @ - 1] EXCEPT ![to] = @ + 1]]
      /\ from # to /\ facts.items[from] > 0
  BY <1>1 DEF ItemMoved, FactShape
<1>3. [[facts.items EXCEPT ![from] = @ - 1] EXCEPT ![to] = @ + 1] = moved
  BY <1>1, <1>2
<1>4. moved \in [ItemStatus -> Nat]
  BY <1>1, <1>2
<1> HIDE DEF moved
<1>5. facts' = [facts EXCEPT !.items = moved]
  BY <1>2, <1>3
<1>6. facts'.items = moved /\ facts' \in FactShape /\ facts'.late <= facts'.open
  BY <1>1, <1>4, <1>5 DEF FactShape
<1> QED
  BY <1>2, <1>5, <1>6 DEF Sound, moved

LEMMA FactsStaySound == Sound(facts) /\ [HealthNext]_facts => Sound(facts')
<1> SUFFICES ASSUME Sound(facts), [HealthNext]_facts PROVE Sound(facts')
  OBVIOUS
<1>1. /\ facts \in FactShape /\ facts.late <= facts.open
      /\ facts.items \in [ItemStatus -> Nat] /\ facts.open \in Nat /\ facts.late \in Nat
  BY DEF Sound, FactShape
<1>2. /\ 0 \in 0..Billed /\ 0..(Target + 1) \subseteq Nat /\ Billed \in Nat
  BY HealthAssumption
<1>3. CASE PeriodBilled
  BY <1>1, <1>2, <1>3 DEF PeriodBilled, Sound, FactShape
<1>4. CASE LevyPaid
  <2>1. facts.paid + 1 \in 0..Billed
    BY <1>2, <1>4 DEF LevyPaid
  <2> QED
    BY <1>1, <1>4, <2>1 DEF LevyPaid, Sound, FactShape
<1>5. CASE RequestOpened
  BY <1>1, <1>5 DEF RequestOpened, Sound, FactShape
<1>6. CASE RequestLate
  BY <1>1, <1>6 DEF RequestLate, Sound, FactShape
<1>7. CASE LateRequestResolved
  <2>1. PICK o \in Nat, l \in Nat: o = facts.open - 1 /\ l = facts.late - 1 /\ l <= o
    BY <1>1, <1>7 DEF LateRequestResolved
  <2>2. facts' = [facts EXCEPT !.open = o, !.late = l]
    BY <1>1, <1>7, <2>1 DEF LateRequestResolved, FactShape
  <2> QED
    BY <1>1, <2>1, <2>2 DEF Sound, FactShape
<1>8. CASE RequestResolved
  BY <1>1, <1>8 DEF RequestResolved, Sound, FactShape
<1>9. ASSUME NEW items \in [ItemStatus -> Nat], facts' = [facts EXCEPT !.items = items]
      PROVE  Sound(facts')
  BY <1>1, <1>9 DEF Sound, FactShape
<1>10. CASE ItemCreated
  <2>1. "non_compliant" \in ItemStatus
    BY DEF ItemStatus
  <2> DEFINE items == [facts.items EXCEPT !["non_compliant"] = @ + 1]
  <2>2. items \in [ItemStatus -> Nat]
    BY <1>1, <2>1
  <2>3. facts' = [facts EXCEPT !.items = items]
    BY <1>1, <1>10 DEF ItemCreated, FactShape
  <2> QED
    BY <1>9, <2>2, <2>3
<1>11. ASSUME NEW status \in ItemStatus, ItemDeleted(status)
       PROVE  Sound(facts')
  <2> DEFINE items == [facts.items EXCEPT ![status] = @ - 1]
  <2>1. items \in [ItemStatus -> Nat]
    BY <1>1, <1>11 DEF ItemDeleted
  <2>2. facts' = [facts EXCEPT !.items = items]
    BY <1>1, <1>11 DEF ItemDeleted, FactShape
  <2> QED
    BY <1>9, <2>1, <2>2
<1>12. ASSUME NEW cents \in 0..(Target + 1), ReserveUpdated(cents)
       PROVE  Sound(facts')
  BY <1>1, <1>2, <1>12 DEF ReserveUpdated, Sound, FactShape
<1>13. CASE MeetingHeld
  BY <1>1, <1>13 DEF MeetingHeld, Sound, FactShape
<1>14. ASSUME NEW n \in MonthMarks, MonthsPass(n)
       PROVE  Sound(facts')
  <2>1. n \in Nat
    BY HealthAssumption
  <2> QED
    BY <1>1, <1>14, <2>1 DEF MonthsPass, Sound, FactShape
<1> QED
  BY <1>3, <1>4, <1>5, <1>6, <1>7, <1>8, <1>10, <1>11, <1>12, <1>13, <1>14, ItemsMove DEF HealthNext

LEMMA WhatIsGoodHelps ==
  ASSUME Sound(facts), Sound(facts'), Better
  PROVE  NoFactorLess(facts, facts')
<1>1. facts \in FactShape /\ facts.items \in [ItemStatus -> Nat]
  BY DEF Sound, FactShape
<1>2. /\ \A x \in 0..100: x <= x
      /\ computeLevyFactor(facts) \in 0..100 /\ computeMaintenanceFactor(facts) \in 0..100
      /\ computeComplianceFactor(facts) \in 0..100 /\ computeReserveFundFactor(facts) \in 0..100
      /\ computeAGMRecencyFactor(facts) \in 0..100
  BY FactorsArePercentages
<1>3. CASE LevyPaid
  <2>1. /\ facts.paid # NoPeriod /\ facts'.paid = facts.paid + 1
        /\ facts'.open = facts.open /\ facts'.late = facts.late /\ facts'.items = facts.items
        /\ facts'.balance = facts.balance /\ facts'.months = facts.months
    BY <1>1, <1>3, HealthAssumption DEF LevyPaid, FactShape, NoPeriod
  <2> QED
    BY <1>2, <2>1, PayingHelps, OthersAlike DEF NoFactorLess
<1>4. CASE LateRequestResolved
  <2>1. /\ facts'.paid = facts.paid
        /\ facts'.open = facts.open - 1 /\ facts'.late = facts.late - 1 /\ facts'.items = facts.items
        /\ facts'.balance = facts.balance /\ facts'.months = facts.months
    BY <1>1, <1>4 DEF LateRequestResolved, FactShape
  <2> QED
    BY <1>2, <2>1, ResolvingLateOnesHelps, OthersAlike DEF NoFactorLess
<1>5. CASE MeetingHeld
  <2>1. /\ facts'.paid = facts.paid
        /\ facts'.open = facts.open /\ facts'.late = facts.late /\ facts'.items = facts.items
        /\ facts'.balance = facts.balance /\ facts'.months = 0
    BY <1>1, <1>5 DEF MeetingHeld, FactShape
  <2>2. computeAGMRecencyFactor(facts') = 100
    BY <2>1 DEF computeAGMRecencyFactor, NoMeeting
  <2> QED
    BY <1>2, <2>1, <2>2, OthersAlike DEF NoFactorLess
<1>6. ASSUME NEW cents \in 0..(Target + 1), facts.balance \in 0..(cents - 1), ReserveUpdated(cents)
      PROVE  NoFactorLess(facts, facts')
  <2>1. /\ facts'.paid = facts.paid
        /\ facts'.open = facts.open /\ facts'.late = facts.late /\ facts'.items = facts.items
        /\ facts'.balance = cents /\ facts'.months = facts.months
    BY <1>1, <1>6 DEF ReserveUpdated, FactShape
  <2>2. facts.balance # NoFund /\ facts.balance <= cents
    BY <1>6, HealthAssumption DEF NoFund
  <2> QED
    BY <1>2, <2>1, <2>2, SavingHelps, OthersAlike DEF NoFactorLess
<1>7. ASSUME NEW from \in ItemStatus, NEW to \in ItemStatus, Worth(to) > Worth(from), ItemMoved(from, to)
      PROVE  NoFactorLess(facts, facts')
  <2>1. /\ facts' = [facts EXCEPT !.items = facts'.items]
        /\ facts'.items = [i \in ItemStatus |-> IF i = from THEN facts.items[i] - 1
                                                ELSE IF i = to THEN facts.items[i] + 1 ELSE facts.items[i]]
        /\ from # to
    BY <1>7, ItemsMove
  <2>2. /\ facts'.paid = facts.paid
        /\ facts'.open = facts.open /\ facts'.late = facts.late
        /\ facts'.balance = facts.balance /\ facts'.months = facts.months
    BY <1>1, <2>1 DEF FactShape
  <2>3. PICK c \in Nat, r \in Nat, n \in Nat:
          c = facts.items["compliant"] /\ r = facts.items["at_risk"] /\ n = facts.items["non_compliant"]
    BY <1>1 DEF ItemStatus
  <2>4. \/ from = "at_risk" /\ to = "compliant"
        \/ from = "non_compliant" /\ to \in {"compliant", "at_risk"}
    BY <1>7 DEF ItemStatus, Worth
  <2>5. PICK d, s, m:
          d = facts'.items["compliant"] /\ s = facts'.items["at_risk"] /\ m = facts'.items["non_compliant"]
    OBVIOUS
  <2>6. \/ d = c + 1 /\ s = r - 1 /\ m = n
        \/ d = c + 1 /\ s = r /\ m = n - 1
        \/ d = c /\ s = r + 1 /\ m = n - 1
    BY <2>1, <2>3, <2>4, <2>5 DEF ItemStatus
  <2>7. /\ Total(facts.items) = Total(facts'.items)
        /\ 2 * facts.items["compliant"] + facts.items["at_risk"]
             <= 2 * facts'.items["compliant"] + facts'.items["at_risk"]
    BY <2>3, <2>5, <2>6 DEF Total
  <2> QED
    BY <1>2, <2>2, <2>7, HeavierItemsHelp, OthersAlike DEF NoFactorLess
<1> QED
  BY <1>3, <1>4, <1>5, <1>6, <1>7 DEF Better

LEMMA WhatIsBadHurts ==
  ASSUME Sound(facts), Sound(facts'), Worse
  PROVE  NoFactorLess(facts', facts)
<1>1. facts \in FactShape /\ facts.items \in [ItemStatus -> Nat]
  BY DEF Sound, FactShape
<1>2. /\ \A x \in 0..100: x <= x
      /\ computeLevyFactor(facts) \in 0..100 /\ computeMaintenanceFactor(facts) \in 0..100
      /\ computeComplianceFactor(facts) \in 0..100 /\ computeReserveFundFactor(facts) \in 0..100
      /\ computeAGMRecencyFactor(facts) \in 0..100
  BY FactorsArePercentages
<1>3. CASE RequestLate
  <2>1. /\ facts'.paid = facts.paid
        /\ facts'.open = facts.open /\ facts'.late = facts.late + 1 /\ facts'.items = facts.items
        /\ facts'.balance = facts.balance /\ facts'.months = facts.months
    BY <1>1, <1>3 DEF RequestLate, FactShape
  <2> QED
    BY <1>2, <2>1, BeingLateHurts, OthersAlike DEF NoFactorLess
<1>4. ASSUME NEW n \in MonthMarks, MonthsPass(n)
      PROVE  NoFactorLess(facts', facts)
  <2>1. /\ facts'.paid = facts.paid
        /\ facts'.open = facts.open /\ facts'.late = facts.late /\ facts'.items = facts.items
        /\ facts'.balance = facts.balance /\ facts'.months = n
    BY <1>1, <1>4 DEF MonthsPass, FactShape
  <2>2. facts.months # NoMeeting /\ n >= facts.months
    BY <1>1, <1>4, HealthAssumption DEF MonthsPass, FactShape
  <2> QED
    BY <1>2, <2>1, <2>2, TimeHurts, OthersAlike DEF NoFactorLess
<1>5. ASSUME NEW cents \in 0..Target, cents < facts.balance, ReserveUpdated(cents)
      PROVE  NoFactorLess(facts', facts)
  <2>1. /\ facts'.paid = facts.paid
        /\ facts'.open = facts.open /\ facts'.late = facts.late /\ facts'.items = facts.items
        /\ facts'.balance = cents /\ facts'.months = facts.months
    BY <1>1, <1>5 DEF ReserveUpdated, FactShape
  <2>2. cents # NoFund /\ cents <= facts.balance
    BY <1>1, <1>5, HealthAssumption DEF NoFund, FactShape
  <2> QED
    BY <1>2, <2>1, <2>2, SavingHelps, OthersAlike DEF NoFactorLess
<1>6. ASSUME NEW from \in ItemStatus, NEW to \in ItemStatus, Worth(to) < Worth(from), ItemMoved(from, to)
      PROVE  NoFactorLess(facts', facts)
  <2>1. /\ facts' = [facts EXCEPT !.items = facts'.items]
        /\ facts'.items = [i \in ItemStatus |-> IF i = from THEN facts.items[i] - 1
                                                ELSE IF i = to THEN facts.items[i] + 1 ELSE facts.items[i]]
        /\ from # to
    BY <1>6, ItemsMove
  <2>2. /\ facts'.paid = facts.paid
        /\ facts'.open = facts.open /\ facts'.late = facts.late
        /\ facts'.balance = facts.balance /\ facts'.months = facts.months
    BY <1>1, <2>1 DEF FactShape
  <2>3. PICK c \in Nat, r \in Nat, n \in Nat:
          c = facts.items["compliant"] /\ r = facts.items["at_risk"] /\ n = facts.items["non_compliant"]
    BY <1>1 DEF ItemStatus
  <2>4. \/ to = "at_risk" /\ from = "compliant"
        \/ to = "non_compliant" /\ from \in {"compliant", "at_risk"}
    BY <1>6 DEF ItemStatus, Worth
  <2>5. PICK d, s, m:
          d = facts'.items["compliant"] /\ s = facts'.items["at_risk"] /\ m = facts'.items["non_compliant"]
    OBVIOUS
  <2>6. \/ d = c - 1 /\ s = r + 1 /\ m = n
        \/ d = c - 1 /\ s = r /\ m = n + 1
        \/ d = c /\ s = r - 1 /\ m = n + 1
    BY <2>1, <2>3, <2>4, <2>5 DEF ItemStatus
  <2>7. /\ Total(facts.items) = Total(facts'.items)
        /\ 2 * facts'.items["compliant"] + facts'.items["at_risk"]
             <= 2 * facts.items["compliant"] + facts.items["at_risk"]
    <3>1. d + s + m = c + r + n /\ 2 * d + s <= 2 * c + r
      BY <2>6
    <3> QED
      BY <2>3, <2>5, <3>1 DEF Total
  <2> QED
    BY <1>2, <2>2, <2>7, HeavierItemsHelp, OthersAlike DEF NoFactorLess
<1> QED
  BY <1>3, <1>4, <1>5, <1>6 DEF Worse

(* What is good for a scheme never lowers its health, what is bad never    *)
(* raises it, and the score stays a percentage, for any amount billed, any *)
(* target and any number of requests and items (scheme.computeHealthScore).*)
THEOREM HealthFollows == HealthSpec => HealthFollowsFacts
<1> DEFINE Follows == /\ Better => computeHealthScore(facts') >= computeHealthScore(facts)
                      /\ Worse => computeHealthScore(facts') <= computeHealthScore(facts)
                      /\ computeHealthScore(facts') \in 0..100
           Inv == Sound(facts)
<1>1. HealthInit => Inv
  <2> SUFFICES ASSUME HealthInit PROVE Inv
    OBVIOUS
  <2>1. [i \in ItemStatus |-> 0] \in [ItemStatus -> Nat]
    OBVIOUS
  <2> QED
    BY <2>1 DEF HealthInit, Sound, FactShape
<1>2. Inv /\ [HealthNext]_facts => Inv'
  BY FactsStaySound DEF Sound
<1>3. Inv /\ Inv' => Follows
  <2> SUFFICES ASSUME Sound(facts), Sound(facts') PROVE Follows
    BY DEF Sound
  <2>1. computeHealthScore(facts) \in 0..100 /\ computeHealthScore(facts') \in 0..100
    BY ScoreIsPercentage
  <2>2. Better => computeHealthScore(facts) <= computeHealthScore(facts')
    BY WhatIsGoodHelps, ScoreIsMonotone
  <2>3. Worse => computeHealthScore(facts') <= computeHealthScore(facts)
    BY WhatIsBadHurts, ScoreIsMonotone
  <2> QED
    BY <2>1, <2>2, <2>3
<1> HIDE DEF Follows, Inv
<1>4. HealthSpec => [][Follows]_facts
  BY <1>1, <1>2, <1>3, PTL DEF HealthSpec
<1> QED
  BY <1>4 DEF HealthFollowsFacts, Follows

(***************************************************************************)
(* The attention queue.                                                    *)
(***************************************************************************)
Arrears == [daysOverdue: Nat, cents: Nat]
Action == {NoAction} \cup [type: EventType, daysAgo: Nat, promised: Int]

AttentionInv == arrears \in Arrears /\ action \in Action /\ today \in Nat

LEMMA AttentionStep == AttentionInv /\ [AttentionNext]_attentionVars => AttentionInv'
<1> SUFFICES ASSUME AttentionInv, [AttentionNext]_attentionVars PROVE AttentionInv'
  OBVIOUS
<1>1. CASE DayPasses
  <2>1. action' \in Action
    <3>1. CASE action = NoAction
      BY <1>1, <3>1 DEF Action, DayPasses
    <3>2. CASE action # NoAction
      <4>1. action \in [type: EventType, daysAgo: Nat, promised: Int]
        BY <3>2 DEF AttentionInv, Action
      <4>2. action' = [action EXCEPT !.daysAgo = @ + 1, !.promised = @ - 1]
        BY <1>1, <3>2 DEF DayPasses
      <4>3. action' = [type |-> action.type, daysAgo |-> action.daysAgo + 1, promised |-> action.promised - 1]
        BY <4>1, <4>2
      <4> QED
        BY <4>1, <4>3 DEF Action
    <3> QED
      BY <3>1, <3>2
  <2> QED
    BY <1>1, <2>1 DEF AttentionInv, Arrears, DayPasses
<1>2. ASSUME NEW cents \in Balances, PartPaid(cents)
      PROVE  AttentionInv'
  BY <1>2, AttentionAssumption DEF AttentionInv, Arrears, PartPaid
<1>3. ASSUME NEW type \in EventType, NEW days \in -1..2, RecordCollectionEvent(type, days)
      PROVE  AttentionInv'
  BY <1>3 DEF AttentionInv, Action, RecordCollectionEvent
<1>4. CASE UNCHANGED attentionVars
  BY <1>4 DEF AttentionInv, attentionVars
<1> QED
  BY <1>1, <1>2, <1>3, <1>4 DEF AttentionNext

(* A day later every part of the score is what it was or higher, or what   *)
(* one part loses another gains.                                           *)
LEMMA WaitingIsNotCalming ==
  ASSUME AttentionInv, DayPasses
  PROVE  RiskScore' >= RiskScore
<1>1. PICK days \in Nat, cents \in Nat: /\ days = arrears.daysOverdue /\ cents = arrears.cents
                                        /\ arrears'.daysOverdue = days + 1 /\ arrears'.cents = cents
  BY DEF AttentionInv, Arrears, DayPasses
<1>2. CASE action = NoAction
  <2>1. action' = action
    BY <1>2 DEF DayPasses
  <2>2. FollowUpPoints = 0 /\ RecencyPoints = 0 /\ FollowUpPoints' = 0 /\ RecencyPoints' = 0
    <3>1. /\ action.type # "reminder_sent" /\ action.type # "legal_review_flagged"
          /\ action.type # "follow_up_logged" /\ action.daysAgo = 0
      BY <1>2, Zenon DEF NoAction
    <3>2. ~noRecentFollowUp /\ ~recentReminder /\ ~recentLegalReview
      BY <3>1 DEF noRecentFollowUp, recentReminder, recentLegalReview
    <3>3. ~noRecentFollowUp' /\ ~recentReminder' /\ ~recentLegalReview'
      BY <2>1, <3>1 DEF noRecentFollowUp, recentReminder, recentLegalReview
    <3> QED
      BY <2>1, <3>1, <3>2, <3>3 DEF FollowUpPoints, RecencyPoints
  <2>3. /\ PromisePoints = IF days >= 90 THEN 20 ELSE 0
        /\ PromisePoints' = IF days + 1 >= 90 THEN 20 ELSE 0
    BY <1>1, <1>2, <2>1 DEF PromisePoints, RecommendedAction, recentReminder, recentLegalReview,
                            HasActivePromise, PromiseDateOverdue, NoAction
  <2> QED
    BY <1>1, <2>2, <2>3 DEF RiskScore, Clamped, OverduePoints, BalancePoints
<1>3. CASE action # NoAction
  <2>1. PICK type \in EventType, ago \in Nat, left \in Int:
          /\ action.type = type /\ action.daysAgo = ago /\ action.promised = left
          /\ action'.type = type /\ action'.daysAgo = ago + 1 /\ action'.promised = left - 1
    <3>1. action \in [type: EventType, daysAgo: Nat, promised: Int]
      BY <1>3 DEF AttentionInv, Action
    <3>2. action' = [action EXCEPT !.daysAgo = @ + 1, !.promised = @ - 1]
      BY <1>3 DEF DayPasses
    <3> QED
      BY <3>1, <3>2
  <2>2. /\ FollowUpPoints = IF ago >= 7 THEN 15 ELSE IF type = "follow_up_logged" THEN -10 ELSE 0
        /\ FollowUpPoints' = IF ago + 1 >= 7 THEN 15 ELSE IF type = "follow_up_logged" THEN -10 ELSE 0
    BY <2>1 DEF FollowUpPoints, noRecentFollowUp
  <2>3. /\ RecencyPoints = IF type = "reminder_sent" /\ ago <= 2 THEN -20
                           ELSE IF type = "legal_review_flagged" /\ ago <= 7 THEN -25 ELSE 0
        /\ RecencyPoints' = IF type = "reminder_sent" /\ ago + 1 <= 2 THEN -20
                            ELSE IF type = "legal_review_flagged" /\ ago + 1 <= 7 THEN -25 ELSE 0
    BY <2>1 DEF RecencyPoints, recentReminder, recentLegalReview
  <2>4. PromisePoints = IF (type = "reminder_sent" /\ ago <= 2) \/ (type = "legal_review_flagged" /\ ago <= 7) THEN 0
                        ELSE IF type = "promise_to_pay" /\ left > 0 THEN -20
                        ELSE IF type = "promise_to_pay" \/ days >= 90 THEN 20 ELSE 0
    BY <1>1, <2>1 DEF PromisePoints, RecommendedAction, recentReminder, recentLegalReview,
                      HasActivePromise, PromiseDateOverdue
  <2>5. PromisePoints' = IF (type = "reminder_sent" /\ ago + 1 <= 2) \/ (type = "legal_review_flagged" /\ ago + 1 <= 7)
                         THEN 0
                         ELSE IF type = "promise_to_pay" /\ left - 1 > 0 THEN -20
                         ELSE IF type = "promise_to_pay" \/ days + 1 >= 90 THEN 20 ELSE 0
    BY <1>1, <2>1 DEF PromisePoints, RecommendedAction, recentReminder, recentLegalReview,
                      HasActivePromise, PromiseDateOverdue
  <2> QED
    BY <1>1, <2>1, <2>2, <2>3, <2>4, <2>5 DEF RiskScore, Clamped, OverduePoints, BalancePoints, EventType
<1> QED
  BY <1>2, <1>3

LEMMA PayingIsNotAlarming ==
  ASSUME AttentionInv, NEW cents \in Balances, PartPaid(cents)
  PROVE  RiskScore' <= RiskScore
<1>1. PICK days \in Nat, before \in Nat:
        /\ days = arrears.daysOverdue /\ before = arrears.cents /\ cents < before /\ cents \in Nat
        /\ arrears'.daysOverdue = days /\ arrears'.cents = cents /\ action' = action
  BY AttentionAssumption DEF AttentionInv, Arrears, PartPaid
<1>2. /\ FollowUpPoints' = FollowUpPoints /\ FollowUpPoints \in Int
      /\ RecencyPoints' = RecencyPoints /\ RecencyPoints \in Int
  BY <1>1 DEF FollowUpPoints, RecencyPoints, noRecentFollowUp, recentReminder, recentLegalReview
<1>3. RecommendedAction' = RecommendedAction
  BY <1>1 DEF RecommendedAction, recentReminder, recentLegalReview, HasActivePromise, PromiseDateOverdue
<1>4. PromisePoints' = PromisePoints /\ PromisePoints \in Int
  BY <1>3 DEF PromisePoints
<1> QED
  BY <1>1, <1>2, <1>4 DEF RiskScore, Clamped, OverduePoints, BalancePoints

(* The queue's ranking follows time and money, whatever was done last.     *)
THEOREM UrgencyFollowsTime == AttentionSpec => UrgencyIsMonotone
<1> DEFINE Monotone == /\ today' # today => RiskScore' >= RiskScore
                       /\ arrears'.cents < arrears.cents => RiskScore' <= RiskScore
<1>1. AttentionInit => AttentionInv
  <2> SUFFICES ASSUME AttentionInit PROVE AttentionInv
    OBVIOUS
  <2>1. arrears \in Arrears
    BY AttentionAssumption DEF AttentionInit, Arrears
  <2> QED
    BY <2>1 DEF AttentionInit, AttentionInv, Action
<1>2. AttentionInv /\ AttentionNext => Monotone
  <2> SUFFICES ASSUME AttentionInv, AttentionNext PROVE Monotone
    OBVIOUS
  <2>1. CASE DayPasses
    <3>1. arrears'.cents = arrears.cents
      BY <2>1 DEF AttentionInv, Arrears, DayPasses
    <3> QED
      BY <2>1, <3>1, WaitingIsNotCalming DEF AttentionInv, Arrears
  <2>2. ASSUME NEW cents \in Balances, PartPaid(cents) PROVE Monotone
    BY <2>2, PayingIsNotAlarming DEF PartPaid
  <2>3. ASSUME NEW type \in EventType, NEW days \in -1..2, RecordCollectionEvent(type, days) PROVE Monotone
    BY <2>3 DEF RecordCollectionEvent, AttentionInv, Arrears
  <2> QED
    BY <2>1, <2>2, <2>3 DEF AttentionNext
<1> QED
  BY <1>1, <1>2, AttentionStep, PTL DEF AttentionSpec, UrgencyIsMonotone

(***************************************************************************)
(* The registry.  What a request has read is still so when it writes,      *)
(* unless another request was under way as some request wrote.             *)
(***************************************************************************)
CheckedOK(r) ==
  LET q == request[r] IN
  /\ q.op = "update" => q.s \in Schemes /\ q.n \in Count
  /\ q.op \in {"createUnit", "updateUnit"} => q.s \in Schemes /\ q.u \in UnitIds /\ q.n \in Share

SnapshotOK(r) ==
  LET q == request[r] IN
  /\ q.op = "update" => q.seen = scheme[q.s]
  /\ q.op = "updateUnit" => q.seen = unit[q.u].bps

RegistryInv ==
  /\ RegistryTypeOK
  /\ DOMAIN unit = UnitIds
  /\ \A r \in Requests: CheckedOK(r)
  /\ ~raced => \A r \in Requests: SnapshotOK(r)

(* The parts of a step: what a request checks, and what it writes.         *)
LEMMA ChecksKeep ==
  ASSUME RegistryInv, NEW r \in Requests, NEW q \in Request, request' = [request EXCEPT ![r] = q],
         UNCHANGED <<scheme, unit, raced>>,
         q.op = "update" => q.s \in Schemes /\ q.n \in Count /\ q.seen = scheme[q.s],
         q.op \in {"createUnit", "updateUnit"} => q.s \in Schemes /\ q.u \in UnitIds /\ q.n \in Share,
         q.op = "updateUnit" => q.seen = unit[q.u].bps
  PROVE  RegistryInv'
<1>1. request \in [Requests -> Request]
  BY DEF RegistryInv, RegistryTypeOK
<1>2. request'[r] = q /\ \A p \in Requests \ {r}: request'[p] = request[p]
  BY <1>1
<1>3. RegistryTypeOK'
  BY <1>1 DEF RegistryInv, RegistryTypeOK, GetScheme
<1>4. \A p \in Requests: CheckedOK(p)'
  BY <1>2 DEF RegistryInv, CheckedOK
<1>5. ~raced' => \A p \in Requests: SnapshotOK(p)'
  BY <1>2 DEF RegistryInv, SnapshotOK
<1> QED
  BY <1>3, <1>4, <1>5 DEF RegistryInv

LEMMA WritesKeep ==
  ASSUME RegistryInv, NEW r \in Requests, Answered(r),
         scheme' \in [Schemes -> 0..MaxCount], DOMAIN unit' = UnitIds,
         \A u \in UnitIds: unit'[u] # NoUnitRow => unit'[u] \in Unit /\ scheme'[unit'[u].scheme] > 0
  PROVE  RegistryInv'
<1>1. request \in [Requests -> Request] /\ raced \in BOOLEAN
  BY DEF RegistryInv, RegistryTypeOK
<1>2. /\ request' = [request EXCEPT ![r] = Idle]
      /\ raced' = (raced \/ \E q \in Requests \ {r}: request[q] # Idle)
  BY DEF Answered, Overtakes
<1>3. request'[r] = Idle /\ \A p \in Requests \ {r}: request'[p] = request[p]
  BY <1>1, <1>2
<1>4. Idle \in Request
  BY DEF Idle, Request
<1>5. RegistryTypeOK'
  <2>1. request' \in [Requests -> Request]
    BY <1>1, <1>2, <1>4
  <2>2. raced' \in BOOLEAN
    BY <1>1, <1>2
  <2> QED
    BY <2>1, <2>2 DEF RegistryTypeOK, GetScheme
<1>6. \A p \in Requests: CheckedOK(p)'
  BY <1>3 DEF RegistryInv, CheckedOK, Idle
<1>7. ~raced' => \A p \in Requests: request'[p] = Idle
  BY <1>2, <1>3
<1>8. ~raced' => \A p \in Requests: SnapshotOK(p)'
  BY <1>7 DEF SnapshotOK, Idle
<1> QED
  BY <1>5, <1>6, <1>8 DEF RegistryInv

LEMMA RegistryStep == RegistryInv /\ [RegistryNext]_registryVars => RegistryInv'
<1> SUFFICES ASSUME RegistryInv, [RegistryNext]_registryVars PROVE RegistryInv'
  OBVIOUS
<1>0. /\ scheme \in [Schemes -> 0..MaxCount] /\ DOMAIN unit = UnitIds
      /\ request \in [Requests -> Request] /\ MaxCount \in Nat /\ Whole \in Nat
      /\ \A u \in UnitIds: unit[u] # NoUnitRow => unit[u] \in Unit /\ GetScheme(unit[u].scheme)
      /\ \A r \in Requests: CheckedOK(r)
  BY RegistryAssumption DEF RegistryInv, RegistryTypeOK
<1>1. ASSUME NEW r \in Requests, Setup(r) PROVE RegistryInv'
  <2>1. PICK q: q = [op |-> "setup", s |-> "none", u |-> "none", n |-> 0, seen |-> 0]
    OBVIOUS
  <2>2. /\ q \in Request /\ q.op = "setup" /\ request' = [request EXCEPT ![r] = q]
        /\ UNCHANGED <<scheme, unit, raced>>
    BY <1>1, <2>1 DEF Setup, Checked, Request
  <2> QED
    BY <2>2, ChecksKeep
<1>2. ASSUME NEW r \in Requests, NEW s \in Schemes, NEW n \in Count, Update(r, s, n) PROVE RegistryInv'
  <2>1. PICK q: q = [op |-> "update", s |-> s, u |-> "none", n |-> n, seen |-> scheme[s]]
    OBVIOUS
  <2>2. /\ q \in Request /\ q.op = "update" /\ q.s = s /\ q.n = n /\ q.seen = scheme[s]
        /\ request' = [request EXCEPT ![r] = q] /\ UNCHANGED <<scheme, unit, raced>>
    BY <1>0, <1>2, <2>1 DEF Update, Checked, Request, Count
  <2> QED
    BY <2>2, ChecksKeep
<1>3. ASSUME NEW r \in Requests, NEW s \in Schemes, NEW u \in UnitIds, NEW bps \in Share, CreateUnit(r, s, u, bps)
      PROVE  RegistryInv'
  <2>1. PICK q: q = [op |-> "createUnit", s |-> s, u |-> u, n |-> bps, seen |-> 0]
    OBVIOUS
  <2>2. /\ q \in Request /\ q.op = "createUnit" /\ q.s = s /\ q.u = u /\ q.n = bps
        /\ request' = [request EXCEPT ![r] = q] /\ UNCHANGED <<scheme, unit, raced>>
    BY <1>0, <1>3, <2>1 DEF CreateUnit, Checked, Request, Share
  <2> QED
    BY <2>2, ChecksKeep
<1>4. ASSUME NEW r \in Requests, NEW u \in UnitIds, NEW bps \in Share, UpdateUnit(r, u, bps)
      PROVE  RegistryInv'
  <2>1. PICK q: q = [op |-> "updateUnit", s |-> unit[u].scheme, u |-> u, n |-> bps, seen |-> unit[u].bps]
    OBVIOUS
  <2>2. unit[u].scheme \in Schemes /\ unit[u].bps \in Nat
    BY <1>0, <1>4 DEF UpdateUnit, Unit, Share
  <2>3. /\ q \in Request /\ q.op = "updateUnit" /\ q.s \in Schemes /\ q.u = u /\ q.n = bps /\ q.seen = unit[u].bps
        /\ request' = [request EXCEPT ![r] = q] /\ UNCHANGED <<scheme, unit, raced>>
    BY <1>0, <1>4, <2>1, <2>2 DEF UpdateUnit, Checked, Request, Share
  <2> QED
    BY <2>3, ChecksKeep
<1>5. ASSUME NEW r \in Requests, RequestFails(r) PROVE RegistryInv'
  <2>1. Idle \in Request /\ Idle.op = "idle"
    BY DEF Idle, Request
  <2>2. request' = [request EXCEPT ![r] = Idle] /\ UNCHANGED <<scheme, unit, raced>>
    BY <1>5 DEF RequestFails
  <2> QED
    BY <2>1, <2>2, ChecksKeep
<1>6. ASSUME NEW r \in Requests, NEW s \in Schemes, NEW n \in Count,
             CommitSetup(r, s, n) \/ Create(r, s, n)
      PROVE  RegistryInv'
  <2>1. Answered(r) /\ scheme' = [scheme EXCEPT ![s] = n] /\ unit' = unit
    BY <1>6 DEF CommitSetup, Create
  <2>2. n \in 0..MaxCount /\ n > 0
    BY <1>0 DEF Count
  <2>3. scheme' \in [Schemes -> 0..MaxCount]
    BY <1>0, <2>1, <2>2
  <2>4. \A u \in UnitIds: unit'[u] # NoUnitRow => unit'[u] \in Unit /\ scheme'[unit'[u].scheme] > 0
    BY <1>0, <2>1, <2>2 DEF GetScheme, Unit
  <2> QED
    BY <1>0, <2>1, <2>3, <2>4, WritesKeep
<1>7. ASSUME NEW r \in Requests, UpdateScheme(r) PROVE RegistryInv'
  <2>1. PICK s, n: s = request[r].s /\ n = request[r].n
    OBVIOUS
  <2>2. s \in Schemes /\ n \in Count
    BY <1>0, <1>7, <2>1 DEF CheckedOK, UpdateScheme
  <2>3. Answered(r) /\ scheme' = [scheme EXCEPT ![s] = n] /\ unit' = unit
    BY <1>7, <2>1 DEF UpdateScheme
  <2>4. n \in 0..MaxCount /\ n > 0
    BY <1>0, <2>2 DEF Count
  <2>5. scheme' \in [Schemes -> 0..MaxCount]
    BY <1>0, <2>2, <2>3, <2>4
  <2>6. \A u \in UnitIds: unit'[u] # NoUnitRow => unit'[u] \in Unit /\ scheme'[unit'[u].scheme] > 0
    BY <1>0, <2>2, <2>3, <2>4 DEF GetScheme, Unit
  <2> QED
    BY <1>0, <2>3, <2>5, <2>6, WritesKeep
<1>8. ASSUME NEW r \in Requests, NEW s \in Schemes, Delete(r, s) PROVE RegistryInv'
  <2>1. /\ Answered(r) /\ scheme' = [scheme EXCEPT ![s] = 0]
        /\ unit' = [u \in UnitIds |-> IF unit[u].scheme = s THEN NoUnitRow ELSE unit[u]]
    BY <1>8 DEF Delete
  <2>2. scheme' \in [Schemes -> 0..MaxCount]
    BY <1>0, <2>1
  <2>3. \A u \in UnitIds: unit'[u] # NoUnitRow => unit'[u] \in Unit /\ scheme'[unit'[u].scheme] > 0
    BY <1>0, <2>1 DEF GetScheme, Unit
  <2> QED
    BY <2>1, <2>2, <2>3, WritesKeep
<1>9. ASSUME NEW r \in Requests, InsertUnit(r) \/ WriteUnit(r) PROVE RegistryInv'
  <2>1. PICK s, u, n: s = request[r].s /\ u = request[r].u /\ n = request[r].n
    OBVIOUS
  <2>2. s \in Schemes /\ u \in UnitIds /\ n \in Share
    BY <1>0, <1>9, <2>1 DEF CheckedOK, InsertUnit, WriteUnit
  <2>3. Answered(r) /\ scheme' = scheme
    BY <1>9 DEF InsertUnit, WriteUnit
  <2>4. CASE InsertUnit(r)
    <3>1. PICK row: row = [scheme |-> s, bps |-> n]
      OBVIOUS
    <3>2. GetScheme(s) /\ unit' = [unit EXCEPT ![u] = row]
      BY <2>1, <2>4, <3>1 DEF InsertUnit
    <3>3. row \in Unit /\ row.scheme = s
      BY <2>2, <3>1 DEF Unit
    <3>4. \A v \in UnitIds: unit'[v] # NoUnitRow => unit'[v] \in Unit /\ scheme'[unit'[v].scheme] > 0
      BY <1>0, <2>2, <2>3, <3>2, <3>3 DEF GetScheme
    <3> QED
      BY <1>0, <2>3, <3>2, <3>4, WritesKeep
  <2>5. CASE WriteUnit(r)
    <3>1. PICK row: row = [unit[u] EXCEPT !.bps = n]
      OBVIOUS
    <3>2. unit[u] # NoUnitRow /\ unit' = [unit EXCEPT ![u] = row]
      BY <2>1, <2>5, <3>1 DEF WriteUnit
    <3>3. row \in Unit /\ row.scheme = unit[u].scheme /\ GetScheme(row.scheme)
      BY <1>0, <2>2, <3>1, <3>2 DEF Unit
    <3>4. \A v \in UnitIds: unit'[v] # NoUnitRow => unit'[v] \in Unit /\ scheme'[unit'[v].scheme] > 0
      BY <1>0, <2>2, <2>3, <3>2, <3>3 DEF GetScheme
    <3> QED
      BY <1>0, <2>3, <3>2, <3>4, WritesKeep
  <2> QED
    BY <1>9, <2>4, <2>5
<1>10. CASE UNCHANGED registryVars
  BY <1>10 DEF registryVars, RegistryInv, RegistryTypeOK, GetScheme, CheckedOK, SnapshotOK
<1> QED
  BY <1>1, <1>2, <1>3, <1>4, <1>5, <1>6, <1>7, <1>8, <1>9, <1>10 DEF RegistryNext

LEMMA RegistryInvariance == RegistrySpec => []RegistryInv
<1>1. RegistryInit => RegistryInv
  <2> SUFFICES ASSUME RegistryInit PROVE RegistryInv
    OBVIOUS
  <2>1. Idle \in Request /\ Idle.op = "idle"
    BY DEF Idle, Request
  <2>2. /\ scheme \in [Schemes -> 0..MaxCount] /\ request \in [Requests -> Request] /\ raced \in BOOLEAN
        /\ DOMAIN unit = UnitIds /\ \A u \in UnitIds: unit[u] = NoUnitRow
    <3>1. 0 \in 0..MaxCount
      BY RegistryAssumption
    <3> QED
      BY <2>1, <3>1 DEF RegistryInit
  <2>3. \A r \in Requests: request[r].op = "idle"
    BY <2>1 DEF RegistryInit
  <2>4. RegistryTypeOK
    BY <2>2 DEF RegistryTypeOK
  <2>5. \A r \in Requests: CheckedOK(r) /\ SnapshotOK(r)
    BY <2>3 DEF CheckedOK, SnapshotOK
  <2> QED
    BY <2>2, <2>4, <2>5 DEF RegistryInv
<1> QED
  BY <1>1, RegistryStep, PTL DEF RegistrySpec

(* Units belong to schemes there are, whichever requests race a deletion   *)
(* (scheme.Delete, scheme.CreateUnit).                                     *)
THEOREM RegistryTypeCorrect == RegistrySpec => []RegistryTypeOK
<1>1. RegistryInv => RegistryTypeOK
  BY DEF RegistryInv
<1> QED
  BY <1>1, RegistryInvariance, PTL

(* An audit event tells what its write replaced, if no other request was   *)
(* under way, and no deletion takes an event away.                         *)
THEOREM TrailKept == RegistrySpec => TrailIsKept
<1>1. RegistryInv /\ RegistryNext => EventsTell /\ HistoryStays
  <2> SUFFICES ASSUME RegistryInv, RegistryNext PROVE EventsTell /\ HistoryStays
    OBVIOUS
  <2>0. /\ scheme \in [Schemes -> 0..MaxCount] /\ DOMAIN unit = UnitIds
        /\ \A r \in Requests: CheckedOK(r)
        /\ ~raced => \A r \in Requests: SnapshotOK(r)
        /\ \A s \in Schemes, u \in UnitIds: s # u
    BY RegistryAssumption DEF RegistryInv, RegistryTypeOK
  <2>1. ASSUME NEW s, NEW a, NEW id, NEW before, NEW after, RecordResourceEvent(Event(s, a, id, before, after)),
               ~raced' => Value(s, id) = before /\ Value(s, id)' = after
        PROVE  EventsTell /\ trail \subseteq trail'
    <3>1. PICK e: e = Event(s, a, id, before, after)
      OBVIOUS
    <3>2. e.scheme = s /\ e.id = id /\ e.before = before /\ e.after = after
      BY <3>1 DEF Event
    <3>3. trail' = trail \/ trail' = trail \cup {e}
      BY <2>1, <3>1 DEF RecordResourceEvent
    <3> QED
      BY <2>1, <3>2, <3>3 DEF EventsTell
  <2>2. ASSUME trail' = trail PROVE EventsTell /\ trail \subseteq trail'
    BY <2>2 DEF EventsTell
  <2>3. trail \subseteq trail' => HistoryStays
    BY DEF HistoryStays, ListSchemeEvents, listEventsForDeletedScheme, ListResourceAuditEventsByScheme
  <2>4. ASSUME NEW r \in Requests, NEW s \in Schemes, NEW n \in Count, Create(r, s, n)
        PROVE  EventsTell /\ trail \subseteq trail'
    <3>1. Value(s, s) = 0 /\ Value(s, s)' = n
      BY <2>0, <2>4 DEF Create, GetScheme, Value
    <3> QED
      BY <2>1, <2>4, <3>1 DEF Create
  <2>5. ASSUME NEW r \in Requests, UpdateScheme(r)
        PROVE  EventsTell /\ trail \subseteq trail'
    <3>1. PICK q: q = request[r]
      OBVIOUS
    <3>2. /\ q.s \in Schemes /\ (~raced => q.seen = scheme[q.s]) /\ (raced => raced')
          /\ scheme' = [scheme EXCEPT ![q.s] = q.n]
          /\ RecordResourceEvent(Event(q.s, "scheme.updated", q.s, q.seen, q.n))
      BY <2>0, <2>5, <3>1 DEF UpdateScheme, CheckedOK, SnapshotOK, Answered, Overtakes, BeforeState
    <3>3. ~raced' => Value(q.s, q.s) = q.seen /\ Value(q.s, q.s)' = q.n
      BY <2>0, <3>2 DEF Value
    <3> QED
      BY <2>1, <3>2, <3>3
  <2>6. ASSUME NEW r \in Requests, NEW s \in Schemes, Delete(r, s)
        PROVE  EventsTell /\ trail \subseteq trail'
    <3>1. Value(s, s) = scheme[s] /\ Value(s, s)' = 0
      BY <2>0, <2>6 DEF Delete, Value
    <3> QED
      BY <2>1, <2>6, <3>1 DEF Delete
  <2>7. ASSUME NEW r \in Requests, InsertUnit(r)
        PROVE  EventsTell /\ trail \subseteq trail'
    <3>1. PICK q: q = request[r]
      OBVIOUS
    <3>2. /\ q.s \in Schemes /\ q.u \in UnitIds /\ unit[q.u] = NoUnitRow
          /\ unit' = [unit EXCEPT ![q.u] = [scheme |-> q.s, bps |-> q.n]]
          /\ RecordResourceEvent(Event(q.s, "unit.created", q.u, 0, q.n))
      BY <2>0, <2>7, <3>1 DEF InsertUnit, CheckedOK
    <3>3. Value(q.s, q.u) = 0 /\ Value(q.s, q.u)' = q.n
      BY <2>0, <3>2 DEF Value, NoUnitRow
    <3> QED
      BY <2>1, <3>2, <3>3
  <2>8. ASSUME NEW r \in Requests, WriteUnit(r)
        PROVE  EventsTell /\ trail \subseteq trail'
    <3>1. PICK q: q = request[r]
      OBVIOUS
    <3>2. /\ q.s \in Schemes /\ q.u \in UnitIds /\ (~raced => q.seen = unit[q.u].bps) /\ (raced => raced')
          /\ unit' = [unit EXCEPT ![q.u].bps = q.n] /\ unit[q.u] # NoUnitRow
          /\ RecordResourceEvent(Event(q.s, "unit.updated", q.u, q.seen, q.n))
      BY <2>0, <2>8, <3>1 DEF WriteUnit, CheckedOK, SnapshotOK, Answered, Overtakes, BeforeState
    <3>3. unit[q.u] \in Unit
      BY <3>2 DEF RegistryInv, RegistryTypeOK
    <3>4. ~raced' => Value(q.s, q.u) = q.seen /\ Value(q.s, q.u)' = q.n
      BY <2>0, <3>2, <3>3 DEF Value, Unit
    <3> QED
      BY <2>1, <3>2, <3>4
  <2> QED
    BY <2>2, <2>3, <2>4, <2>5, <2>6, <2>7, <2>8
       DEF RegistryNext, Setup, CommitSetup, Update, CreateUnit, UpdateUnit, RequestFails, Checked
<1> QED
  BY <1>1, RegistryInvariance, PTL DEF RegistrySpec, TrailIsKept

(***************************************************************************)
(* The quotas.  While nothing has raced, every scheme's units fit, and     *)
(* what a request found room for when it looked still fits.                *)
(***************************************************************************)
Fits(s) == SumSectionValuesByScheme(s) <= Whole /\ Cardinality(ListUnitsByScheme(s)) <= scheme[s]

StillFits(q) ==
  /\ q.op = "update" => FitsUnits(q.s, q.n)
  /\ q.op = "createUnit" => RoomForUnit(q.s, q.n)
  /\ q.op = "updateUnit" /\ q.n # unit[q.u].bps => adjustedTotal(q.u, q.n) <= Whole

QuotaInv == ~raced => (\A s \in Schemes: Fits(s)) /\ \A r \in Requests: StillFits(request[r])

(* The units of a scheme are finitely many, of whole shares.               *)
LEMMA UnitsAreCounted ==
  ASSUME RegistryInv, NEW s \in Schemes
  PROVE  /\ IsFiniteSet(ListUnitsByScheme(s)) /\ Cardinality(ListUnitsByScheme(s)) \in Nat
         /\ \A u \in ListUnitsByScheme(s): u \in UnitIds /\ unit[u] \in Unit /\ unit[u].bps \in Nat
         /\ SumSectionValuesByScheme(s) \in Nat
<1>1. IsFiniteSet(ListUnitsByScheme(s))
  BY RegistryAssumption, FS_Subset DEF ListUnitsByScheme
<1>2. ASSUME NEW u \in ListUnitsByScheme(s)
      PROVE  u \in UnitIds /\ unit[u] \in Unit /\ unit[u].bps \in Nat
  <2>1. u \in UnitIds /\ unit[u].scheme = s
    BY DEF ListUnitsByScheme
  <2>2. unit[u] # NoUnitRow
    BY <2>1, RegistryAssumption DEF NoUnitRow
  <2>3. unit[u] \in Unit
    BY <2>1, <2>2 DEF RegistryInv, RegistryTypeOK
  <2> QED
    BY <2>1, <2>3, RegistryAssumption DEF Unit, Share
<1>3. SumSectionValuesByScheme(s) \in Nat
  <2> DEFINE f == [u \in UnitIds |-> unit[u].bps]
  <2>1. \A u \in ListUnitsByScheme(s): f[u] \in Nat
    BY <1>2
  <2>2. SumSectionValuesByScheme(s) = SumFunctionOnSet(f, ListUnitsByScheme(s))
    BY DEF SumSectionValuesByScheme, SumOf
  <2> HIDE DEF f
  <2> QED
    BY <1>1, <2>1, <2>2, SumIsNat
<1> QED
  BY <1>1, <1>2, <1>3, FS_CardinalityType

(* A scheme whose units are left alone has the sum it had.                 *)
LEMMA SumLeftAlone ==
  ASSUME RegistryInv, NEW s \in Schemes, ListUnitsByScheme(s)' = ListUnitsByScheme(s),
         \A u \in ListUnitsByScheme(s): unit'[u].bps = unit[u].bps
  PROVE  SumSectionValuesByScheme(s)' = SumSectionValuesByScheme(s)
<1> DEFINE f == [u \in UnitIds |-> unit[u].bps]
           g == [u \in UnitIds |-> unit'[u].bps]
           us == ListUnitsByScheme(s)
<1>1. IsFiniteSet(us) /\ \A u \in us: f[u] = g[u]
  BY UnitsAreCounted
<1>2. SumSectionValuesByScheme(s) = SumFunctionOnSet(f, us) /\ SumSectionValuesByScheme(s)' = SumFunctionOnSet(g, us)
  BY DEF SumSectionValuesByScheme, SumOf
<1> HIDE DEF f, g, us
<1> QED
  BY <1>1, <1>2, SumAgrees

(* One unit more, or another quota for one.                                *)
LEMMA SumOfInserted ==
  ASSUME RegistryInv, RegistryInv', NEW s \in Schemes, NEW u \in UnitIds, NEW n \in Nat,
         unit[u] = NoUnitRow, unit' = [unit EXCEPT ![u] = [scheme |-> s, bps |-> n]]
  PROVE  /\ SumSectionValuesByScheme(s)' = SumSectionValuesByScheme(s) + n
         /\ Cardinality(ListUnitsByScheme(s))' = Cardinality(ListUnitsByScheme(s)) + 1
         /\ \A t \in Schemes \ {s}: ListUnitsByScheme(t)' = ListUnitsByScheme(t)
<1> DEFINE f == [v \in UnitIds |-> unit[v].bps]
           g == [v \in UnitIds |-> unit'[v].bps]
           us == ListUnitsByScheme(s)
<1>0. DOMAIN unit = UnitIds /\ "none" \notin Schemes
  BY RegistryAssumption DEF RegistryInv
<1>1. /\ unit'[u] = [scheme |-> s, bps |-> n] /\ \A v \in UnitIds \ {u}: unit'[v] = unit[v]
  BY <1>0
<1>2. u \notin us /\ ListUnitsByScheme(s)' = us \cup {u}
  BY <1>0, <1>1 DEF ListUnitsByScheme, NoUnitRow
<1>3. \A t \in Schemes \ {s}: ListUnitsByScheme(t)' = ListUnitsByScheme(t)
  BY <1>0, <1>1 DEF ListUnitsByScheme, NoUnitRow
<1>4. /\ IsFiniteSet(us) /\ \A v \in us: f[v] = g[v] /\ f[v] \in Nat
      /\ \A v \in us \cup {u}: g[v] \in Int /\ g[u] = n
  BY <1>1, <1>2, UnitsAreCounted
<1>5. /\ SumSectionValuesByScheme(s) = SumFunctionOnSet(f, us)
      /\ SumSectionValuesByScheme(s)' = SumFunctionOnSet(g, us \cup {u})
  BY <1>2 DEF SumSectionValuesByScheme, SumOf
<1>6. Cardinality(us \cup {u}) = Cardinality(us) + 1
  BY <1>2, <1>4, FS_AddElement
<1> HIDE DEF f, g, us
<1>7. SumFunctionOnSet(g, us \cup {u}) = SumFunctionOnSet(g, us) + g[u]
  BY <1>2, <1>4, SumWithOneMore
<1>8. SumFunctionOnSet(g, us) = SumFunctionOnSet(f, us)
  BY <1>4, SumAgrees
<1> QED
  BY <1>2, <1>3, <1>4, <1>5, <1>6, <1>7, <1>8 DEF us

LEMMA SumOfUpdated ==
  ASSUME RegistryInv, NEW s \in Schemes, NEW u \in UnitIds, NEW n \in Nat,
         unit[u].scheme = s, unit' = [unit EXCEPT ![u].bps = n]
  PROVE  /\ SumSectionValuesByScheme(s)' = (SumSectionValuesByScheme(s) - unit[u].bps) + n
         /\ \A t \in Schemes: ListUnitsByScheme(t)' = ListUnitsByScheme(t)
         /\ \A t \in Schemes \ {s}, v \in UnitIds: v \in ListUnitsByScheme(t) => unit'[v] = unit[v]
<1> DEFINE f == [v \in UnitIds |-> unit[v].bps]
           g == [v \in UnitIds |-> unit'[v].bps]
           us == ListUnitsByScheme(s)
<1>0. DOMAIN unit = UnitIds
  BY DEF RegistryInv
<1>1. u \in us /\ \A v \in us: u \in UnitIds /\ unit[v] \in Unit
  BY UnitsAreCounted DEF ListUnitsByScheme
<1>2. /\ unit'[u].bps = n /\ unit'[u].scheme = s /\ \A v \in UnitIds \ {u}: unit'[v] = unit[v]
  BY <1>0, <1>1 DEF Unit
<1>3. \A t \in Schemes: ListUnitsByScheme(t)' = ListUnitsByScheme(t)
  BY <1>2 DEF ListUnitsByScheme
<1>4. \A t \in Schemes \ {s}, v \in UnitIds: v \in ListUnitsByScheme(t) => unit'[v] = unit[v]
  BY <1>2 DEF ListUnitsByScheme
<1>5. /\ IsFiniteSet(us) /\ \A v \in us \ {u}: f[v] = g[v]
      /\ \A v \in us: f[v] \in Int /\ g[v] \in Int
      /\ f[u] = unit[u].bps /\ g[u] = n
  BY <1>2, UnitsAreCounted
<1>6. /\ SumSectionValuesByScheme(s) = SumFunctionOnSet(f, us)
      /\ SumSectionValuesByScheme(s)' = SumFunctionOnSet(g, us)
  BY <1>3 DEF SumSectionValuesByScheme, SumOf
<1> HIDE DEF f, g, us
<1>7. SumFunctionOnSet(f, us) = f[u] + SumFunctionOnSet(f, us \ {u})
  BY <1>1, <1>5, SumWithout
<1>8. SumFunctionOnSet(g, us) = g[u] + SumFunctionOnSet(g, us \ {u})
  BY <1>1, <1>5, SumWithout
<1>9. IsFiniteSet(us \ {u})
  BY <1>5, FS_Subset
<1>10. /\ SumFunctionOnSet(f, us \ {u}) = SumFunctionOnSet(g, us \ {u})
       /\ SumFunctionOnSet(f, us \ {u}) \in Int
  BY <1>5, <1>9, SumAgrees, SumIsInt
<1>11. f[u] \in Int /\ g[u] = n /\ f[u] = unit[u].bps
  BY <1>1, <1>5
<1> QED
  BY <1>3, <1>4, <1>6, <1>7, <1>8, <1>10, <1>11

(* What requests have found stays so while nothing is written.             *)
LEMMA LooksKeepQuotas ==
  ASSUME RegistryInv, QuotaInv, NEW r \in Requests, NEW q, request' = [request EXCEPT ![r] = q],
         UNCHANGED <<scheme, unit, raced>>, StillFits(q)
  PROVE  QuotaInv'
<1>1. request \in [Requests -> Request]
  BY DEF RegistryInv, RegistryTypeOK
<1>2. \A p \in Requests: request'[p] = IF p = r THEN q ELSE request[p]
  BY <1>1
<1>3. /\ \A s: SumSectionValuesByScheme(s)' = SumSectionValuesByScheme(s)
      /\ \A s: ListUnitsByScheme(s)' = ListUnitsByScheme(s)
  BY DEF SumSectionValuesByScheme, SumOf, ListUnitsByScheme
<1>4. \A s \in Schemes: Fits(s)' <=> Fits(s)
  BY <1>3 DEF Fits
<1>5. ASSUME NEW p \in Requests, StillFits(request[p]) \/ p = r
      PROVE  StillFits(request[p])'
  <2>1. PICK x: x = request'[p]
    OBVIOUS
  <2>2. StillFits(x)
    BY <1>2, <1>5, <2>1
  <2> QED
    BY <1>3, <2>1, <2>2 DEF StillFits, FitsUnits, RoomForUnit, adjustedTotal
<1> QED
  BY <1>4, <1>5 DEF QuotaInv

(* A write that overtakes nobody leaves no request behind.                 *)
LEMMA WritesKeepQuotas ==
  ASSUME RegistryInv, QuotaInv, NEW r \in Requests, Answered(r),
         ~raced' => \A s \in Schemes: Fits(s)'
  PROVE  QuotaInv'
<1>1. request \in [Requests -> Request]
  BY DEF RegistryInv, RegistryTypeOK
<1>2. /\ request' = [request EXCEPT ![r] = Idle]
      /\ raced' = (raced \/ \E q \in Requests \ {r}: request[q] # Idle)
  BY DEF Answered, Overtakes
<1>3. ~raced' => \A p \in Requests: request'[p] = Idle
  BY <1>1, <1>2
<1>4. ASSUME NEW p \in Requests, ~raced' PROVE StillFits(request[p])'
  BY <1>3, <1>4 DEF StillFits, Idle
<1> QED
  BY <1>4 DEF QuotaInv

LEMMA QuotaStep == RegistryInv /\ RegistryInv' /\ QuotaInv /\ [RegistryNext]_registryVars => QuotaInv'
<1> SUFFICES ASSUME RegistryInv, RegistryInv', QuotaInv, [RegistryNext]_registryVars PROVE QuotaInv'
  OBVIOUS
<1>0. /\ scheme \in [Schemes -> 0..MaxCount] /\ DOMAIN unit = UnitIds
      /\ request \in [Requests -> Request] /\ MaxCount \in Nat /\ Whole \in Nat
      /\ \A u \in UnitIds: unit[u] # NoUnitRow => unit[u] \in Unit /\ GetScheme(unit[u].scheme)
      /\ \A r \in Requests: CheckedOK(r)
  BY RegistryAssumption DEF RegistryInv, RegistryTypeOK
(* The looks.                                                              *)
<1>1. ASSUME NEW r \in Requests, Setup(r) PROVE QuotaInv'
  <2>1. PICK q: q = [op |-> "setup", s |-> "none", u |-> "none", n |-> 0, seen |-> 0]
    OBVIOUS
  <2>2. request' = [request EXCEPT ![r] = q] /\ UNCHANGED <<scheme, unit, raced>> /\ StillFits(q)
    BY <1>1, <2>1 DEF Setup, Checked, StillFits
  <2> QED
    BY <2>2, LooksKeepQuotas
<1>2. ASSUME NEW r \in Requests, NEW s \in Schemes, NEW n \in Count, Update(r, s, n) PROVE QuotaInv'
  <2>1. PICK q: q = [op |-> "update", s |-> s, u |-> "none", n |-> n, seen |-> scheme[s]]
    OBVIOUS
  <2>2. request' = [request EXCEPT ![r] = q] /\ UNCHANGED <<scheme, unit, raced>> /\ StillFits(q)
    BY <1>2, <2>1 DEF Update, Checked, StillFits
  <2> QED
    BY <2>2, LooksKeepQuotas
<1>3. ASSUME NEW r \in Requests, NEW s \in Schemes, NEW u \in UnitIds, NEW bps \in Share, CreateUnit(r, s, u, bps)
      PROVE  QuotaInv'
  <2>1. PICK q: q = [op |-> "createUnit", s |-> s, u |-> u, n |-> bps, seen |-> 0]
    OBVIOUS
  <2>2. request' = [request EXCEPT ![r] = q] /\ UNCHANGED <<scheme, unit, raced>> /\ StillFits(q)
    BY <1>3, <2>1 DEF CreateUnit, Checked, StillFits
  <2> QED
    BY <2>2, LooksKeepQuotas
<1>4. ASSUME NEW r \in Requests, NEW u \in UnitIds, NEW bps \in Share, UpdateUnit(r, u, bps)
      PROVE  QuotaInv'
  <2>1. PICK q: q = [op |-> "updateUnit", s |-> unit[u].scheme, u |-> u, n |-> bps, seen |-> unit[u].bps]
    OBVIOUS
  <2>2. request' = [request EXCEPT ![r] = q] /\ UNCHANGED <<scheme, unit, raced>> /\ StillFits(q)
    BY <1>4, <2>1 DEF UpdateUnit, Checked, StillFits
  <2> QED
    BY <2>2, LooksKeepQuotas
<1>5. ASSUME NEW r \in Requests, RequestFails(r) PROVE QuotaInv'
  <2>1. request' = [request EXCEPT ![r] = Idle] /\ UNCHANGED <<scheme, unit, raced>> /\ StillFits(Idle)
    BY <1>5 DEF RequestFails, StillFits, Idle
  <2> QED
    BY <2>1, LooksKeepQuotas
(* The writes.                                                             *)
<1>6. ASSUME NEW s \in Schemes, NEW n \in Count, unit' = unit, scheme' = [scheme EXCEPT ![s] = n],
             raced => raced', ~raced => Cardinality(ListUnitsByScheme(s)) <= n
      PROVE  ~raced' => \A t \in Schemes: Fits(t)'
  <2>1. /\ \A t: SumSectionValuesByScheme(t)' = SumSectionValuesByScheme(t)
        /\ \A t: ListUnitsByScheme(t)' = ListUnitsByScheme(t)
    BY <1>6 DEF SumSectionValuesByScheme, SumOf, ListUnitsByScheme
  <2>2. \A t \in Schemes: scheme'[t] = IF t = s THEN n ELSE scheme[t]
    BY <1>0, <1>6
  <2> QED
    BY <1>6, <2>1, <2>2 DEF Fits, QuotaInv
<1>7. ASSUME NEW r \in Requests, NEW s \in Schemes, NEW n \in Count,
             CommitSetup(r, s, n) \/ Create(r, s, n)
      PROVE  QuotaInv'
  <2>1. /\ Answered(r) /\ scheme' = [scheme EXCEPT ![s] = n] /\ unit' = unit /\ ~GetScheme(s)
        /\ raced => raced'
    BY <1>7 DEF CommitSetup, Create, Answered, Overtakes
  <2>2. ASSUME NEW u \in ListUnitsByScheme(s) PROVE FALSE
    <3>1. u \in UnitIds /\ unit[u].scheme = s
      BY DEF ListUnitsByScheme
    <3>2. unit[u] # NoUnitRow
      BY <3>1, RegistryAssumption DEF NoUnitRow
    <3> QED
      BY <1>0, <2>1, <3>1, <3>2
  <2>3. Cardinality(ListUnitsByScheme(s)) = 0
    BY <2>2, FS_EmptySet
  <2>4. Cardinality(ListUnitsByScheme(s)) <= n
    BY <1>0, <2>3 DEF Count
  <2> QED
    BY <1>6, <2>1, <2>4, WritesKeepQuotas
<1>8. ASSUME NEW r \in Requests, UpdateScheme(r) PROVE QuotaInv'
  <2>1. PICK s, n: s = request[r].s /\ n = request[r].n
    OBVIOUS
  <2>2. s \in Schemes /\ n \in Count
    BY <1>0, <1>8, <2>1 DEF CheckedOK, UpdateScheme
  <2>3. Answered(r) /\ scheme' = [scheme EXCEPT ![s] = n] /\ unit' = unit /\ (raced => raced')
    BY <1>8, <2>1 DEF UpdateScheme, Answered, Overtakes
  <2>4. ~raced => Cardinality(ListUnitsByScheme(s)) <= n
    BY <1>0, <1>8, <2>1, <2>2, UnitsAreCounted DEF QuotaInv, Fits, StillFits, FitsUnits, UpdateScheme, Count
  <2> QED
    BY <1>6, <2>2, <2>3, <2>4, WritesKeepQuotas
<1>9. ASSUME NEW r \in Requests, NEW s \in Schemes, Delete(r, s) PROVE QuotaInv'
  <2>1. /\ Answered(r) /\ scheme' = [scheme EXCEPT ![s] = 0] /\ (raced => raced')
        /\ unit' = [u \in UnitIds |-> IF unit[u].scheme = s THEN NoUnitRow ELSE unit[u]]
    BY <1>9 DEF Delete, Answered, Overtakes
  <2>2. ListUnitsByScheme(s)' = {}
    BY <2>1, RegistryAssumption DEF ListUnitsByScheme, NoUnitRow
  <2>3. SumSectionValuesByScheme(s)' = 0 /\ Cardinality(ListUnitsByScheme(s)') = 0
    BY <2>2, SumOfNothing, FS_EmptySet DEF SumSectionValuesByScheme, SumOf
  <2>4. Fits(s)'
    BY <1>0, <2>1, <2>3 DEF Fits
  <2>5. ASSUME NEW t \in Schemes \ {s}, ~raced PROVE Fits(t)'
    <3>1. ListUnitsByScheme(t)' = ListUnitsByScheme(t)
      BY <2>1, RegistryAssumption DEF ListUnitsByScheme, NoUnitRow
    <3>2. \A u \in ListUnitsByScheme(t): unit'[u].bps = unit[u].bps
      BY <2>1 DEF ListUnitsByScheme
    <3>3. SumSectionValuesByScheme(t)' = SumSectionValuesByScheme(t)
      BY <3>1, <3>2, SumLeftAlone
    <3>4. scheme'[t] = scheme[t]
      BY <1>0, <2>1
    <3> QED
      BY <2>5, <3>1, <3>3, <3>4 DEF Fits, QuotaInv
  <2> QED
    BY <2>1, <2>4, <2>5, WritesKeepQuotas
<1>10. ASSUME NEW r \in Requests, InsertUnit(r) PROVE QuotaInv'
  <2>1. PICK s, u, n: s = request[r].s /\ u = request[r].u /\ n = request[r].n
    OBVIOUS
  <2>2. s \in Schemes /\ u \in UnitIds /\ n \in Share /\ n \in Nat
    BY <1>0, <1>10, <2>1 DEF CheckedOK, InsertUnit, Share
  <2>3. /\ Answered(r) /\ scheme' = scheme /\ (raced => raced') /\ unit[u] = NoUnitRow
        /\ unit' = [unit EXCEPT ![u] = [scheme |-> s, bps |-> n]]
    BY <1>10, <2>1 DEF InsertUnit, Answered, Overtakes
  <2>4. ~raced => RoomForUnit(s, n)
    BY <1>10, <2>1 DEF QuotaInv, StillFits, InsertUnit
  <2>5. /\ SumSectionValuesByScheme(s)' = SumSectionValuesByScheme(s) + n
        /\ Cardinality(ListUnitsByScheme(s))' = Cardinality(ListUnitsByScheme(s)) + 1
        /\ \A t \in Schemes \ {s}: ListUnitsByScheme(t)' = ListUnitsByScheme(t)
    BY <2>2, <2>3, SumOfInserted
  <2>6. ~raced => Fits(s)'
    BY <1>0, <2>2, <2>3, <2>4, <2>5, UnitsAreCounted DEF Fits, RoomForUnit
  <2>7. ASSUME NEW t \in Schemes \ {s}, ~raced PROVE Fits(t)'
    <3>1. u \notin ListUnitsByScheme(t)
      BY <2>3, RegistryAssumption DEF ListUnitsByScheme, NoUnitRow
    <3>2. \A v \in ListUnitsByScheme(t): unit'[v].bps = unit[v].bps
      BY <1>0, <2>3, <3>1 DEF ListUnitsByScheme
    <3>3. SumSectionValuesByScheme(t)' = SumSectionValuesByScheme(t)
      BY <2>5, <3>2, SumLeftAlone
    <3> QED
      BY <2>3, <2>5, <2>7, <3>3 DEF Fits, QuotaInv
  <2> QED
    BY <2>3, <2>6, <2>7, WritesKeepQuotas
<1>11. ASSUME NEW r \in Requests, WriteUnit(r) PROVE QuotaInv'
  <2>1. PICK s, u, n: u = request[r].u /\ n = request[r].n /\ s = unit[u].scheme
    OBVIOUS
  <2>2. u \in UnitIds /\ n \in Share /\ n \in Nat
    BY <1>0, <1>11, <2>1 DEF CheckedOK, WriteUnit, Share
  <2>3. /\ Answered(r) /\ scheme' = scheme /\ (raced => raced') /\ unit[u] # NoUnitRow
        /\ unit' = [unit EXCEPT ![u].bps = n]
    BY <1>11, <2>1 DEF WriteUnit, Answered, Overtakes
  <2>4. s \in Schemes /\ unit[u].bps \in Nat
    BY <1>0, <2>1, <2>2, <2>3 DEF Unit, Share
  <2>5. /\ SumSectionValuesByScheme(s)' = (SumSectionValuesByScheme(s) - unit[u].bps) + n
        /\ \A t \in Schemes: ListUnitsByScheme(t)' = ListUnitsByScheme(t)
        /\ \A t \in Schemes \ {s}, v \in UnitIds: v \in ListUnitsByScheme(t) => unit'[v] = unit[v]
    BY <2>1, <2>2, <2>3, <2>4, SumOfUpdated
  <2>6. ~raced => (n # unit[u].bps => adjustedTotal(u, n) <= Whole)
    BY <1>11, <2>1 DEF QuotaInv, StillFits, WriteUnit
  <2>7. ~raced => Fits(s)'
    BY <1>0, <2>1, <2>2, <2>3, <2>4, <2>5, <2>6, UnitsAreCounted DEF Fits, QuotaInv, adjustedTotal
  <2>8. ASSUME NEW t \in Schemes \ {s}, ~raced PROVE Fits(t)'
    <3>1. \A v \in ListUnitsByScheme(t): unit'[v].bps = unit[v].bps
      BY <2>5 DEF ListUnitsByScheme
    <3>2. SumSectionValuesByScheme(t)' = SumSectionValuesByScheme(t)
      BY <2>5, <3>1, SumLeftAlone
    <3> QED
      BY <2>3, <2>5, <2>8, <3>2 DEF Fits, QuotaInv
  <2> QED
    BY <2>3, <2>7, <2>8, WritesKeepQuotas
<1>12. CASE UNCHANGED registryVars
  <2>1. UNCHANGED <<scheme, unit, raced, request>>
    BY <1>12 DEF registryVars
  <2>2. /\ \A s: SumSectionValuesByScheme(s)' = SumSectionValuesByScheme(s)
        /\ \A s: ListUnitsByScheme(s)' = ListUnitsByScheme(s)
    BY <2>1 DEF SumSectionValuesByScheme, SumOf, ListUnitsByScheme
  <2> QED
    BY <2>1, <2>2 DEF QuotaInv, Fits, StillFits, FitsUnits, RoomForUnit, adjustedTotal
<1> QED
  BY <1>1, <1>2, <1>3, <1>4, <1>5, <1>7, <1>8, <1>9, <1>10, <1>11, <1>12 DEF RegistryNext

(* While requests come one at a time, no scheme has more units than it     *)
(* says, and their quotas never add up to more than the whole, however     *)
(* many units there are (scheme.CreateUnit, UpdateUnit, Update).           *)
THEOREM QuotasAlwaysFit == RegistrySpec => []QuotasFit
<1>1. RegistryInit => QuotaInv
  <2> SUFFICES ASSUME RegistryInit PROVE QuotaInv
    OBVIOUS
  <2>1. ASSUME NEW s \in Schemes PROVE Fits(s)
    <3>1. ListUnitsByScheme(s) = {}
      BY RegistryAssumption DEF RegistryInit, ListUnitsByScheme, NoUnitRow
    <3>2. SumSectionValuesByScheme(s) = 0 /\ Cardinality(ListUnitsByScheme(s)) = 0
      BY <3>1, SumOfNothing, FS_EmptySet DEF SumSectionValuesByScheme, SumOf
    <3> QED
      BY <3>2, RegistryAssumption DEF Fits, RegistryInit
  <2>2. \A r \in Requests: StillFits(request[r])
    BY DEF RegistryInit, StillFits, Idle
  <2> QED
    BY <2>1, <2>2 DEF QuotaInv
<1>2. QuotaInv => QuotasFit
  BY DEF QuotaInv, QuotasFit, Fits
<1> QED
  BY <1>1, <1>2, QuotaStep, RegistryInvariance, PTL DEF RegistrySpec

(***************************************************************************)
(* Billing.  Nobody is entitled but on the provider's word, for any number *)
(* of organisations, calls and events: a status that entitles is copied,   *)
(* never made up.  It gets into a row from an event of the organisation or *)
(* from a row read before; what a call has read or is about to apply is    *)
(* therefore part of the invariant, and the provider takes nothing back of *)
(* what it has sent.                                                       *)
(***************************************************************************)
(* The provider's word for an organisation.                                *)
Word(o) == \E i \in News(o): sent[i].status \in EntitledStatus

Checkout == [op: {"checkout"}, org: Payers, read: Subscription]
Webhook == [op: {"webhook"}, org: Payers, event: Nat, read: Subscription]

CallOK(c) ==
  \/ c = Waiting
  \/ c \in Checkout
  \/ c \in Webhook /\ c.event \in DOMAIN sent /\ sent[c.event].org = c.org

(* What a call has read was true.                                          *)
ReadOK(c) == c # Waiting /\ c.read.status \in EntitledStatus => Word(c.org)

RowsOK == \A o \in Payers: subscription[o].status \in EntitledStatus => Word(o)

CallsOK ==
  /\ DOMAIN call = Calls
  /\ \A h \in Calls: CallOK(call[h]) /\ ReadOK(call[h])

BillingInv == BillingTypeOK /\ CallsOK /\ RowsOK

(* Appending an event takes no word back and moves no event.               *)
LEMMA SendKeeps ==
  ASSUME BillingInv, NEW event \in WebhookEvent, Sends(event)
  PROVE  /\ sent' \in Seq(WebhookEvent) /\ Len(sent') <= MaxSent
         /\ DOMAIN sent \subseteq DOMAIN sent'
         /\ \A i \in DOMAIN sent: sent'[i] = sent[i]
         /\ \A o \in Payers: Word(o) => Word(o)'
<1>1. /\ sent \in Seq(WebhookEvent) /\ MaxSent \in Nat
      /\ Len(sent) < MaxSent /\ sent' = Append(sent, event)
  BY BillingAssumption DEF BillingInv, BillingTypeOK, Sends
<1>2. /\ sent' \in Seq(WebhookEvent) /\ Len(sent') <= MaxSent
      /\ DOMAIN sent \subseteq DOMAIN sent'
      /\ \A i \in DOMAIN sent: sent'[i] = sent[i]
  BY <1>1
<1>3. ASSUME NEW o \in Payers, Word(o)
      PROVE  Word(o)'
  <2>1. PICK i \in News(o): sent[i].status \in EntitledStatus
    BY <1>3 DEF Word
  <2>2. i \in DOMAIN sent' /\ sent'[i] = sent[i]
    BY <1>2, <2>1 DEF News
  <2>3. i \in News(o)'
    BY <2>1, <2>2 DEF News
  <2> QED
    BY <2>1, <2>2, <2>3 DEF Word
<1> QED
  BY <1>2, <1>3

(* A step that sends an event and leaves rows and calls alone keeps them.  *)
LEMMA CallsSurviveSend ==
  ASSUME BillingInv, NEW event \in WebhookEvent, Sends(event),
         UNCHANGED <<subscription, call>>
  PROVE  CallsOK' /\ RowsOK'
<1>1. /\ DOMAIN sent \subseteq DOMAIN sent'
      /\ \A i \in DOMAIN sent: sent'[i] = sent[i]
      /\ \A o \in Payers: Word(o) => Word(o)'
  BY SendKeeps
<1>2. ASSUME NEW h \in Calls
      PROVE  CallOK(call[h])' /\ ReadOK(call[h])'
  <2>1. CallOK(call[h]) /\ ReadOK(call[h])
    BY DEF BillingInv, CallsOK
  <2>2. CallOK(call[h])'
    BY <1>1, <2>1 DEF CallOK
  <2>3. call[h] # Waiting => call[h].org \in Payers
    BY <2>1 DEF CallOK, Checkout, Webhook
  <2> QED
    BY <1>1, <2>1, <2>2, <2>3 DEF ReadOK
<1>3. RowsOK'
  BY <1>1 DEF BillingInv, RowsOK
<1> QED
  BY <1>2, <1>3 DEF BillingInv, CallsOK

(* A step that leaves rows and events alone and one call with a good value *)
(* keeps the calls and the rows.                                           *)
LEMMA OneCallChanges ==
  ASSUME BillingInv, NEW h \in Calls, NEW c,
         call' = [call EXCEPT ![h] = c], UNCHANGED sent,
         CallOK(c), ReadOK(c)
  PROVE  CallsOK'
<1>1. DOMAIN call' = Calls
  BY DEF BillingInv, CallsOK
<1>2. ASSUME NEW g \in Calls
      PROVE  CallOK(call[g])' /\ ReadOK(call[g])'
  <2>1. call'[g] = c \/ call'[g] = call[g]
    BY DEF BillingInv, CallsOK
  <2>2. CallOK(call[g]) /\ ReadOK(call[g])
    BY DEF BillingInv, CallsOK
  <2> QED
    BY <2>1, <2>2 DEF CallOK, ReadOK, Word, News
<1> QED
  BY <1>1, <1>2 DEF CallsOK

LEMMA RestIsGood == CallOK(Waiting) /\ ReadOK(Waiting)
BY DEF CallOK, ReadOK

LEMMA BillingInvInit == BillingInit => BillingInv
<1> SUFFICES ASSUME BillingInit PROVE BillingInv
  OBVIOUS
<1>1. sent = <<>> /\ sent \in Seq(WebhookEvent) /\ Len(sent) = 0
  BY DEF BillingInit
<1>2. BillingTypeOK
  BY <1>1, BillingAssumption DEF BillingInit, BillingTypeOK, Subscription, SubscriptionStatus, NoSubscription
<1>3. CallsOK
  BY RestIsGood DEF BillingInit, CallsOK
<1>4. RowsOK
  BY DEF BillingInit, RowsOK, NoSubscription, EntitledStatus
<1> QED
  BY <1>2, <1>3, <1>4 DEF BillingInv

LEMMA BillingInvNext == BillingInv /\ [BillingNext]_billingVars => BillingInv'
<1> SUFFICES ASSUME BillingInv, [BillingNext]_billingVars
             PROVE  BillingInv'
  OBVIOUS
<1> USE BillingAssumption DEF BillingInv
<1>1. ASSUME NEW o \in Payers, NEW status \in ProviderStatus, NEW named \in BOOLEAN,
             SubscriptionChanges(o, status, named)
      PROVE  BillingInv'
  <2> DEFINE event == [org |-> o, status |-> status, named |-> named]
  <2>1. event \in WebhookEvent
    BY DEF WebhookEvent
  <2>2. Sends(event) /\ UNCHANGED <<subscription, call, last, disorder>>
    BY <1>1 DEF SubscriptionChanges
  <2>3. standing' \in [Payers -> ProviderStatus \cup {"none"}]
    BY <1>1 DEF SubscriptionChanges, BillingTypeOK
  <2>4. BillingTypeOK'
    BY <2>1, <2>2, <2>3, SendKeeps DEF BillingTypeOK
  <2> QED
    BY <2>1, <2>2, <2>4, CallsSurviveSend
<1>2. ASSUME NEW o \in Payers, CheckoutCompletes(o)
      PROVE  BillingInv'
  <2> DEFINE event == [org |-> o, status |-> "checkout_completed", named |-> TRUE]
  <2>1. event \in WebhookEvent
    BY DEF WebhookEvent
  <2>2. Sends(event) /\ UNCHANGED <<subscription, standing, call, last, disorder>>
    BY <1>2 DEF CheckoutCompletes
  <2>3. BillingTypeOK'
    BY <2>1, <2>2, SendKeeps DEF BillingTypeOK
  <2> QED
    BY <2>1, <2>2, <2>3, CallsSurviveSend
<1>3. ASSUME NEW h \in Calls, NEW o \in Payers, CreateCheckoutSession(h, o)
      PROVE  BillingInv'
  <2> DEFINE c == [op |-> "checkout", org |-> o, read |-> subscription[o]]
  <2>1. call' = [call EXCEPT ![h] = c] /\ UNCHANGED <<subscription, standing, sent, last, disorder>>
    BY <1>3 DEF CreateCheckoutSession, GetOrgSubscription
  <2>2. c \in Checkout /\ ReadOK(c)
    BY DEF Checkout, BillingTypeOK, RowsOK, ReadOK
  <2>3. CallsOK'
    BY <2>1, <2>2, OneCallChanges DEF CallOK
  <2>4. BillingTypeOK' /\ RowsOK'
    BY <2>1 DEF BillingTypeOK, RowsOK, Word, News
  <2> QED
    BY <2>3, <2>4
<1>4. ASSUME NEW h \in Calls, NEW i \in DOMAIN sent, HandleWebhook(h, i)
      PROVE  BillingInv'
  <2> DEFINE o == sent[i].org
             c == [op |-> "webhook", org |-> o, event |-> i, read |-> subscription[o]]
  <2>1. call' = [call EXCEPT ![h] = c] /\ UNCHANGED <<subscription, standing, sent, last, disorder>>
    BY <1>4 DEF HandleWebhook, GetOrgSubscription
  <2>2. o \in Payers /\ i \in Nat
    <3>1. sent \in Seq(WebhookEvent)
      BY DEF BillingTypeOK
    <3>2. sent[i] \in WebhookEvent /\ i \in Nat
      BY <3>1
    <3> QED
      BY <3>2 DEF WebhookEvent
  <2>3. c \in Webhook /\ ReadOK(c)
    BY <2>2 DEF Webhook, BillingTypeOK, RowsOK, ReadOK
  <2>4. CallsOK'
    BY <2>1, <2>3, OneCallChanges DEF CallOK
  <2>5. BillingTypeOK' /\ RowsOK'
    BY <2>1 DEF BillingTypeOK, RowsOK, Word, News
  <2> QED
    BY <2>4, <2>5
<1>5. ASSUME NEW h \in Calls, StoreCheckoutSession(h)
      PROVE  BillingInv'
  <2> DEFINE c == call[h]
             row == [c.read EXCEPT !.status = IF @ = "none" THEN "checkout_pending" ELSE @]
  <2>1. c.op = "checkout" /\ CallOK(c) /\ ReadOK(c)
    BY <1>5 DEF StoreCheckoutSession, CallsOK
  <2>2. c \in Checkout
    BY <2>1 DEF CallOK, Waiting, Webhook
  <2>3. /\ subscription' = [subscription EXCEPT ![c.org] = row]
        /\ call' = [call EXCEPT ![h] = Waiting]
        /\ disorder' \in {disorder, disorder \cup {c.org}}
        /\ UNCHANGED <<standing, sent, last>>
    BY <1>5 DEF StoreCheckoutSession, UpsertOrgSubscription
  <2>4. row \in Subscription /\ (row.status \in EntitledStatus => Word(c.org))
    BY <2>1, <2>2 DEF Checkout, Subscription, SubscriptionStatus, EntitledStatus, ReadOK, Waiting
  <2>5. BillingTypeOK'
    BY <2>2, <2>3, <2>4 DEF BillingTypeOK, Checkout
  <2>6. RowsOK'
    BY <2>3, <2>4 DEF RowsOK, BillingTypeOK, Word, News
  <2>7. CallsOK'
    BY <2>3, RestIsGood, OneCallChanges
  <2> QED
    BY <2>5, <2>6, <2>7
<1>6. ASSUME NEW h \in Calls, ApplyWebhook(h)
      PROVE  BillingInv'
  <2> DEFINE c == call[h]
             event == sent[c.event]
             row == [status |-> MergedStatus(c.read, event), known |-> TRUE]
  <2>1. c.op = "webhook" /\ CallOK(c) /\ ReadOK(c)
    BY <1>6 DEF ApplyWebhook, CallsOK
  <2>2. c \in Webhook /\ c.event \in DOMAIN sent /\ event.org = c.org
    BY <2>1 DEF CallOK, Waiting, Checkout
  <2>3. /\ subscription' = [subscription EXCEPT ![c.org] = row]
        /\ call' = [call EXCEPT ![h] = Waiting]
        /\ last' \in {last, [last EXCEPT ![c.org] = c.event]}
        /\ disorder' \in {disorder, disorder \cup {c.org}}
        /\ UNCHANGED <<standing, sent>>
    <3>1. last' = [last EXCEPT ![c.org] = last[c.org]] \/ last' = [last EXCEPT ![c.org] = c.event]
      BY <1>6 DEF ApplyWebhook
    <3>2. [last EXCEPT ![c.org] = last[c.org]] = last
      BY DEF BillingTypeOK
    <3> QED
      BY <1>6, <3>1, <3>2 DEF ApplyWebhook, UpsertOrgSubscription
  <2>4. event \in WebhookEvent /\ c.event \in 0..MaxSent
    BY <2>2 DEF BillingTypeOK
  <2>5. row \in Subscription
    BY <2>2, <2>4 DEF MergedStatus, entitlementActive, Subscription, SubscriptionStatus, ProviderStatus,
                      EntitledStatus, WebhookEvent, Webhook
  <2>6. row.status \in EntitledStatus => Word(c.org)
    <3>1. CASE row.status = c.read.status /\ entitlementActive(c.read.status)
      BY <2>1, <3>1 DEF ReadOK, entitlementActive, Waiting
    <3>2. CASE row.status = event.status
      BY <2>2, <3>2 DEF Word, News, EntitledStatus
    <3> QED
      BY <3>1, <3>2 DEF MergedStatus
  <2>7. BillingTypeOK'
    BY <2>2, <2>3, <2>4, <2>5 DEF BillingTypeOK, Webhook
  <2>8. RowsOK'
    BY <2>3, <2>6 DEF RowsOK, BillingTypeOK, Word, News
  <2>9. CallsOK'
    BY <2>3, RestIsGood, OneCallChanges
  <2> QED
    BY <2>7, <2>8, <2>9
<1>7. ASSUME NEW h \in Calls, CallFails(h)
      PROVE  BillingInv'
  <2>1. call' = [call EXCEPT ![h] = Waiting] /\ UNCHANGED <<subscription, standing, sent, last, disorder>>
    BY <1>7 DEF CallFails
  <2>2. CallsOK'
    BY <2>1, RestIsGood, OneCallChanges
  <2>3. BillingTypeOK' /\ RowsOK'
    BY <2>1 DEF BillingTypeOK, RowsOK, Word, News
  <2> QED
    BY <2>2, <2>3
<1>8. CASE UNCHANGED billingVars
  BY <1>8 DEF billingVars, BillingTypeOK, CallsOK, RowsOK, CallOK, ReadOK, Word, News
<1> QED
  BY <1>1, <1>2, <1>3, <1>4, <1>5, <1>6, <1>7, <1>8 DEF BillingNext

(* Rows, events, calls and histories keep their types (Service).           *)
THEOREM BillingTypeCorrect == BillingSpec => []BillingTypeOK
<1>1. BillingInv => BillingTypeOK
  BY DEF BillingInv
<1> QED
  BY <1>1, BillingInvInit, BillingInvNext, PTL DEF BillingSpec

(* No organisation gets at the product without the provider having said of *)
(* it that it subscribes (HasActiveEntitlement, HandleWebhook).            *)
THEOREM EntitlementIsTheProvidersWord == BillingSpec => []EntitledOnProvidersWord
<1>1. BillingInv => EntitledOnProvidersWord
  BY DEF BillingInv, RowsOK, EntitledOnProvidersWord, Entitlement, HasActiveEntitlement,
         GetOrgSubscription, entitlementActive, Word
<1> QED
  BY <1>1, BillingInvInit, BillingInvNext, PTL DEF BillingSpec

(***************************************************************************)
(* The newest event decides, as long as nothing was written out of turn.   *)
(* Besides what was said above: the newest of the subscription's events    *)
(* says what the provider holds of the subscription, and a row that was    *)
(* never written out of turn is entitled as the newest event applied to it *)
(* says; a completed or a new checkout changes neither.                    *)
(***************************************************************************)
Newest(o, n) == n \in News(o) /\ \A m \in News(o): m <= n

StandingOK ==
  \A o \in Payers: News(o) # {} => \E n \in News(o): Newest(o, n) /\ sent[n].status = standing[o]

AppliedOK ==
  \A o \in Payers \ disorder:
    last[o] # 0 => /\ last[o] \in News(o)
                   /\ subscription[o].status \in EntitledStatus <=> sent[last[o]].status \in EntitledStatus

OrderInv == BillingInv /\ StandingOK /\ AppliedOK

(* Without a new event, what is said of the events stays as it is.         *)
LEMMA EventsKept ==
  ASSUME OrderInv, UNCHANGED <<sent, standing>>
  PROVE  StandingOK' /\ \A o \in Payers: News(o)' = News(o)
BY DEF OrderInv, StandingOK, News, Newest

(* What is sent is told apart from all that was sent before.               *)
LEMMA SendAppends ==
  ASSUME NEW event, Sends(event), sent \in Seq(WebhookEvent), NEW n, n = Len(sent) + 1
  PROVE  /\ DOMAIN sent' = DOMAIN sent \cup {n} /\ n \notin DOMAIN sent /\ n \in Nat
         /\ \A i \in DOMAIN sent: i <= n /\ sent'[i] = sent[i]
         /\ sent'[n] = event
BY DEF Sends

(* A row that stays entitled, or not, as it was, with its history.         *)
LEMMA RowsAlike ==
  ASSUME OrderInv, UNCHANGED <<sent, last>>, disorder \subseteq disorder',
         \A o \in Payers \ disorder':
           subscription'[o].status \in EntitledStatus <=> subscription[o].status \in EntitledStatus
  PROVE  AppliedOK'
BY DEF OrderInv, AppliedOK, News

LEMMA OrderInvInit == BillingInit => OrderInv
<1> SUFFICES ASSUME BillingInit PROVE OrderInv
  OBVIOUS
<1>1. BillingInv
  BY BillingInvInit
<1>2. \A o \in Payers: News(o) = {}
  <2>1. DOMAIN sent = {}
    BY DEF BillingInit
  <2> QED
    BY <2>1 DEF News
<1>3. StandingOK /\ AppliedOK
  BY <1>2 DEF BillingInit, StandingOK, AppliedOK
<1> QED
  BY <1>1, <1>3 DEF OrderInv

LEMMA OrderInvNext == OrderInv /\ [BillingNext]_billingVars => OrderInv'
<1> SUFFICES ASSUME OrderInv, [BillingNext]_billingVars
             PROVE  OrderInv'
  OBVIOUS
<1>0. BillingInv /\ BillingInv'
  BY BillingInvNext DEF OrderInv
<1>types. /\ sent \in Seq(WebhookEvent) /\ subscription \in [Payers -> Subscription]
          /\ standing \in [Payers -> ProviderStatus \cup {"none"}]
          /\ last \in [Payers -> 0..MaxSent] /\ disorder \subseteq Payers /\ MaxSent \in Nat
  BY <1>0, BillingAssumption DEF BillingInv, BillingTypeOK
<1>1. ASSUME NEW o \in Payers, NEW status \in ProviderStatus, NEW named \in BOOLEAN,
             SubscriptionChanges(o, status, named)
      PROVE  OrderInv'
  <2> DEFINE event == [org |-> o, status |-> status, named |-> named]
  <2>0. PICK n: n = Len(sent) + 1
    OBVIOUS
  <2>1. Sends(event) /\ UNCHANGED <<subscription, call, last, disorder>>
    BY <1>1 DEF SubscriptionChanges
  <2>2. standing' = [standing EXCEPT ![o] = status] /\ status # "checkout_completed"
    BY <1>1 DEF SubscriptionChanges, ProviderStatus
  <2>3. /\ DOMAIN sent' = DOMAIN sent \cup {n} /\ n \notin DOMAIN sent
        /\ \A i \in DOMAIN sent: i <= n /\ sent'[i] = sent[i]
        /\ sent'[n] = event /\ n \in Nat
    BY <1>types, <2>0, <2>1, SendAppends
  <2>4. News(o)' = News(o) \cup {n}
    BY <2>2, <2>3 DEF News
  <2>5. \A p \in Payers \ {o}: News(p)' = News(p)
    BY <2>3 DEF News
  <2>6. StandingOK'
    <3>2. ASSUME NEW p \in Payers \ {o}, News(p)' # {}
          PROVE  \E m \in News(p)': Newest(p, m)' /\ sent'[m].status = standing'[p]
      <4>1. PICK m \in News(p): Newest(p, m) /\ sent[m].status = standing[p]
        BY <2>5, <3>2 DEF OrderInv, StandingOK
      <4>2. standing'[p] = standing[p] /\ sent'[m] = sent[m]
        BY <1>types, <2>2, <2>3, <4>1 DEF News
      <4>3. Newest(p, m)'
        BY <2>5, <4>1 DEF Newest
      <4> QED
        BY <2>5, <4>1, <4>2, <4>3
    <3>3. \E m \in News(o)': Newest(o, m)' /\ sent'[m].status = standing'[o]
      <4>1. News(o)' # {}
        BY <2>4
      <4>2. \A m \in News(o): m <= n
        BY <2>3 DEF News
      <4>3. \A m \in News(o)': m <= n
        BY <2>3, <2>4, <4>2
      <4>4. Newest(o, n)'
        BY <2>4, <4>3 DEF Newest
      <4>5. sent'[n].status = standing'[o]
        BY <1>types, <2>2, <2>3
      <4> QED
        BY <2>4, <4>4, <4>5
    <3> QED
      BY <3>2, <3>3 DEF StandingOK
  <2>7. AppliedOK'
    BY <2>1, <2>3, <2>4, <2>5 DEF OrderInv, AppliedOK, News
  <2> QED
    BY <1>0, <2>6, <2>7 DEF OrderInv
<1>2. ASSUME NEW o \in Payers, CheckoutCompletes(o)
      PROVE  OrderInv'
  <2> DEFINE event == [org |-> o, status |-> "checkout_completed", named |-> TRUE]
  <2>1. Sends(event) /\ UNCHANGED <<subscription, standing, call, last, disorder>>
    BY <1>2 DEF CheckoutCompletes
  <2>0. PICK n: n = Len(sent) + 1
    OBVIOUS
  <2>s. /\ DOMAIN sent' = DOMAIN sent \cup {n} /\ sent'[n] = event
        /\ \A i \in DOMAIN sent: sent'[i] = sent[i]
    <3> HIDE DEF event
    <3> QED
      BY <1>types, <2>0, <2>1, SendAppends
  <2>2. /\ DOMAIN sent' = DOMAIN sent \cup {n} /\ sent'[n].status = "checkout_completed"
        /\ \A i \in DOMAIN sent: sent'[i] = sent[i]
    BY <2>s
  <2>3. \A p \in Payers: News(p)' = News(p) /\ \A i \in News(p): sent'[i] = sent[i]
    BY <2>2 DEF News
  <2>4. StandingOK' /\ AppliedOK'
    BY <2>1, <2>3 DEF OrderInv, StandingOK, AppliedOK, Newest
  <2> QED
    BY <1>0, <2>4 DEF OrderInv
<1>3. ASSUME NEW h \in Calls, NEW o \in Payers, CreateCheckoutSession(h, o)
      PROVE  OrderInv'
  <2>1. UNCHANGED <<subscription, standing, sent, last, disorder>>
    BY <1>3 DEF CreateCheckoutSession
  <2> QED
    BY <1>0, <2>1, EventsKept, RowsAlike DEF OrderInv
<1>4. ASSUME NEW h \in Calls, NEW i \in DOMAIN sent, HandleWebhook(h, i)
      PROVE  OrderInv'
  <2>1. UNCHANGED <<subscription, standing, sent, last, disorder>>
    BY <1>4 DEF HandleWebhook
  <2> QED
    BY <1>0, <2>1, EventsKept, RowsAlike DEF OrderInv
<1>5. ASSUME NEW h \in Calls, StoreCheckoutSession(h)
      PROVE  OrderInv'
  <2> DEFINE c == call[h]
             row == [c.read EXCEPT !.status = IF @ = "none" THEN "checkout_pending" ELSE @]
  <2>1. c \in Checkout
    BY <1>0, <1>5 DEF StoreCheckoutSession, BillingInv, CallsOK, CallOK, Waiting, Webhook
  <2>2. /\ subscription' = [subscription EXCEPT ![c.org] = row]
        /\ disorder' = IF c.read = subscription[c.org] THEN disorder ELSE disorder \cup {c.org}
        /\ UNCHANGED <<standing, sent, last>>
    BY <1>5 DEF StoreCheckoutSession, UpsertOrgSubscription
  <2>3. row.status \in EntitledStatus <=> c.read.status \in EntitledStatus
    BY <2>1 DEF Checkout, Subscription, EntitledStatus
  <2>4. AppliedOK'
    BY <1>types, <2>1, <2>2, <2>3, RowsAlike DEF Checkout
  <2> QED
    BY <1>0, <2>2, <2>4, EventsKept DEF OrderInv
<1>6. ASSUME NEW h \in Calls, ApplyWebhook(h)
      PROVE  OrderInv'
  <2> DEFINE c == call[h]
             e == c.event
             event == sent[e]
             news == event.status # "checkout_completed"
             row == [status |-> MergedStatus(c.read, event), known |-> TRUE]
  <2>1. c \in Webhook /\ e \in DOMAIN sent /\ event.org = c.org
    BY <1>0, <1>6 DEF ApplyWebhook, BillingInv, CallsOK, CallOK, Waiting, Checkout
  <2>2. /\ subscription' = [subscription EXCEPT ![c.org] = row]
        /\ last' = [last EXCEPT ![c.org] = IF news /\ e > last[c.org] THEN e ELSE last[c.org]]
        /\ disorder' = IF c.read # subscription[c.org] \/ (news /\ e < last[c.org])
                       THEN disorder \cup {c.org} ELSE disorder
        /\ UNCHANGED <<standing, sent>>
    BY <1>6 DEF ApplyWebhook, UpsertOrgSubscription
  <2>3. StandingOK' /\ \A o \in Payers: News(o)' = News(o)
    BY <2>2, EventsKept
  <2>4. e \in Nat /\ c.org \in Payers /\ last[c.org] \in Nat
    BY <1>types, <2>1 DEF Webhook
  <2>5. ASSUME NEW o \in Payers \ disorder', last'[o] # 0
        PROVE  /\ last'[o] \in News(o)
               /\ subscription'[o].status \in EntitledStatus <=> sent[last'[o]].status \in EntitledStatus
    <3>1. o \notin disorder
      BY <2>2, <2>5
    <3>2. CASE o # c.org
      BY <1>types, <2>2, <2>5, <3>1, <3>2 DEF OrderInv, AppliedOK
    <3>3. CASE o = c.org /\ news
      <4>1. last'[o] = e /\ subscription'[o].status = event.status
        <5>1. ~(e < last[o])
          BY <2>2, <2>5, <3>3
        <5>2. last'[o] = e
          BY <1>types, <2>2, <2>4, <3>3, <5>1
        <5>3. MergedStatus(c.read, event) = event.status
          BY <3>3 DEF MergedStatus
        <5> QED
          BY <1>types, <2>2, <3>3, <5>2, <5>3
      <4>2. e \in News(o)
        BY <2>1, <3>3 DEF News
      <4> QED
        BY <4>1, <4>2
    <3>4. CASE o = c.org /\ ~news
      <4>1. last'[o] = last[o]
        BY <1>types, <2>2, <3>4
      <4>2. c.read = subscription[o]
        BY <2>2, <2>5, <3>4
      <4>3. subscription'[o].status = MergedStatus(subscription[o], event)
        BY <1>types, <2>2, <3>4, <4>2
      <4>4. subscription'[o].status \in EntitledStatus <=> subscription[o].status \in EntitledStatus
        BY <3>4, <4>3 DEF MergedStatus, entitlementActive, EntitledStatus
      <4> QED
        BY <2>5, <3>1, <4>1, <4>4 DEF OrderInv, AppliedOK
    <3> QED
      BY <3>2, <3>3, <3>4
  <2>6. AppliedOK'
    BY <2>2, <2>3, <2>5 DEF AppliedOK
  <2> QED
    BY <1>0, <2>3, <2>6 DEF OrderInv
<1>7. ASSUME NEW h \in Calls, CallFails(h)
      PROVE  OrderInv'
  <2>1. UNCHANGED <<subscription, standing, sent, last, disorder>>
    BY <1>7 DEF CallFails
  <2> QED
    BY <1>0, <2>1, EventsKept, RowsAlike DEF OrderInv
<1>8. CASE UNCHANGED billingVars
  BY <1>0, <1>8, EventsKept, RowsAlike DEF OrderInv, billingVars
<1> QED
  BY <1>1, <1>2, <1>3, <1>4, <1>5, <1>6, <1>7, <1>8 DEF BillingNext

(* When nothing was written out of turn, an organisation whose newest      *)
(* event has been applied is entitled exactly if the provider holds it to  *)
(* subscribe (HandleWebhook).                                              *)
THEOREM NewestEventDecides == BillingSpec => []OrderedIsCurrent
<1>1. OrderInv => OrderedIsCurrent
  <2> SUFFICES ASSUME OrderInv, NEW o \in Payers \ disorder, News(o) # {}, last[o] = Max(News(o))
               PROVE  HasActiveEntitlement(o) <=> standing[o] \in EntitledStatus
    BY DEF OrderedIsCurrent, HasActiveEntitlement, entitlementActive, GetOrgSubscription
  <2>1. PICK n \in News(o): Newest(o, n) /\ sent[n].status = standing[o]
    BY DEF OrderInv, StandingOK
  <2>2. News(o) \subseteq Nat \ {0}
    <3>1. sent \in Seq(WebhookEvent)
      BY DEF OrderInv, BillingInv, BillingTypeOK
    <3> QED
      BY <3>1 DEF News
  <2>3. \A m \in News(o): n >= m
    BY <2>1, <2>2 DEF Newest
  <2>4. Max(News(o)) = n
    <3>1. Max(News(o)) \in News(o) /\ \A m \in News(o): Max(News(o)) >= m
      BY <2>3 DEF Max
    <3> QED
      BY <2>1, <2>2, <2>3, <3>1
  <2>5. subscription[o].status \in EntitledStatus <=> sent[n].status \in EntitledStatus
    BY <2>1, <2>2, <2>4 DEF OrderInv, AppliedOK
  <2> QED
    BY <2>1, <2>5 DEF HasActiveEntitlement, entitlementActive, GetOrgSubscription
<1> QED
  BY <1>1, OrderInvInit, OrderInvNext, PTL DEF BillingSpec

(***************************************************************************)
(* The office is made of these components: what holds of each of them      *)
(* holds of it.                                                            *)
(***************************************************************************)
LEMMA OfficeSteps ==
  [Next]_vars => /\ [RegistryNext]_registryVars /\ [BillingNext]_billingVars
                 /\ [ComplianceNext]_complianceVars /\ [BooksNext]_booksVars
                 /\ [HealthNext]_facts /\ [AttentionNext]_attentionVars
<1> SUFFICES ASSUME [Next]_vars
             PROVE  /\ [RegistryNext]_registryVars /\ [BillingNext]_billingVars
                    /\ [ComplianceNext]_complianceVars /\ [BooksNext]_booksVars
                    /\ [HealthNext]_facts /\ [AttentionNext]_attentionVars
  OBVIOUS
<1>1. CASE Next
  BY <1>1 DEF Next
<1>2. CASE UNCHANGED vars
  BY <1>2 DEF vars, books
<1> QED
  BY <1>1, <1>2

(* Whatever holds of the registry, billing, compliance, the levy books,    *)
(* the health and the attention queue by themselves holds of the office.   *)
THEOREM OfficeIsItsParts ==
  Spec => /\ RegistrySpec /\ BillingSpec /\ ComplianceSpec
          /\ BooksSpec /\ HealthSpec /\ AttentionSpec
<1>1. Init => /\ RegistryInit /\ BillingInit /\ ComplianceInit
              /\ BooksInit /\ HealthInit /\ AttentionInit
  BY DEF Init
<1> QED
  BY <1>1, OfficeSteps, PTL
     DEF Spec, RegistrySpec, BillingSpec, ComplianceSpec, BooksSpec, HealthSpec, AttentionSpec
=============================================================================
