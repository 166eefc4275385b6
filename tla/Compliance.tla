----------------------------- MODULE Compliance -----------------------------
(***************************************************************************)
(* Compliance items of a scheme (backend/internal/compliance).  UpdateItem *)
(* reads the row, puts the fields of the request into it and writes all of *)
(* it back; nothing locks the row in between.  Of the fields two are told  *)
(* apart, the status and the due date; detail and action behave like the   *)
(* status.  Residents are refused everything.                              *)
(***************************************************************************)
EXTENDS Naturals, FiniteSets

CONSTANTS Items,       \* ids of rows of compliance_items
          Officers     \* requests that may be under way at one time

VARIABLES item,        \* id -> row
          officer,     \* request -> what it has read
          assessment,  \* the newest row of compliance_assessments
          meant,       \* history: id -> the fields as last given
          crossed      \* history: items two requests had read at one time

complianceVars == <<item, officer, assessment, meant, crossed>>

ComplianceStatus == {"compliant", "at_risk", "non_compliant"}
DueDate == {"none", "soon", "later"}
Item == [status: ComplianceStatus, due: DueDate]
NoItem == [status |-> "none", due |-> "none"]

(* What a request gives: a field it leaves out, or a status that is no     *)
(* status, is kept; a due date can be moved but not taken away.            *)
Kept == "kept"
Edit == [status: ComplianceStatus \cup {Kept}, due: {"soon", "later", Kept}]

NoAssessment == [score |-> 0, total |-> 0]
Away == [op |-> "away"]

ComplianceInit ==
  /\ item = [i \in Items |-> NoItem] /\ meant = [i \in Items |-> NoItem]
  /\ officer = [o \in Officers |-> Away]
  /\ assessment = NoAssessment /\ crossed = {}

Comes(o, rec) == officer[o] = Away /\ officer' = [officer EXCEPT ![o] = rec]
Goes(o) == officer' = [officer EXCEPT ![o] = Away]
Updating(o, i) == officer[o].op = "update" /\ officer[o].i = i
ListComplianceItemsByScheme == {i \in Items: item[i] # NoItem}

(***************************************************************************)
(* Dashboard, of one scheme or of a portfolio.                             *)
(***************************************************************************)
statusPoints(status) == CASE status = "compliant" -> 10 [] status = "at_risk" -> 5 [] OTHER -> 0
CountOf(status) == Cardinality({i \in Items: item[i].status = status})
EarnedPoints ==
  statusPoints("compliant") * CountOf("compliant") + statusPoints("at_risk") * CountOf("at_risk")

(* int(float64(part) / float64(whole) * 100): exactly 29, 57 and 58 in a   *)
(* hundred are a little less as doubles, and are truncated to one less.    *)
truncatedPct(part, whole) ==
  LET pct == (part * 100) \div whole
  IN  IF pct \in {29, 57, 58} /\ pct * whole = part * 100 THEN pct - 1 ELSE pct

dashboardForScheme ==
  LET total == Cardinality(ListComplianceItemsByScheme) IN
  [score |-> IF total = 0 THEN 0 ELSE truncatedPct(EarnedPoints, 10 * total), total |-> total]

(***************************************************************************)
(* The operations.                                                         *)
(***************************************************************************)
CreateItem(i, due) ==
  /\ item[i] = NoItem /\ ~\E o \in Officers: Updating(o, i)
  /\ item' = [item EXCEPT ![i] = [status |-> "non_compliant", due |-> due]]
  /\ meant' = [meant EXCEPT ![i] = item'[i]]
  /\ UNCHANGED <<officer, assessment, crossed>>

(* A plausible bug: a field the request leaves out is emptied.             *)
Emptied(row, edit) == [status |-> IF edit.status = Kept THEN row.status ELSE edit.status,
                       due |-> IF edit.due = Kept THEN "none" ELSE edit.due]

WithEdit(row, edit) == [status |-> IF edit.status = Kept THEN row.status ELSE edit.status,
                        due |-> IF edit.due = Kept THEN row.due ELSE edit.due]

UpdateItem(o, i, edit) ==
  /\ item[i] # NoItem
  /\ Comes(o, [op |-> "update", i |-> i, edit |-> edit, row |-> WithEdit(item[i], edit)])
  /\ crossed' = IF \E p \in Officers: Updating(p, i)
                THEN crossed \cup {i} ELSE crossed
  /\ UNCHANGED <<item, assessment, meant>>

UpdateComplianceItem(o) ==
  LET q == officer[o] IN
  /\ q.op = "update" /\ item[q.i] # NoItem
  /\ item' = [item EXCEPT ![q.i] = q.row]
  /\ meant' = [meant EXCEPT ![q.i] = [status |-> IF q.edit.status = Kept THEN @.status ELSE q.edit.status,
                                      due |-> IF q.edit.due = Kept THEN @.due ELSE q.edit.due]]
  /\ Goes(o)
  /\ UNCHANGED <<assessment, crossed>>

DeleteItem(i) ==
  /\ item[i] # NoItem
  /\ item' = [item EXCEPT ![i] = NoItem]
  /\ meant' = [meant EXCEPT ![i] = NoItem]
  /\ crossed' = crossed \ {i}
  /\ UNCHANGED <<officer, assessment>>

Assess(o) ==
  /\ Comes(o, [op |-> "assess", seen |-> dashboardForScheme])
  /\ UNCHANGED <<item, assessment, meant, crossed>>

CreateComplianceAssessment(o) ==
  /\ officer[o].op = "assess"
  /\ assessment' = officer[o].seen
  /\ Goes(o)
  /\ UNCHANGED <<item, meant, crossed>>

(* A statement fails, or the row is gone.                                  *)
OfficerFails(o) ==
  /\ officer[o] # Away
  /\ Goes(o)
  /\ UNCHANGED <<item, assessment, meant, crossed>>

ComplianceNext ==
  \/ \E i \in Items: DeleteItem(i) \/ \E due \in DueDate: CreateItem(i, due)
  \/ \E o \in Officers: \/ UpdateComplianceItem(o) \/ Assess(o) \/ CreateComplianceAssessment(o)
                        \/ OfficerFails(o)
                        \/ \E i \in Items, edit \in Edit: UpdateItem(o, i, edit)

ComplianceSpec == ComplianceInit /\ [][ComplianceNext]_complianceVars

(* Every field of an item is what was last given for it, and leaving a     *)
(* field out leaves it alone, unless two updates of the item overlapped:   *)
(* then the one that writes last puts back what the other had changed      *)
(* (compliance/service.go:310).                                            *)
EditsKept == \A i \in Items \ crossed: item[i] = meant[i]
=============================================================================
