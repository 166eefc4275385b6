---------------------------- MODULE Contractors -----------------------------
(***************************************************************************)
(* The contractor directory of the organisations (backend/internal/        *)
(* contractors), seen from one scheme.  Organisations keep their own       *)
(* entries, link them to their own schemes and may publish them; a vetted  *)
(* public entry is offered to every scheme.                                *)
(***************************************************************************)
EXTENDS Naturals, FiniteSets

CONSTANTS Contractors, \* ids of rows of contractors
          Orgs,        \* organisations
          Ours         \* the one the scheme belongs to

ASSUME ContractorsAssumption == Ours \in Orgs

VARIABLES contractor   \* id -> row, or NoContractorRow

(* listed stands for public_profile AND vetted, which every query asks for *)
(* together; linked for a row of scheme_contractors with the scheme.       *)
ContractorRow == [org: Orgs, active: BOOLEAN, listed: BOOLEAN, linked: BOOLEAN]
NoContractorRow == [org |-> "none", active |-> FALSE, listed |-> FALSE, linked |-> FALSE]
Exists(c) == contractor[c] # NoContractorRow

ContractorsInit == contractor = [c \in Contractors |-> NoContractorRow]

(* contractorParams counts the schemes of the request that belong to the   *)
(* organisation; a plausible bug takes the list as it comes.               *)
AnyLinks(org, linked) == TRUE
OwnLinks(org, linked) == linked => org = Ours

(* Create and Update, each one transaction: the row and its links, which   *)
(* are deleted and written again.                                          *)
WriteContractor(c, row) ==
  /\ OwnLinks(row.org, row.linked)
  /\ contractor' = [contractor EXCEPT ![c] = row]

CreateContractor(c, row) == ~Exists(c) /\ WriteContractor(c, row)
UpdateContractor(c, row) == Exists(c) /\ row.org = contractor[c].org /\ WriteContractor(c, row)

(* The query Assign asks.                                                  *)
ContractorAssignableToScheme(c) ==
  LET row == contractor[c] IN
  /\ Exists(c) /\ row.active
  /\ row.linked \/ row.listed
  /\ row.org = Ours \/ row.listed

(* The query behind the marketplace of the scheme.                         *)
SearchContractorMarketplace ==
  {c \in Contractors: Exists(c) /\ contractor[c].active /\ (contractor[c].linked \/ contractor[c].listed)}

ContractorsTypeOK == contractor \in [Contractors -> ContractorRow \cup {NoContractorRow}]

(* Whoever the marketplace of a scheme offers can be assigned to its       *)
(* requests and nobody else can, although the two queries differ: it takes *)
(* that no organisation ever links an entry to a scheme of another.        *)
OfferedIsAssignable ==
  SearchContractorMarketplace = {c \in Contractors: ContractorAssignableToScheme(c)}
=============================================================================
