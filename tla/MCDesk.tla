------------------------------- MODULE MCDesk -------------------------------
(***************************************************************************)
(* The desk of a scheme: maintenance requests, the WhatsApp inbox and bank *)
(* statements.  All of them together are too many states: part says which  *)
(* is at work, and the others rest.  Bank statements are handled by one    *)
(* request after the other, or one of them by two at a time.               *)
(***************************************************************************)
EXTENDS WhatsAppDesk, MCBankStatementImport, TLC

VARIABLE part

allVars == <<deskVars, inboxVars, vars, part>>

DeskInit ==
  /\ MaintenanceInit /\ InboxInit /\ Init
  /\ part \in {"staff", "inbox", "statements", "one statement"}

OneStatement == \A i \in Imports \ {march}: imports'[i] = imports[i]

DeskNext ==
  /\ UNCHANGED part
  /\ \/ part = "staff" /\ MaintenanceNext /\ UNCHANGED <<inboxVars, vars>>
     \/ part = "inbox" /\ InboxNext /\ UNCHANGED vars
     \/ part = "statements" /\ Next /\ OneAtATime /\ UNCHANGED <<deskVars, inboxVars>>
     \/ part = "one statement" /\ Next /\ OneStatement /\ UNCHANGED <<deskVars, inboxVars>>

DeskSpec == DeskInit /\ [][DeskNext]_allVars

(* Requests of the scheme are alike, and so are the staff's decisions and  *)
(* the requests that post payments.                                        *)
Alike == Permutations(Tickets) \cup Permutations(Clerks) \cup Permutations(Messages)
           \cup Permutations(Requests)

(* While statements are handled one after the other, the books are exact   *)
(* after every rollback, retry and repeated upload: balances are the sums  *)
(* of the payments and, but where a retry went on blind, the counters of   *)
(* an import are the numbers of its rows (docs/database.md:40, 43).        *)
BooksAreExact == part # "one statement" => PaidIsSum /\ CountersMatchRows

(* And every payment for a deposit is linked from a row that shows it; of  *)
(* two requests that apply one row to two accounts at one time the later   *)
(* takes the earlier one's payment off the row                             *)
(* (bank_statement_import.go:561).                                         *)
EachPaymentHasRow == part # "one statement" => PaymentsHaveRows
=============================================================================
