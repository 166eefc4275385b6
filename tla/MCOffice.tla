------------------------------ MODULE MCOffice ------------------------------
(***************************************************************************)
(* The components that keep the books of a scheme and of its organisation, *)
(* each by itself: part says which one is at work, and the others rest.    *)
(***************************************************************************)
EXTENDS SchemeRegistry, Billing, Compliance, LevyBooks, SchemeHealth, Attention, TLC

VARIABLE part

books == <<registryVars, billingVars, complianceVars, booksVars, facts, attentionVars>>
vars == <<books, part>>

Init ==
  /\ RegistryInit /\ BillingInit /\ ComplianceInit /\ BooksInit /\ HealthInit /\ AttentionInit
  /\ part \in {"registry", "billing", "compliance", "books", "health", "attention"}
  /\ part = "attention" \/ arrears = CHOOSE a \in [daysOverdue: FirstDays, cents: Balances]: TRUE

Next ==
  /\ UNCHANGED part
  /\ \/ /\ part = "registry" /\ RegistryNext
        /\ UNCHANGED <<billingVars, complianceVars, booksVars, facts, attentionVars>>
     \/ /\ part = "billing" /\ BillingNext
        /\ UNCHANGED <<registryVars, complianceVars, booksVars, facts, attentionVars>>
     \/ /\ part = "compliance" /\ ComplianceNext
        /\ UNCHANGED <<registryVars, billingVars, booksVars, facts, attentionVars>>
     \/ /\ part = "books" /\ BooksNext
        /\ UNCHANGED <<registryVars, billingVars, complianceVars, facts, attentionVars>>
     \/ /\ part = "health" /\ HealthNext
        /\ UNCHANGED <<registryVars, billingVars, complianceVars, booksVars, attentionVars>>
     \/ /\ part = "attention" /\ AttentionNext
        /\ UNCHANGED <<registryVars, billingVars, complianceVars, booksVars, facts>>

(* Organisations are alike, and so are calls and requests.                 *)
Alike == Permutations(Payers) \cup Permutations(Calls) \cup Permutations(Requests)

Spec == Init /\ [][Next]_vars
=============================================================================
