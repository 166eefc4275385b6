----------------------------- MODULE LevyLedger -----------------------------
(***************************************************************************)
(* Levy payments and the balances they add up to, under PostgreSQL's READ   *)
(* COMMITTED transactions: Reconcile (backend/internal/levy/service.go)     *)
(* posts a batch of payments, and each posting reads the account, inserts a  *)
(* levy_payments row and overwrites levy_accounts.paid_cents with a value it *)
(* computed from what it read.                                               *)
(*                                                                           *)
(* A transaction's writes are private until it commits.  Two statements of   *)
(* one posting are one step where nothing but an abort can come between      *)
(* them: an INSERT or UPDATE that would wait, deadlock or meet a reference   *)
(* committed since the check leaves Rollback, which is always possible.      *)
(***************************************************************************)
EXTENDS Integers, FiniteSets, Sequences, FiniteSetsExt

CONSTANTS Accounts,    \* levy_accounts rows
          Due,         \* their amount_cents
          References,  \* references a payment line may carry
          Batches,     \* the batches of payment lines Reconcile may be sent
          Requests     \* requests, and job handlers, that may run at one time

Line == [reference : References, account : Accounts, amount : Nat \ {0}]

ASSUME LedgerAssumption == /\ Due \in [Accounts -> Nat]
                           /\ Batches \subseteq Seq(Line)

VARIABLES payments,  \* levy_payments, committed
          paid,      \* levy_accounts.paid_cents, committed
          tx         \* per request: the transaction it has open

ledgerVars == <<payments, paid, tx>>

\* A reference another account already took gets the account as a suffix.
PaymentReference == References \cup (References \X Accounts)

Payment == [reference : PaymentReference, account : Accounts, amount : Nat \ {0}]

NoTx == [step |-> "none", lines |-> <<>>, seen |-> 0, made |-> {}, held |-> {}]

LedgerInit == /\ payments = {}
              /\ paid = [a \in Accounts |-> 0]
              /\ tx = [r \in Requests |-> NoTx]

-----------------------------------------------------------------------------
(* What a statement of request r sees, and what it may write now. *)
SeenPayments(r) == payments \cup tx[r].made

PaidIn(r, a) == IF \E h \in tx[r].held : h.account = a
                THEN (CHOOSE h \in tx[r].held : h.account = a).paid
                ELSE paid[a]

Taken(set, ref) == \E p \in set : p.reference = ref

\* The unique index and the row lock make the writer wait for another transaction.
Waits(r, p) == \E o \in Requests \ {r} : \/ Taken(tx[o].made, p.reference)
                                         \/ \E h \in tx[o].held : h.account = p.account

\* CreateLevyPayment, then UpdateLevyAccountPaid with the balance read before it.
Posted(r, p) ==
  [tx[r] EXCEPT !.made = @ \cup {p},
                !.held = {h \in @ : h.account # p.account}
                           \cup {[account |-> p.account, paid |-> tx[r].seen + p.amount]}]

MayPost(r, p) == ~Taken(SeenPayments(r), p.reference) /\ ~Waits(r, p)

Publish(r) == /\ payments' = SeenPayments(r)
              /\ paid' = [a \in Accounts |-> PaidIn(r, a)]
              /\ tx' = [tx EXCEPT ![r] = NoTx]

-----------------------------------------------------------------------------
(* Reconcile. *)
BeginReconcile(r, batch) ==
  /\ tx[r] = NoTx /\ batch # <<>>
  /\ tx' = [tx EXCEPT ![r] = [NoTx EXCEPT !.step = "read", !.lines = batch]]
  /\ UNCHANGED <<payments, paid>>

\* A reference that exists is skipped, whichever account it was posted to.
SkipLine(r) ==
  /\ tx[r].step = "read" /\ tx[r].lines # <<>>
  /\ Taken(SeenPayments(r), Head(tx[r].lines).reference)
  /\ tx' = [tx EXCEPT ![r].lines = Tail(@)]
  /\ UNCHANGED <<payments, paid>>

GetLevyAccount(r) ==
  /\ tx[r].step = "read" /\ tx[r].lines # <<>>
  /\ ~Taken(SeenPayments(r), Head(tx[r].lines).reference)
  /\ tx' = [tx EXCEPT ![r].step = "write", ![r].seen = PaidIn(r, Head(tx[r].lines).account)]
  /\ UNCHANGED <<payments, paid>>

PostLine(r) ==
  /\ tx[r].step = "write"
  /\ MayPost(r, Head(tx[r].lines))
  /\ tx' = [tx EXCEPT ![r] = [Posted(r, Head(tx[r].lines)) EXCEPT !.step = "read",
                                                                  !.lines = Tail(@)]]
  /\ UNCHANGED <<payments, paid>>

CommitReconcile(r) == tx[r].step = "read" /\ tx[r].lines = <<>> /\ Publish(r)

\* An invalid line, a query error, a lost connection, a deadlock or a crash.
Rollback(r) == /\ tx[r].step \in {"read", "write"}
               /\ tx' = [tx EXCEPT ![r] = NoTx]
               /\ UNCHANGED <<payments, paid>>

ReconcileNext ==
  \E r \in Requests : \/ \E batch \in Batches : BeginReconcile(r, batch)
                      \/ SkipLine(r) \/ GetLevyAccount(r) \/ PostLine(r)
                      \/ CommitReconcile(r) \/ Rollback(r)

-----------------------------------------------------------------------------
CreditedBy(ps, a) == SumFunctionOnSet([p \in ps |-> p.amount], {p \in ps : p.account = a})
Credited(a) == CreditedBy(payments, a)

(* No account shows more paid than the payments posted to it, however requests
   interleave, roll back or repeat: a balance is never credited twice for one
   payment, nor for a payment that was rolled back (UpdateLevyAccountPaid writes an
   absolute value computed from an unlocked read).                                  *)
PaidIsBacked == \A a \in Accounts : paid[a] <= Credited(a)

(* docs/database.md:40 has levy accounts "with payment progress": the balance is the sum
   of the payments.  It is while requests run one at a time, so a batch that rolls back
   half way leaves neither, and a batch sent again adds nothing.                        *)
PaidIsSum == \A a \in Accounts : paid[a] = Credited(a)
=============================================================================
