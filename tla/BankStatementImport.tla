------------------------ MODULE BankStatementImport ------------------------
(***************************************************************************)
(* Bank statements (backend/internal/levy/bank_statement_import.go): an     *)
(* upload queues an import, the worker's ProcessBankStatementImport matches  *)
(* its rows to levy accounts and posts what it matched, and an admin posts   *)
(* the rest with ApplyBankStatementImport.  Composes LevyLedger, whose       *)
(* Reconcile requests post to the same accounts.                             *)
(*                                                                           *)
(* JobQueue is at-least-once: a handler may run again after any run of it,   *)
(* and two may overlap when a lease has expired.                             *)
(***************************************************************************)
EXTENDS LevyLedger, SequencesExt

CONSTANTS Imports,      \* bank_statement_imports rows
          Statement,    \* the parsed rows of each one's CSV; NoParse when it does not parse
          NoParse,
          Matches       \* the lists of manual matches Apply may be sent

\* Units and owners: the accounts whose unit identifier, or owner name, the row mentions.
StatementRow == [fingerprint : References, amount : Nat \ {0},
                 units : SUBSET Accounts, owners : SUBSET Accounts]

Match == [row : Nat \ {0}, account : Accounts]

ASSUME ImportAssumption == /\ Statement \in [Imports -> Seq(StatementRow) \cup {NoParse}]
                           /\ Matches \subseteq Seq(Match)
                           /\ IsFiniteSet(Imports)

\* A fingerprint is a hash of the row, its amount included (bank_statement_import.go:281),
\* and shorter than one with an account's id as its suffix.
StatementRows == UNION {Range(Statement[i]) : i \in {j \in Imports : Statement[j] # NoParse}}

ASSUME FingerprintAssumption ==
  /\ \A d, e \in StatementRows : d.fingerprint = e.fingerprint => d.amount = e.amount
  /\ References \cap (References \X Accounts) = {}

VARIABLES imports,  \* status and counters, committed
          rawCsv,   \* whether an import still holds its CSV
          rows,     \* bank_statement_rows, committed: status and linked payment
          work,     \* per request: the import it works on, and what it read or wrote of it
          blind     \* history: imports a retry took up without their rows, as its query for them
                    \* failed, and without their CSV, which had been cleared

importVars == <<imports, rawCsv, rows, work, blind>>
vars == <<ledgerVars, importVars>>

ImportStatus == {"none", "queued", "review_required", "applied", "failed"}

Counters == [status : ImportStatus, total : Nat, matched : Nat, ambiguous : Nat,
             unmatched : Nat, applied : Nat]

Counts(status, total, matched, ambiguous, unmatched, applied) ==
  [status |-> status, total |-> total, matched |-> matched, ambiguous |-> ambiguous,
   unmatched |-> unmatched, applied |-> applied]

NoPayment == <<>>
ImportRow == [status : {"applied", "ambiguous", "unmatched"},
              payment : {NoPayment} \cup PaymentReference]

\* read: the import as read; list: its rows, as read (Apply) or inserted (Process);
\* todo: what is left to post, parsed rows or manual matches; free: what Process knows to
\* be outstanding on the open accounts; wrote: the rows Apply has updated, uncommitted.
NoWork == [import |-> "none", read |-> Counts("none", 0, 0, 0, 0, 0), list |-> <<>>,
           todo |-> <<>>, free |-> {}, wrote |-> {}]

Init == /\ LedgerInit
        /\ imports = [i \in Imports |-> Counts("none", 0, 0, 0, 0, 0)]
        /\ rawCsv = [i \in Imports |-> TRUE]
        /\ rows = [i \in Imports |-> <<>>]
        /\ work = [r \in Requests |-> NoWork]
        /\ blind = {}

-----------------------------------------------------------------------------
(* Matching: exactly one candidate, or exactly one whose outstanding amount the row
   pays to the cent.                                                               *)
Exact(amount, free, candidates) ==
  {a \in candidates : \E f \in free : f.account = a /\ f.cents = amount}

matchBankStatementRow(row, free) ==
  LET open == {f.account : f \in free}
      units == row.units \cap open
      owners == row.owners \cap open
      fits == \E f \in free : f.account \in units /\ row.amount <= f.cents
      exact == Exact(row.amount, free, IF units = {} THEN owners ELSE units)
  IN IF Cardinality(units) = 1 /\ fits THEN units
     ELSE IF Cardinality(units) > 1 /\ Cardinality(exact) = 1 THEN exact
     ELSE IF units = {} /\ Cardinality(owners) = 1 THEN exact
     ELSE {}

Unplaced(row, free) ==
  [status |-> IF row.units \cap {f.account : f \in free} # {} THEN "ambiguous" ELSE "unmatched",
   payment |-> NoPayment]

Outstanding(a, cents) == [account |-> a, cents |-> IF cents < Due[a] THEN Due[a] - cents ELSE 0]

\* An account is open until its status is 'paid', which is when it is covered.
statusPaid(a) == paid[a] >= Due[a] /\ Due[a] > 0

ListOpenLevyAccounts == {Outstanding(a, paid[a]) : a \in {b \in Accounts : ~statusPaid(b)}}

-----------------------------------------------------------------------------
(* ensureLevyPayment(ref, a): the payment a already has under ref is kept; a reference
   another account has is suffixed.  Post also applies the row the payment is for.     *)

\* Mutant: a reference that is taken is suffixed, whoever has it.
NeverExisting(r, ref, a) == FALSE

Existing(r, ref, a) == \E p \in SeenPayments(r) : p.reference = ref /\ p.account = a

ReferenceFor(r, ref, a) == IF Taken(SeenPayments(r), ref) /\ ~Existing(r, ref, a)
                           THEN <<ref, a>> ELSE ref

PaymentFor(r, row, a) == [reference |-> ReferenceFor(r, row.fingerprint, a), account |-> a,
                          amount |-> row.amount]

\* Mutant: a payment that exists is credited like a new one.
AfterPostAnyway(r, row, a) == Posted(r, PaymentFor(r, row, a))

AfterPost(r, row, a) == IF Existing(r, row.fingerprint, a) THEN tx[r]
                                                           ELSE Posted(r, PaymentFor(r, row, a))

MayEnsure(r, row, a) == Existing(r, row.fingerprint, a) \/ MayPost(r, PaymentFor(r, row, a))

\* Mutant: a posted row applied without its payment.
AppliedUnlinked(reference) == [status |-> "applied", payment |-> NoPayment]

AppliedRow(reference) == [status |-> "applied", payment |-> reference]

-----------------------------------------------------------------------------
(* ImportBankStatement, and its enqueue when that fails.  A crash between the two leaves
   the import as a successful enqueue does, but for the job.                            *)
ImportBankStatement(i, enqueued) ==
  /\ imports[i].status = "none"
  /\ imports' = [imports EXCEPT ![i].status = IF enqueued THEN "queued" ELSE "failed"]
  /\ UNCHANGED <<ledgerVars, rawCsv, rows, work, blind>>

(* ProcessBankStatementImport.  An import it has finished, or that failed, is left as it
   is; a retry whose query for the rows fails (not listed) goes on as if there were none. *)
Unfinished(i, listed) == \/ imports[i].status = "queued"
                         \/ /\ imports[i].status \in {"applied", "review_required"}
                            /\ listed => rows[i] = <<>>

CsvDoesNotParse(i) ==
  /\ \E listed \in BOOLEAN : Unfinished(i, listed)
  /\ rawCsv[i] /\ Statement[i] = NoParse
  /\ imports' = [imports EXCEPT ![i] = Counts("failed", 0, 0, 0, 0, 0)]
  /\ UNCHANGED <<ledgerVars, rawCsv, rows, work, blind>>

parseFNBStatementCSV(i) == IF rawCsv[i] THEN Statement[i] ELSE <<>>

BeginProcess(r, i) ==
  /\ tx[r] = NoTx
  /\ \E listed \in BOOLEAN :
       /\ Unfinished(i, listed)
       /\ blind' = IF listed \/ rawCsv[i] THEN blind ELSE blind \cup {i}
  /\ parseFNBStatementCSV(i) # NoParse
  /\ tx' = [tx EXCEPT ![r].step = "row"]
  /\ work' = [work EXCEPT ![r] = [NoWork EXCEPT !.import = i, !.todo = parseFNBStatementCSV(i),
                                                !.free = ListOpenLevyAccounts]]
  /\ UNCHANGED <<payments, paid, imports, rawCsv, rows>>

\* UNIQUE (import_id, row_number): a second handler waits for the first, then aborts.
CreateBankStatementRow(r) ==
  LET w == work[r]
  IN /\ rows[w.import] = <<>>
     /\ \A o \in Requests \ {r} : work[o].import = w.import => work[o].list = <<>>

ProcessRow(r) ==
  LET w == work[r]
      row == Head(w.todo)
      match == matchBankStatementRow(row, w.free)
  IN /\ tx[r].step = "row" /\ w.todo # <<>> /\ CreateBankStatementRow(r)
     /\ IF match = {}
        THEN /\ work' = [work EXCEPT ![r].list = Append(@, Unplaced(row, w.free)),
                                     ![r].todo = Tail(@)]
             /\ UNCHANGED tx
        ELSE /\ tx' = [tx EXCEPT ![r].step = "post",
                                 ![r].seen = PaidIn(r, CHOOSE a \in match : TRUE)]
             /\ work' = [work EXCEPT ![r].list = Append(@, AppliedRow(NoPayment))]
     /\ UNCHANGED <<payments, paid, imports, rawCsv, rows, blind>>

PostRow(r) ==
  LET w == work[r]
      row == Head(w.todo)
      a == CHOOSE b \in matchBankStatementRow(row, w.free) : TRUE
      left == IF Existing(r, row.fingerprint, a) THEN w.free
              ELSE {f \in w.free : f.account # a} \cup {Outstanding(a, tx[r].seen + row.amount)}
  IN /\ tx[r].step = "post" /\ MayEnsure(r, row, a)
     /\ tx' = [tx EXCEPT ![r] = [AfterPost(r, row, a) EXCEPT !.step = "row"]]
     /\ work' = [work EXCEPT ![r].list[Len(w.list)] =
                                AppliedRow(ReferenceFor(r, row.fingerprint, a)),
                             ![r].todo = Tail(@), ![r].free = left]
     /\ UNCHANGED <<payments, paid, imports, rawCsv, rows, blind>>

CountRows(list, status) == Cardinality({n \in DOMAIN list : list[n].status = status})

\* The CSV is cleared after the commit, and stays when that fails.
CommitProcess(r, cleared) ==
  LET w == work[r]
      ambiguous == CountRows(w.list, "ambiguous")
      unmatched == CountRows(w.list, "unmatched")
      matched == CountRows(w.list, "applied")
  IN /\ tx[r].step = "row" /\ w.todo = <<>>
     /\ Publish(r)
     /\ rows' = [rows EXCEPT ![w.import] = @ \o w.list]
     /\ imports' = [imports EXCEPT ![w.import] =
                      Counts(IF ambiguous + unmatched = 0 THEN "applied" ELSE "review_required",
                             Len(w.list), matched, ambiguous, unmatched, matched)]
     /\ rawCsv' = [rawCsv EXCEPT ![w.import] = @ /\ ~cleared]
     /\ work' = [work EXCEPT ![r] = NoWork]
     /\ UNCHANGED blind

-----------------------------------------------------------------------------
(* ApplyBankStatementImport: the import is read before the transaction, its rows in it. *)
validateManualBankMatches(ms) ==
  ms # <<>> /\ \A m, n \in DOMAIN ms : ms[m].row = ms[n].row => m = n

BeginApply(r, i, ms) ==
  /\ tx[r] = NoTx
  /\ imports[i].status = "review_required" /\ validateManualBankMatches(ms)
  /\ tx' = [tx EXCEPT ![r].step = "list"]
  /\ work' = [work EXCEPT ![r] = [NoWork EXCEPT !.import = i, !.read = imports[i], !.todo = ms]]
  /\ UNCHANGED <<payments, paid, imports, rawCsv, rows, blind>>

ListBankStatementRows(r) ==
  /\ tx[r].step = "list" /\ rows[work[r].import] # <<>>
  /\ tx' = [tx EXCEPT ![r].step = "match"]
  /\ work' = [work EXCEPT ![r].list = rows[work[r].import]]
  /\ UNCHANGED <<payments, paid, imports, rawCsv, rows, blind>>

\* Mutant: an applied row is applied again.
NeverApplied(w, m) == FALSE

AlreadyApplied(w, m) == w.list[m.row].status = "applied"

MatchRow(r) ==
  LET w == work[r]
      m == Head(w.todo)
  IN /\ tx[r].step = "match" /\ w.todo # <<>> /\ m.row \in DOMAIN w.list
     /\ IF AlreadyApplied(w, m)
        THEN work' = [work EXCEPT ![r].todo = Tail(@)] /\ UNCHANGED tx
        ELSE /\ tx' = [tx EXCEPT ![r].step = "apply", ![r].seen = PaidIn(r, m.account)]
             /\ UNCHANGED work
     /\ UNCHANGED <<payments, paid, imports, rawCsv, rows, blind>>

\* UPDATE ... WHERE id = $1 waits for another transaction's, then overwrites it.
ApplyRow(r) ==
  LET w == work[r]
      m == Head(w.todo)
      row == Statement[w.import][m.row]
  IN /\ tx[r].step = "apply" /\ MayEnsure(r, row, m.account)
     /\ \A o \in Requests \ {r} :
          work[o].import = w.import => \A x \in work[o].wrote : x.row # m.row
     /\ tx' = [tx EXCEPT ![r] = [AfterPost(r, row, m.account) EXCEPT !.step = "match"]]
     /\ work' = [work EXCEPT
                  ![r].wrote = @ \cup {[row |-> m.row,
                                        payment |-> ReferenceFor(r, row.fingerprint, m.account)]},
                  ![r].todo = Tail(@)]
     /\ UNCHANGED <<payments, paid, imports, rawCsv, rows, blind>>

Wrote(w, n) == \E x \in w.wrote : x.row = n

\* Mutants: the row stays counted where it was; the count is of the import as it is now.
NotLess(count, w, status) == count
AppliedNow(w) == imports[w.import].applied + Cardinality(w.wrote)

Less(count, w, status) ==
  LET left == count - Cardinality({x \in w.wrote : w.list[x.row].status = status})
  IN IF left < 0 THEN 0 ELSE left

AppliedCount(w) == w.read.applied + Cardinality(w.wrote)

CommitApply(r) ==
  LET w == work[r]
      applied == AppliedCount(w)
      status == IF applied >= w.read.total /\ w.read.total > 0 THEN "applied"
                                                               ELSE "review_required"
  IN /\ tx[r].step = "match" /\ w.todo = <<>>
     /\ Publish(r)
     /\ rows' = [rows EXCEPT ![w.import] =
                   [n \in DOMAIN @ |-> IF Wrote(w, n)
                                       THEN AppliedRow((CHOOSE x \in w.wrote : x.row = n).payment)
                                       ELSE @[n]]]
     /\ imports' = [imports EXCEPT ![w.import] =
                      Counts(status, w.read.total, w.read.matched,
                             Less(w.read.ambiguous, w, "ambiguous"),
                             Less(w.read.unmatched, w, "unmatched"), applied)]
     /\ work' = [work EXCEPT ![r] = NoWork]
     /\ UNCHANGED <<rawCsv, blind>>

\* Errors, deadlocks, unique violations and crashes, of either.
RollbackImport(r) == /\ tx[r].step \in {"row", "post", "list", "match", "apply"}
                     /\ tx' = [tx EXCEPT ![r] = NoTx]
                     /\ work' = [work EXCEPT ![r] = NoWork]
                     /\ UNCHANGED <<payments, paid, imports, rawCsv, rows, blind>>

Next ==
  \/ \E i \in Imports : \/ \E enqueued \in BOOLEAN : ImportBankStatement(i, enqueued)
                        \/ CsvDoesNotParse(i)
  \/ \E r \in Requests, i \in Imports : \/ BeginProcess(r, i)
                                        \/ \E ms \in Matches : BeginApply(r, i, ms)
  \/ \E r \in Requests : \/ ProcessRow(r) \/ PostRow(r)
                         \/ \E cleared \in BOOLEAN : CommitProcess(r, cleared)
                         \/ ListBankStatementRows(r) \/ MatchRow(r) \/ ApplyRow(r)
                         \/ CommitApply(r) \/ RollbackImport(r)
  \/ ReconcileNext /\ UNCHANGED importVars

Spec == Init /\ [][Next]_vars

\* Requests and job handlers that never overlap: each ends before the next begins.
OneAtATime == \A r \in Requests : tx'[r] # tx[r] => \A o \in Requests \ {r} : tx[o] = NoTx

-----------------------------------------------------------------------------
(* A row shown as applied is money in the ledger: the payment it links to is committed,
   and of the row's amount, wherever either handler failed, retried or was overtaken.   *)
AppliedRowHasPayment ==
  \A i \in Imports : \A n \in DOMAIN rows[i] :
    rows[i][n].status = "applied"
      => \E p \in payments : /\ p.reference = rows[i][n].payment
                             /\ p.amount = Statement[i][n].amount

\* The payments made for a deposit bear its fingerprint, with or without a suffix.
ReferencesOf(f) == {f} \cup ({f} \X Accounts)

(* A deposit is credited to one account once only, however often it is uploaded, retried
   and clicked on, and whatever overlaps: of the statements that show it, the later ones
   find the payment the account has (ensureLevyPayment, bank_statement_import.go:934).  *)
OncePerAccount ==
  \A f \in References : \A p, q \in payments :
    {p.reference, q.reference} \subseteq ReferencesOf(f) /\ p.account = q.account => p = q

(* While requests and handlers run one after the other, the money posted for a deposit can
   be traced: a row that shows the deposit links to the payment.  So no row is posted twice,
   and a rollback, retry or click leaves no payment behind (docs/database.md:44, "links to
   levy accounts/payments when reconciled").                                              *)
Shown(p, f) == \E i \in Imports : \E n \in 1..Len(rows[i]) :
                 /\ rows[i][n] = AppliedRow(p.reference)
                 /\ Statement[i][n].fingerprint = f

PaymentsHaveRows ==
  \A p \in payments, d \in StatementRows :
    p.reference \in ReferencesOf(d.fingerprint) => Shown(p, d.fingerprint)

(* backend/db/migrations/00004_levy.sql:39, "reference is unique - idempotency key": there
   are no more payments for a deposit than one statement shows deposits like it.  Uploaded
   again it finds its reference taken, and is posted to another account of the unit under a
   reference with a suffix (bank_statement_import.go:939).                                 *)
PaymentsFor(f) == {p \in payments : p.reference \in ReferencesOf(f)}

DepositsIn(i, f) == IF Statement[i] = NoParse THEN {}
                    ELSE {n \in DOMAIN Statement[i] : Statement[i][n].fingerprint = f}

DepositPostedOnce ==
  \A d \in StatementRows : \E i \in Imports :
    Cardinality(PaymentsFor(d.fingerprint)) <= Cardinality(DepositsIn(i, d.fingerprint))

(* An import shown as applied has no row left to review, though each Apply adds what it
   did to counters another one has since changed: they may lag, and never run ahead.  But
   for a retry that went on blind, as it ignores that its query for the rows has failed
   (bank_statement_import.go:743): it finds no rows in the cleared CSV, and none to review. *)
NoneLeft(i) ==
  imports[i].status = "applied" => \A n \in DOMAIN rows[i] : rows[i][n].status = "applied"

AppliedImportIsDone == \A i \in Imports \ blind : NoneLeft(i)

(* docs/database.md:43 has imports with "reconciliation lifecycle counters and error state":
   the status of an import is that of its rows, after a retry as before.                   *)
StatusOutlivesRetry == \A i \in Imports : NoneLeft(i)

(* docs/database.md:43, "reconciliation lifecycle counters": after each handler the
   counters are those of the rows, and the import is applied exactly when all are; but for
   imports a retry took up blind, whose counters it sets to zero.                        *)
CountersMatchRows ==
  \A i \in Imports \ blind :
    imports[i].status \in {"review_required", "applied"} =>
      /\ imports[i].total = Len(rows[i])
      /\ imports[i].applied = CountRows(rows[i], "applied")
      /\ imports[i].ambiguous = CountRows(rows[i], "ambiguous")
      /\ imports[i].unmatched = CountRows(rows[i], "unmatched")
      /\ imports[i].status = "applied" <=> imports[i].applied = imports[i].total
=============================================================================
