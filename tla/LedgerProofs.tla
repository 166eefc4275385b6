---------------------------- MODULE LedgerProofs ----------------------------
(***************************************************************************)
(* What holds of the levy ledger and of bank statements for any number of  *)
(* accounts, imports, rows, batches and requests.  A request is a          *)
(* transaction of several statements that sees what is committed and what  *)
(* it has written itself; most of the invariants below say what one knows  *)
(* at each of its steps that no other's commit can take away.              *)
(*   TypeInv    what a request has in hand where its handler's code can be *)
(*   BackedInv  balances, and those a request holds, are covered           *)
(*   LinkedInv  rows that are applied, or about to be, have their payments *)
(*   OnceInv    the matches of one Apply are of different rows             *)
(*   DoneInv    counters never run ahead of the rows, but for a blind retry *)
(*   UniqueInv, RivalInv  no payment bears another's reference, and one    *)
(*              with a suffix is of another account than the one without   *)
(* and for requests that run one after the other                           *)
(*   ExactInv, ReadInv, ShownInv, CountersInv                              *)
(* that balances, reads, payments and counters are exact.                  *)
(***************************************************************************)
EXTENDS BankStatementImport, SumTheorems, SequenceTheorems

-----------------------------------------------------------------------------
(* Types, and what a request has at each step of its transaction.          *)
Posting == {"write", "post", "apply"}
Processing == {"row", "post"}
Applying == {"list", "match", "apply"}
Steps == {"none", "read", "write"} \cup Processing \cup Applying

Held == [account : Accounts, paid : Nat]
Free == [account : Accounts, cents : Nat]
Written == [row : Nat \ {0}, payment : PaymentReference]

Tx == [step : Steps, lines : Seq(Line), seen : Nat, made : SUBSET Payment, held : SUBSET Held]

Work == [import : Imports \cup {"none"}, read : Counters, list : Seq(ImportRow),
         todo : Seq(StatementRow) \cup Seq(Match), free : SUBSET Free, wrote : SUBSET Written]

LedgerType ==
  /\ payments \in SUBSET Payment /\ IsFiniteSet(payments)
  /\ paid \in [Accounts -> Nat]
  /\ tx \in [Requests -> Tx]
  /\ \A r \in Requests : IsFiniteSet(tx[r].made)

ImportType ==
  /\ imports \in [Imports -> Counters]
  /\ rawCsv \in [Imports -> BOOLEAN]
  /\ rows \in [Imports -> Seq(ImportRow)]
  /\ work \in [Requests -> Work]
  /\ \A r \in Requests : IsFiniteSet(work[r].wrote)

\* The rows of its statement a handler has placed, but for the one in hand.
Placed(r) == IF tx[r].step = "post" THEN Len(work[r].list) - 1 ELSE Len(work[r].list)

Aligned(r) ==
  LET w == work[r]
  IN /\ Placed(r) + Len(w.todo) <= Len(Statement[w.import])
     /\ \A m \in 1..Len(w.todo) : w.todo[m] = Statement[w.import][Placed(r) + m]

ProcessingOK(r) ==
  LET w == work[r]
  IN /\ w.import \in Imports /\ Statement[w.import] # NoParse
     /\ w.todo \in Seq(StatementRow) /\ Aligned(r)
     /\ tx[r].step = "post" => /\ w.list # <<>> /\ w.todo # <<>>
                               /\ matchBankStatementRow(Head(w.todo), w.free) # {}
     /\ w.wrote = {}

ApplyingOK(r) ==
  LET w == work[r]
  IN /\ w.import \in Imports /\ w.todo \in Seq(Match)
     /\ tx[r].step = "list" <=> w.list = <<>>
     /\ tx[r].step = "apply" => w.todo # <<>> /\ Head(w.todo).row \in DOMAIN w.list
     /\ \A x \in w.wrote : x.row \in DOMAIN w.list

\* What is left of a batch is lines of a batch.
BatchLines == UNION {Range(batch) : batch \in Batches}

RequestOK(r) ==
  /\ tx[r].step = "none" => tx[r] = NoTx
  /\ \A k \in 1..Len(tx[r].lines) : tx[r].lines[k] \in BatchLines
  /\ tx[r].step \notin Processing \cup Applying => work[r] = NoWork
  /\ tx[r].step = "write" => tx[r].lines # <<>>
  /\ tx[r].step \in Processing => ProcessingOK(r)
  /\ tx[r].step \in Applying => ApplyingOK(r)

\* A handler places rows only for an import that has none, and alone; a list of rows read
\* names all of them, and then the import stays as long as it is.
ListOK(r) ==
  LET w == work[r]
  IN w.list # <<>> =>
       IF tx[r].step \in Processing
       THEN /\ rows[w.import] = <<>>
            /\ \A o \in Requests \ {r} : work[o].import = w.import => work[o].list = <<>>
       ELSE Len(w.list) = Len(rows[w.import])

ImportOK(i) ==
  /\ ~rawCsv[i] \/ rows[i] # <<>> => Statement[i] # NoParse
  /\ rows[i] # <<>> => Len(rows[i]) <= Len(Statement[i])

TypeInv == /\ LedgerType /\ ImportType
           /\ \A r \in Requests : RequestOK(r)
           /\ \A r \in Requests : ListOK(r)
           /\ \A i \in Imports : ImportOK(i)
-----------------------------------------------------------------------------
(* What a request sees, and the balance it reads.                          *)
LEMMA SeenIsPayments ==
  ASSUME TypeInv, NEW r \in Requests
  PROVE  SeenPayments(r) \in SUBSET Payment /\ IsFiniteSet(SeenPayments(r))
<1>1. tx[r].made \in SUBSET Payment /\ IsFiniteSet(tx[r].made)
  BY DEF TypeInv, LedgerType, Tx
<1>2. payments \in SUBSET Payment /\ IsFiniteSet(payments)
  BY DEF TypeInv, LedgerType
<1> QED
  BY <1>1, <1>2, FS_Union DEF SeenPayments

LEMMA PaidInIsNat ==
  ASSUME TypeInv, NEW r \in Requests, NEW a \in Accounts
  PROVE  PaidIn(r, a) \in Nat
<1>1. tx[r].held \in SUBSET Held /\ paid[a] \in Nat
  BY DEF TypeInv, LedgerType, Tx
<1> QED
  BY <1>1 DEF PaidIn, Held

LEMMA NoTxIsTx == NoTx \in Tx /\ IsFiniteSet(NoTx.made)
  BY FS_EmptySet, EmptySeq DEF NoTx, Tx, Steps

(* A request moves: it alone, to records of the right kind.                *)
TxMoves(r, t, w) == /\ tx' = [tx EXCEPT ![r] = t] /\ t \in Tx /\ IsFiniteSet(t.made)
                  /\ work' = [work EXCEPT ![r] = w] /\ w \in Work /\ IsFiniteSet(w.wrote)

LEMMA MovesKeepTypes ==
  ASSUME TypeInv, NEW r \in Requests, NEW t, NEW w, TxMoves(r, t, w),
         payments' \in SUBSET Payment, IsFiniteSet(payments'), paid' \in [Accounts -> Nat],
         imports' \in [Imports -> Counters], rawCsv' \in [Imports -> BOOLEAN],
         rows' \in [Imports -> Seq(ImportRow)]
  PROVE  LedgerType' /\ ImportType' /\ tx'[r] = t /\ work'[r] = w
         /\ \A o \in Requests \ {r} : tx'[o] = tx[o] /\ work'[o] = work[o]
<1>1. tx \in [Requests -> Tx] /\ work \in [Requests -> Work]
  BY DEF TypeInv, LedgerType, ImportType
<1>2. tx' \in [Requests -> Tx] /\ work' \in [Requests -> Work]
  BY <1>1 DEF TxMoves
<1>3. tx'[r] = t /\ work'[r] = w
  BY <1>1 DEF TxMoves
<1>4. \A o \in Requests \ {r} : tx'[o] = tx[o] /\ work'[o] = work[o]
  BY <1>1 DEF TxMoves
<1>5. \A o \in Requests : IsFiniteSet(tx'[o].made) /\ IsFiniteSet(work'[o].wrote)
  BY <1>3, <1>4 DEF TxMoves, TypeInv, LedgerType, ImportType
<1> QED
  BY <1>2, <1>3, <1>4, <1>5 DEF LedgerType, ImportType

LEMMA StillOK ==
  ASSUME NEW o, RequestOK(o), tx'[o] = tx[o], work'[o] = work[o]
  PROVE  RequestOK(o)'
BY DEF RequestOK, ProcessingOK, ApplyingOK, Aligned, Placed

(* A move within the ledger: imports and their rows stay as they are.      *)
LEMMA LedgerMove ==
  ASSUME TypeInv, NEW r \in Requests, NEW t, TxMoves(r, t, work[r]),
         payments' \in SUBSET Payment, IsFiniteSet(payments'), paid' \in [Accounts -> Nat],
         UNCHANGED <<imports, rawCsv, rows>>, RequestOK(r)',
         tx'[r].step \in Processing <=> tx[r].step \in Processing
  PROVE  TypeInv'
<1>1. LedgerType' /\ ImportType' /\ tx'[r] = t /\ work'[r] = work[r]
      /\ \A o \in Requests \ {r} : tx'[o] = tx[o] /\ work'[o] = work[o]
  <2>1. /\ imports' \in [Imports -> Counters] /\ rawCsv' \in [Imports -> BOOLEAN]
        /\ rows' \in [Imports -> Seq(ImportRow)]
    BY DEF TypeInv, ImportType
  <2> QED
    BY <2>1, MovesKeepTypes
<1>2. \A o \in Requests : RequestOK(o)'
  BY <1>1, StillOK DEF TypeInv
<1>3. \A o \in Requests : ListOK(o)'
  BY <1>1 DEF TypeInv, ListOK
<1>4. \A i \in Imports : ImportOK(i)'
  BY DEF TypeInv, ImportOK
<1> QED
  BY <1>1, <1>2, <1>3, <1>4 DEF TypeInv

LEMMA BeginReconcileKeeps ==
  ASSUME TypeInv, NEW r \in Requests, NEW batch \in Batches, BeginReconcile(r, batch),
         UNCHANGED importVars
  PROVE  TypeInv'
<1> DEFINE t == [NoTx EXCEPT !.step = "read", !.lines = batch]
<1>1. batch \in Seq(Line)
  BY LedgerAssumption
<1>2. t \in Tx /\ IsFiniteSet(t.made) /\ t.lines = batch /\ t.step = "read"
  BY <1>1, NoTxIsTx DEF NoTx, Tx, Steps
<1>3. work[r] \in Work /\ IsFiniteSet(work[r].wrote) /\ work' = [work EXCEPT ![r] = work[r]]
  BY DEF TypeInv, ImportType, importVars
<1>4. TxMoves(r, t, work[r])
  BY <1>2, <1>3 DEF TxMoves, BeginReconcile
<1>5. tx'[r] = t /\ work'[r] = work[r]
  BY <1>2 DEF BeginReconcile, importVars, TypeInv, LedgerType
<1>6. work[r] = NoWork
  BY DEF TypeInv, RequestOK, BeginReconcile, NoTx, Processing, Applying
<1>7. \A k \in 1..Len(batch) : batch[k] \in BatchLines
  BY <1>1, LenProperties DEF BatchLines, Range
<1>8. RequestOK(r)'
  BY <1>2, <1>5, <1>6, <1>7 DEF RequestOK, Processing, Applying
<1>9. payments' \in SUBSET Payment /\ IsFiniteSet(payments') /\ paid' \in [Accounts -> Nat]
  BY DEF TypeInv, LedgerType, BeginReconcile
<1> QED
  BY <1>2, <1>4, <1>5, <1>8, <1>9, LedgerMove
     DEF importVars, BeginReconcile, NoTx, Processing

LEMMA TailLines ==
  ASSUME TypeInv, NEW r \in Requests, tx[r].lines # <<>>
  PROVE  /\ Head(tx[r].lines) \in Line /\ Tail(tx[r].lines) \in Seq(Line)
         /\ Head(tx[r].lines) \in BatchLines
         /\ \A k \in 1..Len(Tail(tx[r].lines)) : Tail(tx[r].lines)[k] \in BatchLines
<1>1. tx[r].lines \in Seq(Line)
  BY DEF TypeInv, LedgerType, Tx
<1>2. \A k \in 1..Len(tx[r].lines) : tx[r].lines[k] \in BatchLines
  BY DEF TypeInv, RequestOK
<1> QED
  BY <1>1, <1>2, HeadTailProperties, EmptySeq

LEMMA SkipLineKeeps ==
  ASSUME TypeInv, NEW r \in Requests, SkipLine(r), UNCHANGED importVars
  PROVE  TypeInv'
<1> DEFINE t == [tx[r] EXCEPT !.lines = Tail(@)]
<1>1. tx[r] \in Tx /\ IsFiniteSet(tx[r].made)
  BY DEF TypeInv, LedgerType
<1>2. t \in Tx /\ t.lines = Tail(tx[r].lines) /\ t.step = "read" /\ t.made = tx[r].made
  BY <1>1, TailLines DEF Tx, SkipLine
<1>3. work[r] \in Work /\ IsFiniteSet(work[r].wrote) /\ work' = [work EXCEPT ![r] = work[r]]
  BY DEF TypeInv, ImportType, importVars
<1>4. TxMoves(r, t, work[r])
  BY <1>1, <1>2, <1>3 DEF TxMoves, SkipLine
<1>5. tx'[r] = t /\ work'[r] = work[r]
  BY <1>2 DEF SkipLine, importVars, TypeInv, LedgerType
<1>6. work[r] = NoWork
  BY DEF TypeInv, RequestOK, SkipLine, Processing, Applying
<1>7. RequestOK(r)'
  BY <1>2, <1>5, <1>6, TailLines DEF RequestOK, Processing, Applying, SkipLine
<1>8. payments' \in SUBSET Payment /\ IsFiniteSet(payments') /\ paid' \in [Accounts -> Nat]
  BY DEF TypeInv, LedgerType, SkipLine
<1> QED
  BY <1>2, <1>4, <1>5, <1>7, <1>8, LedgerMove DEF importVars, SkipLine, Processing

LEMMA GetLevyAccountKeeps ==
  ASSUME TypeInv, NEW r \in Requests, GetLevyAccount(r), UNCHANGED importVars
  PROVE  TypeInv'
<1> DEFINE t == [tx[r] EXCEPT !.step = "write", !.seen = PaidIn(r, Head(tx[r].lines).account)]
<1>1. tx[r] \in Tx /\ IsFiniteSet(tx[r].made)
  BY DEF TypeInv, LedgerType
<1>2. PaidIn(r, Head(tx[r].lines).account) \in Nat
  BY TailLines, PaidInIsNat DEF GetLevyAccount, Line
<1>3. t \in Tx /\ t.lines = tx[r].lines /\ t.step = "write" /\ t.made = tx[r].made
  BY <1>1, <1>2 DEF Tx, Steps
<1>4. work[r] \in Work /\ IsFiniteSet(work[r].wrote) /\ work' = [work EXCEPT ![r] = work[r]]
  BY DEF TypeInv, ImportType, importVars
<1>5. tx' = [tx EXCEPT ![r] = t]
  BY DEF GetLevyAccount
<1>6. TxMoves(r, t, work[r])
  BY <1>1, <1>3, <1>4, <1>5 DEF TxMoves
<1>7. tx'[r] = t /\ work'[r] = work[r]
  BY <1>3, <1>5 DEF importVars, TypeInv, LedgerType
<1>8. work[r] = NoWork
  BY DEF TypeInv, RequestOK, GetLevyAccount, Processing, Applying
<1>9. RequestOK(r)'
  <2>1. \A k \in 1..Len(tx[r].lines) : tx[r].lines[k] \in BatchLines
    BY DEF TypeInv, RequestOK
  <2> QED
    BY <2>1, <1>3, <1>7, <1>8 DEF RequestOK, Processing, Applying, GetLevyAccount
<1>10. payments' \in SUBSET Payment /\ IsFiniteSet(payments') /\ paid' \in [Accounts -> Nat]
  BY DEF TypeInv, LedgerType, GetLevyAccount
<1> QED
  BY <1>3, <1>6, <1>7, <1>9, <1>10, LedgerMove DEF importVars, GetLevyAccount, Processing

(* Posting a payment, of a batch or a statement.                           *)
LEMMA PostedIsTx ==
  ASSUME TypeInv, NEW r \in Requests, NEW p \in Payment
  PROVE  /\ Posted(r, p) \in Tx /\ IsFiniteSet(Posted(r, p).made)
         /\ Posted(r, p).lines = tx[r].lines /\ Posted(r, p).step = tx[r].step
         /\ Posted(r, p).seen = tx[r].seen /\ Posted(r, p).made = tx[r].made \cup {p}
         /\ Posted(r, p).held = {h \in tx[r].held : h.account # p.account}
                                  \cup {[account |-> p.account, paid |-> tx[r].seen + p.amount]}
<1>1. tx[r] \in Tx /\ IsFiniteSet(tx[r].made)
  BY DEF TypeInv, LedgerType
<1>2. [account |-> p.account, paid |-> tx[r].seen + p.amount] \in Held
  BY <1>1 DEF Tx, Held, Payment
<1>3. tx[r].made \cup {p} \in SUBSET Payment /\ IsFiniteSet(tx[r].made \cup {p})
  BY <1>1, FS_AddElement DEF Tx
<1> QED
  BY <1>1, <1>2, <1>3 DEF Posted, Tx

LEMMA LineIsPayment == ASSUME NEW l \in Line PROVE l \in Payment
  BY DEF Line, Payment, PaymentReference

LEMMA PostLineKeeps ==
  ASSUME TypeInv, NEW r \in Requests, PostLine(r), UNCHANGED importVars
  PROVE  TypeInv'
<1> DEFINE p == Head(tx[r].lines)
           t == [Posted(r, p) EXCEPT !.step = "read", !.lines = Tail(@)]
<1>1. tx[r].lines # <<>>
  BY DEF TypeInv, RequestOK, PostLine
<1>2. p \in Payment
  BY <1>1, TailLines, LineIsPayment
<1> HIDE DEF p
<1>3. t \in Tx /\ t.lines = Tail(tx[r].lines) /\ t.step = "read" /\ IsFiniteSet(t.made)
  <2>1. /\ Posted(r, p) \in Tx /\ IsFiniteSet(Posted(r, p).made)
        /\ Posted(r, p).lines = tx[r].lines /\ Tail(tx[r].lines) \in Seq(Line)
    BY <1>1, <1>2, PostedIsTx, TailLines
  <2> QED
    BY <2>1 DEF Tx, Steps
<1>4. work[r] \in Work /\ IsFiniteSet(work[r].wrote) /\ work' = [work EXCEPT ![r] = work[r]]
  BY DEF TypeInv, ImportType, importVars
<1>5. tx' = [tx EXCEPT ![r] = t]
  BY DEF PostLine, p
<1>6. TxMoves(r, t, work[r])
  BY <1>3, <1>4, <1>5 DEF TxMoves
<1>7. tx'[r] = t /\ work'[r] = work[r]
  BY <1>3, <1>5 DEF importVars, TypeInv, LedgerType
<1>8. work[r] = NoWork
  BY DEF TypeInv, RequestOK, PostLine, Processing, Applying
<1>9. RequestOK(r)'
  BY <1>1, <1>3, <1>7, <1>8, TailLines DEF RequestOK, Processing, Applying
<1>10. payments' \in SUBSET Payment /\ IsFiniteSet(payments') /\ paid' \in [Accounts -> Nat]
  BY DEF TypeInv, LedgerType, PostLine
<1> QED
  BY <1>3, <1>6, <1>7, <1>9, <1>10, LedgerMove DEF importVars, PostLine, Processing

(* Committing it all, or dropping it.                                      *)
LEMMA PublishTypes ==
  ASSUME TypeInv, NEW r \in Requests, Publish(r)
  PROVE  payments' \in SUBSET Payment /\ IsFiniteSet(payments') /\ paid' \in [Accounts -> Nat]
BY SeenIsPayments, PaidInIsNat DEF Publish

LEMMA CommitReconcileKeeps ==
  ASSUME TypeInv, NEW r \in Requests, CommitReconcile(r), UNCHANGED importVars
  PROVE  TypeInv'
<1>1. work[r] \in Work /\ IsFiniteSet(work[r].wrote) /\ work' = [work EXCEPT ![r] = work[r]]
  BY DEF TypeInv, ImportType, importVars
<1>2. TxMoves(r, NoTx, work[r])
  BY <1>1, NoTxIsTx DEF TxMoves, CommitReconcile, Publish
<1>3. tx'[r] = NoTx /\ work'[r] = work[r]
  BY DEF CommitReconcile, Publish, importVars, TypeInv, LedgerType
<1>4. work[r] = NoWork
  BY DEF TypeInv, RequestOK, CommitReconcile, Processing, Applying
<1>5. RequestOK(r)'
  BY <1>3, <1>4, EmptySeq DEF RequestOK, NoTx, Processing, Applying
<1> QED
  BY <1>2, <1>3, <1>5, PublishTypes, LedgerMove
     DEF importVars, CommitReconcile, NoTx, Processing

LEMMA RollbackKeeps ==
  ASSUME TypeInv, NEW r \in Requests, Rollback(r), UNCHANGED importVars
  PROVE  TypeInv'
<1>1. work[r] \in Work /\ IsFiniteSet(work[r].wrote) /\ work' = [work EXCEPT ![r] = work[r]]
  BY DEF TypeInv, ImportType, importVars
<1>2. TxMoves(r, NoTx, work[r])
  BY <1>1, NoTxIsTx DEF TxMoves, Rollback
<1>3. tx'[r] = NoTx /\ work'[r] = work[r]
  BY DEF Rollback, importVars, TypeInv, LedgerType
<1>4. work[r] = NoWork
  BY DEF TypeInv, RequestOK, Rollback, Processing, Applying
<1>5. RequestOK(r)'
  BY <1>3, <1>4, EmptySeq DEF RequestOK, NoTx, Processing, Applying
<1>6. payments' \in SUBSET Payment /\ IsFiniteSet(payments') /\ paid' \in [Accounts -> Nat]
  BY DEF TypeInv, LedgerType, Rollback
<1> QED
  BY <1>2, <1>3, <1>5, <1>6, LedgerMove DEF importVars, Rollback, NoTx, Processing

-----------------------------------------------------------------------------
(* Statements.                                                             *)
LEMMA NoWorkIsWork == NoWork \in Work /\ IsFiniteSet(NoWork.wrote) /\ NoWork.list = <<>>
  BY FS_EmptySet, EmptySeq DEF NoWork, Work, Counts, Counters, ImportStatus

LEMMA ImportMove ==
  ASSUME TypeInv, NEW r \in Requests, NEW t, NEW w, TxMoves(r, t, w),
         payments' \in SUBSET Payment, IsFiniteSet(payments'), paid' \in [Accounts -> Nat],
         imports' \in [Imports -> Counters], rawCsv' \in [Imports -> BOOLEAN],
         rows' \in [Imports -> Seq(ImportRow)],
         RequestOK(r)', \A o \in Requests : ListOK(o)', \A i \in Imports : ImportOK(i)'
  PROVE  TypeInv'
<1>1. LedgerType' /\ ImportType'
      /\ \A o \in Requests \ {r} : tx'[o] = tx[o] /\ work'[o] = work[o]
  BY MovesKeepTypes
<1>2. \A o \in Requests : RequestOK(o)'
  BY <1>1, StillOK DEF TypeInv
<1> QED
  BY <1>1, <1>2 DEF TypeInv

LEMMA QuietMove ==
  ASSUME TypeInv, NEW r \in Requests, NEW t, NEW w, TxMoves(r, t, w),
         UNCHANGED <<payments, paid, imports, rawCsv, rows>>,
         RequestOK(r)', \A o \in Requests : ListOK(o)'
  PROVE  TypeInv'
<1>1. /\ payments' \in SUBSET Payment /\ IsFiniteSet(payments') /\ paid' \in [Accounts -> Nat]
      /\ imports' \in [Imports -> Counters] /\ rawCsv' \in [Imports -> BOOLEAN]
      /\ rows' \in [Imports -> Seq(ImportRow)]
  BY DEF TypeInv, LedgerType, ImportType
<1>2. \A i \in Imports : ImportOK(i)'
  BY DEF TypeInv, ImportOK
<1> QED
  BY <1>1, <1>2, ImportMove

LEMMA ImportsAlone ==
  ASSUME TypeInv, UNCHANGED <<ledgerVars, rawCsv, rows, work>>, imports' \in [Imports -> Counters]
  PROVE  TypeInv'
<1>1. LedgerType' /\ ImportType'
  BY DEF TypeInv, LedgerType, ImportType, ledgerVars
<1>2. \A o \in Requests : RequestOK(o)'
  BY StillOK DEF TypeInv, ledgerVars
<1>3. (\A o \in Requests : ListOK(o)') /\ \A i \in Imports : ImportOK(i)'
  BY DEF TypeInv, ListOK, ImportOK, ledgerVars
<1> QED
  BY <1>1, <1>2, <1>3 DEF TypeInv

LEMMA CountsType ==
  ASSUME NEW status \in ImportStatus, NEW total \in Nat, NEW matched \in Nat,
         NEW ambiguous \in Nat, NEW unmatched \in Nat, NEW applied \in Nat
  PROVE  Counts(status, total, matched, ambiguous, unmatched, applied) \in Counters
  BY DEF Counts, Counters

LEMMA ImportBankStatementKeeps ==
  ASSUME TypeInv, NEW i \in Imports, NEW enqueued \in BOOLEAN, ImportBankStatement(i, enqueued)
  PROVE  TypeInv'
<1>1. imports' \in [Imports -> Counters]
  BY DEF TypeInv, ImportType, ImportBankStatement, Counters, ImportStatus
<1> QED
  BY <1>1, ImportsAlone DEF ImportBankStatement

LEMMA CsvDoesNotParseKeeps ==
  ASSUME TypeInv, NEW i \in Imports, CsvDoesNotParse(i)
  PROVE  TypeInv'
<1>1. imports' \in [Imports -> Counters]
  BY CountsType DEF TypeInv, ImportType, CsvDoesNotParse, ImportStatus
<1> QED
  BY <1>1, ImportsAlone DEF CsvDoesNotParse

LEMMA OutstandingIsFree ==
  ASSUME NEW a \in Accounts, NEW cents \in Nat PROVE Outstanding(a, cents) \in Free
  BY LedgerAssumption DEF Outstanding, Free

LEMMA MatchIsAccounts ==
  ASSUME NEW row \in StatementRow, NEW free
  PROVE  matchBankStatementRow(row, free) \subseteq row.units \cup row.owners
BY DEF matchBankStatementRow, Exact, StatementRow

LEMMA MatchType ==
  ASSUME NEW row \in StatementRow, NEW free
  PROVE  matchBankStatementRow(row, free) \in SUBSET Accounts
BY MatchIsAccounts DEF StatementRow

LEMMA BeginProcessKeeps ==
  ASSUME TypeInv, NEW r \in Requests, NEW i \in Imports, BeginProcess(r, i)
  PROVE  TypeInv'
<1> DEFINE t == [tx[r] EXCEPT !.step = "row"]
           w == [NoWork EXCEPT !.import = i, !.todo = parseFNBStatementCSV(i),
                               !.free = ListOpenLevyAccounts]
<1>1. tx[r] \in Tx /\ IsFiniteSet(tx[r].made) /\ tx[r] = NoTx
  BY DEF TypeInv, LedgerType, BeginProcess
<1>2. t \in Tx /\ IsFiniteSet(t.made) /\ t.step = "row" /\ t.lines = <<>>
  <2>1. t \in Tx
    BY <1>1 DEF Tx, Steps, Processing
  <2>2. t.made = tx[r].made /\ t.step = "row" /\ t.lines = <<>>
    BY <1>1 DEF Tx, NoTx
  <2> QED
    BY <1>1, <2>1, <2>2
<1>3. Statement[i] # NoParse /\ Statement[i] \in Seq(StatementRow)
  BY ImportAssumption DEF TypeInv, ImportOK, ImportType, BeginProcess, parseFNBStatementCSV
<1>4. /\ parseFNBStatementCSV(i) \in Seq(StatementRow)
      /\ Len(parseFNBStatementCSV(i)) <= Len(Statement[i])
      /\ \A m \in 1..Len(parseFNBStatementCSV(i)) : parseFNBStatementCSV(i)[m] = Statement[i][m]
  BY <1>3, EmptySeq, LenProperties DEF parseFNBStatementCSV
<1>5. ListOpenLevyAccounts \in SUBSET Free
  BY OutstandingIsFree DEF ListOpenLevyAccounts, TypeInv, LedgerType
<1> HIDE DEF t
<1>6. w \in Work /\ IsFiniteSet(w.wrote) /\ w.import = i /\ w.list = <<>> /\ w.wrote = {}
      /\ w.todo = parseFNBStatementCSV(i)
  BY <1>4, <1>5, NoWorkIsWork DEF NoWork, Work
<1> HIDE DEF w
<1>7. TxMoves(r, t, w)
  BY <1>2, <1>6 DEF TxMoves, BeginProcess, t, w
<1>8. tx'[r] = t /\ work'[r] = w /\ \A o \in Requests \ {r} : tx'[o] = tx[o] /\ work'[o] = work[o]
  BY <1>7 DEF TxMoves, TypeInv, LedgerType, ImportType
<1>9. Aligned(r)'
  <2>1. Placed(r)' = 0
    BY <1>2, <1>6, <1>8, EmptySeq DEF Placed
  <2>2. Len(w.todo) \in Nat
    BY <1>4, <1>6, LenProperties
  <2>3. \A m \in 1..Len(w.todo) : 0 + m = m
    BY <2>2
  <2> QED
    BY <1>4, <1>6, <1>8, <2>1, <2>2, <2>3 DEF Aligned
<1>10. RequestOK(r)'
  BY <1>2, <1>3, <1>4, <1>6, <1>8, <1>9, EmptySeq
     DEF RequestOK, ProcessingOK, Processing, Applying
<1>11. \A o \in Requests : ListOK(o)'
  BY <1>6, <1>8 DEF ListOK, TypeInv, BeginProcess
<1> QED
  BY <1>7, <1>10, <1>11, QuietMove DEF BeginProcess


(* The row a handler has in hand is the next of its statement.             *)
LEMMA RowAtHand ==
  ASSUME TypeInv, NEW r \in Requests, tx[r].step \in Processing, work[r].todo # <<>>
  PROVE  LET w == work[r]
         IN /\ Head(w.todo) \in StatementRow /\ Tail(w.todo) \in Seq(StatementRow)
            /\ Placed(r) \in Nat
            /\ Head(w.todo) = Statement[w.import][Placed(r) + 1]
            /\ Len(Tail(w.todo)) \in Nat /\ Len(w.todo) = Len(Tail(w.todo)) + 1
            /\ (Placed(r) + 1) + Len(Tail(w.todo)) <= Len(Statement[w.import])
            /\ \A m \in 1..Len(Tail(w.todo)) :
                 Tail(w.todo)[m] = Statement[w.import][(Placed(r) + 1) + m]
<1> DEFINE w == work[r]
<1>1. ProcessingOK(r) /\ w \in Work
  BY DEF TypeInv, RequestOK, ImportType
<1>2. w.todo \in Seq(StatementRow) /\ w.list \in Seq(ImportRow)
  BY <1>1 DEF ProcessingOK, Work
<1>3. Head(w.todo) \in StatementRow /\ Tail(w.todo) \in Seq(StatementRow)
      /\ Head(w.todo) = w.todo[1] /\ Len(Tail(w.todo)) = Len(w.todo) - 1
      /\ (\A m \in 1..Len(Tail(w.todo)) : Tail(w.todo)[m] = w.todo[m + 1])
      /\ Len(w.todo) \in Nat \ {0}
  BY <1>2, HeadTailProperties, EmptySeq
<1>4. Placed(r) \in Nat
  BY <1>1, <1>2, EmptySeq, LenProperties DEF Placed, ProcessingOK
<1>5. Placed(r) + Len(w.todo) <= Len(Statement[w.import])
      /\ \A m \in 1..Len(w.todo) : w.todo[m] = Statement[w.import][Placed(r) + m]
  BY <1>1 DEF ProcessingOK, Aligned
<1>6. Statement[w.import] \in Seq(StatementRow)
  BY <1>1, ImportAssumption DEF ProcessingOK
<1>7. Len(Statement[w.import]) \in Nat
  BY <1>6, LenProperties
<1>8. ASSUME NEW m \in 1..Len(Tail(w.todo))
      PROVE  Tail(w.todo)[m] = Statement[w.import][(Placed(r) + 1) + m]
  <2>1. m + 1 \in 1..Len(w.todo) /\ Placed(r) + (m + 1) = (Placed(r) + 1) + m
    BY <1>3, <1>4
  <2> QED
    BY <1>3, <1>5, <2>1
<1>9. 1 \in 1..Len(w.todo) /\ Len(Tail(w.todo)) \in Nat /\ Len(w.todo) = Len(Tail(w.todo)) + 1
  BY <1>3
<1>10. (Placed(r) + 1) + Len(Tail(w.todo)) <= Len(Statement[w.import])
  BY <1>4, <1>5, <1>7, <1>9
<1> QED
  BY <1>3, <1>4, <1>5, <1>8, <1>9, <1>10

\* The account a row is matched to.
Matched(r) == CHOOSE a \in matchBankStatementRow(Head(work[r].todo), work[r].free) : TRUE

LEMMA MatchedIsAccount ==
  ASSUME TypeInv, NEW r \in Requests, tx[r].step \in Processing, work[r].todo # <<>>,
         matchBankStatementRow(Head(work[r].todo), work[r].free) # {}
  PROVE  Matched(r) \in Accounts
BY RowAtHand, MatchType DEF Matched

LEMMA ListsAfterRow ==
  ASSUME TypeInv, NEW r \in Requests, CreateBankStatementRow(r),
         tx'[r].step \in Processing, work'[r].import = work[r].import,
         \A o \in Requests \ {r} : tx'[o] = tx[o] /\ work'[o] = work[o],
         rows' = rows
  PROVE  \A o \in Requests : ListOK(o)'
<1>1. ListOK(r)'
  BY DEF ListOK, CreateBankStatementRow
<1>2. ASSUME NEW o \in Requests \ {r} PROVE ListOK(o)'
  BY <1>2 DEF ListOK, CreateBankStatementRow, TypeInv
<1> QED
  BY <1>1, <1>2

LEMMA RowTypes ==
  /\ AppliedRow(NoPayment) \in ImportRow
  /\ \A ref \in PaymentReference : AppliedRow(ref) \in ImportRow
  /\ \A row, free : Unplaced(row, free) \in ImportRow
BY DEF AppliedRow, Unplaced, ImportRow

LEMMA ProcessRowKeeps ==
  ASSUME TypeInv, NEW r \in Requests, ProcessRow(r)
  PROVE  TypeInv'
<1> DEFINE w == work[r]
           row == Head(w.todo)
<1>1. tx[r] \in Tx /\ IsFiniteSet(tx[r].made) /\ w \in Work /\ tx[r].step = "row"
      /\ w.list \in Seq(ImportRow) /\ IsFiniteSet(w.wrote) /\ w.todo # <<>>
      /\ CreateBankStatementRow(r)
  BY DEF TypeInv, LedgerType, ImportType, ProcessRow, Work
<1>2. tx[r].step \in Processing /\ Placed(r) = Len(w.list) /\ ProcessingOK(r)
  BY <1>1 DEF Processing, Placed, TypeInv, RequestOK
<1>3. UNCHANGED <<payments, paid, imports, rawCsv, rows>>
  BY DEF ProcessRow
<1>4. \A k \in 1..Len(tx[r].lines) : tx[r].lines[k] \in BatchLines
  BY DEF TypeInv, RequestOK
<1>5. tx \in [Requests -> Tx] /\ work \in [Requests -> Work]
  BY DEF TypeInv, LedgerType, ImportType
<1>6. CASE matchBankStatementRow(row, w.free) = {}
  <2> DEFINE u == [w EXCEPT !.list = Append(@, Unplaced(row, w.free)), !.todo = Tail(@)]
  <2>1. Append(w.list, Unplaced(row, w.free)) \in Seq(ImportRow)
        /\ Len(Append(w.list, Unplaced(row, w.free))) = Len(w.list) + 1
    BY <1>1, RowTypes, AppendProperties
  <2>2. Tail(w.todo) \in Seq(StatementRow)
    BY <1>1, <1>2, RowAtHand
  <2>3. u \in Work /\ IsFiniteSet(u.wrote) /\ u.import = w.import /\ u.wrote = w.wrote
        /\ u.todo = Tail(w.todo) /\ Len(u.list) = Len(w.list) + 1
    BY <1>1, <2>1, <2>2 DEF Work
  <2>4. work' = [work EXCEPT ![r] = u] /\ tx' = [tx EXCEPT ![r] = tx[r]]
    BY <1>5, <1>6 DEF ProcessRow
  <2> HIDE DEF u
  <2>5. TxMoves(r, tx[r], u)
    BY <1>1, <2>3, <2>4 DEF TxMoves
  <2>6. tx'[r] = tx[r] /\ work'[r] = u
        /\ \A o \in Requests \ {r} : tx'[o] = tx[o] /\ work'[o] = work[o]
    BY <1>5, <2>4
  <2>7. Placed(r)' = Placed(r) + 1
    BY <1>1, <1>2, <2>3, <2>6 DEF Placed
  <2>8. Aligned(r)'
    BY <1>1, <1>2, <2>3, <2>6, <2>7, RowAtHand DEF Aligned
  <2>9. RequestOK(r)'
    BY <1>1, <1>2, <1>4, <2>2, <2>3, <2>6, <2>8
       DEF RequestOK, ProcessingOK, Processing, Applying
  <2>10. \A o \in Requests : ListOK(o)'
    BY <1>1, <1>2, <1>3, <2>3, <2>6, ListsAfterRow
  <2> QED
    BY <1>3, <2>5, <2>9, <2>10, QuietMove
<1>7. CASE matchBankStatementRow(row, w.free) # {}
  <2> DEFINE u == [w EXCEPT !.list = Append(@, AppliedRow(NoPayment))]
             t == [tx[r] EXCEPT !.step = "post", !.seen = PaidIn(r, Matched(r))]
  <2>1. Append(w.list, AppliedRow(NoPayment)) \in Seq(ImportRow)
        /\ Append(w.list, AppliedRow(NoPayment)) # <<>>
        /\ Len(Append(w.list, AppliedRow(NoPayment))) = Len(w.list) + 1
        /\ Len(w.list) \in Nat
    BY <1>1, RowTypes, AppendProperties, LenProperties, EmptySeq
  <2>2. PaidIn(r, Matched(r)) \in Nat
    BY <1>1, <1>2, <1>7, MatchedIsAccount, PaidInIsNat
  <2>3. t \in Tx /\ IsFiniteSet(t.made) /\ t.lines = tx[r].lines /\ t.step = "post"
    BY <1>1, <2>2 DEF Tx, Steps, Processing
  <2>4. u \in Work /\ IsFiniteSet(u.wrote) /\ u.import = w.import /\ u.wrote = w.wrote
        /\ u.todo = w.todo /\ Len(u.list) = Len(w.list) + 1 /\ u.list # <<>> /\ u.free = w.free
    BY <1>1, <2>1 DEF Work
  <2>5. work' = [work EXCEPT ![r] = u] /\ tx' = [tx EXCEPT ![r] = t]
    BY <1>5, <1>7 DEF ProcessRow, Matched
  <2> HIDE DEF u, t
  <2>6. TxMoves(r, t, u)
    BY <2>3, <2>4, <2>5 DEF TxMoves
  <2>7. tx'[r] = t /\ work'[r] = u
        /\ \A o \in Requests \ {r} : tx'[o] = tx[o] /\ work'[o] = work[o]
    BY <1>5, <2>5
  <2>8. Placed(r)' = Placed(r)
    BY <1>1, <1>2, <2>1, <2>3, <2>4, <2>7 DEF Placed
  <2>9. Aligned(r)'
    BY <1>2, <2>4, <2>7, <2>8 DEF Aligned, ProcessingOK
  <2>10. RequestOK(r)'
    BY <1>1, <1>2, <1>4, <1>7, <2>3, <2>4, <2>7, <2>9
       DEF RequestOK, ProcessingOK, Processing, Applying
  <2>11. \A o \in Requests : ListOK(o)'
    BY <1>1, <1>3, <2>3, <2>4, <2>7, ListsAfterRow DEF Processing
  <2> QED
    BY <1>3, <2>6, <2>10, <2>11, QuietMove
<1> QED
  BY <1>6, <1>7

LEMMA PaymentForIsPayment ==
  ASSUME NEW r \in Requests, NEW row \in StatementRow, NEW a \in Accounts
  PROVE  /\ PaymentFor(r, row, a) \in Payment
         /\ ReferenceFor(r, row.fingerprint, a) \in PaymentReference
BY DEF PaymentFor, ReferenceFor, Payment, PaymentReference, StatementRow

LEMMA AfterPostIsTx ==
  ASSUME TypeInv, NEW r \in Requests, NEW row \in StatementRow, NEW a \in Accounts
  PROVE  /\ AfterPost(r, row, a) \in Tx /\ IsFiniteSet(AfterPost(r, row, a).made)
         /\ AfterPost(r, row, a).lines = tx[r].lines
<1>1. tx[r] \in Tx /\ IsFiniteSet(tx[r].made)
  BY DEF TypeInv, LedgerType
<1> QED
  BY <1>1, PaymentForIsPayment, PostedIsTx DEF AfterPost

LEMMA PostRowKeeps ==
  ASSUME TypeInv, NEW r \in Requests, PostRow(r)
  PROVE  TypeInv'
<1> DEFINE w == work[r]
           row == Head(w.todo)
           ref == ReferenceFor(r, row.fingerprint, Matched(r))
           t == [AfterPost(r, row, Matched(r)) EXCEPT !.step = "row"]
           left == IF Existing(r, row.fingerprint, Matched(r)) THEN w.free
                   ELSE {f \in w.free : f.account # Matched(r)}
                          \cup {Outstanding(Matched(r), tx[r].seen + row.amount)}
           list == [w.list EXCEPT ![Len(w.list)] = AppliedRow(ref)]
           u == [w EXCEPT !.list = list, !.todo = Tail(@), !.free = left]
<1>1. tx[r] \in Tx /\ w \in Work /\ tx[r].step = "post" /\ tx[r].step \in Processing
      /\ w.list \in Seq(ImportRow) /\ IsFiniteSet(w.wrote) /\ w.free \in SUBSET Free
      /\ tx[r].seen \in Nat
  BY DEF TypeInv, LedgerType, ImportType, PostRow, Work, Tx, Processing
<1>2. ProcessingOK(r) /\ w.list # <<>> /\ w.todo # <<>> /\ Placed(r) = Len(w.list) - 1
      /\ matchBankStatementRow(Head(w.todo), w.free) # {}
  BY <1>1 DEF Placed, TypeInv, RequestOK, ProcessingOK
<1>3. UNCHANGED <<payments, paid, imports, rawCsv, rows>>
  BY DEF PostRow
<1>4. \A k \in 1..Len(tx[r].lines) : tx[r].lines[k] \in BatchLines
  BY DEF TypeInv, RequestOK
<1>5. tx \in [Requests -> Tx] /\ work \in [Requests -> Work]
  BY DEF TypeInv, LedgerType, ImportType
<1>6. row \in StatementRow /\ Tail(w.todo) \in Seq(StatementRow) /\ Matched(r) \in Accounts
  BY <1>1, <1>2, RowAtHand, MatchedIsAccount
<1>7. work' = [work EXCEPT ![r] = u] /\ tx' = [tx EXCEPT ![r] = t]
  <2>1. tx' = [tx EXCEPT ![r] = t]
    BY DEF PostRow, Matched
  <2>2. work' = [work EXCEPT ![r].list[Len(w.list)] = AppliedRow(ref),
                             ![r].todo = Tail(@), ![r].free = left]
    BY DEF PostRow, Matched
  <2> HIDE DEF ref, left
  <2>3. work' = [work EXCEPT ![r] = u]
    BY <1>5, <2>2
  <2> QED
    BY <2>1, <2>3
<1>8. t \in Tx /\ IsFiniteSet(t.made) /\ t.step = "row" /\ t.lines = tx[r].lines
  <2>1. /\ AfterPost(r, row, Matched(r)) \in Tx
        /\ IsFiniteSet(AfterPost(r, row, Matched(r)).made)
        /\ AfterPost(r, row, Matched(r)).lines = tx[r].lines
    BY <1>6, AfterPostIsTx
  <2> QED
    BY <2>1 DEF Tx, Steps, Processing
<1>9. list \in Seq(ImportRow) /\ Len(list) = Len(w.list) /\ Len(w.list) \in Nat
  <2>1. AppliedRow(ref) \in ImportRow
    BY <1>6, PaymentForIsPayment, RowTypes
  <2> HIDE DEF ref
  <2>2. Len(w.list) \in Nat /\ Len(w.list) \in 1..Len(w.list)
    BY <1>1, <1>2, LenProperties, EmptySeq
  <2> QED
    BY <1>1, <2>1, <2>2, ExceptSeq
<1>10. left \in SUBSET Free
  <2>1. tx[r].seen + row.amount \in Nat
    BY <1>1, <1>6 DEF StatementRow
  <2> QED
    BY <1>1, <1>6, <2>1, OutstandingIsFree
<1> HIDE DEF t, list, left
<1>11. u \in Work /\ IsFiniteSet(u.wrote) /\ u.import = w.import /\ u.wrote = w.wrote
       /\ u.todo = Tail(w.todo) /\ u.list = list
  BY <1>1, <1>6, <1>9, <1>10 DEF Work
<1> HIDE DEF u
<1>12. TxMoves(r, t, u)
  BY <1>7, <1>8, <1>11 DEF TxMoves
<1>13. tx'[r] = t /\ work'[r] = u
       /\ \A o \in Requests \ {r} : tx'[o] = tx[o] /\ work'[o] = work[o]
  BY <1>5, <1>7
<1>14. Placed(r)' = Placed(r) + 1
  BY <1>2, <1>8, <1>9, <1>11, <1>13 DEF Placed
<1>15. Aligned(r)'
  BY <1>1, <1>2, <1>11, <1>13, <1>14, RowAtHand DEF Aligned
<1>16. RequestOK(r)'
  BY <1>2, <1>4, <1>6, <1>8, <1>11, <1>13, <1>15
     DEF RequestOK, ProcessingOK, Processing, Applying
<1>17. CreateBankStatementRow(r)
  BY <1>1, <1>2 DEF TypeInv, ListOK, CreateBankStatementRow
<1>18. \A o \in Requests : ListOK(o)'
  BY <1>3, <1>8, <1>11, <1>13, <1>17, ListsAfterRow DEF Processing
<1> QED
  BY <1>3, <1>12, <1>16, <1>18, QuietMove

LEMMA CountRowsType ==
  ASSUME NEW list \in Seq(ImportRow), NEW status
  PROVE  /\ CountRows(list, status) \in Nat /\ CountRows(list, status) <= Len(list)
         /\ IsFiniteSet({n \in DOMAIN list : list[n].status = status})
<1>1. DOMAIN list = 1..Len(list) /\ Len(list) \in Nat
  BY LenProperties
<1>2. IsFiniteSet(1..Len(list)) /\ Cardinality(1..Len(list)) = Len(list)
  BY <1>1, FS_Interval
<1>3. {n \in DOMAIN list : list[n].status = status} \subseteq 1..Len(list)
  BY <1>1
<1> QED
  BY <1>2, <1>3, FS_Subset, FS_CardinalityType DEF CountRows

LEMMA EndedIsOK ==
  ASSUME NEW r, tx'[r] = NoTx, work'[r] = NoWork
  PROVE  RequestOK(r)' /\ ListOK(r)'
<1>1. RequestOK(r)'
  BY EmptySeq DEF RequestOK, NoTx, Processing, Applying
<1>2. ListOK(r)'
  BY NoWorkIsWork DEF ListOK
<1> QED
  BY <1>1, <1>2

LEMMA ListHasImport ==
  ASSUME TypeInv, NEW o \in Requests, work[o].list # <<>>
  PROVE  /\ work[o].import \in Imports
         /\ tx[o].step \in Processing \cup Applying
BY NoWorkIsWork DEF TypeInv, RequestOK, ProcessingOK, ApplyingOK

LEMMA CommitProcessKeeps ==
  ASSUME TypeInv, NEW r \in Requests, NEW cleared \in BOOLEAN, CommitProcess(r, cleared)
  PROVE  TypeInv'
<1> DEFINE w == work[r]
<1>1. tx[r].step = "row" /\ tx[r].step \in Processing /\ Publish(r) /\ w \in Work
      /\ w.list \in Seq(ImportRow) /\ w.todo = <<>>
  BY DEF TypeInv, ImportType, CommitProcess, Processing, Work
<1>2. ProcessingOK(r) /\ w.import \in Imports /\ Placed(r) = Len(w.list)
  BY <1>1 DEF TypeInv, RequestOK, ProcessingOK, Placed
<1>3. rows[w.import] \in Seq(ImportRow)
  BY <1>2 DEF TypeInv, ImportType
<1>4. rows' = [rows EXCEPT ![w.import] = @ \o w.list]
  BY DEF CommitProcess
<1>5. w.list # <<>> => /\ rows[w.import] = <<>>
                       /\ \A o \in Requests \ {r} : work[o].import = w.import
                                                      => work[o].list = <<>>
  BY <1>1 DEF TypeInv, ListOK
<1>6. w.list = <<>> => rows' = rows
  <2>1. SUFFICES ASSUME w.list = <<>> PROVE rows[w.import] \o w.list = rows[w.import]
    BY <1>4, <1>2 DEF TypeInv, ImportType
  <2> QED
    BY <1>3, <2>1, ConcatEmptySeq
<1>7. w.list # <<>> => rows' = [rows EXCEPT ![w.import] = w.list]
  BY <1>1, <1>4, <1>5, ConcatEmptySeq
<1>8. rows' \in [Imports -> Seq(ImportRow)]
  BY <1>1, <1>6, <1>7 DEF TypeInv, ImportType
<1>9. imports' \in [Imports -> Counters]
  <2>1. \A status \in ImportStatus, n1, n2, n3, n4, n5 \in Nat :
          Counts(status, n1, n2, n3, n4, n5) \in Counters
    BY CountsType
  <2>2. /\ CountRows(w.list, "ambiguous") \in Nat /\ CountRows(w.list, "unmatched") \in Nat
        /\ CountRows(w.list, "applied") \in Nat /\ Len(w.list) \in Nat
    BY <1>1, CountRowsType, LenProperties
  <2> QED
    BY <2>1, <2>2 DEF CommitProcess, TypeInv, ImportType, ImportStatus
<1>10. rawCsv' \in [Imports -> BOOLEAN] /\ \A i \in Imports \ {w.import} : rawCsv'[i] = rawCsv[i]
  BY DEF CommitProcess, TypeInv, ImportType
<1>11. TxMoves(r, NoTx, NoWork)
  BY <1>1, NoTxIsTx, NoWorkIsWork DEF TxMoves, CommitProcess, Publish
<1>12. tx'[r] = NoTx /\ work'[r] = NoWork
       /\ \A o \in Requests \ {r} : tx'[o] = tx[o] /\ work'[o] = work[o]
  BY <1>11 DEF TxMoves, TypeInv, LedgerType, ImportType
<1>13. \A o \in Requests : ListOK(o)'
  <2>1. ASSUME NEW o \in Requests \ {r}, work[o].list # <<>> PROVE rows'[work[o].import] = rows[work[o].import]
    BY <1>5, <1>6, <1>7, <2>1, ListHasImport DEF TypeInv, ImportType
  <2>2. ASSUME NEW o \in Requests \ {r} PROVE ListOK(o)'
    <3>1. CASE work[o].list = <<>>
      BY <1>12, <3>1 DEF ListOK
    <3>2. CASE work[o].list # <<>>
      <4>1. ListOK(o)
        BY DEF TypeInv
      <4>2. \A q \in Requests \ {o} : work'[q].list # <<>> => work'[q] = work[q]
        BY <1>12, NoWorkIsWork
      <4>3. \A q \in Requests \ {o} : work'[q] = work[q] \/ work'[q] = NoWork
        BY <1>12
      <4> QED
        BY <1>12, <2>1, <3>2, <4>1, <4>2, <4>3 DEF ListOK
    <3> QED
      BY <3>1, <3>2
  <2> QED
    BY <1>12, <2>2, EndedIsOK
<1>14. \A i \in Imports : ImportOK(i)'
  <2>1. ASSUME NEW i \in Imports \ {w.import} PROVE ImportOK(i)'
    BY <1>4, <1>10 DEF TypeInv, ImportType, ImportOK
  <2>2. ASSUME NEW i \in Imports, i = w.import PROVE ImportOK(i)'
    <3>1. CASE w.list = <<>>
      BY <1>2, <1>6, <2>2, <3>1 DEF TypeInv, ImportOK, ProcessingOK
    <3>2. CASE w.list # <<>>
      <4>1. rows'[i] = w.list
        BY <1>2, <1>7, <2>2, <3>2 DEF TypeInv, ImportType
      <4>2. Len(w.list) <= Len(Statement[w.import])
        BY <1>1, <1>2, EmptySeq, LenProperties DEF ProcessingOK, Aligned
      <4> QED
        BY <1>2, <2>2, <4>1, <4>2 DEF ImportOK, ProcessingOK
    <3> QED
      BY <3>1, <3>2
  <2> QED
    BY <2>1, <2>2
<1> QED
  BY <1>1, <1>8, <1>9, <1>10, <1>11, <1>12, <1>13, <1>14, EndedIsOK, PublishTypes, ImportMove

LEMMA RollbackImportKeeps ==
  ASSUME TypeInv, NEW r \in Requests, RollbackImport(r)
  PROVE  TypeInv'
<1>1. TxMoves(r, NoTx, NoWork) /\ UNCHANGED <<payments, paid, imports, rawCsv, rows>>
  BY NoTxIsTx, NoWorkIsWork DEF TxMoves, RollbackImport
<1>2. tx'[r] = NoTx /\ work'[r] = NoWork
      /\ \A o \in Requests \ {r} : tx'[o] = tx[o] /\ work'[o] = work[o]
  BY <1>1 DEF TxMoves, TypeInv, LedgerType, ImportType
<1>3. ASSUME NEW o \in Requests \ {r} PROVE ListOK(o)'
  <2>1. \A q \in Requests : work'[q] = work[q] \/ work'[q].list = <<>>
    BY <1>2, NoWorkIsWork
  <2> QED
    BY <1>1, <1>2, <2>1 DEF ListOK, TypeInv
<1> QED
  BY <1>1, <1>2, <1>3, EndedIsOK, QuietMove

LEMMA BeginApplyKeeps ==
  ASSUME TypeInv, NEW r \in Requests, NEW i \in Imports, NEW ms \in Matches, BeginApply(r, i, ms)
  PROVE  TypeInv'
<1> DEFINE t == [tx[r] EXCEPT !.step = "list"]
           w == [NoWork EXCEPT !.import = i, !.read = imports[i], !.todo = ms]
<1>1. tx[r] \in Tx /\ IsFiniteSet(tx[r].made) /\ tx[r] = NoTx /\ imports[i] \in Counters
  BY DEF TypeInv, LedgerType, ImportType, BeginApply
<1>2. t \in Tx /\ IsFiniteSet(t.made) /\ t.step = "list" /\ t.lines = <<>>
  <2>1. t \in Tx
    BY <1>1 DEF Tx, Steps, Applying
  <2>2. t.made = tx[r].made /\ t.step = "list" /\ t.lines = <<>>
    BY <1>1 DEF Tx, NoTx
  <2> QED
    BY <1>1, <2>1, <2>2
<1>3. ms \in Seq(Match)
  BY ImportAssumption
<1> HIDE DEF t
<1>4. w \in Work /\ IsFiniteSet(w.wrote) /\ w.import = i /\ w.list = <<>> /\ w.wrote = {}
      /\ w.todo = ms
  BY <1>1, <1>3, NoWorkIsWork DEF NoWork, Work
<1> HIDE DEF w
<1>5. TxMoves(r, t, w)
  BY <1>2, <1>4 DEF TxMoves, BeginApply, t, w
<1>6. tx'[r] = t /\ work'[r] = w /\ \A o \in Requests \ {r} : tx'[o] = tx[o] /\ work'[o] = work[o]
  BY <1>5 DEF TxMoves, TypeInv, LedgerType, ImportType
<1>7. RequestOK(r)'
  BY <1>2, <1>3, <1>4, <1>6, EmptySeq DEF RequestOK, ApplyingOK, Processing, Applying
<1>8. \A o \in Requests : ListOK(o)'
  BY <1>4, <1>6 DEF ListOK, TypeInv, BeginApply
<1> QED
  BY <1>5, <1>7, <1>8, QuietMove DEF BeginApply

LEMMA ListBankStatementRowsKeeps ==
  ASSUME TypeInv, NEW r \in Requests, ListBankStatementRows(r)
  PROVE  TypeInv'
<1> DEFINE w == work[r]
           t == [tx[r] EXCEPT !.step = "match"]
           u == [w EXCEPT !.list = rows[w.import]]
<1>1. tx[r] \in Tx /\ IsFiniteSet(tx[r].made) /\ w \in Work /\ IsFiniteSet(w.wrote)
      /\ tx[r].step = "list" /\ tx \in [Requests -> Tx] /\ work \in [Requests -> Work]
  BY DEF TypeInv, LedgerType, ImportType, ListBankStatementRows
<1>2. ApplyingOK(r) /\ w.import \in Imports /\ rows[w.import] \in Seq(ImportRow)
      /\ rows[w.import] # <<>> /\ w.list = <<>>
  BY <1>1 DEF TypeInv, ImportType, RequestOK, ApplyingOK, ListBankStatementRows, Applying
<1>3. \A k \in 1..Len(tx[r].lines) : tx[r].lines[k] \in BatchLines
  BY DEF TypeInv, RequestOK
<1>4. t \in Tx /\ t.made = tx[r].made /\ t.step = "match" /\ t.lines = tx[r].lines
  BY <1>1 DEF Tx, Steps, Applying
<1>5. u \in Work /\ u.wrote = w.wrote /\ u.import = w.import /\ u.todo = w.todo
      /\ u.list = rows[w.import]
  BY <1>1, <1>2 DEF Work
<1>6. tx' = [tx EXCEPT ![r] = t] /\ work' = [work EXCEPT ![r] = u]
  BY <1>1 DEF ListBankStatementRows
<1> HIDE DEF t, u
<1>7. TxMoves(r, t, u)
  BY <1>1, <1>4, <1>5, <1>6 DEF TxMoves
<1>8. tx'[r] = t /\ work'[r] = u /\ \A o \in Requests \ {r} : tx'[o] = tx[o] /\ work'[o] = work[o]
  BY <1>1, <1>6
<1>9. w.wrote = {}
  <2>1. DOMAIN w.list = {}
    BY <1>2
  <2> QED
    BY <1>2, <2>1 DEF ApplyingOK
<1>10. RequestOK(r)'
  BY <1>2, <1>3, <1>4, <1>5, <1>8, <1>9 DEF RequestOK, ApplyingOK, Processing, Applying
<1>11. \A o \in Requests : ListOK(o)'
  <2>1. UNCHANGED rows
    BY DEF ListBankStatementRows
  <2>2. ListOK(r)'
    BY <1>4, <1>5, <1>8, <2>1 DEF ListOK, Processing
  <2>3. ASSUME NEW o \in Requests \ {r} PROVE ListOK(o)'
    <3>1. CASE work[o].list = <<>>
      BY <1>8, <3>1 DEF ListOK
    <3>2. CASE work[o].list # <<>> /\ tx[o].step \notin Processing
      BY <1>8, <2>1, <3>2 DEF ListOK, TypeInv
    <3>3. CASE work[o].list # <<>> /\ tx[o].step \in Processing
      <4>1. rows[work[o].import] = <<>>
        BY <3>3 DEF ListOK, TypeInv
      <4>2. work[o].import # w.import
        BY <1>2, <4>1
      <4> QED
        BY <1>5, <1>8, <2>1, <3>3, <4>2 DEF ListOK, TypeInv
    <3> QED
      BY <3>1, <3>2, <3>3
  <2> QED
    BY <2>2, <2>3
<1> QED
  BY <1>7, <1>10, <1>11, QuietMove DEF ListBankStatementRows

(* The match a handler has in hand names a row of the statement.           *)
LEMMA MatchAtHand ==
  ASSUME TypeInv, NEW r \in Requests, tx[r].step \in {"match", "apply"},
         work[r].todo # <<>>
  PROVE  LET w == work[r]
         IN /\ Head(w.todo) \in Match /\ Tail(w.todo) \in Seq(Match)
            /\ w.import \in Imports /\ w.list # <<>> /\ w.list \in Seq(ImportRow)
            /\ Statement[w.import] \in Seq(StatementRow)
            /\ Len(w.list) = Len(rows[w.import]) /\ Len(w.list) <= Len(Statement[w.import])
            /\ Head(w.todo).row \in DOMAIN w.list
                 => Statement[w.import][Head(w.todo).row] \in StatementRow
<1> DEFINE w == work[r]
<1>1. ApplyingOK(r) /\ w \in Work /\ tx[r].step \notin Processing
  BY DEF TypeInv, ImportType, RequestOK, Applying, Processing
<1>2. w.import \in Imports /\ w.todo \in Seq(Match) /\ w.list # <<>> /\ w.list \in Seq(ImportRow)
  BY <1>1 DEF ApplyingOK, Work
<1>3. Head(w.todo) \in Match /\ Tail(w.todo) \in Seq(Match)
  BY <1>2, HeadTailProperties
<1>4. Len(w.list) = Len(rows[w.import])
  BY <1>1, <1>2 DEF TypeInv, ListOK
<1>5. rows[w.import] \in Seq(ImportRow) /\ rows[w.import] # <<>>
  BY <1>2, <1>4, EmptySeq, LenProperties DEF TypeInv, ImportType
<1>6. Statement[w.import] \in Seq(StatementRow) /\ Len(w.list) <= Len(Statement[w.import])
  BY <1>2, <1>4, <1>5, ImportAssumption DEF TypeInv, ImportOK
<1>7. ASSUME Head(w.todo).row \in DOMAIN w.list
      PROVE  Statement[w.import][Head(w.todo).row] \in StatementRow
  <2>1. Head(w.todo).row \in 1..Len(Statement[w.import])
    BY <1>2, <1>6, <1>7, LenProperties
  <2> QED
    BY <1>6, <2>1, ElementOfSeq
<1> QED
  BY <1>2, <1>3, <1>4, <1>6, <1>7

LEMMA ListsStay ==
  ASSUME TypeInv, NEW r \in Requests, rows' = rows,
         work'[r].list = work[r].list, work'[r].import = work[r].import,
         tx'[r].step \in Processing <=> tx[r].step \in Processing,
         \A o \in Requests \ {r} : tx'[o] = tx[o] /\ work'[o] = work[o]
  PROVE  \A o \in Requests : ListOK(o)'
<1>1. \A o \in Requests : work'[o].list = work[o].list /\ work'[o].import = work[o].import
                          /\ (tx'[o].step \in Processing <=> tx[o].step \in Processing)
  OBVIOUS
<1> QED
  BY <1>1 DEF TypeInv, ListOK

LEMMA MatchRowKeeps ==
  ASSUME TypeInv, NEW r \in Requests, MatchRow(r)
  PROVE  TypeInv'
<1> DEFINE w == work[r]
           m == Head(w.todo)
<1>1. tx[r] \in Tx /\ IsFiniteSet(tx[r].made) /\ w \in Work /\ IsFiniteSet(w.wrote)
      /\ tx[r].step = "match" /\ tx \in [Requests -> Tx] /\ work \in [Requests -> Work]
      /\ w.todo # <<>> /\ m.row \in DOMAIN w.list
      /\ UNCHANGED <<payments, paid, imports, rawCsv, rows>>
  BY DEF TypeInv, LedgerType, ImportType, MatchRow
<1>2. ApplyingOK(r)
  BY <1>1 DEF TypeInv, RequestOK, Applying
<1>3. \A k \in 1..Len(tx[r].lines) : tx[r].lines[k] \in BatchLines
  BY DEF TypeInv, RequestOK
<1>4. m \in Match /\ Tail(w.todo) \in Seq(Match)
  BY <1>1, MatchAtHand
<1>5. CASE AlreadyApplied(w, m)
  <2> DEFINE u == [w EXCEPT !.todo = Tail(@)]
  <2>1. u \in Work /\ u.wrote = w.wrote /\ u.import = w.import /\ u.todo = Tail(w.todo)
        /\ u.list = w.list
    BY <1>1, <1>4 DEF Work
  <2>2. work' = [work EXCEPT ![r] = u] /\ tx' = [tx EXCEPT ![r] = tx[r]]
    BY <1>1, <1>5 DEF MatchRow
  <2> HIDE DEF u
  <2>3. TxMoves(r, tx[r], u)
    BY <1>1, <2>1, <2>2 DEF TxMoves
  <2>4. tx'[r] = tx[r] /\ work'[r] = u
        /\ \A o \in Requests \ {r} : tx'[o] = tx[o] /\ work'[o] = work[o]
    BY <1>1, <2>2
  <2>5. RequestOK(r)'
    BY <1>1, <1>2, <1>3, <1>4, <2>1, <2>4 DEF RequestOK, ApplyingOK, Processing, Applying
  <2>6. \A o \in Requests : ListOK(o)'
    BY <1>1, <2>1, <2>4, ListsStay
  <2> QED
    BY <1>1, <2>3, <2>5, <2>6, QuietMove
<1>6. CASE ~AlreadyApplied(w, m)
  <2> DEFINE t == [tx[r] EXCEPT !.step = "apply", !.seen = PaidIn(r, m.account)]
  <2>1. PaidIn(r, m.account) \in Nat
    BY <1>4, PaidInIsNat DEF Match
  <2>2. t \in Tx /\ t.made = tx[r].made /\ t.lines = tx[r].lines /\ t.step = "apply"
    BY <1>1, <2>1 DEF Tx, Steps, Applying
  <2>3. tx' = [tx EXCEPT ![r] = t] /\ work' = [work EXCEPT ![r] = w]
    BY <1>1, <1>6 DEF MatchRow
  <2> HIDE DEF t
  <2>4. TxMoves(r, t, w)
    BY <1>1, <2>2, <2>3 DEF TxMoves
  <2>5. tx'[r] = t /\ work'[r] = w
        /\ \A o \in Requests \ {r} : tx'[o] = tx[o] /\ work'[o] = work[o]
    BY <1>1, <2>3
  <2>6. RequestOK(r)'
    BY <1>1, <1>2, <1>3, <2>2, <2>5 DEF RequestOK, ApplyingOK, Processing, Applying
  <2>7. \A o \in Requests : ListOK(o)'
    BY <1>1, <2>2, <2>5, ListsStay DEF Processing
  <2> QED
    BY <1>1, <2>4, <2>6, <2>7, QuietMove
<1> QED
  BY <1>5, <1>6

LEMMA ApplyRowKeeps ==
  ASSUME TypeInv, NEW r \in Requests, ApplyRow(r)
  PROVE  TypeInv'
<1> DEFINE w == work[r]
           m == Head(w.todo)
           row == Statement[w.import][m.row]
           ref == ReferenceFor(r, row.fingerprint, m.account)
           t == [AfterPost(r, row, m.account) EXCEPT !.step = "match"]
           u == [w EXCEPT !.wrote = @ \cup {[row |-> m.row, payment |-> ref]}, !.todo = Tail(@)]
<1>1. tx[r] \in Tx /\ IsFiniteSet(tx[r].made) /\ w \in Work /\ IsFiniteSet(w.wrote)
      /\ tx[r].step = "apply" /\ tx \in [Requests -> Tx] /\ work \in [Requests -> Work]
      /\ UNCHANGED <<payments, paid, imports, rawCsv, rows>>
  BY DEF TypeInv, LedgerType, ImportType, ApplyRow
<1>2. ApplyingOK(r) /\ w.todo # <<>> /\ m.row \in DOMAIN w.list
  BY <1>1 DEF TypeInv, RequestOK, Applying, ApplyingOK
<1>3. \A k \in 1..Len(tx[r].lines) : tx[r].lines[k] \in BatchLines
  BY DEF TypeInv, RequestOK
<1>4. m \in Match /\ Tail(w.todo) \in Seq(Match) /\ row \in StatementRow
      /\ m.account \in Accounts /\ m.row \in Nat \ {0}
  BY <1>1, <1>2, MatchAtHand DEF Match
<1>5. work' = [work EXCEPT ![r] = u] /\ tx' = [tx EXCEPT ![r] = t]
  <2> HIDE DEF ref
  <2>1. tx' = [tx EXCEPT ![r] = t]
    BY DEF ApplyRow
  <2>2. work' = [work EXCEPT ![r].wrote = @ \cup {[row |-> m.row, payment |-> ref]},
                             ![r].todo = Tail(@)]
    BY DEF ApplyRow, ref
  <2> QED
    BY <1>1, <2>1, <2>2
<1>6. t \in Tx /\ IsFiniteSet(t.made) /\ t.step = "match" /\ t.lines = tx[r].lines
  <2>1. /\ AfterPost(r, row, m.account) \in Tx
        /\ IsFiniteSet(AfterPost(r, row, m.account).made)
        /\ AfterPost(r, row, m.account).lines = tx[r].lines
    BY <1>4, AfterPostIsTx
  <2> QED
    BY <2>1 DEF Tx, Steps, Applying
<1>7. [row |-> m.row, payment |-> ref] \in Written
  BY <1>4, PaymentForIsPayment DEF Written
<1>8. IsFiniteSet(w.wrote \cup {[row |-> m.row, payment |-> ref]})
  BY <1>1, FS_AddElement
<1> HIDE DEF t, ref
<1>9. u \in Work /\ IsFiniteSet(u.wrote) /\ u.import = w.import /\ u.list = w.list
       /\ u.todo = Tail(w.todo) /\ u.wrote = w.wrote \cup {[row |-> m.row, payment |-> ref]}
  BY <1>1, <1>4, <1>7, <1>8 DEF Work
<1> HIDE DEF u
<1>10. TxMoves(r, t, u)
  BY <1>5, <1>6, <1>9 DEF TxMoves
<1>11. tx'[r] = t /\ work'[r] = u
       /\ \A o \in Requests \ {r} : tx'[o] = tx[o] /\ work'[o] = work[o]
  BY <1>1, <1>5
<1>12. RequestOK(r)'
  <2>1. \A x \in u.wrote : x.row \in DOMAIN u.list
    BY <1>2, <1>9 DEF ApplyingOK
  <2>2. u.list # <<>>
    BY <1>1, <1>2, <1>9 DEF ApplyingOK
  <2> QED
    BY <1>2, <1>3, <1>4, <1>6, <1>9, <1>11, <2>1, <2>2
       DEF RequestOK, ApplyingOK, Processing, Applying
<1>13. \A o \in Requests : ListOK(o)'
  BY <1>1, <1>6, <1>9, <1>11, ListsStay DEF Processing
<1> QED
  BY <1>1, <1>10, <1>12, <1>13, QuietMove

LEMMA CommitApplyKeeps ==
  ASSUME TypeInv, NEW r \in Requests, CommitApply(r)
  PROVE  TypeInv'
<1> DEFINE w == work[r]
           after == [n \in DOMAIN rows[w.import] |->
                       IF Wrote(w, n) THEN AppliedRow((CHOOSE x \in w.wrote : x.row = n).payment)
                       ELSE rows[w.import][n]]
<1>1. tx[r].step = "match" /\ tx[r].step \in Applying /\ Publish(r) /\ w \in Work
      /\ IsFiniteSet(w.wrote) /\ w.read \in Counters /\ w.wrote \in SUBSET Written
  BY DEF TypeInv, ImportType, CommitApply, Applying, Work
<1>2. ApplyingOK(r) /\ w.import \in Imports /\ rows[w.import] \in Seq(ImportRow)
  BY <1>1 DEF TypeInv, ImportType, RequestOK, ApplyingOK
<1>3. rows' = [rows EXCEPT ![w.import] = after]
  BY <1>2 DEF CommitApply, TypeInv, ImportType
<1>4. after \in Seq(ImportRow) /\ Len(after) = Len(rows[w.import])
      /\ (after = <<>> <=> rows[w.import] = <<>>)
  <2>1. \A n \in DOMAIN rows[w.import] : after[n] \in ImportRow
    <3>1. SUFFICES ASSUME NEW n \in DOMAIN rows[w.import] PROVE after[n] \in ImportRow
      OBVIOUS
    <3>2. CASE Wrote(w, n)
      <4>1. (CHOOSE x \in w.wrote : x.row = n) \in Written
        BY <1>1, <3>2 DEF Wrote
      <4>2. (CHOOSE x \in w.wrote : x.row = n).payment \in PaymentReference
        BY <4>1 DEF Written
      <4> QED
        BY <3>2, <4>2, RowTypes
    <3>3. CASE ~Wrote(w, n)
      BY <1>2, <3>3, LenProperties, ElementOfSeq
    <3> QED
      BY <3>2, <3>3
  <2>2. DOMAIN rows[w.import] = 1..Len(rows[w.import]) /\ Len(rows[w.import]) \in Nat
    BY <1>2, LenProperties
  <2> HIDE DEF after
  <2>3. after = [n \in 1..Len(rows[w.import]) |-> after[n]]
    BY <2>2 DEF after
  <2>4. after \in Seq(ImportRow) /\ Len(after) = Len(rows[w.import])
    BY <2>1, <2>2, <2>3, IsASeq, LenProperties
  <2> QED
    BY <1>2, <2>2, <2>4, EmptySeq
<1> HIDE DEF after
<1>5. rows' \in [Imports -> Seq(ImportRow)] /\ rows'[w.import] = after
      /\ \A i \in Imports \ {w.import} : rows'[i] = rows[i]
  BY <1>2, <1>3, <1>4 DEF TypeInv, ImportType
<1>6. \A i \in Imports : Len(rows'[i]) = Len(rows[i]) /\ (rows'[i] = <<>> <=> rows[i] = <<>>)
  BY <1>4, <1>5
<1>7. imports' \in [Imports -> Counters]
  <2>1. \A status \in ImportStatus, n1, n2, n3, n4, n5 \in Nat :
          Counts(status, n1, n2, n3, n4, n5) \in Counters
    BY CountsType
  <2>2. \A status : Cardinality({x \in w.wrote : w.list[x.row].status = status}) \in Nat
    BY <1>1, FS_Subset, FS_CardinalityType
  <2>3. \A status, n : n \in Nat => Less(n, w, status) \in Nat
    <3>1. SUFFICES ASSUME NEW status, NEW n \in Nat PROVE Less(n, w, status) \in Nat
      OBVIOUS
    <3>2. Cardinality({x \in w.wrote : w.list[x.row].status = status}) \in Nat
      BY <2>2
    <3> QED
      BY <3>2 DEF Less
  <2>4. AppliedCount(w) \in Nat
    BY <1>1, FS_CardinalityType DEF AppliedCount, Counters
  <2>5. w.read.total \in Nat /\ w.read.matched \in Nat
        /\ w.read.ambiguous \in Nat /\ w.read.unmatched \in Nat
    BY <1>1 DEF Counters
  <2> QED
    BY <2>1, <2>3, <2>4, <2>5 DEF CommitApply, TypeInv, ImportType, ImportStatus
<1>8. rawCsv' \in [Imports -> BOOLEAN] /\ rawCsv' = rawCsv
  BY DEF CommitApply, TypeInv, ImportType
<1>9. TxMoves(r, NoTx, NoWork)
  BY NoTxIsTx, NoWorkIsWork DEF TxMoves, CommitApply, Publish
<1>10. tx'[r] = NoTx /\ work'[r] = NoWork
       /\ \A o \in Requests \ {r} : tx'[o] = tx[o] /\ work'[o] = work[o]
  BY <1>9 DEF TxMoves, TypeInv, LedgerType, ImportType
<1>11. ASSUME NEW o \in Requests \ {r} PROVE ListOK(o)'
  <2>1. CASE work[o].list = <<>>
    BY <1>10, <2>1 DEF ListOK
  <2>2. CASE work[o].list # <<>>
    <3>1. work[o].import \in Imports /\ ListOK(o)
      BY <2>2, ListHasImport DEF TypeInv
    <3>2. \A q \in Requests : work'[q] = work[q] \/ work'[q].list = <<>>
      BY <1>10, NoWorkIsWork
    <3> QED
      BY <1>6, <1>10, <3>1, <3>2 DEF ListOK
  <2> QED
    BY <2>1, <2>2
<1>12. \A i \in Imports : ImportOK(i)'
  BY <1>6, <1>8 DEF TypeInv, ImportOK
<1> QED
  BY <1>1, <1>5, <1>7, <1>8, <1>9, <1>10, <1>11, <1>12, EndedIsOK, PublishTypes, ImportMove

LEMMA InitTypes == Init => TypeInv
<1> SUFFICES ASSUME Init PROVE TypeInv
  OBVIOUS
<1>1. LedgerType
  BY NoTxIsTx, FS_EmptySet DEF Init, LedgerInit, LedgerType
<1>2. ImportType
  BY NoWorkIsWork, CountsType, EmptySeq DEF Init, ImportType, ImportStatus
<1>3. \A r \in Requests : RequestOK(r)
  BY EmptySeq DEF Init, LedgerInit, RequestOK, NoTx, Processing, Applying
<1>4. \A r \in Requests : ListOK(r)
  BY NoWorkIsWork DEF Init, ListOK
<1>5. \A i \in Imports : ImportOK(i)
  <2>1. \A i \in Imports : Statement[i] = NoParse \/ Statement[i] # NoParse
    OBVIOUS
  <2> QED
    BY DEF Init, ImportOK
<1> QED
  BY <1>1, <1>2, <1>3, <1>4, <1>5 DEF TypeInv

LEMMA NextKeepsTypes == TypeInv /\ [Next]_vars => TypeInv'
<1> SUFFICES ASSUME TypeInv, [Next]_vars PROVE TypeInv'
  OBVIOUS
<1>1. CASE \E i \in Imports : \/ \E enqueued \in BOOLEAN : ImportBankStatement(i, enqueued)
                             \/ CsvDoesNotParse(i)
  BY <1>1, ImportBankStatementKeeps, CsvDoesNotParseKeeps
<1>2. CASE \E r \in Requests, i \in Imports : \/ BeginProcess(r, i)
                                             \/ \E ms \in Matches : BeginApply(r, i, ms)
  BY <1>2, BeginProcessKeeps, BeginApplyKeeps
<1>3. CASE \E r \in Requests : \/ ProcessRow(r) \/ PostRow(r)
                              \/ \E cleared \in BOOLEAN : CommitProcess(r, cleared)
                              \/ ListBankStatementRows(r) \/ MatchRow(r) \/ ApplyRow(r)
                              \/ CommitApply(r) \/ RollbackImport(r)
  BY <1>3, ProcessRowKeeps, PostRowKeeps, CommitProcessKeeps, ListBankStatementRowsKeeps,
     MatchRowKeeps, ApplyRowKeeps, CommitApplyKeeps, RollbackImportKeeps
<1>4. CASE ReconcileNext /\ UNCHANGED importVars
  BY <1>4, BeginReconcileKeeps, SkipLineKeeps, GetLevyAccountKeeps, PostLineKeeps,
     CommitReconcileKeeps, RollbackKeeps DEF ReconcileNext
<1>5. CASE UNCHANGED vars
  <2>1. UNCHANGED <<payments, paid, tx, imports, rawCsv, rows, work>>
    BY <1>5 DEF vars, ledgerVars, importVars
  <2>2. LedgerType' /\ ImportType'
    BY <2>1 DEF TypeInv, LedgerType, ImportType
  <2>3. \A o \in Requests : RequestOK(o)'
    BY <2>1, StillOK DEF TypeInv
  <2>4. (\A o \in Requests : ListOK(o)') /\ \A i \in Imports : ImportOK(i)'
    BY <2>1 DEF TypeInv, ListOK, ImportOK
  <2> QED
    BY <2>2, <2>3, <2>4 DEF TypeInv
<1> QED
  BY <1>1, <1>2, <1>3, <1>4, <1>5 DEF Next

LEMMA NextKeepsBlind == blind \subseteq Imports /\ [Next]_vars => (blind \subseteq Imports)'
BY DEF Next, vars, importVars, ledgerVars, ImportBankStatement, CsvDoesNotParse, BeginProcess,
       ProcessRow, PostRow, CommitProcess, BeginApply, ListBankStatementRows, MatchRow, ApplyRow,
       CommitApply, RollbackImport

(* Every request is where its handler's code can be, with what it has read and written so
   far of the right kind: in particular a handler that is about to post has a row in hand,
   of a statement that parses, and an account for it.                                     *)
THEOREM LedgerTypes == Spec => [](TypeInv /\ blind \subseteq Imports)
<1>1. Init => blind \subseteq Imports
  BY DEF Init
<1> QED
  BY <1>1, InitTypes, NextKeepsTypes, NextKeepsBlind, PTL DEF Spec

-----------------------------------------------------------------------------
(* The payment a request that has read the balance is about to post.       *)
AccountInHand(r) == IF tx[r].step = "write" THEN Head(tx[r].lines).account
                    ELSE IF tx[r].step = "apply" THEN Head(work[r].todo).account
                    ELSE Matched(r)

RowInHand(r) == IF tx[r].step = "apply" THEN Statement[work[r].import][Head(work[r].todo).row]
                                        ELSE Head(work[r].todo)

PaymentInHand(r) == IF tx[r].step = "write" THEN Head(tx[r].lines)
                    ELSE PaymentFor(r, RowInHand(r), AccountInHand(r))

LEMMA RowInHandType ==
  ASSUME TypeInv, NEW r \in Requests, tx[r].step \in {"post", "apply"}
  PROVE  RowInHand(r) \in StatementRow /\ AccountInHand(r) \in Accounts
<1>1. CASE tx[r].step = "post"
  <2>1. ProcessingOK(r) /\ work[r].todo # <<>> /\ tx[r].step \in Processing
        /\ matchBankStatementRow(Head(work[r].todo), work[r].free) # {}
    BY <1>1 DEF TypeInv, RequestOK, ProcessingOK, Processing
  <2> QED
    BY <1>1, <2>1, RowAtHand, MatchedIsAccount DEF RowInHand, AccountInHand
<1>2. CASE tx[r].step = "apply"
  <2>1. ApplyingOK(r) /\ work[r].todo # <<>> /\ Head(work[r].todo).row \in DOMAIN work[r].list
    BY <1>2 DEF TypeInv, RequestOK, ApplyingOK, Applying
  <2> QED
    BY <1>2, <2>1, MatchAtHand DEF RowInHand, AccountInHand, Match
<1> QED
  BY <1>1, <1>2

LEMMA InHandType ==
  ASSUME TypeInv, NEW r \in Requests, tx[r].step \in Posting
  PROVE  /\ AccountInHand(r) \in Accounts /\ PaymentInHand(r) \in Payment
         /\ PaymentInHand(r).account = AccountInHand(r)
<1>1. CASE tx[r].step = "write"
  <2>1. tx[r].lines # <<>>
    BY <1>1 DEF TypeInv, RequestOK
  <2> QED
    BY <1>1, <2>1, TailLines, LineIsPayment DEF AccountInHand, PaymentInHand, Line
<1>2. CASE tx[r].step \in {"post", "apply"}
  <2>1. RowInHand(r) \in StatementRow /\ AccountInHand(r) \in Accounts
    BY <1>2, RowInHandType
  <2>2. PaymentInHand(r) = PaymentFor(r, RowInHand(r), AccountInHand(r))
    BY <1>2 DEF PaymentInHand
  <2> QED
    BY <2>1, <2>2, PaymentForIsPayment DEF PaymentFor
<1> QED
  BY <1>1, <1>2 DEF Posting

(* What a step is to the ledger: a request reads, posts what it has in     *)
(* hand, drops its transaction or commits it.                              *)
Alters(r) == \A o \in Requests \ {r} : tx'[o] = tx[o] /\ work'[o] = work[o]

Reads(r) == /\ UNCHANGED <<payments, paid>>
            /\ tx'[r].made = tx[r].made /\ tx'[r].held = tx[r].held
            /\ tx'[r].step \in Posting => tx'[r].seen = PaidIn(r, AccountInHand(r)')

Posts(r) ==
  LET p == PaymentInHand(r)
  IN /\ UNCHANGED <<payments, paid>>
     /\ tx[r].step \in Posting /\ tx'[r].step \notin Posting
     /\ MayPost(r, p)
     /\ tx'[r].made = tx[r].made \cup {p}
     /\ tx'[r].held = {h \in tx[r].held : h.account # p.account}
                        \cup {[account |-> p.account, paid |-> tx[r].seen + p.amount]}

Drops(r) == UNCHANGED <<payments, paid>> /\ tx'[r] = NoTx

Commits(r) == Publish(r) /\ tx'[r] = NoTx

LedgerStep(r) == Alters(r) /\ (Reads(r) \/ Posts(r) \/ Drops(r) \/ Commits(r))

LEMMA PostingRow ==
  ASSUME TypeInv, NEW r \in Requests, tx[r].step \in {"post", "apply"},
         NEW row, row = RowInHand(r), NEW a, a = AccountInHand(r),
         NEW step, step \notin Posting,
         tx' = [tx EXCEPT ![r] = [AfterPost(r, row, a) EXCEPT !.step = step]],
         MayEnsure(r, row, a), UNCHANGED <<payments, paid>>
  PROVE  Reads(r) \/ Posts(r)
<1>1. row \in StatementRow /\ a \in Accounts /\ PaymentInHand(r) = PaymentFor(r, row, a)
      /\ tx[r].step \in Posting
  BY RowInHandType DEF PaymentInHand, Posting
<1>2. tx'[r] = [AfterPost(r, row, a) EXCEPT !.step = step] /\ tx[r] \in Tx
  BY DEF TypeInv, LedgerType
<1>3. CASE Existing(r, row.fingerprint, a)
  <2>1. tx'[r] = [tx[r] EXCEPT !.step = step]
    BY <1>2, <1>3 DEF AfterPost
  <2> QED
    BY <1>2, <2>1 DEF Reads, Tx
<1>4. CASE ~Existing(r, row.fingerprint, a)
  <2> DEFINE p == PaymentFor(r, row, a)
  <2>1. tx'[r] = [Posted(r, p) EXCEPT !.step = step] /\ MayPost(r, p)
    BY <1>2, <1>4 DEF AfterPost, MayEnsure
  <2>2. p \in Payment
    BY <1>1, PaymentForIsPayment
  <2> HIDE DEF p
  <2>3. /\ Posted(r, p) \in Tx /\ Posted(r, p).made = tx[r].made \cup {p}
        /\ Posted(r, p).held = {h \in tx[r].held : h.account # p.account}
                                 \cup {[account |-> p.account, paid |-> tx[r].seen + p.amount]}
    BY <2>2, PostedIsTx
  <2>4. tx'[r].step = step /\ tx'[r].made = Posted(r, p).made /\ tx'[r].held = Posted(r, p).held
    BY <2>1, <2>3 DEF Tx
  <2> QED
    BY <1>1, <2>1, <2>3, <2>4 DEF Posts, p
<1> QED
  BY <1>3, <1>4

LEMMA ReconcileIsLedgerStep ==
  ASSUME TypeInv, NEW r \in Requests, UNCHANGED importVars,
         \/ \E batch \in Batches : BeginReconcile(r, batch)
         \/ SkipLine(r) \/ GetLevyAccount(r) \/ PostLine(r)
         \/ CommitReconcile(r) \/ Rollback(r)
  PROVE  LedgerStep(r)
<1>1. tx \in [Requests -> Tx] /\ tx[r] \in Tx /\ work' = work
  BY DEF TypeInv, LedgerType, importVars
<1>2. Alters(r)
  BY <1>1 DEF Alters, BeginReconcile, SkipLine, GetLevyAccount, PostLine, CommitReconcile,
              Publish, Rollback
<1>3. ASSUME NEW batch \in Batches, BeginReconcile(r, batch) PROVE Reads(r)
  BY <1>1, <1>3 DEF Reads, BeginReconcile, NoTx, Posting
<1>4. CASE SkipLine(r)
  <2>1. tx'[r] = [tx[r] EXCEPT !.lines = Tail(@)]
    BY <1>1, <1>4 DEF SkipLine
  <2> QED
    BY <1>1, <1>2, <1>4, <2>1 DEF LedgerStep, Reads, SkipLine, Posting, Tx
<1>5. CASE GetLevyAccount(r)
  <2>1. tx'[r] = [tx[r] EXCEPT !.step = "write", !.seen = PaidIn(r, Head(tx[r].lines).account)]
    BY <1>1, <1>5 DEF GetLevyAccount
  <2>2. /\ tx'[r].step = "write" /\ tx'[r].seen = PaidIn(r, Head(tx[r].lines).account)
        /\ tx'[r].lines = tx[r].lines /\ tx'[r].made = tx[r].made /\ tx'[r].held = tx[r].held
    BY <1>1, <2>1 DEF Tx
  <2>3. AccountInHand(r)' = Head(tx[r].lines).account
    BY <2>2 DEF AccountInHand
  <2> QED
    BY <1>2, <1>5, <2>2, <2>3 DEF LedgerStep, Reads, GetLevyAccount
<1>6. CASE PostLine(r)
  <2> DEFINE p == Head(tx[r].lines)
  <2>1. p \in Payment /\ PaymentInHand(r) = p /\ tx[r].step \in Posting /\ MayPost(r, p)
    BY <1>6, TailLines, LineIsPayment
       DEF TypeInv, RequestOK, PostLine, PaymentInHand, Posting
  <2>2. tx'[r] = [Posted(r, p) EXCEPT !.step = "read", !.lines = Tail(@)]
    BY <1>1, <1>6 DEF PostLine
  <2> HIDE DEF p
  <2>3. /\ Posted(r, p) \in Tx /\ Posted(r, p).made = tx[r].made \cup {p}
        /\ Posted(r, p).held = {h \in tx[r].held : h.account # p.account}
                                 \cup {[account |-> p.account, paid |-> tx[r].seen + p.amount]}
    BY <2>1, PostedIsTx
  <2>4. tx'[r].step = "read" /\ tx'[r].made = Posted(r, p).made /\ tx'[r].held = Posted(r, p).held
    BY <2>2, <2>3 DEF Tx
  <2>5. UNCHANGED <<payments, paid>>
    BY <1>6 DEF PostLine
  <2>6. tx'[r].step \notin Posting
    BY <2>4 DEF Posting
  <2>7. Posts(r)
    BY <2>1, <2>3, <2>4, <2>5, <2>6 DEF Posts
  <2> QED
    BY <1>2, <2>7 DEF LedgerStep
<1>7. CASE CommitReconcile(r)
  BY <1>1, <1>2, <1>7 DEF LedgerStep, Commits, CommitReconcile, Publish
<1>8. CASE Rollback(r)
  BY <1>1, <1>2, <1>8 DEF LedgerStep, Drops, Rollback
<1> QED
  BY <1>2, <1>3, <1>4, <1>5, <1>6, <1>7, <1>8 DEF LedgerStep

LEMMA StatementIsLedgerStep ==
  ASSUME TypeInv, NEW r \in Requests,
         \/ \E i \in Imports : \/ BeginProcess(r, i)
                               \/ \E ms \in Matches : BeginApply(r, i, ms)
         \/ ProcessRow(r) \/ PostRow(r) \/ \E cleared \in BOOLEAN : CommitProcess(r, cleared)
         \/ ListBankStatementRows(r) \/ MatchRow(r) \/ ApplyRow(r)
         \/ CommitApply(r) \/ RollbackImport(r)
  PROVE  LedgerStep(r)
<1>1. tx \in [Requests -> Tx] /\ tx[r] \in Tx /\ work \in [Requests -> Work] /\ work[r] \in Work
  BY DEF TypeInv, LedgerType, ImportType
<1>2. Alters(r)
  BY <1>1 DEF Alters, BeginProcess, BeginApply, ProcessRow, PostRow, CommitProcess,
              ListBankStatementRows, MatchRow, ApplyRow, CommitApply, RollbackImport, Publish
<1>3. ASSUME NEW i \in Imports, BeginProcess(r, i) PROVE Reads(r)
  BY <1>1, <1>3 DEF Reads, BeginProcess, Tx, Posting
<1>4. ASSUME NEW i \in Imports, NEW ms \in Matches, BeginApply(r, i, ms) PROVE Reads(r)
  BY <1>1, <1>4 DEF Reads, BeginApply, Tx, Posting
<1>5. CASE ProcessRow(r)
  <2>1. CASE matchBankStatementRow(Head(work[r].todo), work[r].free) = {}
    BY <1>1, <1>2, <1>5, <2>1 DEF LedgerStep, Reads, ProcessRow, Posting
  <2>2. CASE matchBankStatementRow(Head(work[r].todo), work[r].free) # {}
    <3>1. tx'[r] = [tx[r] EXCEPT !.step = "post", !.seen = PaidIn(r, Matched(r))]
          /\ work'[r] = [work[r] EXCEPT !.list = Append(@, AppliedRow(NoPayment))]
      BY <1>1, <1>5, <2>2 DEF ProcessRow, Matched
    <3>2. /\ tx'[r].step = "post" /\ tx'[r].seen = PaidIn(r, Matched(r))
          /\ tx'[r].made = tx[r].made /\ tx'[r].held = tx[r].held
          /\ work'[r].todo = work[r].todo /\ work'[r].free = work[r].free
      BY <1>1, <3>1 DEF Tx, Work
    <3>3. AccountInHand(r)' = Matched(r)
      BY <3>2 DEF AccountInHand, Matched
    <3> QED
      BY <1>2, <1>5, <3>2, <3>3 DEF LedgerStep, Reads, ProcessRow
  <2> QED
    BY <2>1, <2>2
<1>6. CASE PostRow(r)
  <2>1. tx[r].step = "post" /\ RowInHand(r) = Head(work[r].todo) /\ AccountInHand(r) = Matched(r)
        /\ UNCHANGED <<payments, paid>> /\ MayEnsure(r, Head(work[r].todo), Matched(r))
        /\ tx' = [tx EXCEPT ![r] =
                    [AfterPost(r, Head(work[r].todo), Matched(r)) EXCEPT !.step = "row"]]
    BY <1>6 DEF PostRow, RowInHand, AccountInHand, Matched
  <2>2. "row" \notin Posting
    BY DEF Posting
  <2> QED
    BY <1>2, <2>1, <2>2, PostingRow DEF LedgerStep
<1>7. ASSUME NEW cleared \in BOOLEAN, CommitProcess(r, cleared) PROVE Commits(r)
  BY <1>1, <1>7 DEF Commits, CommitProcess, Publish
<1>8. CASE ListBankStatementRows(r)
  BY <1>1, <1>2, <1>8 DEF LedgerStep, Reads, ListBankStatementRows, Tx, Posting
<1>9. CASE MatchRow(r)
  <2>1. CASE AlreadyApplied(work[r], Head(work[r].todo))
    BY <1>1, <1>2, <1>9, <2>1 DEF LedgerStep, Reads, MatchRow, Posting
  <2>2. CASE ~AlreadyApplied(work[r], Head(work[r].todo))
    <3>1. tx'[r] = [tx[r] EXCEPT !.step = "apply", !.seen = PaidIn(r, Head(work[r].todo).account)]
          /\ work'[r] = work[r]
      BY <1>1, <1>9, <2>2 DEF MatchRow
    <3>2. /\ tx'[r].step = "apply" /\ tx'[r].seen = PaidIn(r, Head(work[r].todo).account)
          /\ tx'[r].made = tx[r].made /\ tx'[r].held = tx[r].held
      BY <1>1, <3>1 DEF Tx
    <3>3. AccountInHand(r)' = Head(work[r].todo).account
      BY <3>1, <3>2 DEF AccountInHand
    <3> QED
      BY <1>2, <1>9, <3>2, <3>3 DEF LedgerStep, Reads, MatchRow
  <2> QED
    BY <2>1, <2>2
<1>10. CASE ApplyRow(r)
  <2>1. tx[r].step = "apply"
        /\ RowInHand(r) = Statement[work[r].import][Head(work[r].todo).row]
        /\ AccountInHand(r) = Head(work[r].todo).account
        /\ UNCHANGED <<payments, paid>> /\ MayEnsure(r, RowInHand(r), AccountInHand(r))
        /\ tx' = [tx EXCEPT ![r] =
                    [AfterPost(r, RowInHand(r), AccountInHand(r)) EXCEPT !.step = "match"]]
    BY <1>10 DEF ApplyRow, RowInHand, AccountInHand
  <2>2. "match" \notin Posting
    BY DEF Posting
  <2> QED
    BY <1>2, <2>1, <2>2, PostingRow DEF LedgerStep
<1>11. CASE CommitApply(r)
  BY <1>1, <1>2, <1>11 DEF LedgerStep, Commits, CommitApply, Publish
<1>12. CASE RollbackImport(r)
  BY <1>1, <1>2, <1>12 DEF LedgerStep, Drops, RollbackImport
<1> QED
  BY <1>2, <1>3, <1>4, <1>5, <1>6, <1>7, <1>8, <1>9, <1>10, <1>11, <1>12 DEF LedgerStep

LEMMA NextIsLedgerStep ==
  ASSUME TypeInv, [Next]_vars
  PROVE  UNCHANGED <<payments, paid, tx, work>> \/ \E r \in Requests : LedgerStep(r)
<1>1. CASE \E i \in Imports : \/ \E enqueued \in BOOLEAN : ImportBankStatement(i, enqueued)
                             \/ CsvDoesNotParse(i)
  BY <1>1 DEF ImportBankStatement, CsvDoesNotParse, ledgerVars
<1>2. CASE UNCHANGED vars
  BY <1>2 DEF vars, ledgerVars, importVars
<1>3. CASE ReconcileNext /\ UNCHANGED importVars
  BY <1>3, ReconcileIsLedgerStep DEF ReconcileNext
<1>4. CASE \E r \in Requests, i \in Imports : \/ BeginProcess(r, i)
                                             \/ \E ms \in Matches : BeginApply(r, i, ms)
  BY <1>4, StatementIsLedgerStep
<1>5. CASE \E r \in Requests : \/ ProcessRow(r) \/ PostRow(r)
                              \/ \E cleared \in BOOLEAN : CommitProcess(r, cleared)
                              \/ ListBankStatementRows(r) \/ MatchRow(r) \/ ApplyRow(r)
                              \/ CommitApply(r) \/ RollbackImport(r)
  BY <1>5, StatementIsLedgerStep
<1> QED
  BY <1>1, <1>2, <1>3, <1>4, <1>5 DEF Next

-----------------------------------------------------------------------------
(* What payments add up to.                                                *)
LEMMA CreditedIsNat ==
  ASSUME NEW ps \in SUBSET Payment, IsFiniteSet(ps), NEW a
  PROVE  CreditedBy(ps, a) \in Nat
<1> DEFINE own == {p \in ps : p.account = a}
           f == [p \in ps |-> p.amount]
<1>1. IsFiniteSet(own)
  BY FS_Subset
<1>2. \A p \in own : f[p] \in Nat
  BY DEF Payment
<1> HIDE DEF f, own
<1>3. SumFunctionOnSet(f, own) \in Nat
  BY <1>1, <1>2, SumIsNat
<1> QED
  BY <1>3 DEF CreditedBy, f, own

LEMMA CreditedGrows ==
  ASSUME NEW qs \in SUBSET Payment, IsFiniteSet(qs), NEW ps \in SUBSET qs, NEW a
  PROVE  CreditedBy(ps, a) <= CreditedBy(qs, a)
<1> DEFINE few == {p \in ps : p.account = a}
           many == {p \in qs : p.account = a}
           f == [p \in ps |-> p.amount]
           g == [p \in qs |-> p.amount]
<1>1. IsFiniteSet(few) /\ IsFiniteSet(many) /\ few \in SUBSET many
  <2>1. IsFiniteSet(many) /\ few \in SUBSET many
    BY FS_Subset
  <2> QED
    BY <2>1, FS_Subset
<1>2. (\A p \in few : f[p] = g[p]) /\ \A p \in many : g[p] \in Nat
  BY DEF Payment
<1> HIDE DEF few, many, f, g
<1>3. SumFunctionOnSet(f, few) = SumFunctionOnSet(g, few)
  BY <1>1, <1>2, SumAgrees
<1>4. SumFunctionOnSet(g, few) <= SumFunctionOnSet(g, many)
  BY <1>1, <1>2, SumOfMore
<1> QED
  BY <1>3, <1>4 DEF CreditedBy, few, many, f, g

LEMMA CreditedOneMore ==
  ASSUME NEW ps \in SUBSET Payment, IsFiniteSet(ps), NEW p \in Payment, p \notin ps, NEW a
  PROVE  CreditedBy(ps \cup {p}, a) = IF a = p.account THEN CreditedBy(ps, a) + p.amount
                                                       ELSE CreditedBy(ps, a)
<1> DEFINE few == {q \in ps : q.account = a}
           many == {q \in ps \cup {p} : q.account = a}
           f == [q \in ps |-> q.amount]
           g == [q \in ps \cup {p} |-> q.amount]
<1>1. IsFiniteSet(few)
  BY FS_Subset
<1>2. (\A q \in few : f[q] = g[q]) /\ (\A q \in few \cup {p} : g[q] \in Int) /\ g[p] = p.amount
  BY DEF Payment
<1>3. p \notin few /\ many = (IF a = p.account THEN few \cup {p} ELSE few)
  OBVIOUS
<1> HIDE DEF few, many, f, g
<1>4. SumFunctionOnSet(f, few) = SumFunctionOnSet(g, few)
  BY <1>1, <1>2, SumAgrees
<1>5. SumFunctionOnSet(g, few \cup {p}) = SumFunctionOnSet(g, few) + p.amount
  BY <1>1, <1>2, <1>3, SumWithOneMore
<1> QED
  BY <1>3, <1>4, <1>5 DEF CreditedBy, few, many, f, g

LEMMA PostedIsNew ==
  ASSUME TypeInv, NEW r \in Requests, Posts(r)
  PROVE  PaymentInHand(r) \in Payment /\ PaymentInHand(r) \notin SeenPayments(r)
         /\ PaymentInHand(r).account = AccountInHand(r)
BY InHandType DEF Posts, MayPost, Taken

(* Balances are covered by payments, those in a transaction by what it     *)
(* sees.                                                                   *)
BackedBy(r) ==
  /\ \A h \in tx[r].held : h.paid <= CreditedBy(SeenPayments(r), h.account)
  /\ tx[r].step \in Posting => tx[r].seen <= CreditedBy(SeenPayments(r), AccountInHand(r))

BackedInv == PaidIsBacked /\ \A r \in Requests : BackedBy(r)

LEMMA PaidInIsBacked ==
  ASSUME TypeInv, BackedInv, NEW r \in Requests, NEW a \in Accounts
  PROVE  PaidIn(r, a) <= CreditedBy(SeenPayments(r), a)
<1>1. CASE \E h \in tx[r].held : h.account = a
  BY <1>1 DEF PaidIn, BackedInv, BackedBy
<1>2. CASE ~\E h \in tx[r].held : h.account = a
  <2>1. PaidIn(r, a) = paid[a] /\ paid[a] <= CreditedBy(payments, a)
    BY <1>2 DEF PaidIn, BackedInv, PaidIsBacked, Credited
  <2>2. SeenPayments(r) \in SUBSET Payment /\ IsFiniteSet(SeenPayments(r))
        /\ payments \in SUBSET SeenPayments(r) /\ IsFiniteSet(payments)
        /\ payments \in SUBSET Payment
    BY SeenIsPayments DEF SeenPayments, TypeInv, LedgerType
  <2>3. CreditedBy(payments, a) <= CreditedBy(SeenPayments(r), a)
    BY <2>2, CreditedGrows
  <2>4. paid[a] \in Nat /\ CreditedBy(payments, a) \in Nat /\ CreditedBy(SeenPayments(r), a) \in Nat
    BY <2>2, CreditedIsNat DEF TypeInv, LedgerType
  <2> QED
    BY <2>1, <2>3, <2>4
<1> QED
  BY <1>1, <1>2

Hands == \A r \in Requests : tx[r].step \in Posting => AccountInHand(r) \in Accounts

LEMMA HandsNow == TypeInv => Hands
BY InHandType DEF Hands

LEMMA HandsAfter == TypeInv' => Hands'
BY HandsNow, PTL

LEMMA OthersStayBacked ==
  ASSUME TypeInv, TypeInv', BackedInv, NEW r \in Requests, Alters(r), payments \subseteq payments',
         NEW o \in Requests \ {r}
  PROVE  BackedBy(o)'
<1>1. tx'[o] = tx[o] /\ work'[o] = work[o]
  BY DEF Alters
<1>2. SeenPayments(o) \subseteq SeenPayments(o)'
  BY <1>1 DEF SeenPayments
<1>3. SeenPayments(o)' \in SUBSET Payment /\ IsFiniteSet(SeenPayments(o)')
  <2>1. /\ payments' \in SUBSET Payment /\ IsFiniteSet(payments')
        /\ tx'[o].made \in SUBSET Payment /\ IsFiniteSet(tx'[o].made)
    BY DEF TypeInv, LedgerType, Tx
  <2> QED
    BY <2>1, FS_Union DEF SeenPayments
<1>4. SeenPayments(o) \in SUBSET Payment /\ IsFiniteSet(SeenPayments(o))
  BY SeenIsPayments
<1>5. \A a : /\ CreditedBy(SeenPayments(o), a) <= CreditedBy(SeenPayments(o)', a)
             /\ CreditedBy(SeenPayments(o), a) \in Nat /\ CreditedBy(SeenPayments(o)', a) \in Nat
  BY <1>2, <1>3, <1>4, CreditedGrows, CreditedIsNat
<1>6. tx[o] \in Tx /\ BackedBy(o)
  BY DEF TypeInv, LedgerType, BackedInv
<1>7. ASSUME NEW h \in tx'[o].held PROVE h.paid <= CreditedBy(SeenPayments(o)', h.account)
  <2>1. h.paid \in Nat /\ h.paid <= CreditedBy(SeenPayments(o), h.account)
    BY <1>1, <1>6, <1>7 DEF BackedBy, Tx, Held
  <2> QED
    BY <1>5, <2>1
<1>8. ASSUME tx'[o].step \in Posting
      PROVE  tx'[o].seen <= CreditedBy(SeenPayments(o)', AccountInHand(o)')
  <2>1. AccountInHand(o)' = AccountInHand(o)
    BY <1>1 DEF AccountInHand, Matched
  <2>2. tx[o].seen \in Nat /\ tx[o].seen <= CreditedBy(SeenPayments(o), AccountInHand(o))
    BY <1>1, <1>6, <1>8 DEF BackedBy, Tx
  <2> QED
    BY <1>1, <1>5, <2>1, <2>2
<1>9. \A h \in tx'[o].held : (h.paid <= CreditedBy(SeenPayments(o), h.account))'
  BY <1>7
<1> QED
  BY <1>7, <1>8 DEF BackedBy

LEMMA NextKeepsBacked ==
  ASSUME TypeInv, TypeInv', BackedInv, [Next]_vars
  PROVE  BackedInv'
<1>1. CASE UNCHANGED <<payments, paid, tx, work>>
  BY <1>1 DEF BackedInv, PaidIsBacked, Credited, BackedBy, SeenPayments, AccountInHand, Matched
<1>2. ASSUME NEW r \in Requests, Alters(r), Reads(r) PROVE BackedInv'
  <2>1. payments' = payments /\ paid' = paid /\ SeenPayments(r)' = SeenPayments(r)
    BY <1>2 DEF Reads, SeenPayments
  <2>2. PaidIsBacked'
    BY <2>1 DEF BackedInv, PaidIsBacked, Credited
  <2>3. ASSUME tx'[r].step \in Posting
        PROVE  tx'[r].seen <= CreditedBy(SeenPayments(r)', AccountInHand(r)')
    <3>1. AccountInHand(r)' \in Accounts
      BY <2>3, HandsAfter DEF Hands
    <3>2. tx'[r].seen = PaidIn(r, AccountInHand(r)')
      BY <1>2, <2>3 DEF Reads
    <3> QED
      BY <2>1, <3>1, <3>2, PaidInIsBacked
  <2>4. BackedBy(r)'
    BY <1>2, <2>1, <2>3 DEF BackedBy, BackedInv, Reads
  <2> QED
    BY <1>2, <2>1, <2>2, <2>4, OthersStayBacked DEF BackedInv
<1>3. ASSUME NEW r \in Requests, Alters(r), Posts(r) PROVE BackedInv'
  <2> DEFINE p == PaymentInHand(r)
  <2>1. p \in Payment /\ p \notin SeenPayments(r) /\ p.account = AccountInHand(r)
    BY <1>3, PostedIsNew
  <2>2. payments' = payments /\ paid' = paid /\ SeenPayments(r)' = SeenPayments(r) \cup {p}
        /\ tx[r].step \in Posting /\ tx'[r].step \notin Posting
    BY <1>3 DEF Posts, SeenPayments
  <2>3. tx'[r].held = {h \in tx[r].held : h.account # p.account}
                        \cup {[account |-> p.account, paid |-> tx[r].seen + p.amount]}
    BY <1>3 DEF Posts
  <2>4. SeenPayments(r) \in SUBSET Payment /\ IsFiniteSet(SeenPayments(r))
    BY SeenIsPayments
  <2>5. \A a : CreditedBy(SeenPayments(r)', a) = IF a = p.account
                 THEN CreditedBy(SeenPayments(r), a) + p.amount ELSE CreditedBy(SeenPayments(r), a)
    BY <2>1, <2>2, <2>4, CreditedOneMore
  <2>6. tx[r].seen <= CreditedBy(SeenPayments(r), p.account) /\ BackedBy(r) /\ tx[r] \in Tx
        /\ CreditedBy(SeenPayments(r), p.account) \in Nat
    BY <2>1, <2>2, <2>4, CreditedIsNat DEF BackedInv, BackedBy, TypeInv, LedgerType
  <2> HIDE DEF p
  <2>7. ASSUME NEW h \in tx'[r].held PROVE h.paid <= CreditedBy(SeenPayments(r)', h.account)
    <3>1. CASE h = [account |-> p.account, paid |-> tx[r].seen + p.amount]
      <4>1. p.amount \in Nat /\ tx[r].seen \in Nat
        BY <2>1, <2>6 DEF Payment, Tx
      <4>2. h.account = p.account /\ h.paid = tx[r].seen + p.amount
        BY <3>1
      <4> QED
        BY <2>5, <2>6, <4>1, <4>2
    <3>2. CASE h \in tx[r].held /\ h.account # p.account
      BY <2>5, <2>6, <3>2 DEF BackedBy
    <3> QED
      BY <2>3, <2>7, <3>1, <3>2
  <2>8. BackedBy(r)'
    BY <2>2, <2>7 DEF BackedBy
  <2>9. PaidIsBacked'
    BY <2>2 DEF BackedInv, PaidIsBacked, Credited
  <2> QED
    BY <1>3, <2>2, <2>8, <2>9, OthersStayBacked DEF BackedInv
<1>4. ASSUME NEW r \in Requests, Alters(r), Drops(r) PROVE BackedInv'
  <2>1. payments' = payments /\ paid' = paid
    BY <1>4 DEF Drops
  <2>2. BackedBy(r)'
    BY <1>4 DEF Drops, BackedBy, NoTx, Posting
  <2>3. PaidIsBacked'
    BY <2>1 DEF BackedInv, PaidIsBacked, Credited
  <2> QED
    BY <1>4, <2>1, <2>2, <2>3, OthersStayBacked DEF BackedInv
<1>5. ASSUME NEW r \in Requests, Alters(r), Commits(r) PROVE BackedInv'
  <2>1. payments' = SeenPayments(r) /\ payments \subseteq payments'
        /\ paid' = [a \in Accounts |-> PaidIn(r, a)]
    BY <1>5 DEF Commits, Publish, SeenPayments
  <2>2. BackedBy(r)'
    BY <1>5 DEF Commits, BackedBy, NoTx, Posting
  <2>3. PaidIsBacked'
    BY <2>1, PaidInIsBacked DEF PaidIsBacked, Credited
  <2> QED
    BY <1>5, <2>1, <2>2, <2>3, OthersStayBacked DEF BackedInv
<1> QED
  BY <1>1, <1>2, <1>3, <1>4, <1>5, NextIsLedgerStep DEF LedgerStep

LEMMA InitIsBacked == Init => BackedInv
<1> SUFFICES ASSUME Init PROVE BackedInv
  OBVIOUS
<1>1. payments = {} /\ \A a \in Accounts : paid[a] = 0
  BY DEF Init, LedgerInit
<1>2. \A a : CreditedBy({}, a) \in Nat
  BY CreditedIsNat, FS_EmptySet
<1>3. PaidIsBacked
  BY <1>1, <1>2 DEF PaidIsBacked, Credited
<1>4. \A r \in Requests : BackedBy(r)
  BY DEF Init, LedgerInit, BackedBy, NoTx, Posting
<1> QED
  BY <1>3, <1>4 DEF BackedInv

(* No account ever shows more paid than the payments posted to it add up to, for any
   accounts, batches and statements and however many requests and handlers interleave,
   abort or repeat, though each writes a balance it computed from an unlocked read.     *)
THEOREM PaidIsAlwaysBacked == Spec => []PaidIsBacked
<1>1. TypeInv /\ TypeInv' /\ BackedInv /\ [Next]_vars => BackedInv'
  BY NextKeepsBacked
<1>2. BackedInv => PaidIsBacked
  BY DEF BackedInv
<1> QED
  BY <1>1, <1>2, InitIsBacked, LedgerTypes, PTL DEF Spec

-----------------------------------------------------------------------------
(* Rows and their payments.  References of payment lines are what the bank *)
(* or a user writes, fingerprints are hashes of a statement's rows: should *)
(* a line carry one all the same, it is for the amount of that row.        *)
LinesAgree ==
  \A l \in BatchLines, d \in StatementRows : l.reference = d.fingerprint => l.amount = d.amount

Agrees(p) == \A d \in StatementRows : p.reference = d.fingerprint => p.amount = d.amount

AgreeInv == /\ \A p \in payments : Agrees(p)
            /\ \A r \in Requests : \A p \in tx[r].made : Agrees(p)

LEMMA StatementHasRows ==
  ASSUME NEW i \in Imports, Statement[i] # NoParse, NEW n \in 1..Len(Statement[i])
  PROVE  Statement[i][n] \in StatementRows
BY DEF StatementRows, Range, ImportAssumption

LEMMA RowInHandIsOne ==
  ASSUME TypeInv, NEW r \in Requests, tx[r].step \in {"post", "apply"}
  PROVE  RowInHand(r) \in StatementRows
<1>1. CASE tx[r].step = "post"
  <2>1. tx[r].step \in Processing /\ ProcessingOK(r) /\ work[r].todo # <<>>
    BY <1>1 DEF TypeInv, RequestOK, Processing, ProcessingOK
  <2>2. Placed(r) + 1 \in 1..Len(Statement[work[r].import])
        /\ Head(work[r].todo) = Statement[work[r].import][Placed(r) + 1]
    <3>1. Statement[work[r].import] \in Seq(StatementRow)
      BY <2>1, ImportAssumption DEF ProcessingOK
    <3>2. Len(Statement[work[r].import]) \in Nat
      BY <3>1, LenProperties
    <3> QED
      BY <2>1, <3>2, RowAtHand
  <2> QED
    BY <1>1, <2>1, <2>2, StatementHasRows DEF RowInHand, ProcessingOK
<1>2. CASE tx[r].step = "apply"
  <2>1. ApplyingOK(r) /\ work[r].todo # <<>> /\ Head(work[r].todo).row \in DOMAIN work[r].list
    BY <1>2 DEF TypeInv, RequestOK, ApplyingOK, Applying
  <2>2. /\ work[r].import \in Imports /\ work[r].list \in Seq(ImportRow)
        /\ Statement[work[r].import] \in Seq(StatementRow)
        /\ Len(work[r].list) = Len(rows[work[r].import])
        /\ Len(work[r].list) <= Len(Statement[work[r].import])
        /\ work[r].list # <<>>
    BY <1>2, <2>1, MatchAtHand
  <2>3. Head(work[r].todo).row \in 1..Len(Statement[work[r].import])
    BY <2>1, <2>2, LenProperties
  <2>4. Statement[work[r].import] # NoParse
    <3>1. rows[work[r].import] # <<>>
      BY <2>2, EmptySeq, LenProperties DEF TypeInv, ImportType
    <3> QED
      BY <2>2, <3>1 DEF TypeInv, ImportOK
  <2> QED
    BY <1>2, <2>2, <2>3, <2>4, StatementHasRows DEF RowInHand
<1> QED
  BY <1>1, <1>2

LEMMA RowsHaveReferences ==
  ASSUME NEW d \in StatementRows PROVE d \in StatementRow /\ d.fingerprint \in References
<1>1. PICK i \in Imports : Statement[i] # NoParse /\ d \in Range(Statement[i])
  BY DEF StatementRows
<1>2. Statement[i] \in Seq(StatementRow)
  BY <1>1, ImportAssumption
<1>3. d \in StatementRow
  BY <1>1, <1>2, LenProperties, ElementOfSeq DEF Range
<1> QED
  BY <1>3 DEF StatementRow

LEMMA InHandAgrees ==
  ASSUME TypeInv, LinesAgree, NEW r \in Requests, tx[r].step \in Posting
  PROVE  Agrees(PaymentInHand(r))
<1>1. CASE tx[r].step = "write"
  <2>1. Head(tx[r].lines) \in BatchLines
    BY <1>1, TailLines DEF TypeInv, RequestOK
  <2> QED
    BY <1>1, <2>1 DEF PaymentInHand, Agrees, LinesAgree
<1>2. CASE tx[r].step \in {"post", "apply"}
  <2> DEFINE row == RowInHand(r)
             a == AccountInHand(r)
  <2>1. row \in StatementRows /\ a \in Accounts /\ row.fingerprint \in References
    BY <1>2, RowInHandIsOne, RowInHandType, RowsHaveReferences
  <2>2. PaymentInHand(r) = PaymentFor(r, row, a)
    BY <1>2 DEF PaymentInHand
  <2> HIDE DEF row, a
  <2>3. PaymentFor(r, row, a).amount = row.amount
        /\ PaymentFor(r, row, a).reference = ReferenceFor(r, row.fingerprint, a)
    BY DEF PaymentFor
  <2>4. ASSUME NEW d \in StatementRows, ReferenceFor(r, row.fingerprint, a) = d.fingerprint
        PROVE  row.amount = d.amount
    <3>1. d.fingerprint \in References
      BY RowsHaveReferences
    <3>2. <<row.fingerprint, a>> \notin References
      BY <2>1, FingerprintAssumption
    <3>3. row.fingerprint = d.fingerprint
      BY <2>4, <3>1, <3>2 DEF ReferenceFor
    <3> QED
      BY <2>1, <3>3, FingerprintAssumption
  <2> QED
    BY <2>2, <2>3, <2>4 DEF Agrees
<1> QED
  BY <1>1, <1>2 DEF Posting

LEMMA NextKeepsAgreement ==
  ASSUME TypeInv, LinesAgree, AgreeInv, [Next]_vars
  PROVE  AgreeInv'
<1>1. CASE UNCHANGED <<payments, paid, tx, work>>
  BY <1>1 DEF AgreeInv
<1>2. ASSUME NEW r \in Requests, Alters(r), Reads(r) \/ Drops(r) \/ Commits(r) PROVE AgreeInv'
  <2>1. /\ payments' \subseteq payments \cup tx[r].made
        /\ tx'[r].made \subseteq tx[r].made
        /\ \A o \in Requests \ {r} : tx'[o] = tx[o]
    BY <1>2 DEF Alters, Reads, Drops, Commits, Publish, SeenPayments, NoTx
  <2>2. \A o \in Requests : tx'[o].made \subseteq tx[o].made
    BY <2>1
  <2> QED
    BY <2>1, <2>2 DEF AgreeInv
<1>3. ASSUME NEW r \in Requests, Alters(r), Posts(r) PROVE AgreeInv'
  <2>1. /\ payments' = payments /\ tx'[r].made = tx[r].made \cup {PaymentInHand(r)}
        /\ \A o \in Requests \ {r} : tx'[o] = tx[o]
    BY <1>3 DEF Alters, Posts
  <2>2. Agrees(PaymentInHand(r))
    BY <1>3, InHandAgrees DEF Posts
  <2> QED
    BY <2>1, <2>2 DEF AgreeInv
<1> QED
  BY <1>1, <1>2, <1>3, NextIsLedgerStep DEF LedgerStep

Money(ps, ref, amount) == \E p \in ps : p.reference = ref /\ p.amount = amount

(* Posting a row leaves a payment of its amount under its reference: the   *)
(* one just made, or the one that was there.                               *)
LEMMA RowIsEnsured ==
  ASSUME TypeInv, AgreeInv, NEW r \in Requests, tx[r].step \in {"post", "apply"},
         NEW row, row = RowInHand(r), NEW a, a = AccountInHand(r), NEW step,
         tx'[r] = [AfterPost(r, row, a) EXCEPT !.step = step], payments' = payments
  PROVE  Money(SeenPayments(r)', ReferenceFor(r, row.fingerprint, a), row.amount)
<1>1. row \in StatementRows /\ a \in Accounts /\ row \in StatementRow
  BY RowInHandIsOne, RowInHandType
<1>2. CASE Existing(r, row.fingerprint, a)
  <2>1. PICK p \in SeenPayments(r) : p.reference = row.fingerprint /\ p.account = a
    BY <1>2 DEF Existing
  <2>2. Agrees(p)
    BY DEF AgreeInv, SeenPayments
  <2>3. p.amount = row.amount
    BY <1>1, <2>1, <2>2 DEF Agrees
  <2>4. ReferenceFor(r, row.fingerprint, a) = row.fingerprint
    BY <1>2 DEF ReferenceFor
  <2>5. tx'[r].made = tx[r].made
    BY <1>2 DEF AfterPost, TypeInv, LedgerType, Tx
  <2> QED
    BY <2>1, <2>3, <2>4, <2>5 DEF Money, SeenPayments
<1>3. CASE ~Existing(r, row.fingerprint, a)
  <2> DEFINE p == PaymentFor(r, row, a)
  <2>1. p \in Payment
    BY <1>1, PaymentForIsPayment
  <2>2. p.reference = ReferenceFor(r, row.fingerprint, a) /\ p.amount = row.amount
    BY DEF PaymentFor
  <2>3. tx'[r] = [Posted(r, p) EXCEPT !.step = step]
    BY <1>3 DEF AfterPost
  <2> HIDE DEF p
  <2>4. Posted(r, p) \in Tx /\ Posted(r, p).made = tx[r].made \cup {p}
    BY <2>1, PostedIsTx
  <2>5. tx'[r].made = tx[r].made \cup {p}
    BY <2>3, <2>4 DEF Tx
  <2>6. p \in SeenPayments(r)'
    BY <2>5 DEF SeenPayments
  <2> QED
    BY <2>2, <2>6 DEF Money
<1> QED
  BY <1>2, <1>3

(* Rows shown as applied, and those a handler is about to show, are paid.  *)
LinkedBy(r) ==
  LET w == work[r]
  IN /\ tx[r].step \in Processing =>
          \A n \in 1..Placed(r) :
            w.list[n].status = "applied"
              => Money(SeenPayments(r), w.list[n].payment, Statement[w.import][n].amount)
     /\ \A x \in w.wrote : Money(SeenPayments(r), x.payment, Statement[w.import][x.row].amount)

LinkedInv == AgreeInv /\ AppliedRowHasPayment /\ \A r \in Requests : LinkedBy(r)

LEMMA MoneyGrows ==
  ASSUME NEW ps, NEW qs, ps \subseteq qs, NEW ref, NEW amount, Money(ps, ref, amount)
  PROVE  Money(qs, ref, amount)
BY DEF Money

LEMMA OthersStayLinked ==
  ASSUME LinkedInv, NEW r \in Requests, Alters(r), payments \subseteq payments',
         NEW o \in Requests \ {r}
  PROVE  LinkedBy(o)'
<1>1. tx'[o] = tx[o] /\ work'[o] = work[o]
  BY DEF Alters
<1>2. SeenPayments(o) \subseteq SeenPayments(o)' /\ LinkedBy(o)
  BY <1>1 DEF SeenPayments, LinkedInv
<1>3. Placed(o)' = Placed(o)
  BY <1>1 DEF Placed
<1> QED
  BY <1>1, <1>2, <1>3, MoneyGrows DEF LinkedBy

LEMMA RowsStayLinked ==
  ASSUME AppliedRowHasPayment, rows' = rows, payments \subseteq payments'
  PROVE  AppliedRowHasPayment'
BY DEF AppliedRowHasPayment

(* A request whose rows stay, and which has written none of an import.     *)
LEMMA QuietlyLinked ==
  ASSUME TypeInv, LinkedInv, AgreeInv', NEW r \in Requests, Alters(r), payments \subseteq payments',
         rows' = rows, LinkedBy(r)'
  PROVE  LinkedInv'
BY OthersStayLinked, RowsStayLinked DEF LinkedInv

LEMMA IdleIsLinked ==
  ASSUME NEW r, work'[r].wrote = {}, tx'[r].step \notin Processing
  PROVE  LinkedBy(r)'
BY DEF LinkedBy

LEMMA ReconcileSteps ==
  ASSUME TypeInv, NEW r \in Requests,
         \/ \E batch \in Batches : BeginReconcile(r, batch)
         \/ SkipLine(r) \/ GetLevyAccount(r) \/ PostLine(r)
         \/ CommitReconcile(r) \/ Rollback(r)
  PROVE  tx'[r].step \in {"none", "read", "write"}
<1>0. tx \in [Requests -> Tx] /\ tx[r] \in Tx
  BY DEF TypeInv, LedgerType
<1>1. ASSUME NEW batch \in Batches, BeginReconcile(r, batch) PROVE tx'[r].step = "read"
  BY <1>0, <1>1 DEF BeginReconcile, NoTx
<1>2. ASSUME SkipLine(r) PROVE tx'[r].step = "read"
  BY <1>0, <1>2 DEF SkipLine, Tx
<1>3. ASSUME GetLevyAccount(r) PROVE tx'[r].step = "write"
  BY <1>0, <1>3 DEF GetLevyAccount, Tx
<1>4. ASSUME PostLine(r) PROVE tx'[r].step = "read"
  BY <1>0, <1>4 DEF PostLine, Posted, Tx
<1>5. ASSUME CommitReconcile(r) \/ Rollback(r) PROVE tx'[r].step = "none"
  BY <1>0, <1>5 DEF CommitReconcile, Publish, Rollback, NoTx
<1> QED
  BY <1>1, <1>2, <1>3, <1>4, <1>5

LEMMA ReconcileKeepsLinked ==
  ASSUME TypeInv, TypeInv', LinkedInv, AgreeInv', NEW r \in Requests, UNCHANGED importVars,
         \/ \E batch \in Batches : BeginReconcile(r, batch)
         \/ SkipLine(r) \/ GetLevyAccount(r) \/ PostLine(r)
         \/ CommitReconcile(r) \/ Rollback(r)
  PROVE  LinkedInv'
<1>1. LedgerStep(r)
  BY ReconcileIsLedgerStep
<1>2. payments \subseteq payments' /\ Alters(r)
  BY <1>1 DEF LedgerStep, Reads, Posts, Drops, Commits, Publish, SeenPayments
<1>3. tx \in [Requests -> Tx] /\ tx[r] \in Tx /\ work' = work /\ rows' = rows
  BY DEF TypeInv, LedgerType, importVars
<1>4. tx[r].step \in {"none", "read", "write"}
  <2>1. ASSUME NEW batch \in Batches, BeginReconcile(r, batch) PROVE tx[r].step = "none"
    <3>1. tx[r] = NoTx
      BY <2>1 DEF BeginReconcile
    <3> QED
      BY <3>1 DEF NoTx
  <2>2. SkipLine(r) \/ GetLevyAccount(r) \/ PostLine(r) \/ CommitReconcile(r) \/ Rollback(r)
          => tx[r].step \in {"read", "write"}
    BY DEF SkipLine, GetLevyAccount, PostLine, CommitReconcile, Rollback
  <2> QED
    BY <2>1, <2>2
<1>5. work[r] = NoWork
  BY <1>4 DEF TypeInv, RequestOK, Processing, Applying
<1>6. tx'[r].step \in {"none", "read", "write"}
  BY ReconcileSteps
<1>7. LinkedBy(r)'
  BY <1>3, <1>5, <1>6, IdleIsLinked DEF NoWork, Processing
<1> QED
  BY <1>2, <1>3, <1>7, QuietlyLinked

LEMMA BeginKeepsLinked ==
  ASSUME TypeInv, LinkedInv, AgreeInv', NEW r \in Requests, NEW i \in Imports,
         BeginProcess(r, i) \/ \E ms \in Matches : BeginApply(r, i, ms)
  PROVE  LinkedInv'
<1>1. tx \in [Requests -> Tx] /\ work \in [Requests -> Work] /\ rows' = rows /\ payments' = payments
  BY DEF TypeInv, LedgerType, ImportType, BeginProcess, BeginApply
<1>2. Alters(r)
  BY <1>1 DEF Alters, BeginProcess, BeginApply
<1>3. CASE BeginProcess(r, i)
  <2>1. work'[r].wrote = {} /\ work'[r].list = <<>> /\ tx'[r].step = "row"
    BY <1>1, <1>3 DEF BeginProcess, NoWork, Tx, NoTx
  <2>2. Placed(r)' = 0
    BY <2>1, EmptySeq DEF Placed
  <2>3. LinkedBy(r)'
    BY <2>1, <2>2 DEF LinkedBy
  <2> QED
    BY <1>1, <1>2, <2>3, QuietlyLinked
<1>4. ASSUME NEW ms \in Matches, BeginApply(r, i, ms) PROVE LinkedInv'
  <2>1. work'[r].wrote = {} /\ tx'[r].step = "list"
    BY <1>1, <1>4 DEF BeginApply, NoWork, Tx, NoTx
  <2>2. LinkedBy(r)'
    BY <2>1, IdleIsLinked DEF Processing
  <2> QED
    BY <1>1, <1>2, <2>2, QuietlyLinked
<1> QED
  BY <1>3, <1>4

\* What the two steps of a row do to a handler's work.
LEMMA ProcessRowMoves ==
  ASSUME TypeInv, NEW r \in Requests, ProcessRow(r)
  PROVE  /\ tx[r].step = "row" /\ Placed(r) = Len(work[r].list) /\ work[r].list \in Seq(ImportRow)
         /\ Len(work[r].list) \in Nat /\ ProcessingOK(r) /\ Alters(r)
         /\ rows' = rows /\ payments' = payments
         /\ \E row \in ImportRow :
              /\ work'[r].list = Append(work[r].list, row) /\ work'[r].import = work[r].import
              /\ work'[r].wrote = {} /\ tx'[r].made = tx[r].made
              /\ \/ /\ tx'[r].step = "row" /\ row.status # "applied"
                    /\ work'[r].todo = Tail(work[r].todo)
                 \/ tx'[r].step = "post" /\ work'[r].todo = work[r].todo
<1> DEFINE w == work[r]
<1>1. tx \in [Requests -> Tx] /\ tx[r] \in Tx /\ work \in [Requests -> Work] /\ w \in Work
      /\ w.list \in Seq(ImportRow) /\ Len(w.list) \in Nat /\ rows' = rows /\ payments' = payments
      /\ tx[r].step = "row" /\ Placed(r) = Len(w.list)
  <2>1. w.list \in Seq(ImportRow)
    BY DEF TypeInv, ImportType, Work
  <2> QED
    BY <2>1, LenProperties DEF TypeInv, LedgerType, ImportType, ProcessRow, Placed
<1>2. Alters(r)
  BY <1>1 DEF Alters, ProcessRow
<1>3. ProcessingOK(r)
  BY <1>1 DEF TypeInv, RequestOK, Processing
<1>4. CASE matchBankStatementRow(Head(w.todo), w.free) = {}
  <2>1. work'[r] = [w EXCEPT !.list = Append(@, Unplaced(Head(w.todo), w.free)), !.todo = Tail(@)]
        /\ tx' = tx
    BY <1>1, <1>4 DEF ProcessRow
  <2>2. Unplaced(Head(w.todo), w.free) \in ImportRow
        /\ Unplaced(Head(w.todo), w.free).status # "applied"
    BY RowTypes DEF Unplaced
  <2>3. /\ work'[r].list = Append(w.list, Unplaced(Head(w.todo), w.free))
        /\ work'[r].import = w.import /\ work'[r].wrote = {} /\ work'[r].todo = Tail(w.todo)
    BY <1>1, <1>3, <2>1 DEF Work, ProcessingOK
  <2> QED
    BY <1>1, <1>2, <1>3, <2>1, <2>2, <2>3
<1>5. CASE matchBankStatementRow(Head(w.todo), w.free) # {}
  <2>1. work'[r] = [w EXCEPT !.list = Append(@, AppliedRow(NoPayment))]
        /\ tx'[r] = [tx[r] EXCEPT !.step = "post", !.seen = PaidIn(r, Matched(r))]
    BY <1>1, <1>5 DEF ProcessRow, Matched
  <2>2. /\ work'[r].list = Append(w.list, AppliedRow(NoPayment))
        /\ work'[r].import = w.import /\ work'[r].wrote = {} /\ work'[r].todo = w.todo
        /\ tx'[r].step = "post" /\ tx'[r].made = tx[r].made
    BY <1>1, <1>3, <2>1 DEF Work, ProcessingOK, Tx
  <2> QED
    BY <1>1, <1>2, <1>3, <2>2, RowTypes
<1> QED
  BY <1>4, <1>5

LEMMA PostRowMoves ==
  ASSUME TypeInv, NEW r \in Requests, PostRow(r)
  PROVE  LET w == work[r]
             ref == ReferenceFor(r, Head(w.todo).fingerprint, Matched(r))
         IN /\ tx[r].step = "post" /\ tx'[r].step = "row"
            /\ tx'[r] = [AfterPost(r, Head(w.todo), Matched(r)) EXCEPT !.step = "row"]
            /\ w.list \in Seq(ImportRow) /\ Len(w.list) \in Nat \ {0} /\ w.todo # <<>>
            /\ ProcessingOK(r) /\ Placed(r) = Len(w.list) - 1 /\ Placed(r)' = Len(w.list)
            /\ Alters(r) /\ rows' = rows /\ payments' = payments
            /\ RowInHand(r) = Head(w.todo) /\ AccountInHand(r) = Matched(r)
            /\ ref \in PaymentReference
            /\ work'[r].list = [w.list EXCEPT ![Len(w.list)] = AppliedRow(ref)]
            /\ work'[r].import = w.import /\ work'[r].wrote = {} /\ work'[r].todo = Tail(w.todo)
<1> DEFINE w == work[r]
           row == Head(w.todo)
           ref == ReferenceFor(r, row.fingerprint, Matched(r))
<1>1. tx \in [Requests -> Tx] /\ tx[r] \in Tx /\ work \in [Requests -> Work] /\ w \in Work
      /\ w.list \in Seq(ImportRow) /\ rows' = rows /\ payments' = payments
      /\ tx[r].step = "post" /\ tx[r].step \in Processing
  BY DEF TypeInv, LedgerType, ImportType, PostRow, Processing, Work
<1>2. Alters(r)
  BY <1>1 DEF Alters, PostRow
<1>3. ProcessingOK(r) /\ w.list # <<>> /\ w.todo # <<>>
  BY <1>1 DEF TypeInv, RequestOK, ProcessingOK
<1>4. Len(w.list) \in Nat \ {0} /\ Placed(r) = Len(w.list) - 1 /\ w.wrote = {}
  BY <1>1, <1>3, EmptySeq, LenProperties DEF Placed, ProcessingOK
<1>5. RowInHand(r) = row /\ AccountInHand(r) = Matched(r)
  BY <1>1 DEF RowInHand, AccountInHand
<1>6. tx'[r] = [AfterPost(r, row, Matched(r)) EXCEPT !.step = "row"]
  BY <1>1 DEF PostRow, Matched
<1>7. /\ work'[r].list = [w.list EXCEPT ![Len(w.list)] = AppliedRow(ref)]
      /\ work'[r].import = w.import /\ work'[r].wrote = w.wrote /\ work'[r].todo = Tail(w.todo)
  <2>1. \E left : work' = [work EXCEPT ![r].list[Len(w.list)] = AppliedRow(ref),
                                       ![r].todo = Tail(@), ![r].free = left]
    BY DEF PostRow, Matched
  <2> HIDE DEF ref
  <2> QED
    BY <1>1, <2>1 DEF Work
<1>8. ref \in PaymentReference
  BY <1>1, <1>5, RowInHandType, PaymentForIsPayment
<1>9. Placed(r)' = Len(w.list) /\ tx'[r].step = "row"
  <2>1. AfterPost(r, row, Matched(r)) \in Tx
    BY <1>1, <1>5, AfterPostIsTx, RowInHandType
  <2>2. tx'[r].step = "row"
    BY <1>6, <2>1 DEF Tx
  <2>3. Len(work'[r].list) = Len(w.list)
    <3>1. AppliedRow(ref) \in ImportRow /\ Len(w.list) \in 1..Len(w.list)
      BY <1>4, <1>8, RowTypes
    <3> QED
      BY <1>1, <1>7, <3>1, ExceptSeq
  <2> QED
    BY <2>2, <2>3 DEF Placed
<1> QED
  BY <1>1, <1>2, <1>3, <1>4, <1>5, <1>6, <1>7, <1>8, <1>9

LEMMA ProcessPlaces ==
  ASSUME TypeInv, NEW r \in Requests, ProcessRow(r) \/ PostRow(r)
  PROVE  /\ tx'[r].step \in Processing /\ work'[r].import = work[r].import
         /\ \/ Placed(r)' = Placed(r) /\ work'[r].todo = work[r].todo
            \/ Placed(r)' = Placed(r) + 1 /\ work'[r].todo = Tail(work[r].todo)
<1>1. CASE ProcessRow(r)
  <2>1. PICK row \in ImportRow :
          /\ work'[r].list = Append(work[r].list, row) /\ work'[r].import = work[r].import
          /\ \/ tx'[r].step = "row" /\ work'[r].todo = Tail(work[r].todo)
             \/ tx'[r].step = "post" /\ work'[r].todo = work[r].todo
    BY <1>1, ProcessRowMoves
  <2>2. Placed(r) = Len(work[r].list) /\ Len(work[r].list) \in Nat
        /\ Len(work'[r].list) = Len(work[r].list) + 1
    BY <1>1, <2>1, ProcessRowMoves, AppendProperties
  <2> QED
    BY <2>1, <2>2 DEF Placed, Processing
<1>2. CASE PostRow(r)
  <2>1. /\ tx'[r].step = "row" /\ work'[r].import = work[r].import
        /\ work'[r].todo = Tail(work[r].todo) /\ Len(work[r].list) \in Nat
        /\ Placed(r) = Len(work[r].list) - 1 /\ Placed(r)' = Len(work[r].list)
    BY <1>2, PostRowMoves
  <2>2. Placed(r)' = Placed(r) + 1
    BY <2>1
  <2> QED
    BY <2>1, <2>2 DEF Processing
<1> QED
  BY <1>1, <1>2

LEMMA ProcessRowKeepsLinked ==
  ASSUME TypeInv, LinkedInv, AgreeInv', NEW r \in Requests, ProcessRow(r)
  PROVE  LinkedInv'
<1> DEFINE w == work[r]
<1>1. /\ tx[r].step = "row" /\ tx[r].step \in Processing /\ Placed(r) = Len(w.list)
      /\ w.list \in Seq(ImportRow) /\ Len(w.list) \in Nat /\ Alters(r)
      /\ rows' = rows /\ payments' = payments
  BY ProcessRowMoves DEF Processing
<1>2. LinkedBy(r)
  BY DEF LinkedInv
<1>3. PICK row \in ImportRow :
        /\ work'[r].list = Append(w.list, row) /\ work'[r].import = w.import
        /\ work'[r].wrote = {} /\ tx'[r].made = tx[r].made
        /\ \/ tx'[r].step = "row" /\ row.status # "applied"
           \/ tx'[r].step = "post"
  BY ProcessRowMoves
<1>4. /\ Len(work'[r].list) = Len(w.list) + 1
      /\ \A n \in 1..Len(w.list) : work'[r].list[n] = w.list[n]
      /\ work'[r].list[Len(w.list) + 1] = row
  BY <1>1, <1>3, AppendProperties
<1>5. SeenPayments(r)' = SeenPayments(r)
  BY <1>1, <1>3 DEF SeenPayments
<1>6. ASSUME NEW n \in 1..Placed(r)', work'[r].list[n].status = "applied"
      PROVE  n \in 1..Placed(r) /\ work'[r].list[n] = w.list[n]
  <2>1. CASE tx'[r].step = "row" /\ row.status # "applied"
    BY <1>1, <1>4, <1>6, <2>1 DEF Placed
  <2>2. CASE tx'[r].step = "post"
    BY <1>1, <1>4, <1>6, <2>2 DEF Placed
  <2> QED
    BY <1>3, <2>1, <2>2
<1>7. LinkedBy(r)'
  BY <1>1, <1>2, <1>3, <1>5, <1>6 DEF LinkedBy
<1> QED
  BY <1>1, <1>7, QuietlyLinked

LEMMA PostRowKeepsLinked ==
  ASSUME TypeInv, LinkedInv, AgreeInv', NEW r \in Requests, PostRow(r)
  PROVE  LinkedInv'
<1> DEFINE w == work[r]
           row == Head(w.todo)
           ref == ReferenceFor(r, row.fingerprint, Matched(r))
<1>1. /\ tx[r].step = "post" /\ tx[r].step \in Processing /\ tx'[r].step = "row"
      /\ tx'[r] = [AfterPost(r, row, Matched(r)) EXCEPT !.step = "row"]
      /\ w.list \in Seq(ImportRow) /\ Len(w.list) \in Nat \ {0} /\ w.todo # <<>>
      /\ Placed(r) = Len(w.list) - 1 /\ Placed(r)' = Len(w.list)
      /\ Alters(r) /\ rows' = rows /\ payments' = payments
      /\ RowInHand(r) = row /\ AccountInHand(r) = Matched(r)
  BY PostRowMoves DEF Processing
<1>2. /\ work'[r].list = [w.list EXCEPT ![Len(w.list)] = AppliedRow(ref)]
      /\ work'[r].import = w.import /\ work'[r].wrote = {}
  BY PostRowMoves
<1>3. Money(SeenPayments(r)', ref, row.amount)
  BY <1>1, RowIsEnsured DEF LinkedInv
<1>4. SeenPayments(r) \subseteq SeenPayments(r)'
  <2>1. LedgerStep(r)
    BY StatementIsLedgerStep
  <2> QED
    BY <1>1, <2>1 DEF LedgerStep, Reads, Posts, Drops, Commits, NoTx, SeenPayments
<1>5. row.amount = Statement[w.import][Len(w.list)].amount
  <2>1. row = Statement[w.import][Placed(r) + 1]
    BY <1>1, RowAtHand
  <2>2. Placed(r) + 1 = Len(w.list)
    BY <1>1
  <2> QED
    BY <2>1, <2>2
<1>6. ASSUME NEW n \in 1..Len(w.list), work'[r].list[n].status = "applied"
      PROVE  Money(SeenPayments(r)', work'[r].list[n].payment, Statement[w.import][n].amount)
  <2>1. CASE n = Len(w.list)
    <3>1. work'[r].list[n] = AppliedRow(ref)
      BY <1>1, <1>2, <2>1, LenProperties
    <3> HIDE DEF ref
    <3>2. work'[r].list[n].payment = ref
      BY <3>1 DEF AppliedRow
    <3> QED
      BY <1>3, <1>5, <2>1, <3>2
  <2>2. CASE n # Len(w.list)
    <3>1. n \in 1..Placed(r) /\ work'[r].list[n] = w.list[n]
      BY <1>1, <1>2, <2>2, LenProperties
    <3> QED
      BY <1>1, <1>4, <1>6, <3>1, MoneyGrows DEF LinkedBy, LinkedInv
  <2> QED
    BY <2>1, <2>2
<1>7. LinkedBy(r)'
  BY <1>1, <1>2, <1>6 DEF LinkedBy
<1> QED
  BY <1>1, <1>7, QuietlyLinked

LEMMA CommitProcessKeepsLinked ==
  ASSUME TypeInv, LinkedInv, AgreeInv', NEW r \in Requests, NEW cleared \in BOOLEAN,
         CommitProcess(r, cleared)
  PROVE  LinkedInv'
<1> DEFINE w == work[r]
<1>1. tx[r].step = "row" /\ tx[r].step \in Processing /\ w \in Work /\ w.list \in Seq(ImportRow)
      /\ payments' = SeenPayments(r) /\ payments \subseteq payments'
  BY DEF TypeInv, ImportType, CommitProcess, Processing, Work, Publish, SeenPayments
<1>2. ProcessingOK(r) /\ w.import \in Imports /\ Placed(r) = Len(w.list) /\ LinkedBy(r)
  BY <1>1 DEF TypeInv, RequestOK, ProcessingOK, Placed, LinkedInv
<1>3. /\ tx' = [tx EXCEPT ![r] = NoTx] /\ work' = [work EXCEPT ![r] = NoWork]
      /\ rows' = [rows EXCEPT ![w.import] = @ \o w.list]
  BY DEF CommitProcess, Publish
<1>4. Alters(r) /\ tx'[r] = NoTx /\ work'[r] = NoWork
  BY <1>3 DEF Alters, TypeInv, LedgerType, ImportType
<1>5. rows[w.import] \in Seq(ImportRow) /\ (w.list # <<>> => rows[w.import] = <<>>)
  BY <1>1, <1>2 DEF TypeInv, ImportType, ListOK
<1>6. rows[w.import] \o w.list = rows[w.import]
      \/ rows[w.import] \o w.list = w.list
  BY <1>1, <1>5, ConcatEmptySeq
<1>7. AppliedRowHasPayment'
  <2>1. SUFFICES ASSUME NEW i \in Imports, NEW n \in DOMAIN rows'[i], rows'[i][n].status = "applied"
                 PROVE  Money(payments', rows'[i][n].payment, Statement[i][n].amount)
    BY DEF AppliedRowHasPayment, Money
  <2>2. CASE rows'[i] = rows[i]
    <3>1. Money(payments, rows[i][n].payment, Statement[i][n].amount)
      BY <2>1, <2>2 DEF LinkedInv, AppliedRowHasPayment, Money
    <3> QED
      BY <1>1, <2>2, <3>1, MoneyGrows
  <2>3. CASE i = w.import /\ rows'[i] = w.list
    <3>1. n \in 1..Placed(r)
      BY <1>1, <1>2, <2>1, <2>3, LenProperties
    <3> QED
      BY <1>1, <1>2, <2>1, <2>3, <3>1 DEF LinkedBy
  <2> QED
    BY <1>3, <1>6, <2>2, <2>3 DEF TypeInv, ImportType
<1>8. LinkedBy(r)'
  BY <1>4, IdleIsLinked DEF NoWork, NoTx, Processing
<1> QED
  BY <1>1, <1>4, <1>7, <1>8, OthersStayLinked DEF LinkedInv

LEMMA ListAndMatchKeepLinked ==
  ASSUME TypeInv, LinkedInv, AgreeInv', NEW r \in Requests, ListBankStatementRows(r) \/ MatchRow(r)
  PROVE  LinkedInv'
<1>1. tx \in [Requests -> Tx] /\ tx[r] \in Tx /\ work \in [Requests -> Work] /\ work[r] \in Work
      /\ rows' = rows /\ payments' = payments /\ tx[r].step \in {"list", "match"}
  BY DEF TypeInv, LedgerType, ImportType, ListBankStatementRows, MatchRow
<1>2. Alters(r)
  BY <1>1 DEF Alters, ListBankStatementRows, MatchRow
<1>3. work'[r].wrote = work[r].wrote /\ work'[r].import = work[r].import
      /\ tx'[r].made = tx[r].made /\ tx'[r].step \notin Processing
  BY <1>1 DEF ListBankStatementRows, MatchRow, Tx, Work, Processing
<1>4. SeenPayments(r)' = SeenPayments(r) /\ LinkedBy(r)
  BY <1>1, <1>3 DEF SeenPayments, LinkedInv
<1>5. LinkedBy(r)'
  BY <1>3, <1>4 DEF LinkedBy
<1> QED
  BY <1>1, <1>2, <1>5, QuietlyLinked

LEMMA ApplyRowMoves ==
  ASSUME TypeInv, NEW r \in Requests, ApplyRow(r)
  PROVE  LET w == work[r]
             m == Head(w.todo)
             ref == ReferenceFor(r, Statement[w.import][m.row].fingerprint, m.account)
         IN /\ tx[r].step = "apply" /\ tx'[r].step = "match" /\ Alters(r)
            /\ UNCHANGED <<imports, rawCsv, rows, payments>>
            /\ RowInHand(r) = Statement[w.import][m.row] /\ AccountInHand(r) = m.account
            /\ tx'[r] = [AfterPost(r, RowInHand(r), m.account) EXCEPT !.step = "match"]
            /\ work'[r].wrote = w.wrote \cup {[row |-> m.row, payment |-> ref]}
            /\ work'[r].import = w.import /\ work'[r].list = w.list /\ work'[r].read = w.read
            /\ work'[r].todo = Tail(w.todo) /\ w.todo # <<>> /\ m.row \in DOMAIN w.list
<1> DEFINE w == work[r]
           m == Head(w.todo)
           row == Statement[w.import][m.row]
           ref == ReferenceFor(r, row.fingerprint, m.account)
<1>1. tx \in [Requests -> Tx] /\ tx[r] \in Tx /\ work \in [Requests -> Work] /\ w \in Work
      /\ UNCHANGED <<imports, rawCsv, rows, payments>> /\ tx[r].step = "apply"
  BY DEF TypeInv, LedgerType, ImportType, ApplyRow
<1>2. Alters(r)
  BY <1>1 DEF Alters, ApplyRow
<1>3. RowInHand(r) = row /\ AccountInHand(r) = m.account
  BY <1>1 DEF RowInHand, AccountInHand
<1>4. tx'[r] = [AfterPost(r, row, m.account) EXCEPT !.step = "match"]
  BY <1>1 DEF ApplyRow
<1>5. /\ work'[r].wrote = w.wrote \cup {[row |-> m.row, payment |-> ref]}
      /\ work'[r].import = w.import /\ work'[r].list = w.list /\ work'[r].read = w.read
      /\ work'[r].todo = Tail(w.todo)
  <2> HIDE DEF ref
  <2>1. work' = [work EXCEPT ![r].wrote = @ \cup {[row |-> m.row, payment |-> ref]},
                             ![r].todo = Tail(@)]
    BY DEF ApplyRow, ref
  <2> QED
    BY <1>1, <2>1 DEF Work
<1>6. tx'[r].step = "match"
  <2>1. AfterPost(r, row, m.account) \in Tx
    BY <1>1, <1>3, AfterPostIsTx, RowInHandType
  <2> QED
    BY <1>4, <2>1 DEF Tx
<1>7. w.todo # <<>> /\ m.row \in DOMAIN w.list
  BY <1>1 DEF TypeInv, RequestOK, ApplyingOK, Applying
<1> QED
  BY <1>1, <1>2, <1>3, <1>4, <1>5, <1>6, <1>7

LEMMA ApplyRowKeepsLinked ==
  ASSUME TypeInv, LinkedInv, AgreeInv', NEW r \in Requests, ApplyRow(r)
  PROVE  LinkedInv'
<1> DEFINE w == work[r]
           m == Head(w.todo)
           row == Statement[w.import][m.row]
           ref == ReferenceFor(r, row.fingerprint, m.account)
<1>1. /\ tx[r].step = "apply" /\ tx'[r].step = "match" /\ Alters(r)
      /\ rows' = rows /\ payments' = payments /\ RowInHand(r) = row /\ AccountInHand(r) = m.account
      /\ tx'[r] = [AfterPost(r, row, m.account) EXCEPT !.step = "match"]
      /\ work'[r].wrote = w.wrote \cup {[row |-> m.row, payment |-> ref]}
      /\ work'[r].import = w.import
  BY ApplyRowMoves
<1>2. Money(SeenPayments(r)', ref, row.amount)
  BY <1>1, RowIsEnsured DEF LinkedInv
<1>3. SeenPayments(r) \subseteq SeenPayments(r)'
  <2>1. LedgerStep(r)
    BY StatementIsLedgerStep
  <2>2. tx'[r].step = "match"
    BY <1>1
  <2> QED
    BY <2>1, <2>2 DEF LedgerStep, Reads, Posts, Drops, Commits, NoTx, SeenPayments
<1>4. ASSUME NEW x \in work'[r].wrote
      PROVE  Money(SeenPayments(r)', x.payment, Statement[w.import][x.row].amount)
  <2>1. CASE x \in w.wrote
    BY <1>3, <2>1, MoneyGrows DEF LinkedInv, LinkedBy
  <2>2. CASE x = [row |-> m.row, payment |-> ref]
    BY <1>2, <2>2
  <2> QED
    BY <1>1, <1>4, <2>1, <2>2
<1>5. LinkedBy(r)'
  BY <1>1, <1>4 DEF LinkedBy, Processing
<1> QED
  BY <1>1, <1>5, QuietlyLinked

LEMMA CommitApplyKeepsLinked ==
  ASSUME TypeInv, LinkedInv, AgreeInv', NEW r \in Requests, CommitApply(r)
  PROVE  LinkedInv'
<1> DEFINE w == work[r]
<1>1. tx[r].step = "match" /\ payments' = SeenPayments(r) /\ payments \subseteq payments'
  BY DEF CommitApply, Publish, SeenPayments
<1>2. w.import \in Imports /\ LinkedBy(r)
  BY <1>1 DEF TypeInv, RequestOK, ApplyingOK, Applying, LinkedInv
<1>3. /\ tx' = [tx EXCEPT ![r] = NoTx] /\ work' = [work EXCEPT ![r] = NoWork]
      /\ rows' = [rows EXCEPT ![w.import] =
                   [n \in DOMAIN @ |-> IF Wrote(w, n)
                                       THEN AppliedRow((CHOOSE x \in w.wrote : x.row = n).payment)
                                       ELSE @[n]]]
  BY DEF CommitApply, Publish
<1>4. Alters(r) /\ tx'[r] = NoTx /\ work'[r] = NoWork
  BY <1>3 DEF Alters, TypeInv, LedgerType, ImportType
<1>5. AppliedRowHasPayment'
  <2>1. SUFFICES ASSUME NEW i \in Imports, NEW n \in DOMAIN rows'[i], rows'[i][n].status = "applied"
                 PROVE  Money(payments', rows'[i][n].payment, Statement[i][n].amount)
    BY DEF AppliedRowHasPayment, Money
  <2>2. CASE n \in DOMAIN rows[i] /\ rows'[i][n] = rows[i][n]
    <3>1. Money(payments, rows[i][n].payment, Statement[i][n].amount)
      BY <2>1, <2>2 DEF LinkedInv, AppliedRowHasPayment, Money
    <3> QED
      BY <1>1, <2>2, <3>1, MoneyGrows
  <2>3. CASE i = w.import /\ Wrote(w, n)
             /\ rows'[i][n] = AppliedRow((CHOOSE x \in w.wrote : x.row = n).payment)
    <3>1. PICK x \in w.wrote : x.row = n /\ rows'[i][n] = AppliedRow(x.payment)
      BY <2>3 DEF Wrote
    <3>2. rows'[i][n].payment = x.payment
      BY <3>1 DEF AppliedRow
    <3>3. Money(SeenPayments(r), x.payment, Statement[i][n].amount)
      BY <1>2, <2>3, <3>1 DEF LinkedBy
    <3> QED
      BY <1>1, <3>2, <3>3
  <2> QED
    BY <1>2, <1>3, <2>2, <2>3 DEF TypeInv, ImportType
<1>6. LinkedBy(r)'
  BY <1>4, IdleIsLinked DEF NoWork, NoTx, Processing
<1> QED
  BY <1>1, <1>4, <1>5, <1>6, OthersStayLinked DEF LinkedInv

LEMMA RollbackKeepsLinked ==
  ASSUME TypeInv, LinkedInv, AgreeInv', NEW r \in Requests, RollbackImport(r)
  PROVE  LinkedInv'
<1>1. /\ payments' = payments /\ rows' = rows /\ tx'[r] = NoTx /\ work'[r] = NoWork
      /\ Alters(r)
  BY DEF RollbackImport, TypeInv, LedgerType, ImportType, Alters
<1>2. LinkedBy(r)'
  BY <1>1, IdleIsLinked DEF NoWork, NoTx, Processing
<1> QED
  BY <1>1, <1>2, QuietlyLinked

LEMMA StillLinked ==
  ASSUME LinkedInv, AgreeInv', UNCHANGED <<payments, tx, rows, work>>
  PROVE  LinkedInv'
BY DEF LinkedInv, AppliedRowHasPayment, LinkedBy, Placed, SeenPayments

LEMMA NextKeepsLinked == LinesAgree /\ TypeInv /\ TypeInv' /\ LinkedInv /\ [Next]_vars => LinkedInv'
<1> SUFFICES ASSUME LinesAgree, TypeInv, TypeInv', LinkedInv, [Next]_vars PROVE LinkedInv'
  OBVIOUS
<1>1. AgreeInv'
  BY NextKeepsAgreement DEF LinkedInv
<1>2. CASE \E i \in Imports : \/ \E enqueued \in BOOLEAN : ImportBankStatement(i, enqueued)
                             \/ CsvDoesNotParse(i)
  BY <1>1, <1>2, StillLinked DEF ImportBankStatement, CsvDoesNotParse, ledgerVars
<1>3. CASE \E r \in Requests, i \in Imports : \/ BeginProcess(r, i)
                                             \/ \E ms \in Matches : BeginApply(r, i, ms)
  BY <1>1, <1>3, BeginKeepsLinked
<1>4. CASE \E r \in Requests : \/ ProcessRow(r) \/ PostRow(r)
                              \/ \E cleared \in BOOLEAN : CommitProcess(r, cleared)
                              \/ ListBankStatementRows(r) \/ MatchRow(r) \/ ApplyRow(r)
                              \/ CommitApply(r) \/ RollbackImport(r)
  BY <1>1, <1>4, ProcessRowKeepsLinked, PostRowKeepsLinked, CommitProcessKeepsLinked,
     ListAndMatchKeepLinked, ApplyRowKeepsLinked, CommitApplyKeepsLinked, RollbackKeepsLinked
<1>5. CASE ReconcileNext /\ UNCHANGED importVars
  BY <1>1, <1>5, ReconcileKeepsLinked DEF ReconcileNext
<1>6. CASE UNCHANGED vars
  BY <1>1, <1>6, StillLinked DEF vars, ledgerVars, importVars
<1> QED
  BY <1>2, <1>3, <1>4, <1>5, <1>6 DEF Next

LEMMA InitIsLinked == Init => LinkedInv
<1> SUFFICES ASSUME Init PROVE LinkedInv
  OBVIOUS
<1>1. AgreeInv
  BY DEF Init, LedgerInit, AgreeInv, NoTx
<1>2. AppliedRowHasPayment
  BY DEF Init, AppliedRowHasPayment
<1>3. \A r \in Requests : LinkedBy(r)
  BY DEF Init, LedgerInit, LinkedBy, NoTx, NoWork, Processing
<1> QED
  BY <1>1, <1>2, <1>3 DEF LinkedInv

(* A row shown as applied is money in the ledger, of the row's amount, whatever handlers
   and reconciliations overlap, as long as no reconciled line carries the fingerprint of
   a statement's row for another amount.                                                *)
THEOREM AppliedRowsHavePayments == ASSUME LinesAgree PROVE Spec => []AppliedRowHasPayment
<1>1. TypeInv /\ TypeInv' /\ LinkedInv /\ [Next]_vars => LinkedInv'
  BY NextKeepsLinked
<1>2. LinkedInv => AppliedRowHasPayment
  BY DEF LinkedInv
<1> QED
  BY <1>1, <1>2, InitIsLinked, LedgerTypes, PTL DEF Spec

-----------------------------------------------------------------------------
(* The matches of one Apply are of different rows, none applied yet.       *)
ApplyingOnce(r) ==
  LET w == work[r]
  IN /\ \A m, n \in 1..Len(w.todo) : w.todo[m].row = w.todo[n].row => m = n
     /\ \A x \in w.wrote : /\ w.list[x.row].status # "applied"
                           /\ \A y \in w.wrote : x.row = y.row => x = y
                           /\ \A m \in 1..Len(w.todo) : w.todo[m].row # x.row
     /\ tx[r].step = "apply" => w.list[Head(w.todo).row].status # "applied"

OnceInv == \A r \in Requests : tx[r].step \in Applying => ApplyingOnce(r)

(* A handler goes on to the next match, having written what it has or not. *)
LEMMA TailMatches ==
  ASSUME NEW todo \in Seq(Match), todo # <<>>,
         \A m, n \in 1..Len(todo) : todo[m].row = todo[n].row => m = n
  PROVE  /\ \A m, n \in 1..Len(Tail(todo)) : Tail(todo)[m].row = Tail(todo)[n].row => m = n
         /\ \A m \in 1..Len(Tail(todo)) : /\ Tail(todo)[m].row # Head(todo).row
                                          /\ \E n \in 1..Len(todo) : Tail(todo)[m] = todo[n]
<1>1. Len(todo) \in Nat \ {0} /\ Head(todo) = todo[1] /\ Len(Tail(todo)) = Len(todo) - 1
      /\ \A m \in 1..Len(Tail(todo)) : Tail(todo)[m] = todo[m + 1]
  BY HeadTailProperties, EmptySeq, LenProperties
<1>2. \A m \in 1..Len(Tail(todo)) : m + 1 \in 1..Len(todo) /\ m + 1 # 1 /\ Tail(todo)[m] = todo[m + 1]
  BY <1>1
<1>3. 1 \in 1..Len(todo)
  BY <1>1
<1>4. ASSUME NEW m \in 1..Len(Tail(todo)), NEW n \in 1..Len(Tail(todo)),
             Tail(todo)[m].row = Tail(todo)[n].row
      PROVE  m = n
  <2>1. m + 1 = n + 1
    BY <1>2, <1>4
  <2> QED
    BY <2>1
<1> QED
  BY <1>1, <1>2, <1>3, <1>4

LEMMA OnceByOthers ==
  ASSUME OnceInv, NEW r \in Requests, Alters(r), tx'[r].step \in Applying => ApplyingOnce(r)'
  PROVE  OnceInv'
BY DEF OnceInv, Alters, ApplyingOnce

LEMMA BeginApplyMoves ==
  ASSUME TypeInv, NEW r \in Requests, NEW i \in Imports, NEW ms \in Matches, BeginApply(r, i, ms)
  PROVE  /\ Alters(r) /\ UNCHANGED <<imports, rawCsv, rows, payments>>
         /\ tx'[r].step = "list" /\ work'[r].import = i /\ work'[r].read = imports[i]
         /\ work'[r].todo = ms /\ work'[r].wrote = {} /\ work'[r].list = <<>>
         /\ \A m, n \in 1..Len(ms) : ms[m].row = ms[n].row => m = n
<1>1. tx \in [Requests -> Tx] /\ work \in [Requests -> Work]
      /\ UNCHANGED <<imports, rawCsv, rows, payments>>
  BY DEF TypeInv, LedgerType, ImportType, BeginApply
<1>2. Alters(r)
  BY <1>1 DEF BeginApply, Alters
<1>3. tx'[r].step = "list" /\ work'[r].import = i /\ work'[r].read = imports[i]
      /\ work'[r].todo = ms /\ work'[r].wrote = {} /\ work'[r].list = <<>>
  BY <1>1 DEF BeginApply, NoTx, NoWork, Tx
<1>4. \A m, n \in 1..Len(ms) : ms[m].row = ms[n].row => m = n
  BY ImportAssumption, LenProperties DEF BeginApply, validateManualBankMatches
<1> QED
  BY <1>1, <1>2, <1>3, <1>4

LEMMA ListMoves ==
  ASSUME TypeInv, NEW r \in Requests, ListBankStatementRows(r)
  PROVE  /\ Alters(r) /\ UNCHANGED <<imports, rawCsv, rows, payments>>
         /\ tx[r].step = "list" /\ tx'[r].step = "match" /\ work'[r].list = rows[work[r].import]
         /\ work'[r].import = work[r].import /\ work'[r].todo = work[r].todo
         /\ work'[r].wrote = work[r].wrote /\ work'[r].read = work[r].read /\ work[r].wrote = {}
         /\ tx'[r].made = tx[r].made
<1>1. tx \in [Requests -> Tx] /\ tx[r] \in Tx /\ work \in [Requests -> Work] /\ work[r] \in Work
      /\ tx[r].step = "list" /\ UNCHANGED <<imports, rawCsv, rows, payments>>
  BY DEF TypeInv, LedgerType, ImportType, ListBankStatementRows
<1>2. Alters(r)
  BY <1>1 DEF ListBankStatementRows, Alters
<1>3. /\ tx'[r].step = "match" /\ work'[r].list = rows[work[r].import]
      /\ work'[r].import = work[r].import /\ work'[r].todo = work[r].todo
      /\ work'[r].wrote = work[r].wrote /\ work'[r].read = work[r].read
      /\ tx'[r].made = tx[r].made
  BY <1>1 DEF ListBankStatementRows, Tx, Work
<1>4. work[r].wrote = {}
  <2>1. ApplyingOK(r)
    BY <1>1 DEF TypeInv, RequestOK, Applying
  <2>2. DOMAIN work[r].list = {}
    BY <1>1, <2>1 DEF ApplyingOK
  <2> QED
    BY <2>1, <2>2 DEF ApplyingOK
<1> QED
  BY <1>1, <1>2, <1>3, <1>4

LEMMA MatchRowMoves ==
  ASSUME TypeInv, NEW r \in Requests, MatchRow(r)
  PROVE  LET w == work[r]
         IN /\ Alters(r) /\ UNCHANGED <<imports, rawCsv, rows, payments>> /\ tx[r].step = "match"
            /\ w.todo # <<>> /\ tx'[r].made = tx[r].made
            /\ work'[r].list = w.list /\ work'[r].import = w.import
            /\ work'[r].wrote = w.wrote /\ work'[r].read = w.read
            /\ \/ tx'[r].step = "match" /\ work'[r].todo = Tail(w.todo)
               \/ /\ tx'[r].step = "apply" /\ work'[r].todo = w.todo
                  /\ w.list[Head(w.todo).row].status # "applied"
<1> DEFINE w == work[r]
<1>1. tx \in [Requests -> Tx] /\ tx[r] \in Tx /\ work \in [Requests -> Work] /\ w \in Work
      /\ tx[r].step = "match" /\ UNCHANGED <<imports, rawCsv, rows, payments>> /\ w.todo # <<>>
  BY DEF TypeInv, LedgerType, ImportType, MatchRow
<1>2. Alters(r)
  BY <1>1 DEF MatchRow, Alters
<1>3. CASE AlreadyApplied(w, Head(w.todo))
  <2>1. /\ tx'[r] = tx[r] /\ work'[r].list = w.list /\ work'[r].import = w.import
        /\ work'[r].todo = Tail(w.todo) /\ work'[r].wrote = w.wrote /\ work'[r].read = w.read
    BY <1>1, <1>3 DEF MatchRow, Work
  <2> QED
    BY <1>1, <1>2, <2>1
<1>4. CASE ~AlreadyApplied(w, Head(w.todo))
  <2>1. tx'[r].step = "apply" /\ tx'[r].made = tx[r].made /\ work'[r] = w
        /\ w.list[Head(w.todo).row].status # "applied"
    BY <1>1, <1>4 DEF MatchRow, Tx, AlreadyApplied
  <2> QED
    BY <1>1, <1>2, <2>1
<1> QED
  BY <1>3, <1>4

LEMMA MatchRowKeepsOnce ==
  ASSUME TypeInv, OnceInv, NEW r \in Requests, MatchRow(r)
  PROVE  OnceInv'
<1> DEFINE w == work[r]
<1>1. /\ Alters(r) /\ tx[r].step = "match" /\ tx[r].step \in Applying
      /\ w.todo # <<>> /\ work'[r].list = w.list /\ work'[r].wrote = w.wrote
  BY MatchRowMoves DEF Applying
<1>2. ApplyingOnce(r) /\ w.todo \in Seq(Match)
  BY <1>1 DEF OnceInv, TypeInv, RequestOK, ApplyingOK
<1>3. CASE tx'[r].step = "match" /\ work'[r].todo = Tail(w.todo)
  <2>1. /\ \A m, n \in 1..Len(Tail(w.todo)) : Tail(w.todo)[m].row = Tail(w.todo)[n].row => m = n
        /\ \A m \in 1..Len(Tail(w.todo)) : \E n \in 1..Len(w.todo) : Tail(w.todo)[m] = w.todo[n]
    BY <1>1, <1>2, TailMatches DEF ApplyingOnce
  <2>2. \A x \in w.wrote : \A m \in 1..Len(Tail(w.todo)) : Tail(w.todo)[m].row # x.row
    BY <1>2, <2>1 DEF ApplyingOnce
  <2>3. ApplyingOnce(r)'
    BY <1>1, <1>2, <1>3, <2>1, <2>2 DEF ApplyingOnce
  <2> QED
    BY <1>1, <2>3, OnceByOthers
<1>4. CASE tx'[r].step = "apply" /\ work'[r].todo = w.todo
           /\ w.list[Head(w.todo).row].status # "applied"
  <2>1. ApplyingOnce(r)'
    BY <1>1, <1>2, <1>4 DEF ApplyingOnce
  <2> QED
    BY <1>1, <2>1, OnceByOthers
<1> QED
  BY <1>3, <1>4, MatchRowMoves

LEMMA ApplyRowKeepsOnce ==
  ASSUME TypeInv, OnceInv, NEW r \in Requests, ApplyRow(r)
  PROVE  OnceInv'
<1> DEFINE w == work[r]
           m == Head(w.todo)
<1>1. PICK ref : /\ work'[r].wrote = w.wrote \cup {[row |-> m.row, payment |-> ref]}
                 /\ tx[r].step = "apply" /\ tx'[r].step = "match" /\ Alters(r)
                 /\ work'[r].list = w.list /\ work'[r].todo = Tail(w.todo) /\ w.todo # <<>>
  BY ApplyRowMoves
<1>2. ApplyingOnce(r) /\ w.todo \in Seq(Match)
  BY <1>1 DEF OnceInv, TypeInv, RequestOK, ApplyingOK, Applying
<1>3. /\ \A k, n \in 1..Len(Tail(w.todo)) : Tail(w.todo)[k].row = Tail(w.todo)[n].row => k = n
      /\ \A k \in 1..Len(Tail(w.todo)) : /\ Tail(w.todo)[k].row # m.row
                                         /\ \E n \in 1..Len(w.todo) : Tail(w.todo)[k] = w.todo[n]
  BY <1>1, <1>2, TailMatches DEF ApplyingOnce
<1>4. w.list[m.row].status # "applied" /\ \A x \in w.wrote : x.row # m.row
  <2>1. 1 \in 1..Len(w.todo) /\ m = w.todo[1]
    BY <1>1, <1>2, HeadTailProperties, EmptySeq, LenProperties
  <2> QED
    BY <1>1, <1>2, <2>1 DEF ApplyingOnce
<1>5. \A x \in work'[r].wrote : x \in w.wrote \/ x = [row |-> m.row, payment |-> ref]
  BY <1>1
<1>6. ASSUME NEW x \in work'[r].wrote
      PROVE  /\ w.list[x.row].status # "applied"
             /\ \A y \in work'[r].wrote : x.row = y.row => x = y
             /\ \A k \in 1..Len(Tail(w.todo)) : Tail(w.todo)[k].row # x.row
  <2>1. CASE x \in w.wrote
    BY <1>2, <1>3, <1>4, <1>5, <2>1 DEF ApplyingOnce
  <2>2. CASE x = [row |-> m.row, payment |-> ref]
    BY <1>3, <1>4, <1>5, <2>2
  <2> QED
    BY <1>5, <1>6, <2>1, <2>2
<1>7. ApplyingOnce(r)'
  BY <1>1, <1>2, <1>3, <1>6 DEF ApplyingOnce
<1> QED
  BY <1>1, <1>7, OnceByOthers

LEMMA NextKeepsOnce == TypeInv /\ OnceInv /\ [Next]_vars => OnceInv'
<1> SUFFICES ASSUME TypeInv, OnceInv, [Next]_vars PROVE OnceInv'
  OBVIOUS
<1>1. CASE UNCHANGED <<tx, work>>
  BY <1>1 DEF OnceInv, ApplyingOnce
<1>2. ASSUME NEW r \in Requests, Alters(r), tx'[r].step \notin Applying PROVE OnceInv'
  BY <1>2, OnceByOthers
<1>3. CASE \E i \in Imports : \/ \E enqueued \in BOOLEAN : ImportBankStatement(i, enqueued)
                             \/ CsvDoesNotParse(i)
  BY <1>1, <1>3 DEF ImportBankStatement, CsvDoesNotParse, ledgerVars
<1>4. ASSUME NEW r \in Requests, NEW i \in Imports, BeginProcess(r, i) PROVE OnceInv'
  <2>1. tx'[r].step = "row" /\ Alters(r)
    BY <1>4 DEF BeginProcess, TypeInv, LedgerType, ImportType, Tx, Alters
  <2> QED
    BY <1>2, <2>1 DEF Applying
<1>5. ASSUME NEW r \in Requests, NEW i \in Imports, NEW ms \in Matches, BeginApply(r, i, ms)
      PROVE  OnceInv'
  <2>1. ApplyingOnce(r)' /\ Alters(r)
    BY <1>5, BeginApplyMoves DEF ApplyingOnce
  <2> QED
    BY <2>1, OnceByOthers
<1>6. ASSUME NEW r \in Requests, ProcessRow(r) \/ PostRow(r) PROVE OnceInv'
  <2>1. tx'[r].step \notin Applying /\ Alters(r)
    BY <1>6, ProcessPlaces, ProcessRowMoves, PostRowMoves DEF Processing, Applying
  <2> QED
    BY <1>2, <2>1
<1>7. ASSUME NEW r \in Requests, NEW cleared \in BOOLEAN,
             CommitProcess(r, cleared) \/ CommitApply(r) \/ RollbackImport(r)
      PROVE  OnceInv'
  <2>1. tx'[r] = NoTx /\ Alters(r)
    BY <1>7 DEF CommitProcess, CommitApply, RollbackImport, Publish, TypeInv, LedgerType, ImportType,
                Alters
  <2> QED
    BY <1>2, <2>1 DEF NoTx, Applying
<1>8. ASSUME NEW r \in Requests, ListBankStatementRows(r) PROVE OnceInv'
  <2>1. ApplyingOnce(r)
    BY <1>8 DEF OnceInv, ListBankStatementRows, Applying
  <2>2. ApplyingOnce(r)' /\ Alters(r)
    BY <1>8, <2>1, ListMoves DEF ApplyingOnce
  <2> QED
    BY <2>2, OnceByOthers
<1>9. CASE ReconcileNext /\ UNCHANGED importVars
  <2>1. PICK r \in Requests : \/ \E batch \in Batches : BeginReconcile(r, batch)
                             \/ SkipLine(r) \/ GetLevyAccount(r) \/ PostLine(r)
                             \/ CommitReconcile(r) \/ Rollback(r)
    BY <1>9 DEF ReconcileNext
  <2>2. tx'[r].step \in {"none", "read", "write"} /\ Alters(r)
    BY <1>9, <2>1, ReconcileSteps, ReconcileIsLedgerStep DEF LedgerStep
  <2> QED
    BY <1>2, <2>2 DEF Applying
<1>10. CASE UNCHANGED vars
  BY <1>1, <1>10 DEF vars, ledgerVars, importVars
<1> QED
  BY <1>3, <1>4, <1>5, <1>6, <1>7, <1>8, <1>9, <1>10, MatchRowKeepsOnce, ApplyRowKeepsOnce DEF Next

LEMMA InitIsOnce == Init => OnceInv
BY DEF Init, LedgerInit, OnceInv, NoTx, Applying

-----------------------------------------------------------------------------
(* Counters that never run ahead of the rows.                              *)
LEMMA CountGrows ==
  ASSUME NEW few \in Seq(ImportRow), NEW many \in Seq(ImportRow), Len(few) = Len(many), NEW status,
         \A n \in 1..Len(few) : few[n].status = status => many[n].status = status
  PROVE  CountRows(few, status) <= CountRows(many, status)
<1>1. {n \in DOMAIN few : few[n].status = status} \in SUBSET {n \in DOMAIN many : many[n].status = status}
  BY LenProperties
<1>2. IsFiniteSet({n \in DOMAIN many : many[n].status = status})
  BY CountRowsType
<1> QED
  BY <1>1, <1>2, FS_Subset DEF CountRows

LEMMA AllCounted ==
  ASSUME NEW list \in Seq(ImportRow), NEW status, CountRows(list, status) >= Len(list)
  PROVE  \A n \in 1..Len(list) : list[n].status = status
<1> DEFINE S == {n \in DOMAIN list : list[n].status = status}
<1>1. Len(list) \in Nat /\ DOMAIN list = 1..Len(list)
  BY LenProperties
<1>2. IsFiniteSet(1..Len(list)) /\ Cardinality(1..Len(list)) = Len(list)
  BY <1>1, FS_Interval
<1>3. S \in SUBSET (1..Len(list)) /\ Cardinality(S) \in Nat /\ Cardinality(S) >= Len(list)
  BY <1>1, CountRowsType DEF CountRows
<1>4. Cardinality(S) <= Cardinality(1..Len(list))
  BY <1>2, <1>3, FS_Subset
<1>5. Cardinality(1..Len(list)) = Cardinality(S)
  BY <1>1, <1>2, <1>3, <1>4
<1>6. S = 1..Len(list)
  BY <1>2, <1>3, <1>5, FS_Subset
<1> QED
  BY <1>6

LEMMA NoneCounted ==
  ASSUME NEW list \in Seq(ImportRow), NEW status, CountRows(list, status) = 0
  PROVE  \A n \in 1..Len(list) : list[n].status # status
<1>1. {n \in DOMAIN list : list[n].status = status} = {}
  BY CountRowsType, FS_EmptySet DEF CountRows
<1> QED
  BY <1>1, LenProperties

WholeStatement(i) ==
  /\ imports[i].status \in {"none", "queued"} => rows[i] = <<>>
  /\ imports[i].status \in {"review_required", "applied"} =>
       Len(rows[i]) = imports[i].total /\ Len(rows[i]) = Len(Statement[i])
  /\ ~rawCsv[i] /\ rows[i] = <<>> => Len(Statement[i]) = 0
  /\ imports[i].applied <= CountRows(rows[i], "applied")

\* What Apply read is what was committed then, and rows stay applied.
ApplyingBehind(r) ==
  LET w == work[r]
  IN /\ w.read.total = Len(rows[w.import]) /\ w.read.total = Len(Statement[w.import])
     /\ tx[r].step = "list" => /\ w.read.applied <= CountRows(rows[w.import], "applied")
                               /\ w.wrote = {}
     /\ tx[r].step # "list" => /\ w.read.applied <= CountRows(w.list, "applied")
                               /\ \A n \in 1..Len(w.list) : w.list[n].status = "applied"
                                    => rows[w.import][n].status = "applied"

DoneBy(r) ==
  /\ tx[r].step \in Processing => Placed(r) + Len(work[r].todo) = Len(Statement[work[r].import])
  /\ tx[r].step \in Applying => ApplyingBehind(r)

\* Of an import that a retry took up blind nothing is known.
DoneInv == /\ AppliedImportIsDone
           /\ \A i \in Imports \ blind : WholeStatement(i)
           /\ \A r \in Requests : work[r].import \notin blind => DoneBy(r)

StaysApplied(i) ==
  /\ Len(rows'[i]) = Len(rows[i])
  /\ \A n \in 1..Len(rows[i]) : rows[i][n].status = "applied" => rows'[i][n].status = "applied"

LEMMA SameRowsStay == ASSUME NEW i, rows'[i] = rows[i] PROVE StaysApplied(i)
BY DEF StaysApplied

LEMMA OthersStayDone ==
  ASSUME TypeInv, TypeInv', DoneInv, NEW o \in Requests, tx'[o] = tx[o], work'[o] = work[o],
         work[o].import \notin blind,
         tx[o].step \in Applying => StaysApplied(work[o].import)
  PROVE  DoneBy(o)'
<1>1. DoneBy(o)
  BY DEF DoneInv
<1>2. Placed(o)' = Placed(o)
  BY DEF Placed
<1>3. ASSUME tx[o].step \in Applying PROVE ApplyingBehind(o)'
  <2> DEFINE i == work[o].import
  <2>1. i \in Imports /\ work[o].list \in Seq(ImportRow)
        /\ (tx[o].step # "list" => Len(work[o].list) = Len(rows[i]))
    BY <1>3 DEF TypeInv, RequestOK, ApplyingOK, ImportType, Work, ListOK, Applying, Processing
  <2>2. rows[i] \in Seq(ImportRow) /\ rows'[i] \in Seq(ImportRow)
    BY <2>1 DEF TypeInv, ImportType
  <2>3. /\ CountRows(rows[i], "applied") <= CountRows(rows'[i], "applied")
        /\ CountRows(rows[i], "applied") \in Nat /\ CountRows(rows'[i], "applied") \in Nat
    BY <1>3, <2>2, CountGrows, CountRowsType DEF StaysApplied
  <2>4. work[o].read.applied \in Nat
    BY DEF TypeInv, ImportType, Work, Counters
  <2>5. ApplyingBehind(o) /\ StaysApplied(i)
    BY <1>1, <1>3 DEF DoneBy
  <2>6. ASSUME tx[o].step = "list" PROVE work[o].read.applied <= CountRows(rows'[i], "applied")
    <3>1. work[o].read.applied <= CountRows(rows[i], "applied")
      BY <2>5, <2>6 DEF ApplyingBehind
    <3> QED
      BY <2>3, <2>4, <3>1
  <2>7. ASSUME tx[o].step # "list", NEW n \in 1..Len(work[o].list), work[o].list[n].status = "applied"
        PROVE  rows'[i][n].status = "applied"
    BY <2>1, <2>5, <2>7 DEF ApplyingBehind, StaysApplied
  <2>8. CountRows(rows[i], "applied")' = CountRows(rows'[i], "applied")
    BY DEF CountRows
  <2>9. work'[o].read.total = Len(rows'[i]) /\ work'[o].read.total = Len(Statement[i])
    BY <2>5 DEF ApplyingBehind, StaysApplied
  <2>10. tx'[o].step = "list" => /\ work'[o].read.applied <= CountRows(rows[i], "applied")'
                                 /\ work'[o].wrote = {}
    BY <2>5, <2>6, <2>8 DEF ApplyingBehind
  <2>11. tx'[o].step # "list" =>
           /\ work'[o].read.applied <= CountRows(work[o].list, "applied")'
           /\ \A n \in 1..Len(work'[o].list) : work'[o].list[n].status = "applied"
                => rows'[i][n].status = "applied"
    BY <2>5, <2>7 DEF ApplyingBehind, CountRows
  <2> QED
    BY <2>5, <2>9, <2>10, <2>11 DEF ApplyingBehind
<1> QED
  BY <1>1, <1>2, <1>3 DEF DoneBy

(* A step that leaves imports and their rows as they are.                  *)
LEMMA QuietlyDone ==
  ASSUME TypeInv, TypeInv', DoneInv, NEW r \in Requests, Alters(r),
         UNCHANGED <<imports, rawCsv, rows>>, blind \subseteq blind',
         work'[r].import \notin blind' => DoneBy(r)'
  PROVE  DoneInv'
<1>1. \A o \in Requests \ {r} : work'[o].import \notin blind' => DoneBy(o)'
  BY SameRowsStay, OthersStayDone DEF Alters
<1>2. AppliedImportIsDone'
  BY DEF DoneInv, AppliedImportIsDone, NoneLeft
<1>3. \A i \in Imports \ blind' : WholeStatement(i)'
  BY DEF DoneInv, WholeStatement
<1> QED
  BY <1>1, <1>2, <1>3 DEF DoneInv

LEMMA ReconcileKeepsDone ==
  ASSUME TypeInv, TypeInv', DoneInv, NEW r \in Requests, UNCHANGED importVars,
         \/ \E batch \in Batches : BeginReconcile(r, batch)
         \/ SkipLine(r) \/ GetLevyAccount(r) \/ PostLine(r)
         \/ CommitReconcile(r) \/ Rollback(r)
  PROVE  DoneInv'
<1>1. Alters(r)
  BY ReconcileIsLedgerStep DEF LedgerStep
<1>2. tx'[r].step \in {"none", "read", "write"}
  BY ReconcileSteps
<1>3. DoneBy(r)'
  BY <1>2 DEF DoneBy, Processing, Applying
<1> QED
  BY <1>1, <1>3, QuietlyDone DEF importVars

LEMMA BeginProcessKeepsDone ==
  ASSUME TypeInv, TypeInv', DoneInv, NEW r \in Requests, NEW i \in Imports, BeginProcess(r, i)
  PROVE  DoneInv'
<1>1. tx \in [Requests -> Tx] /\ work \in [Requests -> Work] /\ Alters(r)
      /\ UNCHANGED <<imports, rawCsv, rows>> /\ blind \subseteq blind'
  BY DEF TypeInv, LedgerType, ImportType, BeginProcess, Alters
<1>2. tx'[r].step = "row" /\ work'[r].import = i /\ work'[r].list = <<>>
      /\ work'[r].todo = parseFNBStatementCSV(i)
  BY <1>1 DEF BeginProcess, NoTx, NoWork, Tx
<1>3. Placed(r)' = 0
  BY <1>2, EmptySeq DEF Placed
<1>4. ASSUME i \notin blind' PROVE Len(parseFNBStatementCSV(i)) = Len(Statement[i])
  <2>1. CASE rawCsv[i]
    BY <2>1 DEF parseFNBStatementCSV
  <2>2. CASE ~rawCsv[i]
    <3>1. WholeStatement(i)
      BY <1>1, <1>4 DEF DoneInv
    <3>2. rows[i] = <<>>
      BY <1>4, <2>2, <3>1 DEF BeginProcess, Unfinished, WholeStatement
    <3> QED
      BY <2>2, <3>1, <3>2, EmptySeq DEF parseFNBStatementCSV, WholeStatement
  <2> QED
    BY <2>1, <2>2
<1>5. Len(Statement[i]) \in Nat
  <2>1. Statement[i] # NoParse
    BY DEF BeginProcess, parseFNBStatementCSV, TypeInv, ImportOK
  <2> QED
    BY <2>1, ImportAssumption, LenProperties
<1>6. ASSUME i \notin blind' PROVE DoneBy(r)'
  BY <1>2, <1>3, <1>4, <1>5, <1>6 DEF DoneBy, Processing, Applying
<1> QED
  BY <1>1, <1>2, <1>6, QuietlyDone

LEMMA BeginApplyKeepsDone ==
  ASSUME TypeInv, TypeInv', DoneInv, NEW r \in Requests, NEW i \in Imports, NEW ms \in Matches,
         BeginApply(r, i, ms)
  PROVE  DoneInv'
<1>1. tx \in [Requests -> Tx] /\ work \in [Requests -> Work] /\ Alters(r)
      /\ UNCHANGED <<imports, rawCsv, rows, blind>>
  BY DEF TypeInv, LedgerType, ImportType, BeginApply, Alters
<1>2. tx'[r].step = "list" /\ work'[r].import = i /\ work'[r].read = imports[i]
      /\ work'[r].todo = ms /\ work'[r].wrote = {}
  BY <1>1 DEF BeginApply, NoTx, NoWork, Tx
<1>3. \A m, n \in 1..Len(ms) : ms[m].row = ms[n].row => m = n
  BY ImportAssumption, LenProperties DEF BeginApply, validateManualBankMatches
<1>4. ASSUME i \notin blind
      PROVE  imports[i].total = Len(rows[i]) /\ imports[i].total = Len(Statement[i])
             /\ imports[i].applied <= CountRows(rows[i], "applied")
  <2>1. WholeStatement(i)
    BY <1>4 DEF DoneInv
  <2> QED
    BY <2>1 DEF BeginApply, WholeStatement
<1>5. ASSUME i \notin blind PROVE ApplyingBehind(r)'
  BY <1>1, <1>2, <1>3, <1>4, <1>5 DEF ApplyingBehind, CountRows
<1>6. ASSUME i \notin blind PROVE DoneBy(r)'
  BY <1>2, <1>5, <1>6 DEF DoneBy, Processing
<1> QED
  BY <1>1, <1>2, <1>6, QuietlyDone

LEMMA ProcessKeepsDone ==
  ASSUME TypeInv, TypeInv', DoneInv, NEW r \in Requests, ProcessRow(r) \/ PostRow(r)
  PROVE  DoneInv'
<1> DEFINE w == work[r]
<1>1. LedgerStep(r) /\ Alters(r)
  BY StatementIsLedgerStep DEF LedgerStep
<1>2. tx \in [Requests -> Tx] /\ tx[r] \in Tx /\ work \in [Requests -> Work] /\ w \in Work
      /\ tx[r].step \in Processing /\ UNCHANGED <<imports, rawCsv, rows, blind>>
  BY DEF TypeInv, LedgerType, ImportType, ProcessRow, PostRow, Processing
<1>3. ProcessingOK(r) /\ (w.import \notin blind => DoneBy(r))
  BY <1>2 DEF DoneInv, TypeInv, RequestOK
<1>4. w.todo # <<>>
  BY <1>3 DEF ProcessRow, PostRow, ProcessingOK
<1>5. Placed(r) \in Nat /\ Len(Tail(w.todo)) \in Nat /\ Len(w.todo) = Len(Tail(w.todo)) + 1
  BY <1>2, <1>4, RowAtHand
<1>6. /\ tx'[r].step \in Processing /\ work'[r].import = w.import
      /\ \/ Placed(r)' = Placed(r) /\ work'[r].todo = w.todo
         \/ Placed(r)' = Placed(r) + 1 /\ work'[r].todo = Tail(w.todo)
  BY ProcessPlaces
<1>7. ASSUME w.import \notin blind
      PROVE  Placed(r)' + Len(work'[r].todo) = Len(Statement[work'[r].import])
  <2>1. Placed(r) + Len(w.todo) = Len(Statement[w.import])
    BY <1>2, <1>3, <1>7 DEF DoneBy
  <2>2. Placed(r)' + Len(work'[r].todo) = Placed(r) + Len(w.todo)
    <3>1. CASE Placed(r)' = Placed(r) /\ work'[r].todo = w.todo
      BY <3>1
    <3>2. CASE Placed(r)' = Placed(r) + 1 /\ work'[r].todo = Tail(w.todo)
      BY <1>5, <3>2
    <3> QED
      BY <1>6, <3>1, <3>2
  <2> QED
    BY <1>6, <2>1, <2>2
<1>8. ASSUME w.import \notin blind PROVE DoneBy(r)'
  BY <1>6, <1>7, <1>8 DEF DoneBy, Processing, Applying
<1> QED
  BY <1>1, <1>2, <1>6, <1>8, QuietlyDone

(* What commits is of one import, and one a retry took up blind does not count. *)
LEMMA CommitsAreOfOne ==
  ASSUME TypeInv, NEW r \in Requests,
         (\E cleared \in BOOLEAN : CommitProcess(r, cleared)) \/ CommitApply(r)
  PROVE  /\ \A j \in Imports \ {work[r].import} :
              rows'[j] = rows[j] /\ imports'[j] = imports[j] /\ rawCsv'[j] = rawCsv[j]
         /\ Alters(r) /\ tx'[r] = NoTx /\ blind' = blind
BY DEF CommitProcess, CommitApply, Publish, Alters, TypeInv, LedgerType, ImportType

LEMMA BlindCommitKeepsDone ==
  ASSUME TypeInv, TypeInv', DoneInv, NEW r \in Requests, work[r].import \in blind,
         (\E cleared \in BOOLEAN : CommitProcess(r, cleared)) \/ CommitApply(r)
  PROVE  DoneInv'
<1>1. /\ \A j \in Imports \ blind :
           rows'[j] = rows[j] /\ imports'[j] = imports[j] /\ rawCsv'[j] = rawCsv[j]
      /\ Alters(r) /\ tx'[r] = NoTx /\ blind' = blind
  BY CommitsAreOfOne
<1>2. AppliedImportIsDone'
  BY <1>1 DEF DoneInv, AppliedImportIsDone, NoneLeft
<1>3. \A i \in Imports \ blind' : WholeStatement(i)'
  BY <1>1 DEF DoneInv, WholeStatement, CountRows
<1>4. ASSUME NEW o \in Requests \ {r}, work'[o].import \notin blind' PROVE DoneBy(o)'
  <2>1. ASSUME tx[o].step \in Applying PROVE StaysApplied(work[o].import)
    <3>1. work[o].import \in Imports \ blind
      BY <1>1, <1>4, <2>1 DEF TypeInv, RequestOK, ApplyingOK, Alters
    <3> QED
      BY <1>1, <3>1, SameRowsStay
  <2> QED
    BY <1>1, <1>4, <2>1, OthersStayDone DEF Alters
<1>5. DoneBy(r)'
  BY <1>1 DEF DoneBy, NoTx, Processing, Applying
<1> QED
  BY <1>2, <1>3, <1>4, <1>5 DEF DoneInv

(* A handler commits the rows of its whole statement.                      *)
LEMMA CommitProcessMoves ==
  ASSUME TypeInv, DoneInv, NEW r \in Requests, NEW cleared \in BOOLEAN, CommitProcess(r, cleared),
         work[r].import \notin blind
  PROVE  LET list == work[r].list
             i == work[r].import
             ambiguous == CountRows(list, "ambiguous")
             unmatched == CountRows(list, "unmatched")
             applied == CountRows(list, "applied")
         IN /\ i \in Imports /\ list \in Seq(ImportRow) /\ Len(list) \in Nat
            /\ Len(list) = Len(Statement[i]) /\ Statement[i] # NoParse
            /\ rows[i] = <<>> /\ rows'[i] = list
            /\ imports'[i] = Counts(IF ambiguous + unmatched = 0 THEN "applied"
                                                                ELSE "review_required",
                                    Len(list), applied, ambiguous, unmatched, applied)
            /\ \A j \in Imports \ {i} : rows'[j] = rows[j] /\ imports'[j] = imports[j]
            /\ Alters(r) /\ tx'[r] = NoTx /\ tx[r].step = "row" /\ blind' = blind
<1> DEFINE w == work[r]
<1>1. tx[r].step = "row" /\ tx[r].step \in Processing /\ w \in Work /\ w.list \in Seq(ImportRow)
      /\ w.todo = <<>>
  BY DEF TypeInv, ImportType, CommitProcess, Processing, Work
<1>2. PICK i \in Imports : i = w.import
  BY <1>1 DEF TypeInv, RequestOK, ProcessingOK
<1>3. ProcessingOK(r) /\ Placed(r) = Len(w.list) /\ DoneBy(r)
      /\ Statement[i] # NoParse /\ Len(w.list) \in Nat
  BY <1>1, <1>2, LenProperties DEF TypeInv, RequestOK, ProcessingOK, Placed, DoneInv
<1>4. Len(w.list) = Len(Statement[i])
  BY <1>1, <1>2, <1>3, EmptySeq DEF DoneBy
<1>5. rows[i] \in Seq(ImportRow) /\ rows[i] = <<>>
  <2>1. rows[i] \in Seq(ImportRow)
    BY DEF TypeInv, ImportType
  <2>2. CASE w.list # <<>>
    BY <1>1, <1>2, <2>1, <2>2 DEF TypeInv, ListOK
  <2>3. CASE w.list = <<>>
    <3>1. Len(Statement[i]) = 0
      BY <1>4, <2>3, EmptySeq
    <3> QED
      BY <2>1, <3>1, EmptySeq, LenProperties DEF TypeInv, ImportOK
  <2> QED
    BY <2>1, <2>2, <2>3
<1>6. rows' = [rows EXCEPT ![i] = w.list]
  BY <1>1, <1>2, <1>5, ConcatEmptySeq DEF CommitProcess
<1>7. rows'[i] = w.list /\ \A j \in Imports \ {i} : rows'[j] = rows[j]
  BY <1>6 DEF TypeInv, ImportType
<1>8. /\ imports'[i] = Counts(IF CountRows(w.list, "ambiguous") + CountRows(w.list, "unmatched") = 0
                               THEN "applied" ELSE "review_required",
                             Len(w.list), CountRows(w.list, "applied"),
                             CountRows(w.list, "ambiguous"), CountRows(w.list, "unmatched"),
                             CountRows(w.list, "applied"))
      /\ \A j \in Imports \ {i} : imports'[j] = imports[j]
  <2> DEFINE after == Counts(IF CountRows(w.list, "ambiguous") + CountRows(w.list, "unmatched") = 0
                               THEN "applied" ELSE "review_required",
                             Len(w.list), CountRows(w.list, "applied"),
                             CountRows(w.list, "ambiguous"), CountRows(w.list, "unmatched"),
                             CountRows(w.list, "applied"))
  <2>1. imports' = [imports EXCEPT ![i] = after]
    BY <1>2 DEF CommitProcess
  <2> HIDE DEF after
  <2>2. imports'[i] = after /\ \A j \in Imports \ {i} : imports'[j] = imports[j]
    BY <2>1 DEF TypeInv, ImportType
  <2> QED
    BY <2>2 DEF after
<1>9. Alters(r) /\ tx'[r] = NoTx /\ blind' = blind
  BY DEF CommitProcess, Publish, Alters, TypeInv, LedgerType, ImportType
<1> QED
  BY <1>1, <1>2, <1>3, <1>4, <1>5, <1>7, <1>8, <1>9

LEMMA CommitProcessKeepsDone ==
  ASSUME TypeInv, TypeInv', DoneInv, NEW r \in Requests, NEW cleared \in BOOLEAN,
         CommitProcess(r, cleared), work[r].import \notin blind
  PROVE  DoneInv'
<1> DEFINE w == work[r]
           i == w.import
           ambiguous == CountRows(w.list, "ambiguous")
           unmatched == CountRows(w.list, "unmatched")
           status == IF ambiguous + unmatched = 0 THEN "applied" ELSE "review_required"
<1>1. i \in Imports /\ w.list \in Seq(ImportRow) /\ Len(w.list) \in Nat
  BY CommitProcessMoves
<1>2. Len(w.list) = Len(Statement[i])
  BY CommitProcessMoves
<1>3. rows[i] = <<>>
  BY CommitProcessMoves
<1>4. rows'[i] = w.list /\ \A j \in Imports \ {i} : rows'[j] = rows[j]
  BY CommitProcessMoves
<1>5. /\ ambiguous \in Nat /\ unmatched \in Nat
      /\ ambiguous = CountRows(w.list, "ambiguous") /\ unmatched = CountRows(w.list, "unmatched")
      /\ status = IF ambiguous + unmatched = 0 THEN "applied" ELSE "review_required"
  BY <1>1, CountRowsType
<1>6. /\ imports'[i] = Counts(status, Len(w.list), CountRows(w.list, "applied"), ambiguous, unmatched,
                              CountRows(w.list, "applied"))
      /\ \A j \in Imports \ {i} : imports'[j] = imports[j]
  BY CommitProcessMoves
<1> HIDE DEF ambiguous, unmatched, status
<1>7. \A j \in Imports \ {i} : rawCsv'[j] = rawCsv[j]
  BY DEF CommitProcess, TypeInv, ImportType
<1>10. Alters(r) /\ tx'[r] = NoTx /\ blind' = blind
  BY CommitProcessMoves
<1>8. AppliedImportIsDone'
  <2>1. SUFFICES ASSUME NEW j \in Imports \ blind, imports'[j].status = "applied",
                        NEW n \in DOMAIN rows'[j]
                 PROVE  rows'[j][n].status = "applied"
    BY <1>10 DEF AppliedImportIsDone, NoneLeft
  <2>2. CASE j # i
    BY <1>4, <1>6, <2>1, <2>2 DEF DoneInv, AppliedImportIsDone, NoneLeft
  <2>3. CASE j = i
    <3>1. ambiguous + unmatched = 0
      BY <1>5, <1>6, <2>1, <2>3 DEF Counts
    <3>2. CountRows(w.list, "ambiguous") = 0 /\ CountRows(w.list, "unmatched") = 0
      BY <1>5, <3>1
    <3>3. n \in 1..Len(w.list) /\ w.list[n] \in ImportRow
      BY <1>1, <1>4, <2>1, <2>3, LenProperties, ElementOfSeq
    <3>4. w.list[n].status # "ambiguous" /\ w.list[n].status # "unmatched"
      BY <1>1, <3>2, <3>3, NoneCounted
    <3> QED
      BY <1>4, <2>3, <3>3, <3>4 DEF ImportRow
  <2> QED
    BY <2>2, <2>3
<1>9. ASSUME NEW j \in Imports \ blind PROVE WholeStatement(j)'
  <2>1. CASE j # i
    BY <1>4, <1>6, <1>7, <2>1 DEF DoneInv, WholeStatement, CountRows
  <2>2. CASE j = i
    <3>1. /\ imports'[j].status \in {"applied", "review_required"}
          /\ imports'[j].total = Len(w.list) /\ imports'[j].applied = CountRows(w.list, "applied")
      BY <1>5, <1>6, <2>2 DEF Counts
    <3>2. CountRows(w.list, "applied") \in Nat
      BY <1>1, CountRowsType
    <3>3. CountRows(rows[j], "applied")' = CountRows(w.list, "applied")
      BY <1>4, <2>2 DEF CountRows
    <3>4. w.list = <<>> => Len(Statement[j]) = 0
      BY <1>2, <2>2, EmptySeq
    <3> QED
      BY <1>2, <1>4, <2>2, <3>1, <3>2, <3>3, <3>4 DEF WholeStatement
  <2> QED
    BY <2>1, <2>2
<1>11. ASSUME NEW o \in Requests \ {r}, work[o].import \notin blind PROVE DoneBy(o)'
  <2>1. ASSUME tx[o].step \in Applying PROVE StaysApplied(work[o].import)
    <3>1. ApplyingOK(o) /\ ApplyingBehind(o)
      BY <1>11, <2>1 DEF TypeInv, RequestOK, DoneInv, DoneBy
    <3>2. CASE work[o].import # i
      BY <1>4, <3>1, <3>2, SameRowsStay DEF ApplyingOK
    <3>3. CASE work[o].import = i
      <4>1. Len(Statement[i]) = 0
        BY <1>3, <3>1, <3>3, EmptySeq DEF ApplyingBehind
      <4>2. w.list = <<>>
        BY <1>1, <1>2, <4>1, EmptySeq
      <4> QED
        BY <1>3, <1>4, <3>3, <4>2, SameRowsStay
    <3> QED
      BY <3>2, <3>3
  <2> QED
    BY <1>10, <1>11, <2>1, OthersStayDone DEF Alters
<1>12. DoneBy(r)'
  BY <1>10 DEF DoneBy, NoTx, Processing, Applying
<1> QED
  BY <1>8, <1>9, <1>10, <1>11, <1>12 DEF DoneInv, Alters

LEMMA ListKeepsDone ==
  ASSUME TypeInv, TypeInv', DoneInv, NEW r \in Requests, ListBankStatementRows(r)
  PROVE  DoneInv'
<1> DEFINE w == work[r]
<1>1. tx \in [Requests -> Tx] /\ tx[r] \in Tx /\ work \in [Requests -> Work] /\ w \in Work
      /\ tx[r].step = "list" /\ UNCHANGED <<imports, rawCsv, rows, blind>>
  BY DEF TypeInv, LedgerType, ImportType, ListBankStatementRows
<1>2. Alters(r)
  BY <1>1 DEF ListBankStatementRows, Alters
<1>3. /\ tx'[r].step = "match" /\ work'[r].list = rows[w.import] /\ work'[r].import = w.import
      /\ work'[r].todo = w.todo /\ work'[r].wrote = w.wrote /\ work'[r].read = w.read
  BY <1>1 DEF ListBankStatementRows, Tx, Work
<1>4. ASSUME w.import \notin blind PROVE ApplyingBehind(r) /\ w.wrote = {}
  BY <1>1, <1>4 DEF DoneInv, DoneBy, Applying, ApplyingBehind
<1>5. CountRows(work[r].list, "applied")' = CountRows(rows[w.import], "applied")
  BY <1>3 DEF CountRows
<1>6. ASSUME w.import \notin blind PROVE ApplyingBehind(r)'
  BY <1>1, <1>3, <1>4, <1>5, <1>6 DEF ApplyingBehind
<1>7. ASSUME w.import \notin blind PROVE DoneBy(r)'
  BY <1>3, <1>6, <1>7 DEF DoneBy, Processing
<1> QED
  BY <1>1, <1>2, <1>3, <1>7, QuietlyDone

LEMMA ApplyingFacts ==
  ASSUME TypeInv, DoneInv, NEW r \in Requests, tx[r].step \in {"match", "apply"},
         work[r].import \notin blind
  PROVE  /\ ApplyingBehind(r) /\ ApplyingOK(r) /\ tx[r].step \in Applying
         /\ work[r].todo \in Seq(Match) /\ work[r].import \in Imports
BY DEF DoneInv, DoneBy, TypeInv, RequestOK, ApplyingOK, Applying

LEMMA StillBehind ==
  ASSUME NEW r, ApplyingBehind(r), tx[r].step # "list", tx'[r].step # "list", rows' = rows,
         work'[r].import = work[r].import, work'[r].list = work[r].list,
         work'[r].read = work[r].read
  PROVE  ApplyingBehind(r)'
<1>1. CountRows(work[r].list, "applied")' = CountRows(work[r].list, "applied")
  BY DEF CountRows
<1>2. work'[r].read.applied <= CountRows(work[r].list, "applied")'
  BY <1>1 DEF ApplyingBehind
<1>3. /\ work'[r].read.total = Len(rows'[work'[r].import])
      /\ work'[r].read.total = Len(Statement[work'[r].import])
  BY DEF ApplyingBehind
<1>4. \A n \in 1..Len(work'[r].list) : work'[r].list[n].status = "applied"
                                        => rows'[work'[r].import][n].status = "applied"
  BY DEF ApplyingBehind
<1> QED
  BY <1>2, <1>3, <1>4 DEF ApplyingBehind

LEMMA MatchAndApplyKeepDone ==
  ASSUME TypeInv, TypeInv', DoneInv, NEW r \in Requests, MatchRow(r) \/ ApplyRow(r)
  PROVE  DoneInv'
<1> DEFINE w == work[r]
<1>1. tx[r].step \in {"match", "apply"} /\ UNCHANGED <<imports, rawCsv, rows, blind>>
  BY DEF MatchRow, ApplyRow
<1>2. ASSUME w.import \notin blind PROVE ApplyingBehind(r)
  BY <1>1, <1>2, ApplyingFacts
<1>3. /\ Alters(r) /\ tx'[r].step \in {"match", "apply"}
      /\ work'[r].list = w.list /\ work'[r].import = w.import /\ work'[r].read = w.read
  BY MatchRowMoves, ApplyRowMoves
<1>4. ASSUME w.import \notin blind PROVE ApplyingBehind(r)'
  BY <1>1, <1>2, <1>3, <1>4, StillBehind
<1>5. ASSUME w.import \notin blind PROVE DoneBy(r)'
  BY <1>3, <1>4, <1>5 DEF DoneBy, Processing
<1> QED
  BY <1>1, <1>3, <1>5, QuietlyDone

(* What an Apply has written are as many rows as it says.                  *)
LEMMA WroteAsMany ==
  ASSUME NEW wrote, IsFiniteSet(wrote), \A x, y \in wrote : x.row = y.row => x = y,
         NEW S, \A x \in wrote : x.row \in S, IsFiniteSet(S)
  PROVE  Cardinality(wrote) <= Cardinality(S)
<1> DEFINE f == [x \in wrote |-> x.row]
<1>1. f \in Injection(wrote, S)
  BY DEF Injection, IsInjective
<1> HIDE DEF f
<1> QED
  BY <1>1, FS_Injection

(* An Apply commits its list with the rows it wrote applied.               *)
LEMMA CommitApplyMoves ==
  ASSUME TypeInv, TypeInv', OnceInv, NEW r \in Requests, CommitApply(r)
  PROVE  LET w == work[r]
             i == w.import
             status == IF AppliedCount(w) >= w.read.total /\ w.read.total > 0
                       THEN "applied" ELSE "review_required"
         IN /\ i \in Imports /\ tx[r].step = "match" /\ w \in Work /\ IsFiniteSet(w.wrote)
            /\ w.list \in Seq(ImportRow) /\ w.read \in Counters /\ w.list # <<>>
            /\ ApplyingOK(r) /\ ApplyingOnce(r)
            /\ rows[i] \in Seq(ImportRow) /\ rows'[i] \in Seq(ImportRow)
            /\ Len(w.list) = Len(rows[i]) /\ Len(w.list) \in Nat
            /\ DOMAIN rows[i] = 1..Len(rows[i]) /\ DOMAIN w.list = 1..Len(w.list)
            /\ DOMAIN rows'[i] = 1..Len(rows[i]) /\ Len(rows'[i]) = Len(rows[i])
            /\ \A n \in 1..Len(rows[i]) :
                 rows'[i][n] = IF Wrote(w, n)
                               THEN AppliedRow((CHOOSE x \in w.wrote : x.row = n).payment)
                               ELSE rows[i][n]
            /\ imports'[i] = Counts(status, w.read.total, w.read.matched,
                                    Less(w.read.ambiguous, w, "ambiguous"),
                                    Less(w.read.unmatched, w, "unmatched"), AppliedCount(w))
            /\ \A j \in Imports \ {i} : rows'[j] = rows[j] /\ imports'[j] = imports[j]
            /\ Alters(r) /\ tx'[r] = NoTx /\ tx[r].step = "match" /\ blind' = blind
<1> DEFINE w == work[r]
<1>1. tx[r].step = "match" /\ tx[r].step \notin Processing /\ w \in Work /\ IsFiniteSet(w.wrote)
      /\ w.list \in Seq(ImportRow) /\ w.read \in Counters /\ w.list # <<>>
  BY DEF TypeInv, ImportType, CommitApply, Work, Processing, RequestOK, ApplyingOK, Applying
<1>2. ApplyingOK(r) /\ ApplyingOnce(r)
  BY <1>1 DEF OnceInv, TypeInv, RequestOK, Applying
<1>3. PICK i \in Imports : i = w.import
  BY <1>2 DEF ApplyingOK
<1>4. rows[i] \in Seq(ImportRow) /\ rows'[i] \in Seq(ImportRow) /\ Len(w.list) = Len(rows[i])
      /\ Len(w.list) \in Nat /\ DOMAIN rows[i] = 1..Len(rows[i]) /\ DOMAIN w.list = 1..Len(w.list)
  BY <1>1, <1>3, LenProperties DEF TypeInv, ImportType, ListOK
<1>5. \A j \in Imports \ {i} : rows'[j] = rows[j] /\ imports'[j] = imports[j]
  BY <1>3 DEF CommitApply, TypeInv, ImportType
<1>6. rows'[i] = [n \in DOMAIN rows[i] |->
                    IF Wrote(w, n) THEN AppliedRow((CHOOSE x \in w.wrote : x.row = n).payment)
                                   ELSE rows[i][n]]
  <2> DEFINE after == [n \in DOMAIN rows[w.import] |->
                IF Wrote(w, n) THEN AppliedRow((CHOOSE x \in w.wrote : x.row = n).payment)
                ELSE rows[w.import][n]]
  <2>1. rows' = [rows EXCEPT ![w.import] = after]
    BY <1>3 DEF CommitApply, TypeInv, ImportType
  <2> HIDE DEF after
  <2>2. rows'[i] = after
    BY <1>3, <2>1 DEF TypeInv, ImportType
  <2> QED
    BY <1>3, <2>2 DEF after
<1>7. /\ DOMAIN rows'[i] = 1..Len(rows[i]) /\ Len(rows'[i]) = Len(rows[i])
      /\ \A n \in 1..Len(rows[i]) :
           rows'[i][n] = IF Wrote(w, n)
                         THEN AppliedRow((CHOOSE x \in w.wrote : x.row = n).payment)
                         ELSE rows[i][n]
  <2>1. DOMAIN rows'[i] = 1..Len(rows[i])
    BY <1>4, <1>6
  <2>2. Len(rows'[i]) = Len(rows[i])
    BY <1>4, <2>1, LenProperties
  <2> QED
    BY <1>4, <1>6, <2>1, <2>2
<1>8. imports'[i] = Counts(IF AppliedCount(w) >= w.read.total /\ w.read.total > 0
                               THEN "applied" ELSE "review_required",
                             w.read.total, w.read.matched,
                             Less(w.read.ambiguous, w, "ambiguous"),
                             Less(w.read.unmatched, w, "unmatched"), AppliedCount(w))
  <2> DEFINE after == Counts(IF AppliedCount(w) >= w.read.total /\ w.read.total > 0
                               THEN "applied" ELSE "review_required",
                             w.read.total, w.read.matched,
                             Less(w.read.ambiguous, w, "ambiguous"),
                             Less(w.read.unmatched, w, "unmatched"), AppliedCount(w))
  <2>1. imports' = [imports EXCEPT ![i] = after]
    BY <1>3 DEF CommitApply
  <2> HIDE DEF after
  <2>2. imports'[i] = after
    BY <2>1 DEF TypeInv, ImportType
  <2> QED
    BY <2>2 DEF after
<1>9. Alters(r) /\ tx'[r] = NoTx /\ blind' = blind
  BY DEF CommitApply, Publish, Alters, TypeInv, LedgerType, ImportType
<1> QED
  BY <1>1, <1>2, <1>3, <1>4, <1>5, <1>7, <1>8, <1>9

LEMMA CommitApplyKeepsDone ==
  ASSUME TypeInv, TypeInv', OnceInv, DoneInv, NEW r \in Requests, CommitApply(r),
         work[r].import \notin blind
  PROVE  DoneInv'
<1> DEFINE w == work[r]
           i == w.import
<1>1. /\ i \in Imports /\ tx[r].step = "match" /\ w \in Work /\ IsFiniteSet(w.wrote)
      /\ w.list \in Seq(ImportRow) /\ w.read \in Counters
  BY CommitApplyMoves
<1>2. ApplyingBehind(r) /\ ApplyingOK(r) /\ ApplyingOnce(r)
  BY <1>1, ApplyingFacts, CommitApplyMoves
<1>3. rows[i] \in Seq(ImportRow) /\ rows'[i] \in Seq(ImportRow) /\ Len(w.list) = Len(rows[i])
      /\ Len(w.list) \in Nat /\ DOMAIN rows[i] = 1..Len(rows[i]) /\ DOMAIN w.list = 1..Len(w.list)
  BY CommitApplyMoves
<1>4. \A j \in Imports \ {i} : rows'[j] = rows[j] /\ imports'[j] = imports[j]
  BY CommitApplyMoves
<1>5. /\ DOMAIN rows'[i] = 1..Len(rows[i]) /\ Len(rows'[i]) = Len(rows[i])
      /\ \A n \in 1..Len(rows[i]) : rows'[i][n].status =
                                      IF Wrote(w, n) THEN "applied" ELSE rows[i][n].status
  <2>1. /\ DOMAIN rows'[i] = 1..Len(rows[i]) /\ Len(rows'[i]) = Len(rows[i])
        /\ \A n \in 1..Len(rows[i]) :
             rows'[i][n] = IF Wrote(w, n)
                           THEN AppliedRow((CHOOSE x \in w.wrote : x.row = n).payment)
                           ELSE rows[i][n]
    BY CommitApplyMoves
  <2>2. \A payment : AppliedRow(payment).status = "applied"
    BY DEF AppliedRow
  <2> QED
    BY <2>1, <2>2
<1> HIDE DEF i
<1>6. w.read.applied + Cardinality(w.wrote) <= CountRows(rows'[i], "applied")
  <2> DEFINE before == {n \in DOMAIN w.list : w.list[n].status = "applied"}
             after == {n \in DOMAIN rows'[i] : rows'[i][n].status = "applied"}
  <2>1. IsFiniteSet(before) /\ IsFiniteSet(after) /\ CountRows(w.list, "applied") = Cardinality(before)
        /\ CountRows(rows'[i], "applied") = Cardinality(after)
    BY <1>1, <1>3, CountRowsType DEF CountRows
  <2>2. before \subseteq after
    BY <1>1, <1>2, <1>3, <1>5 DEF ApplyingBehind, i
  <2>3. \A x \in w.wrote : x.row \in after \ before
    BY <1>1, <1>2, <1>3, <1>5 DEF ApplyingOnce, ApplyingOK, Wrote
  <2>4. \A x, y \in w.wrote : x.row = y.row => x = y
    BY <1>2 DEF ApplyingOnce
  <2> HIDE DEF before, after
  <2>5. IsFiniteSet(after \ before)
        /\ Cardinality(after \ before) = Cardinality(after) - Cardinality(after \cap before)
    BY <2>1, FS_Difference
  <2>6. after \cap before = before
    BY <2>2
  <2>7. Cardinality(w.wrote) <= Cardinality(after \ before)
    BY <1>1, <2>3, <2>4, <2>5, WroteAsMany
  <2>8. w.read.applied <= Cardinality(before)
    BY <1>1, <1>2, <2>1 DEF ApplyingBehind
  <2>9. /\ Cardinality(before) \in Nat /\ Cardinality(after) \in Nat /\ Cardinality(w.wrote) \in Nat
        /\ Cardinality(after \ before) \in Nat /\ w.read.applied \in Nat
    BY <1>1, <2>1, <2>5, FS_CardinalityType DEF Counters
  <2>10. Cardinality(after \ before) = Cardinality(after) - Cardinality(before)
    BY <2>5, <2>6
  <2>11. w.read.applied + Cardinality(w.wrote) <= Cardinality(after)
    BY <2>7, <2>8, <2>9, <2>10
  <2> QED
    BY <2>1, <2>11
<1>7. /\ imports'[i].applied = w.read.applied + Cardinality(w.wrote)
      /\ imports'[i].total = w.read.total
      /\ imports'[i].status \in {"review_required", "applied"}
      /\ imports'[i].status = "applied" =>
           w.read.applied + Cardinality(w.wrote) >= w.read.total /\ w.read.total > 0
  <2> DEFINE status == IF AppliedCount(w) >= w.read.total /\ w.read.total > 0
                       THEN "applied" ELSE "review_required"
  <2>1. imports'[i] = Counts(status, w.read.total, w.read.matched,
                             Less(w.read.ambiguous, w, "ambiguous"),
                             Less(w.read.unmatched, w, "unmatched"), AppliedCount(w))
    BY CommitApplyMoves DEF i
  <2>2. /\ status \in {"review_required", "applied"}
        /\ status = "applied" => AppliedCount(w) >= w.read.total /\ w.read.total > 0
    OBVIOUS
  <2> HIDE DEF status
  <2> QED
    BY <2>1, <2>2 DEF Counts, AppliedCount
<1>8. w.read.total = Len(rows[i]) /\ w.read.total = Len(Statement[i])
  BY <1>2 DEF ApplyingBehind, i
<1>11. Alters(r) /\ tx'[r] = NoTx /\ blind' = blind
  BY CommitApplyMoves
<1>9. AppliedImportIsDone'
  <2>1. SUFFICES ASSUME NEW j \in Imports \ blind, imports'[j].status = "applied",
                        NEW n \in DOMAIN rows'[j]
                 PROVE  rows'[j][n].status = "applied"
    BY <1>11 DEF AppliedImportIsDone, NoneLeft
  <2>2. CASE j # i
    BY <1>4, <2>1, <2>2 DEF DoneInv, AppliedImportIsDone, NoneLeft
  <2>3. CASE j = i
    <3>1. /\ w.read.applied + Cardinality(w.wrote) >= Len(rows'[i])
          /\ w.read.applied + Cardinality(w.wrote) \in Nat
          /\ CountRows(rows'[i], "applied") \in Nat /\ Len(rows'[i]) \in Nat
      <4>1. w.read.applied + Cardinality(w.wrote) >= Len(rows'[i])
        BY <1>5, <1>7, <1>8, <2>1, <2>3
      <4>2. Cardinality(w.wrote) \in Nat /\ w.read.applied \in Nat
        BY <1>1, FS_CardinalityType DEF Counters
      <4>3. CountRows(rows'[i], "applied") \in Nat /\ Len(rows'[i]) \in Nat
        BY <1>3, CountRowsType, LenProperties
      <4> QED
        BY <4>1, <4>2, <4>3
    <3>2. CountRows(rows'[i], "applied") >= Len(rows'[i])
      BY <1>6, <3>1
    <3> QED
      BY <1>3, <1>5, <2>1, <2>3, <3>2, AllCounted
  <2> QED
    BY <2>2, <2>3
<1>10. ASSUME NEW j \in Imports \ blind PROVE WholeStatement(j)'
  <2>1. rawCsv' = rawCsv /\ WholeStatement(j)
    BY DEF CommitApply, DoneInv
  <2>2. CASE j # i
    BY <1>4, <2>1, <2>2 DEF WholeStatement, CountRows
  <2>3. CASE j = i
    <3>1. CountRows(rows[j], "applied")' = CountRows(rows'[i], "applied")
      BY <2>3 DEF CountRows
    <3>2. rows'[i] = <<>> <=> rows[i] = <<>>
      BY <1>3, <1>5, EmptySeq
    <3>3. imports'[j].applied <= CountRows(rows[j], "applied")'
      BY <1>6, <1>7, <2>3, <3>1
    <3>4. Len(rows'[j]) = imports'[j].total /\ Len(rows'[j]) = Len(Statement[j])
      BY <1>5, <1>7, <1>8, <2>3
    <3>5. ~rawCsv'[j] /\ rows'[j] = <<>> => Len(Statement[j]) = 0
      BY <2>1, <2>3, <3>2 DEF WholeStatement
    <3>6. imports'[j].status \notin {"none", "queued"}
      BY <1>7, <2>3
    <3> QED
      BY <3>3, <3>4, <3>5, <3>6 DEF WholeStatement
  <2> QED
    BY <2>2, <2>3
<1>12. ASSUME NEW o \in Requests \ {r}, work[o].import \notin blind PROVE DoneBy(o)'
  <2>1. ASSUME tx[o].step \in Applying PROVE StaysApplied(work[o].import)
    <3>1. work[o].import \in Imports
      BY <2>1 DEF TypeInv, RequestOK, ApplyingOK
    <3> QED
      BY <1>4, <1>5, <3>1, SameRowsStay DEF StaysApplied, i
  <2> QED
    BY <1>11, <1>12, <2>1, OthersStayDone DEF Alters
<1>13. DoneBy(r)'
  BY <1>11 DEF DoneBy, NoTx, Processing, Applying
<1> QED
  BY <1>9, <1>10, <1>11, <1>12, <1>13 DEF DoneInv, Alters

LEMMA RollbackKeepsDone ==
  ASSUME TypeInv, TypeInv', DoneInv, NEW r \in Requests, RollbackImport(r)
  PROVE  DoneInv'
<1>1. UNCHANGED <<imports, rawCsv, rows, blind>> /\ tx'[r] = NoTx /\ Alters(r)
  BY DEF RollbackImport, TypeInv, LedgerType, ImportType, Alters
<1>2. DoneBy(r)'
  BY <1>1 DEF DoneBy, NoTx, Processing, Applying
<1> QED
  BY <1>1, <1>2, QuietlyDone

LEMMA ImportsOnlyDone ==
  ASSUME TypeInv, TypeInv', DoneInv, UNCHANGED <<ledgerVars, rawCsv, rows, work, blind>>,
         NEW i \in Imports,
         imports[i].status \in {"none", "queued", "review_required", "applied"},
         ImportBankStatement(i, TRUE) \/ ImportBankStatement(i, FALSE) \/ CsvDoesNotParse(i)
  PROVE  DoneInv'
<1>1. \A j \in Imports \ {i} : imports'[j] = imports[j]
  BY DEF ImportBankStatement, CsvDoesNotParse, TypeInv, ImportType
<1>2. /\ imports'[i].status \in {"queued", "failed"}
      /\ imports'[i].status = "queued" /\ i \notin blind => rows[i] = <<>>
      /\ imports'[i].applied = imports[i].applied \/ imports'[i].applied = 0
  BY DEF ImportBankStatement, CsvDoesNotParse, TypeInv, ImportType, Counters, Counts, DoneInv,
         WholeStatement
<1>3. CountRows(rows[i], "applied") \in Nat
  BY CountRowsType DEF TypeInv, ImportType
<1>4. ASSUME NEW j \in Imports \ blind PROVE WholeStatement(j)'
  <2>1. CASE j # i
    BY <1>1, <2>1 DEF WholeStatement, DoneInv, CountRows
  <2>2. CASE j = i
    BY <1>2, <1>3, <2>2 DEF WholeStatement, DoneInv, CountRows
  <2> QED
    BY <2>1, <2>2
<1>5. AppliedImportIsDone'
  BY <1>1, <1>2 DEF AppliedImportIsDone, NoneLeft, DoneInv
<1>6. \A o \in Requests : work[o].import \notin blind => DoneBy(o)'
  BY SameRowsStay, OthersStayDone DEF ledgerVars
<1> QED
  BY <1>4, <1>5, <1>6 DEF DoneInv

LEMMA NextKeepsDone ==
  TypeInv /\ TypeInv' /\ OnceInv /\ DoneInv /\ [Next]_vars => DoneInv'
<1> SUFFICES ASSUME TypeInv, TypeInv', OnceInv, DoneInv, [Next]_vars PROVE DoneInv'
  OBVIOUS
<1>1. CASE \E i \in Imports : \/ \E enqueued \in BOOLEAN : ImportBankStatement(i, enqueued)
                             \/ CsvDoesNotParse(i)
  <2>1. PICK i \in Imports : \/ ImportBankStatement(i, TRUE) \/ ImportBankStatement(i, FALSE)
                             \/ CsvDoesNotParse(i)
    BY <1>1
  <2>2. imports[i].status \in {"none", "queued", "review_required", "applied"}
        /\ UNCHANGED <<ledgerVars, rawCsv, rows, work, blind>>
    BY <2>1 DEF ImportBankStatement, CsvDoesNotParse, Unfinished
  <2> QED
    BY <2>1, <2>2, ImportsOnlyDone
<1>2. CASE \E r \in Requests, i \in Imports : \/ BeginProcess(r, i)
                                             \/ \E ms \in Matches : BeginApply(r, i, ms)
  BY <1>2, BeginProcessKeepsDone, BeginApplyKeepsDone
<1>3. CASE \E r \in Requests : \/ ProcessRow(r) \/ PostRow(r)
                              \/ \E cleared \in BOOLEAN : CommitProcess(r, cleared)
                              \/ ListBankStatementRows(r) \/ MatchRow(r) \/ ApplyRow(r)
                              \/ CommitApply(r) \/ RollbackImport(r)
  BY <1>3, ProcessKeepsDone, CommitProcessKeepsDone, ListKeepsDone, MatchAndApplyKeepDone,
     CommitApplyKeepsDone, BlindCommitKeepsDone, RollbackKeepsDone
<1>4. CASE ReconcileNext /\ UNCHANGED importVars
  BY <1>4, ReconcileKeepsDone DEF ReconcileNext
<1>5. CASE UNCHANGED vars
  <2>1. UNCHANGED <<payments, paid, tx, imports, rawCsv, rows, work, blind>>
    BY <1>5 DEF vars, ledgerVars, importVars
  <2>2. \A o \in Requests : work'[o].import \notin blind' => DoneBy(o)'
    BY <2>1, SameRowsStay, OthersStayDone
  <2>3. AppliedImportIsDone' /\ \A j \in Imports \ blind' : WholeStatement(j)'
    BY <2>1 DEF DoneInv, AppliedImportIsDone, NoneLeft, WholeStatement
  <2> QED
    BY <2>2, <2>3 DEF DoneInv
<1> QED
  BY <1>1, <1>2, <1>3, <1>4, <1>5 DEF Next

LEMMA InitIsDone == Init => DoneInv
<1> SUFFICES ASSUME Init PROVE DoneInv
  OBVIOUS
<1>1. AppliedImportIsDone
  BY DEF Init, AppliedImportIsDone, NoneLeft
<1>2. \A r \in Requests : DoneBy(r)
  BY DEF Init, LedgerInit, DoneBy, NoTx, Processing, Applying
<1>3. CountRows(<<>>, "applied") \in Nat
  BY CountRowsType, EmptySeq
<1>4. \A i \in Imports : WholeStatement(i)
  BY <1>3 DEF Init, WholeStatement, Counts
<1> QED
  BY <1>1, <1>2, <1>4 DEF DoneInv

(* An import shown as applied has no row left to review, whatever handlers and clicks on
   Apply overlap, retry or abort, unless a retry whose query for the rows failed took it up
   when its CSV had been cleared.                                                         *)
THEOREM AppliedImportsAreDone == Spec => []AppliedImportIsDone
<1>1. TypeInv /\ TypeInv' /\ OnceInv /\ DoneInv /\ [Next]_vars => DoneInv'
  BY NextKeepsDone
<1>2. DoneInv => AppliedImportIsDone
  BY DEF DoneInv
<1> QED
  BY <1>1, <1>2, InitIsDone, InitIsOnce, NextKeepsOnce, LedgerTypes, PTL DEF Spec

-----------------------------------------------------------------------------
(* Handlers and requests that run one after the other.  Then a balance is  *)
(* the sum of the payments, and so is what a transaction sees of one.      *)
ExactBy(r) ==
  /\ \A h \in tx[r].held : h.paid = CreditedBy(SeenPayments(r), h.account)
  /\ \A a \in Accounts : (\A h \in tx[r].held : h.account # a)
                             => paid[a] = CreditedBy(SeenPayments(r), a)
  /\ tx[r].step \in Posting => tx[r].seen = CreditedBy(SeenPayments(r), AccountInHand(r))

ExactInv == PaidIsSum /\ \A r \in Requests : ExactBy(r)

LEMMA PaidInIsExact ==
  ASSUME ExactInv, NEW r \in Requests, NEW a \in Accounts
  PROVE  PaidIn(r, a) = CreditedBy(SeenPayments(r), a)
<1>1. CASE \E h \in tx[r].held : h.account = a
  BY <1>1 DEF PaidIn, ExactInv, ExactBy
<1>2. CASE ~\E h \in tx[r].held : h.account = a
  BY <1>2 DEF PaidIn, ExactInv, ExactBy
<1> QED
  BY <1>1, <1>2

LEMMA OthersStayExact ==
  ASSUME ExactInv, NEW r \in Requests, Alters(r), UNCHANGED <<payments, paid>>,
         NEW o \in Requests \ {r}
  PROVE  ExactBy(o)'
<1>1. tx'[o] = tx[o] /\ work'[o] = work[o]
  BY DEF Alters
<1>2. SeenPayments(o)' = SeenPayments(o) /\ AccountInHand(o)' = AccountInHand(o)
  BY <1>1 DEF SeenPayments, AccountInHand, Matched
<1> QED
  BY <1>1, <1>2 DEF ExactInv, ExactBy

LEMMA IdleIsExact ==
  ASSUME PaidIsSum, NEW r \in Requests, tx[r] = NoTx
  PROVE  ExactBy(r)
<1>1. SeenPayments(r) = payments /\ tx[r].step \notin Posting /\ tx[r].held = {}
  BY DEF SeenPayments, NoTx, Posting
<1> QED
  BY <1>1 DEF ExactBy, PaidIsSum, Credited

LEMMA IdleAfterIsExact ==
  ASSUME PaidIsSum', NEW r \in Requests, tx'[r] = NoTx
  PROVE  ExactBy(r)'
<1>1. SeenPayments(r)' = payments' /\ tx'[r].step \notin Posting /\ tx'[r].held = {}
  BY DEF SeenPayments, NoTx, Posting
<1> QED
  BY <1>1 DEF ExactBy, PaidIsSum, Credited

LEMMA NextKeepsExact ==
  ASSUME TypeInv, TypeInv', ExactInv, [Next /\ OneAtATime]_vars
  PROVE  ExactInv'
<1>1. CASE UNCHANGED <<payments, paid, tx, work>>
  BY <1>1 DEF ExactInv, PaidIsSum, Credited, ExactBy, SeenPayments, AccountInHand, Matched
<1>2. ASSUME NEW r \in Requests, Alters(r), Reads(r) PROVE ExactInv'
  <2>1. payments' = payments /\ paid' = paid /\ SeenPayments(r)' = SeenPayments(r)
    BY <1>2 DEF Reads, SeenPayments
  <2>2. PaidIsSum'
    BY <2>1 DEF ExactInv, PaidIsSum, Credited
  <2>3. ASSUME tx'[r].step \in Posting
        PROVE  tx'[r].seen = CreditedBy(SeenPayments(r)', AccountInHand(r)')
    <3>1. AccountInHand(r)' \in Accounts
      BY <2>3, HandsAfter DEF Hands
    <3>2. tx'[r].seen = PaidIn(r, AccountInHand(r)')
      BY <1>2, <2>3 DEF Reads
    <3> QED
      BY <2>1, <3>1, <3>2, PaidInIsExact
  <2>4. ExactBy(r)'
    BY <1>2, <2>1, <2>3 DEF ExactBy, ExactInv, Reads
  <2> QED
    BY <1>2, <2>1, <2>2, <2>4, OthersStayExact DEF ExactInv
<1>3. ASSUME NEW r \in Requests, Alters(r), Posts(r) PROVE ExactInv'
  <2> DEFINE p == PaymentInHand(r)
  <2>1. p \in Payment /\ p \notin SeenPayments(r) /\ p.account = AccountInHand(r)
    BY <1>3, PostedIsNew
  <2>2. payments' = payments /\ paid' = paid /\ SeenPayments(r)' = SeenPayments(r) \cup {p}
        /\ tx[r].step \in Posting /\ tx'[r].step \notin Posting
    BY <1>3 DEF Posts, SeenPayments
  <2>3. tx'[r].held = {h \in tx[r].held : h.account # p.account}
                        \cup {[account |-> p.account, paid |-> tx[r].seen + p.amount]}
    BY <1>3 DEF Posts
  <2>4. SeenPayments(r) \in SUBSET Payment /\ IsFiniteSet(SeenPayments(r))
    BY SeenIsPayments
  <2>5. \A a : CreditedBy(SeenPayments(r)', a) = IF a = p.account
                 THEN CreditedBy(SeenPayments(r), a) + p.amount ELSE CreditedBy(SeenPayments(r), a)
    BY <2>1, <2>2, <2>4, CreditedOneMore
  <2>6. tx[r].seen = CreditedBy(SeenPayments(r), p.account) /\ ExactBy(r)
    BY <2>1, <2>2 DEF ExactInv, ExactBy
  <2> HIDE DEF p
  <2>7. ASSUME NEW h \in tx'[r].held PROVE h.paid = CreditedBy(SeenPayments(r)', h.account)
    <3>1. CASE h = [account |-> p.account, paid |-> tx[r].seen + p.amount]
      BY <2>5, <2>6, <3>1
    <3>2. CASE h \in tx[r].held /\ h.account # p.account
      BY <2>5, <2>6, <3>2 DEF ExactBy
    <3> QED
      BY <2>3, <2>7, <3>1, <3>2
  <2>8. ASSUME NEW a \in Accounts, \A h \in tx'[r].held : h.account # a
        PROVE  paid'[a] = CreditedBy(SeenPayments(r)', a)
    <3> DEFINE new == [account |-> p.account, paid |-> tx[r].seen + p.amount]
    <3>1. a # p.account
      <4>1. new \in tx'[r].held /\ new.account = p.account
        BY <2>3
      <4> QED
        BY <2>8, <4>1
    <3>2. \A h \in tx[r].held : h.account # a
      BY <2>3, <2>8, <3>1
    <3> QED
      BY <2>2, <2>5, <2>6, <3>1, <3>2 DEF ExactBy
  <2>9. ExactBy(r)'
    BY <2>2, <2>7, <2>8 DEF ExactBy
  <2>10. PaidIsSum'
    BY <2>2 DEF ExactInv, PaidIsSum, Credited
  <2> QED
    BY <1>3, <2>2, <2>9, <2>10, OthersStayExact DEF ExactInv
<1>4. ASSUME NEW r \in Requests, Alters(r), Drops(r) PROVE ExactInv'
  <2>1. payments' = payments /\ paid' = paid
    BY <1>4 DEF Drops
  <2>2. PaidIsSum'
    BY <2>1 DEF ExactInv, PaidIsSum, Credited
  <2>3. ExactBy(r)'
    BY <1>4, <2>2, IdleAfterIsExact DEF Drops
  <2> QED
    BY <1>4, <2>1, <2>2, <2>3, OthersStayExact DEF ExactInv
<1>5. ASSUME NEW r \in Requests, Alters(r), Commits(r), OneAtATime PROVE ExactInv'
  <2>1. payments' = SeenPayments(r) /\ paid' = [a \in Accounts |-> PaidIn(r, a)] /\ tx'[r] = NoTx
    BY <1>5 DEF Commits, Publish
  <2>2. PaidIsSum'
    BY <2>1, PaidInIsExact DEF PaidIsSum, Credited
  <2>3. ExactBy(r)'
    BY <2>1, <2>2, IdleAfterIsExact
  <2>4. CASE tx[r] = NoTx
    <3>1. payments' = payments /\ paid \in [Accounts -> Nat]
      BY <2>1, <2>4 DEF SeenPayments, NoTx, TypeInv, LedgerType
    <3>2. \A a \in Accounts : PaidIn(r, a) = paid[a]
      BY <2>4 DEF PaidIn, NoTx
    <3>3. paid' = paid
      BY <2>1, <3>1, <3>2
    <3> QED
      BY <1>5, <2>2, <2>3, <3>1, <3>3, OthersStayExact DEF ExactInv
  <2>5. CASE tx[r] # NoTx
    <3>1. \A o \in Requests \ {r} : tx[o] = NoTx /\ tx'[o] = NoTx
      BY <1>5, <2>1, <2>5 DEF OneAtATime, Alters
    <3> QED
      BY <2>2, <2>3, <3>1, IdleAfterIsExact DEF ExactInv
  <2> QED
    BY <2>4, <2>5
<1>6. UNCHANGED <<payments, paid, tx, work>> \/ (OneAtATime /\ \E r \in Requests : LedgerStep(r))
  <2>1. CASE UNCHANGED vars
    BY <2>1 DEF vars, ledgerVars, importVars
  <2> QED
    BY <2>1, NextIsLedgerStep
<1> QED
  BY <1>1, <1>2, <1>3, <1>4, <1>5, <1>6 DEF LedgerStep

LEMMA InitIsExact == Init => ExactInv
<1> SUFFICES ASSUME Init PROVE ExactInv
  OBVIOUS
<1>1. payments = {} /\ (\A a \in Accounts : paid[a] = 0) /\ \A r \in Requests : tx[r] = NoTx
  BY DEF Init, LedgerInit
<1>2. \A a : CreditedBy({}, a) = 0
  <2> TAKE a
  <2> DEFINE none == {p \in {} : p.account = a}
             f == [p \in {} |-> p.amount]
  <2>1. none = {}
    OBVIOUS
  <2> HIDE DEF f, none
  <2>2. SumFunctionOnSet(f, none) = 0
    BY <2>1, SumOfNothing
  <2> QED
    BY <2>2 DEF CreditedBy, f, none
<1>3. PaidIsSum
  BY <1>1, <1>2 DEF PaidIsSum, Credited
<1> QED
  BY <1>1, <1>3, IdleIsExact DEF ExactInv

-----------------------------------------------------------------------------
(* No two payments share a reference, the uncommitted ones included, as    *)
(* the unique index makes the second wait; and a payment with a suffix has *)
(* a rival: one of another account that bears the reference without it.    *)
AllPayments == payments \cup UNION {tx[r].made : r \in Requests}

UniqueInv == \A p, q \in AllPayments : p.reference = q.reference => p = q

HasRival(ps, p) ==
  \A f \in References, a \in Accounts :
    p.reference = <<f, a>> => /\ p.account = a
                              /\ \E q \in ps : q.reference = f /\ q.account # a

RivalInv == /\ \A p \in payments : HasRival(payments, p)
            /\ \A r \in Requests : \A p \in tx[r].made : HasRival(SeenPayments(r), p)

LEMMA EndsAlone ==
  ASSUME OneAtATime, NEW r \in Requests, Alters(r), tx'[r] = NoTx, tx[r] # NoTx
  PROVE  \A o \in Requests \ {r} : tx[o] = NoTx /\ tx'[o] = NoTx
BY DEF OneAtATime, Alters

LEMMA FewerAreUnique ==
  ASSUME UniqueInv, AllPayments' \subseteq AllPayments
  PROVE  UniqueInv'
BY DEF UniqueInv

LEMMA NextKeepsUnique ==
  ASSUME TypeInv, UniqueInv, [Next]_vars
  PROVE  UniqueInv'
<1>1. CASE UNCHANGED <<payments, paid, tx, work>>
  BY <1>1, FewerAreUnique DEF AllPayments
<1>2. ASSUME NEW r \in Requests, Alters(r), Reads(r) \/ Drops(r) \/ Commits(r) PROVE UniqueInv'
  <2>1. /\ payments' \subseteq payments \cup tx[r].made
        /\ tx'[r].made \subseteq tx[r].made
        /\ \A o \in Requests \ {r} : tx'[o] = tx[o]
    BY <1>2 DEF Alters, Reads, Drops, Commits, Publish, SeenPayments, NoTx
  <2>2. \A o \in Requests : tx'[o].made \subseteq tx[o].made
    BY <2>1
  <2>3. AllPayments' \subseteq AllPayments
    BY <2>1, <2>2 DEF AllPayments
  <2> QED
    BY <2>3, FewerAreUnique
<1>3. ASSUME NEW r \in Requests, Alters(r), Posts(r) PROVE UniqueInv'
  <2> DEFINE p == PaymentInHand(r)
  <2>1. /\ payments' = payments /\ tx'[r].made = tx[r].made \cup {p}
        /\ \A o \in Requests \ {r} : tx'[o].made = tx[o].made
    BY <1>3 DEF Alters, Posts
  <2>2. AllPayments' = AllPayments \cup {p}
    BY <2>1 DEF AllPayments
  <2>3. \A q \in AllPayments : q.reference # p.reference
    BY <1>3 DEF Posts, MayPost, Waits, Taken, SeenPayments, AllPayments
  <2> HIDE DEF p
  <2> QED
    BY <2>2, <2>3 DEF UniqueInv
<1> QED
  BY <1>1, <1>2, <1>3, NextIsLedgerStep DEF LedgerStep

LEMMA RivalsStay ==
  ASSUME NEW ps, NEW qs, ps \subseteq qs, NEW p, HasRival(ps, p)
  PROVE  HasRival(qs, p)
BY DEF HasRival

(* A line has no suffix; a row's payment has one only where another        *)
(* account took the reference, and this one has no payment under it.       *)
LEMMA InHandHasRival ==
  ASSUME TypeInv, NEW r \in Requests, tx[r].step \in Posting
  PROVE  HasRival(SeenPayments(r), PaymentInHand(r))
<1>1. SUFFICES ASSUME NEW f \in References, NEW a \in Accounts,
                      PaymentInHand(r).reference = <<f, a>>
               PROVE  /\ PaymentInHand(r).account = a
                      /\ \E q \in SeenPayments(r) : q.reference = f /\ q.account # a
  BY DEF HasRival
<1>2. <<f, a>> \notin References
  BY FingerprintAssumption
<1>3. tx[r].step # "write"
  <2>1. SUFFICES ASSUME tx[r].step = "write" PROVE FALSE
    OBVIOUS
  <2>2. Head(tx[r].lines) \in Line
    BY <2>1, TailLines DEF TypeInv, RequestOK
  <2> QED
    BY <1>1, <1>2, <2>1, <2>2 DEF PaymentInHand, Line
<1> DEFINE g == RowInHand(r).fingerprint
           b == AccountInHand(r)
<1>4. g \in References
  BY <1>3, RowInHandIsOne, RowsHaveReferences DEF Posting
<1>5. PaymentInHand(r).account = b /\ ReferenceFor(r, g, b) = <<f, a>>
  BY <1>1, <1>3 DEF PaymentInHand, PaymentFor
<1> HIDE DEF g, b
<1>6. Taken(SeenPayments(r), g) /\ ~Existing(r, g, b) /\ <<g, b>> = <<f, a>>
  BY <1>2, <1>4, <1>5 DEF ReferenceFor
<1>7. g = f /\ b = a
  BY <1>6
<1> QED
  BY <1>5, <1>6, <1>7 DEF Taken, Existing

LEMMA NextKeepsRivals ==
  ASSUME TypeInv, RivalInv, [Next]_vars
  PROVE  RivalInv'
<1>1. CASE UNCHANGED <<payments, paid, tx, work>>
  BY <1>1 DEF RivalInv, SeenPayments, HasRival
<1>2. ASSUME NEW r \in Requests, Alters(r), payments \subseteq payments',
             \A p \in payments' : HasRival(payments', p),
             \A p \in tx'[r].made : HasRival(SeenPayments(r)', p)
      PROVE  RivalInv'
  <2>1. ASSUME NEW o \in Requests \ {r}, NEW p \in tx'[o].made
        PROVE  HasRival(SeenPayments(o)', p)
    <3>1. tx'[o] = tx[o] /\ SeenPayments(o) \subseteq SeenPayments(o)'
      BY <1>2 DEF Alters, SeenPayments
    <3> QED
      BY <2>1, <3>1, RivalsStay DEF RivalInv
  <2>2. \A p \in payments' : HasRival(payments, p)'
    BY <1>2 DEF HasRival
  <2>3. \A o \in Requests : \A p \in tx'[o].made : HasRival(SeenPayments(o), p)'
    BY <1>2, <2>1 DEF HasRival
  <2> QED
    BY <2>2, <2>3 DEF RivalInv
<1>3. ASSUME NEW r \in Requests, Alters(r), Reads(r) PROVE RivalInv'
  <2>1. payments' = payments /\ tx'[r].made = tx[r].made /\ SeenPayments(r)' = SeenPayments(r)
    BY <1>3 DEF Reads, SeenPayments
  <2> QED
    BY <1>2, <1>3, <2>1 DEF RivalInv
<1>4. ASSUME NEW r \in Requests, Alters(r), Posts(r) PROVE RivalInv'
  <2> DEFINE p == PaymentInHand(r)
  <2>1. /\ payments' = payments /\ tx'[r].made = tx[r].made \cup {p}
        /\ SeenPayments(r)' = SeenPayments(r) \cup {p}
    BY <1>4 DEF Posts, SeenPayments
  <2>2. HasRival(SeenPayments(r), p)
    BY <1>4, InHandHasRival DEF Posts
  <2> HIDE DEF p
  <2>3. \A q \in tx'[r].made : HasRival(SeenPayments(r), q)
    BY <2>1, <2>2 DEF RivalInv
  <2>4. \A q \in tx'[r].made : HasRival(SeenPayments(r)', q)
    BY <2>1, <2>3, RivalsStay
  <2> QED
    BY <1>2, <1>4, <2>1, <2>4 DEF RivalInv
<1>5. ASSUME NEW r \in Requests, Alters(r), Drops(r) PROVE RivalInv'
  BY <1>2, <1>5 DEF Drops, NoTx, RivalInv
<1>6. ASSUME NEW r \in Requests, Alters(r), Commits(r) PROVE RivalInv'
  <2>1. payments' = SeenPayments(r) /\ payments \subseteq payments' /\ tx'[r].made = {}
    BY <1>6 DEF Commits, Publish, SeenPayments, NoTx
  <2>2. \A p \in payments' : HasRival(payments', p)
    BY <2>1, RivalsStay DEF RivalInv, SeenPayments
  <2> QED
    BY <1>2, <1>6, <2>1, <2>2
<1> QED
  BY <1>1, <1>3, <1>4, <1>5, <1>6, NextIsLedgerStep DEF LedgerStep

LEMMA InitIsUnique == Init => UniqueInv /\ RivalInv
BY DEF Init, LedgerInit, UniqueInv, AllPayments, RivalInv, NoTx

(* The two payments of one account are one: a suffix sets the other apart  *)
(* from the payment that bears the reference without it.                   *)
LEMMA RivalsAreApart ==
  ASSUME UniqueInv, RivalInv, TypeInv
  PROVE  OncePerAccount
<1>1. SUFFICES ASSUME NEW f \in References, NEW p \in payments, NEW q \in payments,
                      {p.reference, q.reference} \subseteq ReferencesOf(f), p.account = q.account
               PROVE  p = q
  BY DEF OncePerAccount
<1>2. \A u, v \in payments : u.reference = v.reference => u = v
  BY DEF UniqueInv, AllPayments
<1>3. ASSUME NEW u \in payments, NEW v \in payments, NEW a \in Accounts,
             u.reference = f, v.reference = <<f, a>>
      PROVE  u.account # v.account
  <2>1. HasRival(payments, v)
    BY DEF RivalInv
  <2>2. v.account = a /\ \E w \in payments : w.reference = f /\ w.account # a
    BY <1>3, <2>1 DEF HasRival
  <2> QED
    BY <1>2, <1>3, <2>2
<1>4. ASSUME NEW u \in payments, NEW a \in Accounts, u.reference = <<f, a>>
      PROVE  u.account = a
  <2>1. HasRival(payments, u)
    BY DEF RivalInv
  <2> QED
    BY <1>4, <2>1 DEF HasRival
<1>5. CASE p.reference = f /\ q.reference = f
  BY <1>2, <1>5
<1>6. CASE p.reference = f /\ q.reference # f
  BY <1>1, <1>3, <1>6 DEF ReferencesOf
<1>7. CASE p.reference # f /\ q.reference = f
  BY <1>1, <1>3, <1>7 DEF ReferencesOf
<1>8. CASE p.reference # f /\ q.reference # f
  <2>1. PICK a \in Accounts : p.reference = <<f, a>>
    BY <1>1, <1>8 DEF ReferencesOf
  <2>2. PICK b \in Accounts : q.reference = <<f, b>>
    BY <1>1, <1>8 DEF ReferencesOf
  <2>3. a = b
    BY <1>1, <1>4, <2>1, <2>2
  <2> QED
    BY <1>2, <2>1, <2>2, <2>3
<1> QED
  BY <1>5, <1>6, <1>7, <1>8

(* A deposit is credited to an account once only, for any statements, clicks and batches
   and whatever overlaps, fails or is sent again: no assumption is made of what references
   users give their payment lines.                                                         *)
THEOREM CreditedOnce == Spec => []OncePerAccount
<1>1. TypeInv /\ UniqueInv /\ [Next]_vars => UniqueInv'
  BY NextKeepsUnique
<1>2. TypeInv /\ RivalInv /\ [Next]_vars => RivalInv'
  BY NextKeepsRivals
<1>3. TypeInv /\ UniqueInv /\ RivalInv => OncePerAccount
  BY RivalsAreApart
<1> QED
  BY <1>1, <1>2, <1>3, InitIsUnique, LedgerTypes, PTL DEF Spec

(* And what an Apply read of its import stays what is committed.           *)
CurrentRead(r) ==
  LET w == work[r]
  IN /\ w.read = imports[w.import] /\ w.read.status = "review_required"
     /\ tx[r].step # "list" => w.list = rows[w.import]

Parsed(i) == imports[i].status \in {"review_required", "applied"} => Statement[i] # NoParse

ReadInv == /\ \A i \in Imports : Parsed(i)
           /\ \A r \in Requests : tx[r].step \in Applying => CurrentRead(r)

LEMMA QuietlyRead ==
  ASSUME ReadInv, NEW r \in Requests, Alters(r), UNCHANGED <<imports, rows>>,
         tx'[r].step \in Applying => CurrentRead(r)'
  PROVE  ReadInv'
<1>1. \A o \in Requests \ {r} : tx'[o].step \in Applying => CurrentRead(o)'
  BY DEF ReadInv, Alters, CurrentRead
<1>2. \A i \in Imports : Parsed(i)'
  BY DEF ReadInv, Parsed
<1> QED
  BY <1>1, <1>2 DEF ReadInv

LEMMA CommitKeepsRead ==
  ASSUME TypeInv, TypeInv', OnceInv, ReadInv, OneAtATime, NEW r \in Requests,
         (\E cleared \in BOOLEAN : CommitProcess(r, cleared)) \/ CommitApply(r)
  PROVE  ReadInv'
<1> DEFINE i == work[r].import
<1>1. tx[r].step \in {"row", "match"} /\ tx'[r] = NoTx /\ Alters(r)
      /\ \A j \in Imports \ {i} : imports'[j] = imports[j]
  BY DEF CommitProcess, CommitApply, Publish, TypeInv, LedgerType, ImportType, Alters
<1>2. tx[r] # NoTx
  BY <1>1 DEF NoTx
<1>3. \A o \in Requests : tx'[o] = NoTx
  BY <1>1, <1>2, EndsAlone
<1>4. i \in Imports /\ Statement[i] # NoParse
  <2>1. CASE tx[r].step = "row"
    BY <2>1 DEF TypeInv, RequestOK, ProcessingOK, Processing
  <2>2. CASE tx[r].step = "match"
    <3>1. CommitApply(r)
      BY <2>2 DEF CommitProcess
    <3>2. i \in Imports /\ work[r].list # <<>> /\ work[r].list \in Seq(ImportRow)
          /\ rows[i] \in Seq(ImportRow) /\ Len(work[r].list) = Len(rows[i])
      BY <3>1, CommitApplyMoves
    <3>3. rows[i] # <<>>
      BY <3>2, EmptySeq, LenProperties
    <3> QED
      BY <3>2, <3>3 DEF TypeInv, ImportOK
  <2> QED
    BY <1>1, <2>1, <2>2
<1>5. \A j \in Imports : Parsed(j)'
  BY <1>1, <1>4 DEF ReadInv, Parsed
<1>6. \A o \in Requests : tx'[o].step \notin Applying
  BY <1>3 DEF NoTx, Applying
<1> QED
  BY <1>5, <1>6 DEF ReadInv

LEMMA NextKeepsRead ==
  ASSUME TypeInv, TypeInv', OnceInv, ReadInv, [Next /\ OneAtATime]_vars
  PROVE  ReadInv'
<1>1. CASE \E i \in Imports : \/ \E enqueued \in BOOLEAN : ImportBankStatement(i, enqueued)
                             \/ CsvDoesNotParse(i)
  <2>1. PICK i \in Imports : (\E enqueued \in BOOLEAN : ImportBankStatement(i, enqueued))
                              \/ CsvDoesNotParse(i)
    BY <1>1
  <2>2. UNCHANGED <<tx, rows, work>> /\ (\A j \in Imports \ {i} : imports'[j] = imports[j])
        /\ imports'[i].status \in {"queued", "failed"}
    BY <2>1 DEF ImportBankStatement, CsvDoesNotParse, ledgerVars, TypeInv, ImportType, Counters,
                Counts
  <2>3. imports[i].status # "review_required"
    BY <2>1 DEF ImportBankStatement, CsvDoesNotParse, ReadInv, Parsed
  <2>4. ASSUME NEW o \in Requests, tx'[o].step \in Applying PROVE CurrentRead(o)'
    <3>1. CurrentRead(o) /\ work[o].import \in Imports
      BY <2>2, <2>4 DEF ReadInv, TypeInv, RequestOK, ApplyingOK
    <3>2. work[o].import # i
      BY <2>3, <3>1 DEF CurrentRead
    <3> QED
      BY <2>2, <3>1, <3>2 DEF CurrentRead
  <2>5. \A j \in Imports : Parsed(j)'
    BY <2>2 DEF ReadInv, Parsed
  <2> QED
    BY <2>4, <2>5 DEF ReadInv
<1>2. ASSUME NEW r \in Requests, NEW i \in Imports, BeginProcess(r, i) PROVE ReadInv'
  <2>1. Alters(r) /\ UNCHANGED <<imports, rows>> /\ tx'[r].step = "row"
    BY <1>2 DEF BeginProcess, Alters, TypeInv, LedgerType, ImportType, NoTx
  <2> QED
    BY <2>1, QuietlyRead DEF Applying
<1>3. ASSUME NEW r \in Requests, NEW i \in Imports, NEW ms \in Matches, BeginApply(r, i, ms)
      PROVE  ReadInv'
  <2>1. imports[i].status = "review_required"
    BY <1>3 DEF BeginApply
  <2>2. CurrentRead(r)'
    BY <1>3, <2>1, BeginApplyMoves DEF CurrentRead
  <2> QED
    BY <1>3, <2>2, BeginApplyMoves, QuietlyRead
<1>4. ASSUME NEW r \in Requests, ProcessRow(r) \/ PostRow(r) PROVE ReadInv'
  <2>1. tx'[r].step \notin Applying
    BY <1>4, ProcessPlaces DEF Processing, Applying
  <2>2. Alters(r) /\ UNCHANGED <<imports, rows>>
    BY <1>4, ProcessRowMoves, PostRowMoves DEF ProcessRow, PostRow
  <2> QED
    BY <2>1, <2>2, QuietlyRead
<1>5. ASSUME NEW r \in Requests, ListBankStatementRows(r) \/ MatchRow(r) \/ ApplyRow(r) PROVE ReadInv'
  <2>1. /\ Alters(r) /\ UNCHANGED <<imports, rows>> /\ tx[r].step \in Applying
        /\ work'[r].import = work[r].import /\ work'[r].read = work[r].read
        /\ tx[r].step = "list" => work'[r].list = rows[work[r].import]
        /\ tx[r].step # "list" => work'[r].list = work[r].list
    BY <1>5, ListMoves, MatchRowMoves, ApplyRowMoves DEF Applying
  <2>2. CurrentRead(r)'
    BY <2>1 DEF ReadInv, CurrentRead
  <2> QED
    BY <2>1, <2>2, QuietlyRead
<1>6. ASSUME NEW r \in Requests, OneAtATime,
             (\E cleared \in BOOLEAN : CommitProcess(r, cleared)) \/ CommitApply(r)
      PROVE  ReadInv'
  BY <1>6, CommitKeepsRead
<1>7. ASSUME NEW r \in Requests, RollbackImport(r) PROVE ReadInv'
  <2>1. Alters(r) /\ UNCHANGED <<imports, rows>> /\ tx'[r] = NoTx
    BY <1>7 DEF RollbackImport, Alters, TypeInv, LedgerType, ImportType
  <2> QED
    BY <2>1, QuietlyRead DEF NoTx, Applying
<1>8. CASE ReconcileNext /\ UNCHANGED importVars
  <2>1. PICK r \in Requests : \/ \E batch \in Batches : BeginReconcile(r, batch)
                              \/ SkipLine(r) \/ GetLevyAccount(r) \/ PostLine(r)
                              \/ CommitReconcile(r) \/ Rollback(r)
    BY <1>8 DEF ReconcileNext
  <2>2. Alters(r)
    BY <1>8, <2>1, ReconcileIsLedgerStep DEF LedgerStep
  <2>3. tx'[r].step \notin Applying
    BY <1>8, <2>1, ReconcileSteps DEF Applying
  <2> QED
    BY <1>8, <2>2, <2>3, QuietlyRead DEF importVars
<1>9. CASE UNCHANGED vars
  BY <1>9 DEF vars, ledgerVars, importVars, ReadInv, Parsed, CurrentRead
<1> QED
  BY <1>1, <1>2, <1>3, <1>4, <1>5, <1>6, <1>7, <1>8, <1>9 DEF Next

LEMMA InitIsRead == Init => ReadInv
BY DEF Init, LedgerInit, ReadInv, Parsed, NoTx, Applying, Counts

-----------------------------------------------------------------------------
(* One after the other, every payment for a deposit is shown by a row of   *)
(* that deposit: a committed one, or one its handler is yet to commit.     *)
(* Here no line of a batch carries a fingerprint, or the line would post   *)
(* the deposit once more than statements show it.                          *)
LinesAreNoDeposits == \A l \in BatchLines, d \in StatementRows : l.reference # d.fingerprint

ShownBy(r, p, d) ==
  LET w == work[r]
  IN \/ \E n \in 1..Placed(r) : /\ w.list[n] = AppliedRow(p.reference)
                                 /\ Statement[w.import][n].fingerprint = d.fingerprint
     \/ \E x \in w.wrote : /\ x.payment = p.reference
                            /\ Statement[w.import][x.row].fingerprint = d.fingerprint

ShownInv ==
  /\ \A p \in payments, d \in StatementRows : p.reference \in ReferencesOf(d.fingerprint) => Shown(p, d.fingerprint)
  /\ \A r \in Requests : \A p \in tx[r].made, d \in StatementRows :
       p.reference \in ReferencesOf(d.fingerprint) => ShownBy(r, p, d)

LEMMA QuietlyShown ==
  ASSUME ShownInv, NEW r \in Requests, Alters(r), UNCHANGED <<rows, payments>>,
         NEW new \in SUBSET Payment, tx'[r].made \subseteq tx[r].made \cup new,
         \A p \in tx[r].made, d \in StatementRows : ShownBy(r, p, d) => ShownBy(r, p, d)',
         \A p \in new, d \in StatementRows :
           p.reference \in ReferencesOf(d.fingerprint) => ShownBy(r, p, d)'
  PROVE  ShownInv'
<1>1. \A p, f : Shown(p, f)' <=> Shown(p, f)
  BY DEF Shown
<1>2. \A o \in Requests \ {r} : \A p, d : ShownBy(o, p, d)' <=> ShownBy(o, p, d)
  BY DEF ShownBy, Alters, Placed
<1>3. \A o \in Requests \ {r} : tx'[o].made = tx[o].made
  BY DEF Alters
<1>4. \A p \in tx'[r].made, d \in StatementRows :
        p.reference \in ReferencesOf(d.fingerprint) => ShownBy(r, p, d)'
  BY DEF ShownInv
<1>5. \A o \in Requests \ {r} : \A p \in tx'[o].made, d \in StatementRows :
        p.reference \in ReferencesOf(d.fingerprint) => ShownBy(o, p, d)'
  BY <1>2, <1>3 DEF ShownInv
<1>6. \A p \in payments', d \in StatementRows :
        p.reference \in ReferencesOf(d.fingerprint) => Shown(p, d.fingerprint)'
  BY <1>1 DEF ShownInv
<1> QED
  BY <1>4, <1>5, <1>6 DEF ShownInv

LEMMA NothingMade ==
  ASSUME ShownInv, NEW r \in Requests, Alters(r), UNCHANGED <<rows, payments>>,
         tx'[r].made \subseteq tx[r].made,
         \A p \in tx[r].made, d \in StatementRows : ShownBy(r, p, d) => ShownBy(r, p, d)'
  PROVE  ShownInv'
<1> DEFINE new == {}
<1>1. new \in SUBSET Payment /\ tx'[r].made \subseteq tx[r].made \cup new
      /\ \A p \in new, d \in StatementRows :
           p.reference \in ReferencesOf(d.fingerprint) => ShownBy(r, p, d)'
  OBVIOUS
<1> HIDE DEF new
<1> QED
  BY <1>1, QuietlyShown

(* A payment line is for no deposit, a row's payment for its own.          *)
LEMMA LineIsNoDeposit ==
  ASSUME LinesAreNoDeposits, NEW l \in BatchLines, NEW d \in StatementRows
  PROVE  l.reference \notin ReferencesOf(d.fingerprint)
<1>1. l.reference \in References
  <2>1. PICK batch \in Batches : l \in Range(batch)
    BY DEF BatchLines
  <2>2. batch \in Seq(Line)
    BY LedgerAssumption
  <2>3. l \in Line
    BY <2>1, <2>2, LenProperties, ElementOfSeq DEF Range
  <2> QED
    BY <2>3 DEF Line
<1>2. d.fingerprint \in References
  BY RowsHaveReferences
<1>3. l.reference \notin {d.fingerprint} \X Accounts
  BY <1>1, <1>2, FingerprintAssumption
<1> QED
  BY <1>3 DEF LinesAreNoDeposits, ReferencesOf

LEMMA ReferenceOfOne ==
  ASSUME NEW row \in StatementRows, NEW d \in StatementRows, NEW r \in Requests, NEW a \in Accounts,
         ReferenceFor(r, row.fingerprint, a) \in ReferencesOf(d.fingerprint)
  PROVE  row.fingerprint = d.fingerprint
<1>1. row.fingerprint \in References /\ d.fingerprint \in References
  BY RowsHaveReferences
<1>2. CASE ReferenceFor(r, row.fingerprint, a) = row.fingerprint
  BY <1>1, <1>2, FingerprintAssumption DEF ReferencesOf
<1>3. CASE ReferenceFor(r, row.fingerprint, a) = <<row.fingerprint, a>>
  <2>1. <<row.fingerprint, a>> # d.fingerprint
    BY <1>1, FingerprintAssumption
  <2> QED
    BY <1>3, <2>1 DEF ReferencesOf
<1> QED
  BY <1>2, <1>3 DEF ReferenceFor

(* Posting a row makes no payment but the row's.                           *)
LEMMA RowMakesOne ==
  ASSUME TypeInv, NEW r \in Requests, tx[r].step \in {"post", "apply"}, NEW step,
         tx'[r] = [AfterPost(r, RowInHand(r), AccountInHand(r)) EXCEPT !.step = step]
  PROVE  \E new \in SUBSET Payment :
           /\ tx'[r].made = tx[r].made \cup new
           /\ \A p \in new :
                p.reference = ReferenceFor(r, RowInHand(r).fingerprint, AccountInHand(r))
<1> DEFINE row == RowInHand(r)
           a == AccountInHand(r)
<1>1. CASE Existing(r, row.fingerprint, a)
  <2> DEFINE new == {}
  <2>1. new \in SUBSET Payment /\ tx'[r].made = tx[r].made \cup new
        /\ \A p \in new : p.reference = ReferenceFor(r, row.fingerprint, a)
    BY <1>1 DEF AfterPost, TypeInv, LedgerType, Tx
  <2> HIDE DEF new
  <2> QED
    BY <2>1
<1>2. CASE ~Existing(r, row.fingerprint, a)
  <2> DEFINE p == PaymentFor(r, row, a)
  <2>1. p \in Payment
    BY RowInHandType, PaymentForIsPayment
  <2>2. p.reference = ReferenceFor(r, row.fingerprint, a)
    BY DEF PaymentFor
  <2>3. tx'[r] = [Posted(r, p) EXCEPT !.step = step]
    BY <1>2 DEF AfterPost
  <2> HIDE DEF p
  <2>4. Posted(r, p) \in Tx /\ Posted(r, p).made = tx[r].made \cup {p}
    BY <2>1, PostedIsTx
  <2>5. tx'[r].made = tx[r].made \cup {p}
    BY <2>3, <2>4 DEF Tx
  <2> DEFINE new == {p}
  <2>6. new \in SUBSET Payment /\ tx'[r].made = tx[r].made \cup new
        /\ \A q \in new : q.reference = ReferenceFor(r, row.fingerprint, a)
    BY <2>1, <2>2, <2>5
  <2> HIDE DEF new
  <2> QED
    BY <2>6
<1> QED
  BY <1>1, <1>2

LEMMA ReconcileKeepsShown ==
  ASSUME TypeInv, ShownInv, LinesAreNoDeposits, NEW r \in Requests, UNCHANGED importVars,
         \/ \E batch \in Batches : BeginReconcile(r, batch)
         \/ SkipLine(r) \/ GetLevyAccount(r) \/ PostLine(r)
         \/ CommitReconcile(r) \/ Rollback(r)
  PROVE  ShownInv'
<1>1. /\ LedgerStep(r) /\ Alters(r) /\ UNCHANGED <<rows, work>>
      /\ tx[r].step \in {"none", "read", "write"} /\ tx'[r].step \in {"none", "read", "write"}
  <2>1. LedgerStep(r) /\ tx'[r].step \in {"none", "read", "write"}
    BY ReconcileIsLedgerStep, ReconcileSteps
  <2>2. tx[r].step \in {"none", "read", "write"}
    <3>1. tx[r] = NoTx \/ tx[r].step \in {"read", "write"}
      BY DEF BeginReconcile, SkipLine, GetLevyAccount, PostLine, CommitReconcile, Rollback
    <3>2. NoTx.step = "none"
      BY DEF NoTx
    <3> QED
      BY <3>1, <3>2
  <2> QED
    BY <2>1, <2>2 DEF LedgerStep, importVars
<1>2. \A p, d : ShownBy(r, p, d)' <=> ShownBy(r, p, d)
  BY <1>1 DEF ShownBy, Placed
<1>3. CASE Reads(r)
  <2>1. UNCHANGED <<rows, payments>> /\ tx'[r].made \subseteq tx[r].made
    BY <1>1, <1>3 DEF Reads
  <2> QED
    BY <1>1, <1>2, <2>1, NothingMade
<1>4. CASE Drops(r)
  <2>1. UNCHANGED <<rows, payments>> /\ tx'[r].made \subseteq tx[r].made
    BY <1>1, <1>4 DEF Drops, NoTx
  <2> QED
    BY <1>1, <1>2, <2>1, NothingMade
<1>5. CASE Posts(r)
  <2>1. tx[r].step = "write"
    BY <1>1, <1>5 DEF Posts, Posting
  <2>2. Head(tx[r].lines) \in BatchLines
    BY <2>1, TailLines DEF TypeInv, RequestOK
  <2> DEFINE new == {Head(tx[r].lines)}
  <2>3. UNCHANGED <<rows, payments>> /\ tx'[r].made = tx[r].made \cup new /\ new \in SUBSET Payment
    BY <1>1, <1>5, <2>1, PostedIsNew DEF Posts, PaymentInHand
  <2>4. \A p \in new, d \in StatementRows : p.reference \notin ReferencesOf(d.fingerprint)
    BY <2>2, LineIsNoDeposit
  <2> HIDE DEF new
  <2> QED
    BY <1>1, <1>2, <2>3, <2>4, QuietlyShown
<1>6. CASE Commits(r)
  <2>1. payments' = SeenPayments(r) /\ tx'[r] = NoTx
    BY <1>6 DEF Commits, Publish
  <2>2. work[r] = NoWork
    BY <1>1 DEF TypeInv, RequestOK, Processing, Applying
  <2>3. \A p \in tx[r].made, d \in StatementRows : p.reference \notin ReferencesOf(d.fingerprint)
    <3>1. \A p, d : ~ShownBy(r, p, d)
      <4>1. Placed(r) = 0
        BY <1>1, <2>2 DEF Placed, NoWork
      <4> QED
        BY <2>2, <4>1 DEF ShownBy, NoWork
    <3> QED
      BY <3>1 DEF ShownInv
  <2>4. \A p, f : Shown(p, f)' <=> Shown(p, f)
    BY <1>1 DEF Shown
  <2>5. \A p \in payments', d \in StatementRows :
          p.reference \in ReferencesOf(d.fingerprint) => Shown(p, d.fingerprint)'
    BY <2>1, <2>3, <2>4 DEF ShownInv, SeenPayments
  <2>6. ASSUME NEW o \in Requests, NEW p \in tx'[o].made, NEW d \in StatementRows,
               p.reference \in ReferencesOf(d.fingerprint)
        PROVE  ShownBy(o, p, d)'
    <3>1. o # r
      BY <2>1, <2>6 DEF NoTx
    <3>2. tx'[o] = tx[o] /\ ShownBy(o, p, d)
      BY <1>1, <2>6, <3>1 DEF Alters, ShownInv
    <3> QED
      BY <1>1, <3>2 DEF ShownBy, Placed
  <2> QED
    BY <2>5, <2>6 DEF ShownInv
<1> QED
  BY <1>1, <1>3, <1>4, <1>5, <1>6 DEF LedgerStep

LEMMA ProcessRowKeepsShown ==
  ASSUME TypeInv, ShownInv, NEW r \in Requests, ProcessRow(r)
  PROVE  ShownInv'
<1> DEFINE w == work[r]
<1>1. /\ Alters(r) /\ rows' = rows /\ payments' = payments /\ Placed(r) = Len(w.list)
      /\ w.list \in Seq(ImportRow) /\ Len(w.list) \in Nat /\ w.wrote = {}
  BY ProcessRowMoves DEF ProcessingOK
<1>2. PICK row \in ImportRow :
        /\ work'[r].list = Append(w.list, row) /\ work'[r].import = w.import
        /\ work'[r].wrote = {} /\ tx'[r].made = tx[r].made /\ tx'[r].step \in {"row", "post"}
  BY ProcessRowMoves
<1>3. Len(work'[r].list) = Len(w.list) + 1
      /\ \A n \in 1..Len(w.list) : work'[r].list[n] = w.list[n]
  BY <1>1, <1>2, AppendProperties
<1>4. 1..Len(w.list) \subseteq 1..(Placed(r)')
  BY <1>1, <1>2, <1>3 DEF Placed
<1>5. \A p, d : ShownBy(r, p, d) => ShownBy(r, p, d)'
  BY <1>1, <1>2, <1>3, <1>4 DEF ShownBy
<1> QED
  BY <1>1, <1>2, <1>5, NothingMade

LEMMA PostRowKeepsShown ==
  ASSUME TypeInv, ShownInv, NEW r \in Requests, PostRow(r)
  PROVE  ShownInv'
<1> DEFINE w == work[r]
           row == RowInHand(r)
           a == AccountInHand(r)
           ref == ReferenceFor(r, row.fingerprint, a)
           k == Len(w.list)
<1>1. /\ Alters(r) /\ rows' = rows /\ payments' = payments /\ tx[r].step = "post"
      /\ w.list \in Seq(ImportRow) /\ k \in Nat \ {0} /\ w.todo # <<>> /\ ProcessingOK(r)
      /\ Placed(r) = k - 1 /\ Placed(r)' = k
      /\ row = Head(w.todo) /\ ref \in PaymentReference
      /\ tx'[r] = [AfterPost(r, row, a) EXCEPT !.step = "row"]
      /\ work'[r].list = [w.list EXCEPT ![k] = AppliedRow(ref)]
      /\ work'[r].import = w.import /\ work'[r].wrote = {}
  BY PostRowMoves
<1>2. row \in StatementRows /\ a \in Accounts
  BY <1>1, RowInHandIsOne, RowInHandType
<1>3. Statement[w.import][k] = row
  <2>1. Statement[w.import] \in Seq(StatementRow)
    BY <1>1, ImportAssumption DEF ProcessingOK
  <2>2. Len(Statement[w.import]) \in Nat
    BY <2>1, LenProperties
  <2>3. Head(w.todo) = Statement[w.import][Placed(r) + 1]
    BY <1>1, <2>2, RowAtHand DEF Processing
  <2>4. Placed(r) + 1 = k
    BY <1>1
  <2> QED
    BY <1>1, <2>3, <2>4
<1> HIDE DEF ref, row, a, k
<1>4. k \in 1..Len(w.list) /\ w.wrote = {}
  BY <1>1 DEF k, ProcessingOK
<1>5. work'[r].list[k] = AppliedRow(ref) /\ \A n \in 1..(k - 1) : work'[r].list[n] = w.list[n]
  <2>1. DOMAIN w.list = 1..Len(w.list)
    BY <1>1, LenProperties
  <2>2. \A n \in 1..(k - 1) : n \in DOMAIN w.list /\ n # k
    BY <1>1, <1>4, <2>1 DEF k
  <2> QED
    BY <1>1, <1>4, <2>1, <2>2
<1>6. 1..(k - 1) \subseteq 1..k /\ k \in 1..k
  BY <1>1
<1>7. \A p, d : ShownBy(r, p, d) => ShownBy(r, p, d)'
  BY <1>1, <1>4, <1>5, <1>6 DEF ShownBy
<1>8. \A p : \A d \in StatementRows : p.reference = ref /\ row.fingerprint = d.fingerprint
                                           => ShownBy(r, p, d)'
  BY <1>1, <1>3, <1>5, <1>6 DEF ShownBy
<1>9. PICK new \in SUBSET Payment :
        /\ tx'[r].made = tx[r].made \cup new /\ \A p \in new : p.reference = ref
  <2>1. tx[r].step \in {"post", "apply"}
    BY <1>1
  <2> QED
    BY <1>1, <2>1, RowMakesOne DEF ref, row, a
<1>10. \A p \in new, d \in StatementRows :
         p.reference \in ReferencesOf(d.fingerprint) => ShownBy(r, p, d)'
  <2>1. \A d \in StatementRows : ref \in ReferencesOf(d.fingerprint)
                                    => row.fingerprint = d.fingerprint
    BY <1>2, ReferenceOfOne DEF ref
  <2> QED
    BY <1>8, <1>9, <2>1
<1> QED
  BY <1>1, <1>7, <1>9, <1>10, QuietlyShown

LEMMA ApplyRowKeepsShown ==
  ASSUME TypeInv, ShownInv, NEW r \in Requests, ApplyRow(r)
  PROVE  ShownInv'
<1> DEFINE w == work[r]
           row == RowInHand(r)
           a == AccountInHand(r)
           ref == ReferenceFor(r, row.fingerprint, a)
           m == Head(w.todo)
<1>1. /\ Alters(r) /\ rows' = rows /\ payments' = payments /\ tx[r].step = "apply"
      /\ row = Statement[w.import][m.row] /\ tx'[r].step = "match"
      /\ tx'[r] = [AfterPost(r, row, a) EXCEPT !.step = "match"]
      /\ work'[r].list = w.list /\ work'[r].import = w.import
      /\ work'[r].wrote = w.wrote \cup {[row |-> m.row, payment |-> ref]}
  BY ApplyRowMoves
<1>2. row \in StatementRows /\ a \in Accounts
  BY <1>1, RowInHandIsOne, RowInHandType
<1> HIDE DEF ref, row, a, m
<1>3. Placed(r)' = Placed(r)
  BY <1>1 DEF Placed
<1>4. \A p, d : ShownBy(r, p, d) => ShownBy(r, p, d)'
  BY <1>1, <1>3 DEF ShownBy
<1>5. \A p : \A d \in StatementRows : p.reference = ref /\ row.fingerprint = d.fingerprint
                                           => ShownBy(r, p, d)'
  <2> DEFINE x == [row |-> m.row, payment |-> ref]
  <2>1. x \in work'[r].wrote /\ x.row = m.row /\ x.payment = ref
    BY <1>1
  <2> HIDE DEF x
  <2> QED
    BY <1>1, <2>1 DEF ShownBy
<1>6. PICK new \in SUBSET Payment :
        /\ tx'[r].made = tx[r].made \cup new /\ \A p \in new : p.reference = ref
  <2>1. tx[r].step \in {"post", "apply"}
    BY <1>1
  <2> QED
    BY <1>1, <2>1, RowMakesOne DEF ref, row, a
<1>7. \A p \in new, d \in StatementRows :
         p.reference \in ReferencesOf(d.fingerprint) => ShownBy(r, p, d)'
  <2>1. \A d \in StatementRows : ref \in ReferencesOf(d.fingerprint)
                                    => row.fingerprint = d.fingerprint
    BY <1>2, ReferenceOfOne DEF ref
  <2> QED
    BY <1>5, <1>6, <2>1
<1> QED
  BY <1>1, <1>4, <1>6, <1>7, QuietlyShown

LEMMA OthersKeepShown ==
  ASSUME TypeInv, ShownInv, NEW r \in Requests,
         \/ \E i \in Imports : \/ BeginProcess(r, i)
                               \/ \E ms \in Matches : BeginApply(r, i, ms)
         \/ ListBankStatementRows(r) \/ MatchRow(r) \/ RollbackImport(r)
  PROVE  ShownInv'
<1>1. CASE \E i \in Imports : \/ BeginProcess(r, i)
                             \/ \E ms \in Matches : BeginApply(r, i, ms)
  <2>1. UNCHANGED <<rows, payments>> /\ tx[r] = NoTx
    BY <1>1 DEF BeginProcess, BeginApply
  <2>2. \E step : tx' = [tx EXCEPT ![r].step = step]
    BY <1>1 DEF BeginProcess, BeginApply
  <2>3. Alters(r)
    BY <1>1 DEF BeginProcess, BeginApply, Alters, TypeInv, LedgerType, ImportType
  <2>4. tx'[r].made = {} /\ tx[r].made = {}
    BY <2>1, <2>2 DEF NoTx, TypeInv, LedgerType
  <2> QED
    BY <2>1, <2>3, <2>4, NothingMade
<1>2. CASE ListBankStatementRows(r)
  <2>1. Alters(r) /\ UNCHANGED <<rows, payments>> /\ tx[r].step = "list" /\ work[r].wrote = {}
        /\ tx'[r].made = tx[r].made
    BY <1>2, ListMoves
  <2>2. Placed(r) = 0
    BY <2>1 DEF Placed, TypeInv, RequestOK, ApplyingOK, Applying
  <2>3. \A p, d : ~ShownBy(r, p, d)
    BY <2>1, <2>2 DEF ShownBy
  <2> QED
    BY <2>1, <2>3, NothingMade
<1>3. CASE MatchRow(r)
  <2>1. /\ Alters(r) /\ UNCHANGED <<rows, payments>> /\ tx[r].step = "match"
        /\ tx'[r].made = tx[r].made /\ work'[r].list = work[r].list
        /\ work'[r].import = work[r].import /\ work'[r].wrote = work[r].wrote
        /\ tx'[r].step \in {"match", "apply"}
    BY <1>3, MatchRowMoves
  <2>2. Placed(r)' = Placed(r)
    BY <2>1 DEF Placed
  <2>3. \A p, d : ShownBy(r, p, d) => ShownBy(r, p, d)'
    BY <2>1, <2>2 DEF ShownBy
  <2> QED
    BY <2>1, <2>3, NothingMade
<1>4. CASE RollbackImport(r)
  <2>1. Alters(r) /\ UNCHANGED <<rows, payments>> /\ tx'[r] = NoTx
    BY <1>4 DEF RollbackImport, Alters, TypeInv, LedgerType, ImportType
  <2>2. /\ \A p, f : Shown(p, f)' <=> Shown(p, f)
        /\ \A o \in Requests \ {r} : \A p, d : ShownBy(o, p, d)' <=> ShownBy(o, p, d)
        /\ tx'[r].made = {}
    BY <2>1 DEF Shown, ShownBy, Alters, Placed, NoTx
  <2>3. \A p \in payments', d \in StatementRows :
          p.reference \in ReferencesOf(d.fingerprint) => Shown(p, d.fingerprint)'
    BY <2>1, <2>2 DEF ShownInv
  <2>4. \A o \in Requests : \A p \in tx'[o].made, d \in StatementRows :
          p.reference \in ReferencesOf(d.fingerprint) => ShownBy(o, p, d)'
    BY <2>1, <2>2 DEF ShownInv, Alters
  <2> QED
    BY <2>3, <2>4 DEF ShownInv
<1> QED
  BY <1>1, <1>2, <1>3, <1>4

LEMMA CommitShown ==
  ASSUME ShownInv, OneAtATime, NEW r \in Requests, Alters(r), tx'[r] = NoTx, tx[r] # NoTx,
         payments' = SeenPayments(r),
         \A p \in payments, d \in StatementRows : Shown(p, d.fingerprint) => Shown(p, d.fingerprint)',
         \A p \in tx[r].made, d \in StatementRows : ShownBy(r, p, d) => Shown(p, d.fingerprint)'
  PROVE  ShownInv'
<1>1. \A o \in Requests : tx'[o].made = {}
  BY EndsAlone DEF NoTx
<1>2. \A p \in payments', d \in StatementRows :
        p.reference \in ReferencesOf(d.fingerprint) => Shown(p, d.fingerprint)'
  BY DEF ShownInv, SeenPayments
<1> QED
  BY <1>1, <1>2 DEF ShownInv

LEMMA CommitProcessKeepsShown ==
  ASSUME TypeInv, ShownInv, OneAtATime, NEW r \in Requests, NEW cleared \in BOOLEAN,
         CommitProcess(r, cleared)
  PROVE  ShownInv'
<1> DEFINE w == work[r]
           i == w.import
<1>1. /\ tx[r].step = "row" /\ tx'[r] = NoTx /\ Alters(r) /\ payments' = SeenPayments(r)
      /\ rows' = [rows EXCEPT ![i] = @ \o w.list] /\ w.list \in Seq(ImportRow)
      /\ rows \in [Imports -> Seq(ImportRow)]
  BY DEF CommitProcess, Publish, Alters, TypeInv, LedgerType, ImportType, Work
<1>2. ProcessingOK(r) /\ i \in Imports /\ w.wrote = {} /\ Placed(r) = Len(w.list)
  BY <1>1 DEF TypeInv, RequestOK, ProcessingOK, Processing, Placed
<1>3. tx[r] # NoTx
  BY <1>1 DEF NoTx
<1>4. rows'[i] = rows[i] \o w.list /\ \A j \in Imports \ {i} : rows'[j] = rows[j]
  BY <1>1, <1>2
<1>5. ASSUME NEW j \in Imports, NEW n \in 1..Len(rows[j])
      PROVE  n \in 1..Len(rows'[j]) /\ rows'[j][n] = rows[j][n]
  <2>1. CASE j = i
    <3> DEFINE s == rows[i]
               t == w.list
    <3>1. s \in Seq(ImportRow) /\ t \in Seq(ImportRow) /\ rows'[j] = s \o t /\ n \in 1..Len(s)
      BY <1>1, <1>2, <1>4, <1>5, <2>1
    <3> HIDE DEF s, t
    <3>2. Len(s) \in Nat /\ Len(t) \in Nat
      BY <3>1, LenProperties
    <3>3. /\ Len(s \o t) = Len(s) + Len(t)
          /\ \A k \in 1..Len(s) + Len(t) : (s \o t)[k] = IF k <= Len(s) THEN s[k] ELSE t[k - Len(s)]
      BY <3>1, ConcatProperties
    <3>4. n \in 1..Len(s) + Len(t) /\ n <= Len(s)
      BY <3>1, <3>2
    <3>5. (s \o t)[n] = s[n] /\ n \in 1..Len(s \o t)
      BY <3>3, <3>4
    <3> QED
      BY <2>1, <3>1, <3>5 DEF s
  <2>2. CASE j # i
    BY <1>4, <1>5, <2>2
  <2> QED
    BY <2>1, <2>2
<1>6. \A p, f : Shown(p, f) => Shown(p, f)'
  BY <1>5 DEF Shown
<1>7. ASSUME NEW p, NEW d, ShownBy(r, p, d) PROVE Shown(p, d.fingerprint)'
  <2>1. PICK n \in 1..Len(w.list) : /\ w.list[n] = AppliedRow(p.reference)
                                    /\ Statement[i][n].fingerprint = d.fingerprint
    BY <1>2, <1>7 DEF ShownBy
  <2>2. w.list # <<>>
    BY <2>1
  <2>3. rows[i] = <<>>
    BY <1>1, <2>2 DEF TypeInv, ListOK, Processing
  <2>4. rows'[i] = w.list
    BY <1>1, <1>4, <2>3, ConcatEmptySeq
  <2> QED
    BY <1>2, <2>1, <2>4 DEF Shown
<1> QED
  BY <1>1, <1>3, <1>6, <1>7, CommitShown

LEMMA CommitApplyKeepsShown ==
  ASSUME TypeInv, TypeInv', OnceInv, ReadInv, ShownInv, OneAtATime, NEW r \in Requests, CommitApply(r)
  PROVE  ShownInv'
<1> DEFINE w == work[r]
           i == w.import
<1>1. /\ i \in Imports /\ tx[r].step = "match" /\ ApplyingOK(r) /\ ApplyingOnce(r)
      /\ DOMAIN w.list = 1..Len(w.list) /\ Len(rows'[i]) = Len(rows[i])
      /\ \A n \in 1..Len(rows[i]) :
           rows'[i][n] = IF Wrote(w, n)
                         THEN AppliedRow((CHOOSE x \in w.wrote : x.row = n).payment)
                         ELSE rows[i][n]
      /\ \A j \in Imports \ {i} : rows'[j] = rows[j]
      /\ Alters(r) /\ tx'[r] = NoTx
  BY CommitApplyMoves
<1>2. payments' = SeenPayments(r) /\ tx[r] # NoTx
  BY <1>1 DEF CommitApply, Publish, NoTx
<1>3. w.list = rows[i] /\ Placed(r) = Len(w.list)
  BY <1>1 DEF ReadInv, CurrentRead, Applying, Placed
<1>4. ASSUME NEW j \in Imports, NEW n \in 1..Len(rows[j]), rows[j][n].status = "applied"
      PROVE  n \in 1..Len(rows'[j]) /\ rows'[j][n] = rows[j][n]
  <2>1. CASE j = i
    <3>1. ~Wrote(w, n)
      BY <1>1, <1>3, <1>4, <2>1 DEF Wrote, ApplyingOnce
    <3> QED
      BY <1>1, <1>4, <2>1, <3>1
  <2>2. CASE j # i
    BY <1>1, <1>4, <2>2
  <2> QED
    BY <2>1, <2>2
<1>5. \A ref : AppliedRow(ref).status = "applied"
  BY DEF AppliedRow
<1>6. \A p, f : Shown(p, f) => Shown(p, f)'
  BY <1>4, <1>5 DEF Shown
<1>7. ASSUME NEW p, NEW d, ShownBy(r, p, d) PROVE Shown(p, d.fingerprint)'
  <2>1. CASE \E n \in 1..Placed(r) : /\ w.list[n] = AppliedRow(p.reference)
                                     /\ Statement[i][n].fingerprint = d.fingerprint
    <3>1. Shown(p, d.fingerprint)
      BY <1>1, <1>3, <2>1 DEF Shown
    <3> QED
      BY <1>6, <3>1
  <2>2. CASE \E x \in w.wrote : /\ x.payment = p.reference
                                /\ Statement[i][x.row].fingerprint = d.fingerprint
    <3>1. PICK x \in w.wrote : /\ x.payment = p.reference
                               /\ Statement[i][x.row].fingerprint = d.fingerprint
      BY <2>2
    <3>2. x.row \in 1..Len(rows[i]) /\ Wrote(w, x.row)
      BY <1>1, <1>3, <3>1 DEF ApplyingOK, Wrote
    <3>3. (CHOOSE y \in w.wrote : y.row = x.row) = x
      BY <1>1 DEF ApplyingOnce
    <3>4. rows'[i][x.row] = AppliedRow(p.reference)
      BY <1>1, <3>1, <3>2, <3>3
    <3> QED
      BY <1>1, <3>1, <3>2, <3>4 DEF Shown
  <2> QED
    BY <1>7, <2>1, <2>2 DEF ShownBy
<1> QED
  BY <1>1, <1>2, <1>6, <1>7, CommitShown

LEMMA NextKeepsShown ==
  ASSUME LinesAreNoDeposits, TypeInv, TypeInv', OnceInv, ReadInv, ShownInv, [Next /\ OneAtATime]_vars
  PROVE  ShownInv'
<1>1. CASE UNCHANGED <<payments, tx, rows, work>>
  BY <1>1 DEF ShownInv, Shown, ShownBy, Placed
<1>2. CASE \E i \in Imports : \/ \E enqueued \in BOOLEAN : ImportBankStatement(i, enqueued)
                             \/ CsvDoesNotParse(i)
  BY <1>1, <1>2 DEF ImportBankStatement, CsvDoesNotParse, ledgerVars
<1>3. CASE UNCHANGED vars
  BY <1>1, <1>3 DEF vars, ledgerVars, importVars
<1>4. CASE \E r \in Requests, i \in Imports : \/ BeginProcess(r, i)
                                             \/ \E ms \in Matches : BeginApply(r, i, ms)
  BY <1>4, OthersKeepShown
<1>5. ASSUME OneAtATime, NEW r \in Requests,
             \/ ProcessRow(r) \/ PostRow(r) \/ \E cleared \in BOOLEAN : CommitProcess(r, cleared)
             \/ ListBankStatementRows(r) \/ MatchRow(r) \/ ApplyRow(r)
             \/ CommitApply(r) \/ RollbackImport(r)
      PROVE  ShownInv'
  BY <1>5, OthersKeepShown, ProcessRowKeepsShown, PostRowKeepsShown, ApplyRowKeepsShown,
     CommitProcessKeepsShown, CommitApplyKeepsShown
<1>6. CASE ReconcileNext /\ UNCHANGED importVars
  BY <1>6, ReconcileKeepsShown DEF ReconcileNext
<1> QED
  BY <1>2, <1>3, <1>4, <1>5, <1>6 DEF Next

LEMMA InitIsShown == Init => ShownInv
BY DEF Init, LedgerInit, ShownInv, NoTx

LEMMA ShownHaveRows == ShownInv => PaymentsHaveRows
BY DEF ShownInv, PaymentsHaveRows

-----------------------------------------------------------------------------
(* The counters of an import are those of its rows.                        *)
LEMMA ApartAddUp ==
  ASSUME NEW S, NEW T, IsFiniteSet(S), IsFiniteSet(T), S \cap T = {}
  PROVE  /\ IsFiniteSet(S \cup T) /\ Cardinality(S \cup T) \in Nat
         /\ Cardinality(S \cup T) = Cardinality(S) + Cardinality(T)
<1>1. /\ IsFiniteSet(S \cup T)
      /\ Cardinality(S \cup T) = Cardinality(S) + Cardinality(T) - Cardinality(S \cap T)
  BY FS_Union
<1>2. Cardinality(S \cap T) = 0
  BY FS_EmptySet
<1>3. Cardinality(S) \in Nat /\ Cardinality(T) \in Nat /\ Cardinality(S \cup T) \in Nat
  BY <1>1, FS_CardinalityType
<1> QED
  BY <1>1, <1>2, <1>3

LEMMA PartsOfList ==
  ASSUME NEW list \in Seq(ImportRow)
  PROVE  /\ CountRows(list, "applied") \in Nat /\ CountRows(list, "ambiguous") \in Nat
         /\ CountRows(list, "unmatched") \in Nat
         /\ CountRows(list, "applied") + CountRows(list, "ambiguous") + CountRows(list, "unmatched")
              = Len(list)
<1> DEFINE A == {n \in DOMAIN list : list[n].status = "applied"}
           B == {n \in DOMAIN list : list[n].status = "ambiguous"}
           C == {n \in DOMAIN list : list[n].status = "unmatched"}
<1>1. IsFiniteSet(A) /\ IsFiniteSet(B) /\ IsFiniteSet(C)
      /\ Cardinality(A) \in Nat /\ Cardinality(B) \in Nat /\ Cardinality(C) \in Nat
  BY CountRowsType DEF CountRows
<1>2. Len(list) \in Nat /\ DOMAIN list = 1..Len(list) /\ \A n \in 1..Len(list) : list[n] \in ImportRow
  BY LenProperties, ElementOfSeq
<1>3. Cardinality(1..Len(list)) = Len(list)
  <2>1. Len(list) \in Nat
    BY <1>2
  <2> QED
    BY <2>1, FS_Interval
<1>4. A \cup B \cup C = 1..Len(list)
  BY <1>2 DEF ImportRow
<1>5. A \cap B = {} /\ (A \cup B) \cap C = {}
  OBVIOUS
<1> HIDE DEF A, B, C
<1>6. IsFiniteSet(A \cup B) /\ Cardinality(A \cup B) = Cardinality(A) + Cardinality(B)
  BY <1>1, <1>5, ApartAddUp
<1>7. Cardinality(A \cup B \cup C) = Cardinality(A \cup B) + Cardinality(C)
  BY <1>1, <1>5, <1>6, ApartAddUp
<1>8. Cardinality(A) + Cardinality(B) + Cardinality(C) = Len(list)
  BY <1>1, <1>3, <1>4, <1>6, <1>7
<1> QED
  BY <1>1, <1>8 DEF CountRows, A, B, C

(* A set of rows that are all different has as many as they have numbers.  *)
LEMMA AsManyRows ==
  ASSUME NEW S, IsFiniteSet(S), \A x, y \in S : x.row = y.row => x = y
  PROVE  IsFiniteSet({x.row : x \in S}) /\ Cardinality({x.row : x \in S}) = Cardinality(S)
<1> DEFINE T == {x.row : x \in S}
           f == [x \in S |-> x.row]
<1>1. f \in Bijection(S, T)
  BY DEF Bijection, Injection, Surjection, IsInjective
<1> HIDE DEF f, T
<1>2. ExistsBijection(S, T)
  BY <1>1 DEF ExistsBijection
<1>3. IsFiniteSet(T) /\ Cardinality(T) = Cardinality(S)
  BY <1>2, FS_Bijection
<1> QED
  BY <1>3 DEF T

CountersInv == CountersMatchRows

LEMMA OthersKeepCounters ==
  ASSUME CountersInv, blind \subseteq blind', NEW i,
         \A j \in Imports \ {i} : rows'[j] = rows[j] /\ imports'[j] = imports[j],
         i \in Imports \ blind' /\ imports'[i].status \in {"review_required", "applied"} =>
           /\ imports'[i].total = Len(rows'[i])
           /\ imports'[i].applied = CountRows(rows'[i], "applied")
           /\ imports'[i].ambiguous = CountRows(rows'[i], "ambiguous")
           /\ imports'[i].unmatched = CountRows(rows'[i], "unmatched")
           /\ imports'[i].status = "applied" <=> imports'[i].applied = imports'[i].total
  PROVE  CountersInv'
<1>1. SUFFICES ASSUME NEW j \in Imports \ blind',
                      imports'[j].status \in {"review_required", "applied"}
               PROVE  /\ imports'[j].total = Len(rows'[j])
                      /\ imports'[j].applied = CountRows(rows'[j], "applied")
                      /\ imports'[j].ambiguous = CountRows(rows'[j], "ambiguous")
                      /\ imports'[j].unmatched = CountRows(rows'[j], "unmatched")
                      /\ imports'[j].status = "applied" <=> imports'[j].applied = imports'[j].total
  BY DEF CountersInv, CountersMatchRows, CountRows
<1>2. CASE j # i
  BY <1>1, <1>2 DEF CountersInv, CountersMatchRows
<1> QED
  BY <1>1, <1>2

LEMMA BlindCommitKeepsCounters ==
  ASSUME TypeInv, CountersInv, NEW r \in Requests, work[r].import \in blind,
         (\E cleared \in BOOLEAN : CommitProcess(r, cleared)) \/ CommitApply(r)
  PROVE  CountersInv'
<1>1. /\ \A j \in Imports \ {work[r].import} : rows'[j] = rows[j] /\ imports'[j] = imports[j]
      /\ blind' = blind
  BY CommitsAreOfOne
<1> QED
  BY <1>1, OthersKeepCounters

LEMMA CommitProcessKeepsCounters ==
  ASSUME TypeInv, DoneInv, CountersInv, NEW r \in Requests, NEW cleared \in BOOLEAN,
         CommitProcess(r, cleared), work[r].import \notin blind
  PROVE  CountersInv'
<1> DEFINE i == work[r].import
           list == work[r].list
           applied == CountRows(list, "applied")
           ambiguous == CountRows(list, "ambiguous")
           unmatched == CountRows(list, "unmatched")
           status == IF ambiguous + unmatched = 0 THEN "applied" ELSE "review_required"
<1>1. /\ list \in Seq(ImportRow) /\ Len(list) \in Nat /\ rows'[i] = list
      /\ imports'[i] = Counts(status, Len(list), applied, ambiguous, unmatched, applied)
      /\ \A j \in Imports \ {i} : rows'[j] = rows[j] /\ imports'[j] = imports[j]
      /\ blind' = blind
  BY CommitProcessMoves
<1>2. applied \in Nat /\ ambiguous \in Nat /\ unmatched \in Nat
      /\ applied + ambiguous + unmatched = Len(list)
  BY <1>1, PartsOfList
<1>3. status = "applied" <=> applied = Len(list)
  BY <1>1, <1>2
<1>4. /\ imports'[i].total = Len(list) /\ imports'[i].applied = applied
      /\ imports'[i].ambiguous = ambiguous /\ imports'[i].unmatched = unmatched
      /\ imports'[i].status = status
  BY <1>1 DEF Counts
<1> HIDE DEF status
<1> QED
  BY <1>1, <1>3, <1>4, OthersKeepCounters

LEMMA CommitApplyKeepsCounters ==
  ASSUME TypeInv, TypeInv', OnceInv, ReadInv, CountersInv, NEW r \in Requests, CommitApply(r),
         work[r].import \notin blind
  PROVE  CountersInv'
<1> DEFINE w == work[r]
           i == w.import
           old == rows[i]
           new == rows'[i]
           status == IF AppliedCount(w) >= w.read.total /\ w.read.total > 0
                     THEN "applied" ELSE "review_required"
<1>0. blind \subseteq blind' /\ \A j \in Imports \ {i} : rows'[j] = rows[j] /\ imports'[j] = imports[j]
  BY CommitsAreOfOne
<1>1. /\ i \in Imports /\ tx[r].step = "match" /\ IsFiniteSet(w.wrote) /\ w.list # <<>>
      /\ ApplyingOK(r) /\ ApplyingOnce(r) /\ w.list \in Seq(ImportRow)
      /\ old \in Seq(ImportRow) /\ new \in Seq(ImportRow) /\ Len(old) \in Nat
      /\ DOMAIN old = 1..Len(old) /\ DOMAIN new = 1..Len(old) /\ Len(new) = Len(old)
  BY CommitApplyMoves
<1>2. \A n \in 1..Len(old) : new[n] = IF Wrote(w, n)
                                      THEN AppliedRow((CHOOSE x \in w.wrote : x.row = n).payment)
                                      ELSE old[n]
  BY CommitApplyMoves
<1>3. imports'[i] = Counts(status, w.read.total, w.read.matched,
                           Less(w.read.ambiguous, w, "ambiguous"),
                           Less(w.read.unmatched, w, "unmatched"), AppliedCount(w))
  BY CommitApplyMoves
<1>4. w.list = old /\ w.read = imports[i] /\ w.read.status = "review_required"
  BY <1>1 DEF ReadInv, CurrentRead, Applying
<1>5. /\ w.read.total = Len(old) /\ w.read.applied = CountRows(old, "applied")
      /\ w.read.ambiguous = CountRows(old, "ambiguous")
      /\ w.read.unmatched = CountRows(old, "unmatched")
  BY <1>1, <1>4 DEF CountersInv, CountersMatchRows
<1> HIDE DEF old, new, i
<1>6. \A n \in 1..Len(old) : new[n].status = IF Wrote(w, n) THEN "applied" ELSE old[n].status
  <2>1. \A payment : AppliedRow(payment).status = "applied"
    BY DEF AppliedRow
  <2> QED
    BY <1>2, <2>1
<1>7. /\ \A x \in w.wrote : x.row \in 1..Len(old) /\ old[x.row].status # "applied"
      /\ \A x, y \in w.wrote : x.row = y.row => x = y
  BY <1>1, <1>4 DEF ApplyingOK, ApplyingOnce
<1>8. CountRows(new, "applied") = CountRows(old, "applied") + Cardinality(w.wrote)
  <2> DEFINE before == {n \in DOMAIN old : old[n].status = "applied"}
             after == {n \in DOMAIN new : new[n].status = "applied"}
             wrote == {x.row : x \in w.wrote}
  <2>1. after = before \cup wrote
    BY <1>1, <1>6, <1>7 DEF Wrote
  <2>2. before \cap wrote = {}
    BY <1>7
  <2>3. IsFiniteSet(before) /\ Cardinality(before) \in Nat
        /\ IsFiniteSet(wrote) /\ Cardinality(wrote) = Cardinality(w.wrote)
    BY <1>1, <1>7, AsManyRows, CountRowsType DEF CountRows
  <2> HIDE DEF before, after, wrote
  <2>4. Cardinality(after) = Cardinality(before) + Cardinality(wrote)
    BY <2>1, <2>2, <2>3, ApartAddUp
  <2> QED
    BY <2>3, <2>4 DEF CountRows, before, after
<1>9. ASSUME NEW s \in {"ambiguous", "unmatched"}
      PROVE  Less(CountRows(old, s), w, s) = CountRows(new, s)
  <2> DEFINE before == {n \in DOMAIN old : old[n].status = s}
             after == {n \in DOMAIN new : new[n].status = s}
             mine == {x \in w.wrote : w.list[x.row].status = s}
             wrote == {x.row : x \in mine}
  <2>1. after = before \ wrote
    BY <1>1, <1>4, <1>6, <1>7, <1>9 DEF Wrote
  <2>2. before \cap wrote = wrote
    BY <1>1, <1>4, <1>7
  <2>3. IsFiniteSet(mine) /\ \A x, y \in mine : x.row = y.row => x = y
    BY <1>1, <1>7, FS_Subset
  <2>4. IsFiniteSet(before) /\ Cardinality(before) \in Nat /\ Cardinality(after) \in Nat
    BY <1>1, CountRowsType DEF CountRows
  <2> HIDE DEF before, after, mine
  <2>5. IsFiniteSet(wrote) /\ Cardinality(wrote) = Cardinality(mine)
    BY <2>3, AsManyRows
  <2> HIDE DEF wrote
  <2>6. Cardinality(after) = Cardinality(before) - Cardinality(mine)
    <3>1. Cardinality(before \ wrote) = Cardinality(before) - Cardinality(before \cap wrote)
      BY <2>4, FS_Difference
    <3> QED
      BY <2>1, <2>2, <2>5, <3>1
  <2>7. Cardinality(mine) \in Nat
    BY <2>3, FS_CardinalityType
  <2>8. (IF Cardinality(before) - Cardinality(mine) < 0 THEN 0
         ELSE Cardinality(before) - Cardinality(mine)) = Cardinality(after)
    BY <2>4, <2>6, <2>7
  <2> QED
    BY <2>8 DEF Less, CountRows, before, after, mine
<1>10. AppliedCount(w) = CountRows(new, "applied")
  BY <1>5, <1>8 DEF AppliedCount
<1>11. status = "applied" <=> AppliedCount(w) = w.read.total
  <2>1. CountRows(new, "applied") \in Nat /\ CountRows(new, "applied") <= Len(old)
    BY <1>1, PartsOfList
  <2>2. Len(old) > 0
    BY <1>1, <1>4, EmptySeq
  <2> QED
    BY <1>1, <1>5, <1>10, <2>1, <2>2
<1>12. /\ imports'[i].total = w.read.total /\ imports'[i].applied = AppliedCount(w)
       /\ imports'[i].ambiguous = Less(w.read.ambiguous, w, "ambiguous")
       /\ imports'[i].unmatched = Less(w.read.unmatched, w, "unmatched")
       /\ imports'[i].status = status
  BY <1>3 DEF Counts
<1> HIDE DEF status
<1>13. /\ Less(w.read.ambiguous, w, "ambiguous") = CountRows(rows'[i], "ambiguous")
       /\ Less(w.read.unmatched, w, "unmatched") = CountRows(rows'[i], "unmatched")
       /\ AppliedCount(w) = CountRows(rows'[i], "applied")
       /\ w.read.total = Len(rows'[i])
  BY <1>1, <1>5, <1>9, <1>10 DEF new
<1>14. /\ imports'[i].total = Len(rows'[i])
       /\ imports'[i].applied = CountRows(rows'[i], "applied")
       /\ imports'[i].ambiguous = CountRows(rows'[i], "ambiguous")
       /\ imports'[i].unmatched = CountRows(rows'[i], "unmatched")
       /\ imports'[i].status = "applied" <=> imports'[i].applied = imports'[i].total
  BY <1>11, <1>12, <1>13
<1> QED
  BY <1>0, <1>14, OthersKeepCounters

LEMMA NextKeepsCounters ==
  ASSUME TypeInv, TypeInv', OnceInv, DoneInv, ReadInv, CountersInv, [Next]_vars
  PROVE  CountersInv'
<1>1. CASE UNCHANGED <<imports, rows>> /\ blind \subseteq blind'
  <2>1. \A i \in Imports : \A s : CountRows(rows[i], s)' = CountRows(rows[i], s)
    BY <1>1 DEF CountRows
  <2> QED
    BY <1>1, <2>1 DEF CountersInv, CountersMatchRows
<1>2. ASSUME NEW i \in Imports, (\E enqueued \in BOOLEAN : ImportBankStatement(i, enqueued))
                                 \/ CsvDoesNotParse(i)
      PROVE  CountersInv'
  <2>1. /\ \A j \in Imports \ {i} : rows'[j] = rows[j] /\ imports'[j] = imports[j]
        /\ blind' = blind /\ imports'[i].status \in {"queued", "failed"}
    BY <1>2 DEF ImportBankStatement, CsvDoesNotParse, TypeInv, ImportType, Counters, Counts
  <2> QED
    BY <2>1, OthersKeepCounters
<1>3. CASE UNCHANGED vars
  BY <1>1, <1>3 DEF vars, importVars
<1>4. CASE \E r \in Requests, i \in Imports : \/ BeginProcess(r, i)
                                             \/ \E ms \in Matches : BeginApply(r, i, ms)
  BY <1>1, <1>4 DEF BeginProcess, BeginApply
<1>5. CASE \E r \in Requests : ProcessRow(r) \/ PostRow(r) \/ ListBankStatementRows(r)
                               \/ MatchRow(r) \/ ApplyRow(r) \/ RollbackImport(r)
  BY <1>1, <1>5 DEF ProcessRow, PostRow, ListBankStatementRows, MatchRow, ApplyRow, RollbackImport
<1>6. CASE \E r \in Requests : (\E cleared \in BOOLEAN : CommitProcess(r, cleared)) \/ CommitApply(r)
  BY <1>6, CommitProcessKeepsCounters, CommitApplyKeepsCounters, BlindCommitKeepsCounters
<1>7. CASE ReconcileNext /\ UNCHANGED importVars
  BY <1>1, <1>7 DEF importVars
<1> QED
  BY <1>2, <1>3, <1>4, <1>5, <1>6, <1>7 DEF Next

LEMMA InitIsCounted == Init => CountersInv
BY DEF Init, CountersInv, CountersMatchRows, Counts
=============================================================================
