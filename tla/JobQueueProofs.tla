--------------------------- MODULE JobQueueProofs ---------------------------
(***************************************************************************)
(* Theorems about the job queue, for every set of rows, keys, workers and  *)
(* payloads, every budget and batch size; then what holds of collection    *)
(* reminders for any number of events, channels, jobs and workers.  A      *)
(* reminder's steps are steps of the job queue, so what is proved of the   *)
(* queue holds there too and is what the rest builds on.                   *)
(***************************************************************************)
EXTENDS ReminderDelivery, FiniteSetTheorems, TLAPS

-----------------------------------------------------------------------------
(* What the UPDATE statements make of a row. *)

\* Each write-back yields a row of the table again, under the same key.
LEMMA WriteBackTypes ==
  ASSUME NEW row \in Row
  PROVE  /\ Succeeded(row) \in Row /\ Failed(row) \in Row
         /\ BackedOff(row) \in Row /\ Recovered(row) \in Row
         /\ Succeeded(row).key = row.key /\ Failed(row).key = row.key
         /\ BackedOff(row).key = row.key /\ Recovered(row).key = row.key
  <1>1. \A s \in LiveStatus \cup TerminalStatus :
           Released(row, s) \in Row /\ Released(row, s).key = row.key
    BY NoneAssumption DEF Released, Row, LiveStatus, TerminalStatus
  <1>2. row.attempts + 1 \in Nat
    BY DEF Row
  <1>3. Succeeded(row) \in Row /\ Succeeded(row).key = row.key
    BY <1>1 DEF Succeeded, TerminalStatus
  <1>4. Failed(row) \in Row /\ Failed(row).key = row.key
    BY <1>2 DEF Failed, Released, Row, TerminalStatus, LiveStatus
  <1>5. BackedOff(row) \in Row /\ BackedOff(row).key = row.key
    BY <1>2 DEF BackedOff, Released, Row, TerminalStatus, LiveStatus
  <1>6. Recovered(row) \in Row /\ Recovered(row).key = row.key
    BY <1>2 DEF Recovered, Released, Row, TerminalStatus, LiveStatus
  <1>7. QED BY <1>3, <1>4, <1>5, <1>6

\* The status and the attempts each write-back leaves behind.
LEMMA WriteBackEffects ==
  ASSUME NEW row \in Row
  PROVE  /\ Succeeded(row).status = "succeeded" /\ Succeeded(row).attempts = row.attempts
         /\ Failed(row).status = "failed" /\ Failed(row).attempts = row.attempts + 1
         /\ BackedOff(row).status = "queued" /\ BackedOff(row).attempts = row.attempts + 1
         /\ Recovered(row).status \in {"queued", "failed"}
         /\ Recovered(row).status = "queued" => row.attempts + 1 < MaxAttempts
         /\ Recovered(row).attempts = row.attempts + 1
  BY MaxAttemptsAssumption
     DEF Succeeded, Failed, BackedOff, Recovered, Released, Row, shouldFailPermanently

-----------------------------------------------------------------------------
(* Type correctness, with what a worker in "settle" is about to write. *)

TypeInv == TypeOK /\ SettlesOwnClaim

LEMMA InitTypeInv == Init => TypeInv
  BY DEF Init, TypeInv, TypeOK, SettlesOwnClaim, NoRow, Row, NoReturn

\* NextInBatch keeps the worker variables typed.
LEMMA NextInBatchTypes ==
  ASSUME TypeInv, NEW w \in Workers, NextInBatch(w)
  PROVE  /\ phase' \in [Workers -> {"recover", "claim", "handle", "settle"}]
         /\ batch' \in [Workers -> SUBSET Claim]
         /\ returned' \in [Workers -> Return \cup {NoReturn}]
         /\ \A v \in Workers : phase'[v] = "settle" =>
              v # w /\ phase[v] = "settle" /\ returned'[v] = returned[v] /\ batch'[v] = batch[v]
  BY DEF TypeInv, TypeOK, NextInBatch

\* A worker in "settle" holds a claim on a row of the table.
LEMMA SettlingClaim ==
  ASSUME TypeInv, NEW w \in Workers, phase[w] = "settle"
  PROVE  /\ returned[w].claim \in Claim
         /\ returned[w].claim.job \in Jobs
         /\ returned[w].claim.attempts \in Nat
         /\ jobs[returned[w].claim.job] \in Row
         /\ returned[w].result \in Results
  <1>1. returned[w].claim \in Claim
    BY DEF TypeInv, TypeOK, SettlesOwnClaim
  <1>2. returned[w].claim.job \in Jobs /\ returned[w].claim.attempts \in Nat
    BY <1>1 DEF Claim
  <1>3. QED
    BY <1>1, <1>2 DEF TypeInv, TypeOK, SettlesOwnClaim

LEMMA NextTypeInv == TypeInv /\ [Next]_vars => TypeInv'
  <1> SUFFICES ASSUME TypeInv, [Next]_vars PROVE TypeInv'
    OBVIOUS
  <1> USE DEF TypeInv
  <1>1. ASSUME NEW j \in Jobs, NEW k \in Keys, NEW p \in Payloads, EnqueueInserts(j, k, p)
        PROVE  TypeInv'
    <2>1. [NoRow EXCEPT !.status = "queued", !.key = k, !.payload = p, !.due = TRUE] \in Row
      BY DEF NoRow, Row, LiveStatus
    <2>2. jobs' \in [Jobs -> Row]
      BY <1>1, <2>1 DEF EnqueueInserts, TypeOK
    <2>3. QED
      BY <1>1, <2>2 DEF EnqueueInserts, TypeOK, SettlesOwnClaim, workerVars, historyVars
  <1>2. ASSUME NEW w \in Workers, RecoverStaleBackgroundJobs(w)
        PROVE  TypeInv'
    <2>1. jobs' \in [Jobs -> Row]
      BY <1>2, WriteBackTypes DEF RecoverStaleBackgroundJobs, TypeOK
    <2>2. phase' \in [Workers -> {"recover", "claim", "handle", "settle"}]
      BY <1>2 DEF RecoverStaleBackgroundJobs, TypeOK
    <2>3. TypeOK'
      BY <1>2, <2>1, <2>2 DEF RecoverStaleBackgroundJobs, TypeOK, historyVars
    <2>4. SettlesOwnClaim'
      BY <1>2 DEF RecoverStaleBackgroundJobs, TypeOK, SettlesOwnClaim, historyVars
    <2>5. QED BY <2>3, <2>4
  <1>3. ASSUME NEW w \in Workers, ClaimDueBackgroundJobs(w)
        PROVE  TypeInv'
    <2>1. PICK S \in SUBSET Due :
            /\ jobs' = [j \in Jobs |-> IF j \in S
                                       THEN [jobs[j] EXCEPT !.status = "running",
                                                            !.lease = "held", !.lockedBy = w]
                                       ELSE jobs[j]]
            /\ batch' = [batch EXCEPT ![w] = {[job |-> j, attempts |-> jobs[j].attempts] : j \in S}]
            /\ phase' = [phase EXCEPT ![w] = IF S = {} THEN "recover" ELSE "handle"]
            /\ runs' = [j \in Jobs |-> IF j \in S THEN runs[j] + 1 ELSE runs[j]]
      BY <1>3 DEF ClaimDueBackgroundJobs
    <2>2. \A j \in Jobs : [jobs[j] EXCEPT !.status = "running", !.lease = "held",
                                          !.lockedBy = w] \in Row
      BY DEF TypeOK, Row, LiveStatus
    <2>3. jobs' \in [Jobs -> Row]
      BY <2>1, <2>2 DEF TypeOK
    <2>4. \A j \in S : [job |-> j, attempts |-> jobs[j].attempts] \in Claim
      BY DEF TypeOK, Row, Claim, Due
    <2>5. batch' \in [Workers -> SUBSET Claim]
      BY <2>1, <2>4 DEF TypeOK
    <2>6. phase' \in [Workers -> {"recover", "claim", "handle", "settle"}]
      BY <2>1 DEF TypeOK
    <2>7. runs' \in [Jobs -> Nat]
      <3>1. runs' = [j \in Jobs |-> IF j \in S THEN runs[j] + 1 ELSE runs[j]]
        BY <2>1
      <3>2. \A j \in Jobs : runs[j] \in Nat /\ runs[j] + 1 \in Nat
        BY DEF TypeOK
      <3>3. QED BY <3>1, <3>2
    <2>8. TypeOK'
      BY <1>3, <2>3, <2>5, <2>6, <2>7 DEF ClaimDueBackgroundJobs, TypeOK
    <2>9. SettlesOwnClaim'
      BY <1>3, <2>1 DEF ClaimDueBackgroundJobs, TypeOK, SettlesOwnClaim
    <2>10. QED BY <2>8, <2>9
  <1>4. ASSUME NEW w \in Workers, NEW r \in Results, NEW c \in batch[w], Handle(w, c, r)
        PROVE  TypeInv'
    <2>1. c \in Claim /\ c.job \in Jobs
      BY DEF TypeOK, Claim
    <2>2. [claim |-> c, result |-> r] \in Return
      BY <2>1 DEF Return
    <2>3. returned' \in [Workers -> Return \cup {NoReturn}]
      BY <1>4, <2>2 DEF Handle, TypeOK
    <2>4. verdicts' \in [Jobs -> SUBSET Results]
      BY <1>4, <2>1 DEF Handle, TypeOK
    <2>5. phase' \in [Workers -> {"recover", "claim", "handle", "settle"}]
      BY <1>4 DEF Handle, TypeOK
    <2>6. TypeOK'
      BY <1>4, <2>3, <2>4, <2>5 DEF Handle, TypeOK
    <2>7. ASSUME NEW v \in Workers, phase'[v] = "settle"
          PROVE  /\ returned'[v].claim \in batch'[v]
                 /\ returned'[v].result \in Results \cap verdicts'[returned'[v].claim.job]
      <3>1. CASE v = w
        BY <1>4, <2>1, <3>1 DEF Handle, TypeOK
      <3>2. CASE v # w
        <4>1. phase[v] = "settle" /\ returned'[v] = returned[v] /\ batch'[v] = batch[v]
          BY <1>4, <2>7, <3>2 DEF Handle, TypeOK
        <4>2. returned[v].claim.job \in Jobs
          BY <4>1, SettlingClaim
        <4>3. verdicts[returned[v].claim.job] \subseteq verdicts'[returned[v].claim.job]
          BY <1>4, <2>1, <4>2 DEF Handle, TypeOK
        <4>4. QED
          BY <4>1, <4>3 DEF SettlesOwnClaim
      <3>3. QED BY <3>1, <3>2
    <2>8. QED BY <2>6, <2>7 DEF SettlesOwnClaim
  <1>5. ASSUME NEW w \in Workers, Settle(w)
        PROVE  TypeInv'
    <2>1. phase[w] = "settle" /\ NextInBatch(w) /\ UNCHANGED historyVars
      BY <1>5 DEF Settle, MarkBackgroundJobSucceeded, MarkBackgroundJobFailed,
                  RetryBackgroundJob, SettleErrors
    <2> DEFINE c == returned[w].claim
    <2>2. c.job \in Jobs /\ jobs[c.job] \in Row
      BY <2>1, SettlingClaim
    <2>3. \/ jobs' = [jobs EXCEPT ![c.job] = Succeeded(jobs[c.job])]
          \/ jobs' = [jobs EXCEPT ![c.job] = Failed(jobs[c.job])]
          \/ jobs' = [jobs EXCEPT ![c.job] = BackedOff(jobs[c.job])]
          \/ jobs' = jobs
      BY <1>5 DEF Settle, MarkBackgroundJobSucceeded, MarkBackgroundJobFailed,
                  RetryBackgroundJob, SettleErrors
    <2>4. jobs' \in [Jobs -> Row]
      BY <2>2, <2>3, WriteBackTypes DEF TypeOK
    <2>5. TypeOK'
      BY <2>1, <2>4, NextInBatchTypes DEF TypeOK, historyVars
    <2>6. SettlesOwnClaim'
      BY <2>1, NextInBatchTypes DEF SettlesOwnClaim, historyVars
    <2>7. QED BY <2>5, <2>6
  <1>6. ASSUME NEW w \in Workers, Crash(w)
        PROVE  TypeInv'
    BY <1>6 DEF Crash, TypeOK, SettlesOwnClaim, historyVars
  <1>7. ASSUME NEW j \in Jobs, BecomesDue(j) \/ LeaseExpires(j)
        PROVE  TypeInv'
    <2>1. [jobs[j] EXCEPT !.due = TRUE] \in Row /\ [jobs[j] EXCEPT !.lease = "expired"] \in Row
      BY DEF TypeOK, Row
    <2>2. jobs' \in [Jobs -> Row]
      BY <1>7, <2>1 DEF BecomesDue, LeaseExpires, TypeOK
    <2>3. QED
      BY <1>7, <2>2 DEF BecomesDue, LeaseExpires, TypeOK, SettlesOwnClaim, workerVars, historyVars
  <1>8. CASE UNCHANGED vars
    BY <1>8 DEF vars, TypeOK, SettlesOwnClaim
  <1>9. QED
    BY <1>1, <1>2, <1>3, <1>4, <1>5, <1>6, <1>7, <1>8 DEF Next, EnqueueConflicts

(* The table, the workers and the history keep their types, and a worker only
   ever writes back a claim of its own.                                        *)
THEOREM TypeCorrect == Spec => [](TypeOK /\ SettlesOwnClaim)
  <1>1. Spec => []TypeInv
    BY InitTypeInv, NextTypeInv, PTL DEF Spec
  <1>2. QED BY <1>1 DEF TypeInv

-----------------------------------------------------------------------------
(* The idempotency key.  Only two statements make a row live: the insert and the
   retry, and both are held back by the unique index.                            *)

\* Row i is not made live by the step.
Kept(i) == Live(i)' => Live(i) /\ jobs'[i].key = jobs[i].key

\* Row j may be made live, when its key has no other live row.
Admitted(j) == Live(j)' => Kept(j) \/ LiveRows(jobs'[j].key) \subseteq {j}

QuietStep    == \A i \in Jobs : Kept(i)
RowStep(j)   == Admitted(j) /\ \A i \in Jobs \ {j} : Kept(i)

LEMMA LiveRowsStep ==
  ASSUME TypeInv, [Next]_vars
  PROVE  QuietStep \/ \E j \in Jobs : RowStep(j)
  <1> USE DEF TypeInv
  <1>1. ASSUME NEW j \in Jobs, NEW k \in Keys, NEW p \in Payloads, EnqueueInserts(j, k, p)
        PROVE  RowStep(j)
    BY <1>1 DEF EnqueueInserts, TypeOK, Live, NoRow, RowStep, Admitted, Kept
  <1>2. ASSUME NEW w \in Workers, RecoverStaleBackgroundJobs(w)
        PROVE  QuietStep
    <2> SUFFICES ASSUME NEW i \in Jobs PROVE Kept(i)
      BY DEF QuietStep
    <2>1. CASE Stale(i)
      <3>1. jobs'[i].key = jobs[i].key
        BY <1>2, <2>1, WriteBackTypes DEF RecoverStaleBackgroundJobs, TypeOK
      <3>2. QED BY <2>1, <3>1 DEF Stale, Live, LiveStatus, Kept
    <2>2. CASE ~Stale(i)
      BY <1>2, <2>2 DEF RecoverStaleBackgroundJobs, Live, Kept
    <2>3. QED BY <2>1, <2>2
  <1>3. ASSUME NEW w \in Workers, ClaimDueBackgroundJobs(w)
        PROVE  QuietStep
    <2>1. PICK S \in SUBSET Due :
            jobs' = [j \in Jobs |-> IF j \in S
                                    THEN [jobs[j] EXCEPT !.status = "running",
                                                         !.lease = "held", !.lockedBy = w]
                                    ELSE jobs[j]]
      BY <1>3 DEF ClaimDueBackgroundJobs
    <2>2. \A i \in S : Live(i) /\ jobs'[i].key = jobs[i].key
      BY <2>1 DEF Due, Live, LiveStatus, TypeOK, Row
    <2>3. \A i \in Jobs \ S : jobs'[i] = jobs[i]
      BY <2>1
    <2>4. QED BY <2>2, <2>3 DEF QuietStep, Kept, Live
  <1>4. ASSUME NEW w \in Workers, Settle(w),
               NEW j \in Jobs, jobs[j] \in Row, j = returned[w].claim.job
        PROVE  RowStep(j)
    <2>1. CASE MarkBackgroundJobSucceeded(w)
      BY <1>4, <2>1, WriteBackEffects
         DEF MarkBackgroundJobSucceeded, TypeOK, Live, LiveStatus, RowStep, Admitted, Kept
    <2>2. CASE MarkBackgroundJobFailed(w)
      BY <1>4, <2>2, WriteBackEffects
         DEF MarkBackgroundJobFailed, TypeOK, Live, LiveStatus, RowStep, Admitted, Kept
    <2>3. CASE RetryBackgroundJob(w)
      BY <1>4, <2>3, WriteBackTypes
         DEF RetryBackgroundJob, TypeOK, Live, RowStep, Admitted, Kept
    <2>4. CASE SettleErrors(w)
      BY <2>4 DEF SettleErrors, Live, RowStep, Admitted, Kept
    <2>5. QED
      BY <1>4, <2>1, <2>2, <2>3, <2>4 DEF Settle
  <1>5. ASSUME NEW w \in Workers, Settle(w)
        PROVE  \E j \in Jobs : RowStep(j)
    <2>1. phase[w] = "settle"
      BY <1>5 DEF Settle, MarkBackgroundJobSucceeded, MarkBackgroundJobFailed,
                  RetryBackgroundJob, SettleErrors
    <2>2. QED BY <1>4, <1>5, <2>1, SettlingClaim
  <1>6. ASSUME NEW j \in Jobs, BecomesDue(j) \/ LeaseExpires(j)
        PROVE  QuietStep
    BY <1>6 DEF BecomesDue, LeaseExpires, TypeOK, Row, Live, QuietStep, Kept
  <1>7. ASSUME jobs' = jobs
        PROVE  QuietStep
    BY <1>7 DEF Live, QuietStep, Kept
  <1>8. CASE UNCHANGED vars
    BY <1>7, <1>8 DEF vars
  <1>9. CASE Next
    <2>1. CASE \E w \in Workers, r \in Results : \E c \in batch[w] : Handle(w, c, r)
      BY <1>7, <2>1 DEF Handle
    <2>2. CASE \E w \in Workers : Crash(w)
      BY <1>7, <2>2 DEF Crash
    <2>3. CASE \E k \in Keys : EnqueueConflicts(k)
      BY <1>7, <2>3 DEF EnqueueConflicts, vars
    <2>4. QED
      BY <1>1, <1>2, <1>3, <1>5, <1>6, <1>9, <2>1, <2>2, <2>3 DEF Next
  <1>10. QED BY <1>8, <1>9

(* However late a worker writes back, an idempotency key has at most one live job. *)
THEOREM UniqueLiveKey == Spec => []OneLiveJobPerKey
  <1>1. Init => OneLiveJobPerKey
    BY DEF Init, OneLiveJobPerKey, Live, NoRow, LiveStatus
  <1>2. TypeInv /\ OneLiveJobPerKey /\ [Next]_vars => OneLiveJobPerKey'
    <2> SUFFICES ASSUME TypeInv, OneLiveJobPerKey, [Next]_vars,
                        NEW i \in Jobs, NEW j \in Jobs,
                        Live(i)', Live(j)', jobs'[i].key = jobs'[j].key
                 PROVE  i = j
      BY DEF OneLiveJobPerKey
    <2>1. CASE QuietStep
      BY <2>1 DEF OneLiveJobPerKey, QuietStep, Kept
    <2>2. ASSUME NEW m \in Jobs, RowStep(m)
          PROVE  i = j
      <3>1. CASE i # m /\ j # m
        BY <2>2, <3>1 DEF OneLiveJobPerKey, RowStep, Kept
      <3>2. CASE i = m \/ j = m
        BY <2>2, <3>2 DEF OneLiveJobPerKey, RowStep, Admitted, Kept, LiveRows
      <3>3. QED BY <3>1, <3>2
    <2>3. QED BY <2>1, <2>2, LiveRowsStep
  <1>3. Spec => []TypeInv
    BY TypeCorrect DEF TypeInv
  <1>4. QED BY <1>1, <1>2, <1>3, PTL DEF Spec

-----------------------------------------------------------------------------
(* What the row remembers of its runs, whoever wrote to it last.  Besides the two
   properties, the invariant says that a row nobody inserted is blank and that no
   worker has a claim on one.                                                      *)

Charged(i) == runs[i] <= jobs[i].attempts
                + (IF jobs[i].status \in {"running", "succeeded"} THEN 1 ELSE 0)
Earned(i)  == jobs[i].status = "succeeded" => "ok" \in verdicts[i]
Blank(i)   == jobs[i].status = "absent" => jobs[i].attempts = 0
Recorded(i) == Charged(i) /\ Earned(i) /\ Blank(i)

ClaimsExist == \A w \in Workers : \A c \in batch[w] : jobs[c.job].status # "absent"

HistoryInv == ClaimsExist /\ \A i \in Jobs : Recorded(i)

LEMMA InitHistory == Init => HistoryInv
  BY DEF Init, HistoryInv, ClaimsExist, Recorded, Charged, Earned, Blank, NoRow

\* A step that leaves the row and its run count alone and only adds answers.
LEMMA RecordedUnchanged ==
  ASSUME NEW i, Recorded(i), jobs'[i] = jobs[i], runs'[i] = runs[i],
         verdicts[i] \subseteq verdicts'[i]
  PROVE  Recorded(i)'
  BY DEF Recorded, Charged, Earned, Blank

LEMMA NextHistory == TypeInv /\ HistoryInv /\ [Next]_vars => HistoryInv'
  <1> SUFFICES ASSUME TypeInv, HistoryInv, [Next]_vars PROVE HistoryInv'
    OBVIOUS
  <1> USE DEF TypeInv
  <1>0. \A i \in Jobs : /\ Recorded(i)
                        /\ jobs[i] \in Row /\ jobs[i].attempts \in Nat /\ runs[i] \in Nat
    BY DEF HistoryInv, TypeOK, Row
  <1>1. ASSUME NEW j \in Jobs, NEW k \in Keys, NEW p \in Payloads, EnqueueInserts(j, k, p)
        PROVE  HistoryInv'
    <2>1. jobs'[j].attempts = 0 /\ jobs'[j].status = "queued" /\ runs'[j] = runs[j]
      BY <1>1 DEF EnqueueInserts, TypeOK, NoRow, historyVars
    <2>2. Recorded(j)'
      BY <1>0, <1>1, <2>1 DEF EnqueueInserts, Recorded, Charged, Earned, Blank
    <2>3. \A i \in Jobs \ {j} : Recorded(i)'
      BY <1>0, <1>1, RecordedUnchanged DEF EnqueueInserts, TypeOK, historyVars
    <2>4. ClaimsExist'
      BY <1>1, <2>1 DEF EnqueueInserts, HistoryInv, ClaimsExist, TypeOK, Claim, workerVars
    <2>5. QED BY <2>2, <2>3, <2>4 DEF HistoryInv
  <1>2. ASSUME NEW w \in Workers, RecoverStaleBackgroundJobs(w)
        PROVE  HistoryInv'
    <2>1. ASSUME NEW i \in Jobs
          PROVE  Recorded(i)' /\ (jobs[i].status # "absent" => jobs'[i].status # "absent")
      <3>1. CASE Stale(i)
        <4>1. jobs'[i] = Recovered(jobs[i]) /\ runs'[i] = runs[i]
          BY <1>2, <3>1 DEF RecoverStaleBackgroundJobs, historyVars
        <4>2. /\ jobs'[i].attempts = jobs[i].attempts + 1
              /\ jobs'[i].status \in {"queued", "failed"}
          BY <1>0, <4>1, WriteBackEffects
        <4>3. jobs[i].status = "running"
          BY <3>1 DEF Stale
        <4>4. QED BY <1>0, <4>1, <4>2, <4>3 DEF Recorded, Charged, Earned, Blank
      <3>2. CASE ~Stale(i)
        BY <1>0, <1>2, <3>2, RecordedUnchanged DEF RecoverStaleBackgroundJobs, historyVars
      <3>3. QED BY <3>1, <3>2
    <2>2. ClaimsExist'
      BY <1>2, <2>1 DEF RecoverStaleBackgroundJobs, HistoryInv, ClaimsExist, TypeOK, Claim
    <2>3. QED BY <2>1, <2>2 DEF HistoryInv
  <1>3. ASSUME NEW w \in Workers, ClaimDueBackgroundJobs(w)
        PROVE  HistoryInv'
    <2>1. PICK S \in SUBSET Due :
            /\ jobs' = [j \in Jobs |-> IF j \in S
                                       THEN [jobs[j] EXCEPT !.status = "running",
                                                            !.lease = "held", !.lockedBy = w]
                                       ELSE jobs[j]]
            /\ batch' = [batch EXCEPT ![w] = {[job |-> j, attempts |-> jobs[j].attempts] : j \in S}]
            /\ runs' = [j \in Jobs |-> IF j \in S THEN runs[j] + 1 ELSE runs[j]]
      BY <1>3 DEF ClaimDueBackgroundJobs
    <2>2. \A i \in S : /\ i \in Jobs /\ jobs[i].status = "queued"
                       /\ jobs'[i].status = "running" /\ jobs'[i].attempts = jobs[i].attempts
      BY <2>1 DEF Due, TypeOK, Row
    <2>3. ASSUME NEW i \in S PROVE Recorded(i)'
      <3>1. runs'[i] = runs[i] + 1
        BY <2>1, <2>2
      <3>2. QED BY <1>0, <2>2, <3>1 DEF Recorded, Charged, Earned, Blank
    <2>4. ASSUME NEW i \in Jobs \ S PROVE Recorded(i)' /\ jobs'[i] = jobs[i]
      <3>1. jobs'[i] = jobs[i] /\ runs'[i] = runs[i] /\ verdicts' = verdicts
        BY <1>3, <2>1 DEF ClaimDueBackgroundJobs
      <3>2. QED BY <1>0, <3>1, RecordedUnchanged
    <2>5. ASSUME NEW v \in Workers, NEW c \in batch'[v]
          PROVE  jobs'[c.job].status # "absent"
      <3>1. CASE v = w
        <4>1. PICK j \in S : c = [job |-> j, attempts |-> jobs[j].attempts]
          BY <2>1, <2>5, <3>1 DEF TypeOK
        <4>2. QED BY <2>2, <4>1
      <3>2. CASE v # w
        <4>0. batch'[v] = batch[v]
          BY <2>1, <3>2 DEF TypeOK
        <4>1. c \in batch[v] /\ c.job \in Jobs
          BY <2>5, <4>0 DEF TypeOK, Claim
        <4>2. jobs[c.job].status # "absent"
          BY <4>1 DEF HistoryInv, ClaimsExist
        <4>3. QED BY <2>2, <2>4, <4>1, <4>2
      <3>3. QED BY <3>1, <3>2
    <2>6. QED BY <2>3, <2>4, <2>5 DEF HistoryInv, ClaimsExist
  <1>4. ASSUME NEW w \in Workers, NEW r \in Results, NEW c \in batch[w], Handle(w, c, r)
        PROVE  HistoryInv'
    <2>1. \A i \in Jobs : verdicts[i] \subseteq verdicts'[i]
      BY <1>4 DEF Handle, TypeOK
    <2>2. QED
      BY <1>0, <1>4, <2>1, RecordedUnchanged DEF Handle, HistoryInv, ClaimsExist
  <1>5. ASSUME NEW w \in Workers, Settle(w)
        PROVE  HistoryInv'
    <2>1. phase[w] = "settle" /\ NextInBatch(w) /\ UNCHANGED historyVars
      BY <1>5 DEF Settle, MarkBackgroundJobSucceeded, MarkBackgroundJobFailed,
                  RetryBackgroundJob, SettleErrors
    <2>2. PICK j \in Jobs : j = returned[w].claim.job
      BY <2>1, SettlingClaim
    <2>3. /\ returned[w].claim \in batch[w]
          /\ returned[w].result \in verdicts[j]
      BY <2>1, <2>2 DEF SettlesOwnClaim
    <2>4. jobs[j].status # "absent"
      BY <2>2, <2>3 DEF HistoryInv, ClaimsExist
    <2>5. \/ jobs' = [jobs EXCEPT ![j] = Succeeded(jobs[j])] /\ returned[w].result = "ok"
          \/ jobs' = [jobs EXCEPT ![j] = Failed(jobs[j])]
          \/ jobs' = [jobs EXCEPT ![j] = BackedOff(jobs[j])]
          \/ jobs' = jobs
      BY <1>5, <2>2 DEF Settle, MarkBackgroundJobSucceeded, MarkBackgroundJobFailed,
                        RetryBackgroundJob, SettleErrors
    <2>6. /\ \A i \in Jobs \ {j} : jobs'[i] = jobs[i]
          /\ \/ jobs'[j] = Succeeded(jobs[j]) /\ returned[w].result = "ok"
             \/ jobs'[j] = Failed(jobs[j])
             \/ jobs'[j] = BackedOff(jobs[j])
             \/ jobs'[j] = jobs[j]
      BY <2>5 DEF TypeOK
    <2>7. runs' = runs /\ verdicts' = verdicts
      BY <2>1 DEF historyVars
    <2>8. Recorded(j)' /\ jobs'[j].status # "absent"
      <3>1. CASE jobs'[j] = Succeeded(jobs[j]) /\ returned[w].result = "ok"
        BY <1>0, <2>3, <2>7, <3>1, WriteBackEffects DEF Recorded, Charged, Earned, Blank
      <3>2. CASE jobs'[j] = Failed(jobs[j])
        BY <1>0, <2>7, <3>2, WriteBackEffects DEF Recorded, Charged, Earned, Blank
      <3>3. CASE jobs'[j] = BackedOff(jobs[j])
        BY <1>0, <2>7, <3>3, WriteBackEffects DEF Recorded, Charged, Earned, Blank
      <3>4. CASE jobs'[j] = jobs[j]
        BY <1>0, <2>4, <2>7, <3>4, RecordedUnchanged
      <3>5. QED BY <2>6, <3>1, <3>2, <3>3, <3>4
    <2>9. \A i \in Jobs \ {j} : Recorded(i)'
      BY <1>0, <2>6, <2>7, RecordedUnchanged
    <2>10. \A v \in Workers : batch'[v] \subseteq batch[v]
      BY <2>1 DEF NextInBatch, TypeOK
    <2>11. ClaimsExist'
      BY <2>6, <2>8, <2>10 DEF HistoryInv, ClaimsExist, TypeOK, Claim
    <2>12. QED BY <2>8, <2>9, <2>11 DEF HistoryInv
  <1>6. ASSUME NEW w \in Workers, Crash(w)
        PROVE  HistoryInv'
    <2>1. \A v \in Workers : batch'[v] \subseteq batch[v]
      BY <1>6 DEF Crash, TypeOK
    <2>2. QED
      BY <1>0, <1>6, <2>1, RecordedUnchanged DEF Crash, HistoryInv, ClaimsExist, historyVars
  <1>7. ASSUME NEW j \in Jobs, BecomesDue(j) \/ LeaseExpires(j)
        PROVE  HistoryInv'
    <2>1. \A i \in Jobs : /\ jobs'[i].status = jobs[i].status
                          /\ jobs'[i].attempts = jobs[i].attempts
      BY <1>7 DEF BecomesDue, LeaseExpires, TypeOK, Row
    <2>2. batch' = batch /\ runs' = runs /\ verdicts' = verdicts
      BY <1>7 DEF BecomesDue, LeaseExpires, workerVars, historyVars
    <2>3. \A i \in Jobs : Recorded(i)'
      BY <1>0, <2>1, <2>2 DEF Recorded, Charged, Earned, Blank
    <2>4. ClaimsExist'
      BY <2>1, <2>2 DEF HistoryInv, ClaimsExist, TypeOK, Claim
    <2>5. QED BY <2>3, <2>4 DEF HistoryInv
  <1>8. CASE UNCHANGED vars
    BY <1>8 DEF vars, HistoryInv, ClaimsExist, Recorded, Charged, Earned, Blank
  <1>9. QED
    BY <1>1, <1>2, <1>3, <1>4, <1>5, <1>6, <1>7, <1>8 DEF Next, EnqueueConflicts

LEMMA HistoryCorrect == Spec => []HistoryInv
  <1>1. Spec => []TypeInv
    BY TypeCorrect DEF TypeInv
  <1>2. QED BY <1>1, InitHistory, NextHistory, PTL DEF Spec

(* The attempts column never undercounts the runs of a job. *)
THEOREM RunsAreCharged == Spec => []EveryRunIsCharged
  <1>1. HistoryInv => EveryRunIsCharged
    BY DEF HistoryInv, Recorded, Charged, EveryRunIsCharged
  <1>2. QED BY <1>1, HistoryCorrect, PTL

(* A job is succeeded only if its handler once returned nil for it. *)
THEOREM SuccessIsEarned == Spec => []SuccessWasEarned
  <1>1. HistoryInv => SuccessWasEarned
    BY DEF HistoryInv, Recorded, Earned, SuccessWasEarned
  <1>2. QED BY <1>1, HistoryCorrect, PTL

-----------------------------------------------------------------------------
(* While leases outlast their holders.  The invariant ties a worker's snapshot to
   the row: what it holds is running, locked by it, within its lease, and has the
   attempts the worker saw; and every run of a live row is charged exactly once.   *)

Own(w, c) == /\ jobs[c.job].status = "running" /\ jobs[c.job].lease = "held"
             /\ jobs[c.job].lockedBy = w
             /\ jobs[c.job].attempts = c.attempts

Budgeted(i) ==
  Live(i) => /\ jobs[i].attempts < MaxAttempts
             /\ runs[i] = jobs[i].attempts + (IF jobs[i].status = "running" THEN 1 ELSE 0)

Unrun(i) == jobs[i].status = "absent" => runs[i] = 0

HeldInv == /\ \A w \in Workers : phase[w] \in {"recover", "claim"} => batch[w] = {}
           /\ \A w \in Workers : \A c \in batch[w] : Own(w, c)
           /\ \A i \in Jobs : Budgeted(i) /\ Unrun(i)

LEMMA InitHeld == Init => HeldInv
  BY DEF Init, HeldInv, Budgeted, Unrun, Live, LiveStatus, NoRow

\* Rows outside a set change nothing that their holders rely on.
LEMMA HeldUnchanged ==
  ASSUME NEW i, Budgeted(i), Unrun(i), jobs'[i] = jobs[i], runs'[i] = runs[i]
  PROVE  Budgeted(i)' /\ Unrun(i)'
  BY DEF Budgeted, Unrun, Live

LEMMA NextHeld == LeaseCovers /\ TypeInv /\ HeldInv /\ [Next]_vars => HeldInv'
  <1> SUFFICES ASSUME LeaseCovers, TypeInv, HeldInv, [Next]_vars PROVE HeldInv'
    OBVIOUS
  <1> USE DEF TypeInv
  <1>0. \A i \in Jobs : /\ Budgeted(i) /\ Unrun(i)
                        /\ jobs[i] \in Row /\ jobs[i].attempts \in Nat /\ runs[i] \in Nat
    BY DEF HeldInv, TypeOK, Row
  <1>c. \A w \in Workers : \A c \in batch[w] :
          Own(w, c) /\ c.job \in Jobs /\ c.attempts \in Nat /\ c \in Claim
    BY DEF HeldInv, TypeOK, Claim
  <1>1. ASSUME NEW j \in Jobs, NEW k \in Keys, NEW p \in Payloads, EnqueueInserts(j, k, p)
        PROVE  HeldInv'
    <2>1. jobs'[j].attempts = 0 /\ jobs'[j].status = "queued" /\ runs'[j] = 0
      BY <1>0, <1>1 DEF EnqueueInserts, TypeOK, NoRow, historyVars, Unrun
    <2>2. Budgeted(j)' /\ Unrun(j)'
      BY <2>1, MaxAttemptsAssumption DEF Budgeted, Unrun
    <2>3. \A i \in Jobs \ {j} : Budgeted(i)' /\ Unrun(i)' /\ jobs'[i] = jobs[i]
      BY <1>0, <1>1, HeldUnchanged DEF EnqueueInserts, TypeOK, historyVars
    <2>4. batch' = batch /\ phase' = phase /\ jobs[j].status = "absent"
      BY <1>1 DEF EnqueueInserts, workerVars
    <2>5. \A w \in Workers : \A c \in batch'[w] : Own(w, c)'
      BY <1>c, <2>3, <2>4 DEF Own
    <2>6. QED BY <2>2, <2>3, <2>4, <2>5 DEF HeldInv
  <1>2. ASSUME NEW w \in Workers, RecoverStaleBackgroundJobs(w)
        PROVE  HeldInv'
    <2>1. ASSUME NEW i \in Jobs
          PROVE  Budgeted(i)' /\ Unrun(i)'
      <3>1. CASE Stale(i)
        <4>1. jobs'[i] = Recovered(jobs[i]) /\ runs'[i] = runs[i]
          BY <1>2, <3>1 DEF RecoverStaleBackgroundJobs, historyVars
        <4>2. /\ jobs'[i].attempts = jobs[i].attempts + 1
              /\ jobs'[i].status \in {"queued", "failed"}
              /\ jobs'[i].status = "queued" => jobs[i].attempts + 1 < MaxAttempts
          BY <1>0, <4>1, WriteBackEffects
        <4>3. runs[i] = jobs[i].attempts + 1
          BY <1>0, <3>1 DEF Stale, Budgeted, Live, LiveStatus
        <4>4. /\ jobs'[i].status \notin {"absent", "running"}
              /\ jobs'[i].status = "queued" => jobs'[i].attempts < MaxAttempts
              /\ runs'[i] = jobs'[i].attempts + 0
          BY <1>0, <4>1, <4>2, <4>3
        <4>5. QED
          BY <4>4, <4>2 DEF Budgeted, Unrun, Live, LiveStatus
      <3>2. CASE ~Stale(i)
        BY <1>0, <1>2, <3>2, HeldUnchanged DEF RecoverStaleBackgroundJobs, historyVars
      <3>3. QED BY <3>1, <3>2
    <2>2. \A v \in Workers : \A c \in batch'[v] : Own(v, c)'
      BY <1>2, <1>c DEF RecoverStaleBackgroundJobs, Own, Stale
    <2>3. \A v \in Workers : phase'[v] \in {"recover", "claim"} => batch'[v] = {}
      BY <1>2 DEF RecoverStaleBackgroundJobs, HeldInv, TypeOK
    <2>4. QED BY <2>1, <2>2, <2>3 DEF HeldInv
  <1>3. ASSUME NEW w \in Workers, ClaimDueBackgroundJobs(w)
        PROVE  HeldInv'
    <2>1. PICK S \in SUBSET Due :
            /\ jobs' = [j \in Jobs |-> IF j \in S
                                       THEN [jobs[j] EXCEPT !.status = "running",
                                                            !.lease = "held", !.lockedBy = w]
                                       ELSE jobs[j]]
            /\ batch' = [batch EXCEPT ![w] = {[job |-> j, attempts |-> jobs[j].attempts] : j \in S}]
            /\ phase' = [phase EXCEPT ![w] = IF S = {} THEN "recover" ELSE "handle"]
            /\ runs' = [j \in Jobs |-> IF j \in S THEN runs[j] + 1 ELSE runs[j]]
      BY <1>3 DEF ClaimDueBackgroundJobs
    <2>2. \A i \in S : /\ i \in Jobs /\ jobs[i].status = "queued"
                       /\ jobs'[i].status = "running" /\ jobs'[i].attempts = jobs[i].attempts
                       /\ jobs'[i].lease = "held" /\ jobs'[i].lockedBy = w
      BY <2>1 DEF Due, TypeOK, Row
    <2>3. ASSUME NEW i \in S PROVE Budgeted(i)' /\ Unrun(i)'
      <3>1. runs'[i] = runs[i] + 1
        BY <2>1, <2>2
      <3>2. QED BY <1>0, <2>2, <3>1 DEF Budgeted, Unrun, Live, LiveStatus
    <2>4. ASSUME NEW i \in Jobs \ S PROVE Budgeted(i)' /\ Unrun(i)' /\ jobs'[i] = jobs[i]
      <3>1. jobs'[i] = jobs[i] /\ runs'[i] = runs[i]
        BY <2>1
      <3>2. QED BY <1>0, <3>1, HeldUnchanged
    <2>5. \A v \in Workers \ {w} : batch'[v] = batch[v] /\ phase'[v] = phase[v]
      BY <2>1 DEF TypeOK
    <2>6. batch'[w] = {[job |-> j, attempts |-> jobs[j].attempts] : j \in S}
      BY <2>1 DEF TypeOK
    <2>7. \A c \in batch'[w] : Own(w, c)'
      BY <2>2, <2>6 DEF Own
    <2>8. \A v \in Workers \ {w} : \A c \in batch'[v] : Own(v, c)'
      <3>1. \A v \in Workers \ {w} : \A c \in batch'[v] :
               Own(v, c) /\ c.job \in Jobs /\ c.job \notin S
        BY <1>c, <2>2, <2>5 DEF Own
      <3>2. QED BY <2>4, <3>1 DEF Own
    <2>9. phase'[w] \in {"recover", "claim"} => batch'[w] = {}
      <3>1. phase'[w] = IF S = {} THEN "recover" ELSE "handle"
        BY <2>1 DEF TypeOK
      <3>2. QED BY <2>6, <3>1
    <2>10. QED BY <2>3, <2>4, <2>5, <2>7, <2>8, <2>9 DEF HeldInv
  <1>4. ASSUME NEW w \in Workers, NEW r \in Results, NEW c \in batch[w], Handle(w, c, r)
        PROVE  HeldInv'
    <2>1. jobs' = jobs /\ batch' = batch /\ runs' = runs
      BY <1>4 DEF Handle
    <2>2. \A v \in Workers : phase'[v] \in {"recover", "claim"} => batch'[v] = {}
      BY <1>4, <2>1 DEF Handle, HeldInv, TypeOK
    <2>3. QED
      BY <2>1, <2>2 DEF HeldInv, Own, Budgeted, Unrun, Live
  <1>5. ASSUME NEW w \in Workers, Settle(w)
        PROVE  HeldInv'
    <2>1. phase[w] = "settle" /\ NextInBatch(w) /\ UNCHANGED historyVars
      BY <1>5 DEF Settle, MarkBackgroundJobSucceeded, MarkBackgroundJobFailed,
                  RetryBackgroundJob, SettleErrors
    <2>2. PICK c \in batch[w] : c = returned[w].claim
      BY <2>1 DEF SettlesOwnClaim
    <2>3. PICK j \in Jobs : j = c.job
      BY <1>c
    <2>4. /\ Own(w, c) /\ jobs[j].status = "running" /\ jobs[j].lockedBy = w
          /\ jobs[j].attempts = c.attempts
      BY <1>c, <2>3 DEF Own
    <2>5. \/ jobs' = [jobs EXCEPT ![j] = Succeeded(jobs[j])]
          \/ jobs' = [jobs EXCEPT ![j] = Failed(jobs[j])]
          \/ jobs' = [jobs EXCEPT ![j] = BackedOff(jobs[j])] /\ ~shouldFailPermanently(c.attempts)
          \/ jobs' = jobs
      BY <1>5, <2>2, <2>3
         DEF Settle, MarkBackgroundJobSucceeded, MarkBackgroundJobFailed,
             RetryBackgroundJob, SettleErrors, FailsPermanently
    <2>6. /\ \A i \in Jobs \ {j} : jobs'[i] = jobs[i]
          /\ \/ jobs'[j] = Succeeded(jobs[j])
             \/ jobs'[j] = Failed(jobs[j])
             \/ jobs'[j] = BackedOff(jobs[j]) /\ ~shouldFailPermanently(c.attempts)
             \/ jobs'[j] = jobs[j]
      BY <2>5 DEF TypeOK
    <2>7. runs' = runs
      BY <2>1 DEF historyVars
    <2>8. runs[j] = jobs[j].attempts + 1
      BY <1>0, <2>4 DEF Budgeted, Live, LiveStatus
    <2>9. Budgeted(j)' /\ Unrun(j)'
      <3>1. CASE jobs'[j] = Succeeded(jobs[j])
        BY <1>0, <3>1, WriteBackEffects DEF Budgeted, Unrun, Live, LiveStatus
      <3>2. CASE jobs'[j] = Failed(jobs[j])
        BY <1>0, <3>2, WriteBackEffects DEF Budgeted, Unrun, Live, LiveStatus
      <3>3. CASE jobs'[j] = BackedOff(jobs[j]) /\ ~shouldFailPermanently(c.attempts)
        <4>1. jobs[j].attempts + 1 < MaxAttempts
          BY <1>0, <2>4, <3>3, MaxAttemptsAssumption DEF shouldFailPermanently
        <4>2. jobs'[j].status = "queued" /\ jobs'[j].attempts = jobs[j].attempts + 1
          BY <1>0, <3>3, WriteBackEffects
        <4>3. runs'[j] = jobs'[j].attempts + 0 /\ jobs'[j].attempts < MaxAttempts
          BY <1>0, <2>7, <2>8, <4>1, <4>2
        <4>4. QED BY <4>2, <4>3 DEF Budgeted, Unrun
      <3>4. CASE jobs'[j] = jobs[j]
        BY <1>0, <2>7, <3>4, HeldUnchanged
      <3>5. QED BY <2>6, <3>1, <3>2, <3>3, <3>4
    <2>10. \A i \in Jobs \ {j} : Budgeted(i)' /\ Unrun(i)'
      BY <1>0, <2>6, <2>7, HeldUnchanged
    <2>11. /\ batch'[w] = batch[w] \ {c}
           /\ phase'[w] = IF batch[w] \ {c} = {} THEN "recover" ELSE "handle"
           /\ \A v \in Workers \ {w} : batch'[v] = batch[v] /\ phase'[v] = phase[v]
      BY <2>1, <2>2 DEF NextInBatch, TypeOK
    <2>12. ASSUME NEW v \in Workers, NEW d \in batch'[v]
           PROVE  Own(v, d)'
      <3>1. d \in batch[v] /\ Own(v, d) /\ d.job \in Jobs /\ d \in Claim /\ c \in Claim
        BY <1>c, <2>11
      <3>2. d.job # j
        <4>1. CASE v = w
          <5>1. d # c
            BY <2>11, <4>1
          <5>2. d.job = c.job => d.attempts = c.attempts
            BY <2>3, <2>4, <3>1 DEF Own
          <5>3. QED BY <2>3, <3>1, <5>1, <5>2 DEF Claim
        <4>2. CASE v # w
          BY <2>4, <3>1, <4>2 DEF Own
        <4>3. QED BY <4>1, <4>2
      <3>3. QED BY <2>6, <3>1, <3>2 DEF Own
    <2>13. \A v \in Workers : phase'[v] \in {"recover", "claim"} => batch'[v] = {}
      BY <2>11 DEF HeldInv
    <2>14. QED BY <2>9, <2>10, <2>12, <2>13 DEF HeldInv
  <1>6. ASSUME NEW w \in Workers, Crash(w)
        PROVE  HeldInv'
    <2>1. jobs' = jobs /\ runs' = runs
      BY <1>6 DEF Crash, historyVars
    <2>2. /\ batch'[w] = {}
          /\ \A v \in Workers \ {w} : batch'[v] = batch[v] /\ phase'[v] = phase[v]
      BY <1>6 DEF Crash, TypeOK
    <2>3. QED BY <2>1, <2>2 DEF HeldInv, Own, Budgeted, Unrun, Live
  <1>7. ASSUME NEW j \in Jobs, BecomesDue(j) \/ LeaseExpires(j)
        PROVE  HeldInv'
    <2>1. \A i \in Jobs : /\ jobs'[i].status = jobs[i].status
                          /\ jobs'[i].attempts = jobs[i].attempts
                          /\ jobs'[i].lockedBy = jobs[i].lockedBy
      BY <1>7 DEF BecomesDue, LeaseExpires, TypeOK, Row
    <2>2. batch' = batch /\ runs' = runs /\ phase' = phase
      BY <1>7 DEF BecomesDue, LeaseExpires, workerVars, historyVars
    <2>3. \A i \in Jobs : Budgeted(i)' /\ Unrun(i)'
      BY <1>0, <2>1, <2>2 DEF Budgeted, Unrun, Live
    <2>4. \A w \in Workers : \A c \in batch[w] : jobs'[c.job].lease = jobs[c.job].lease
      BY <1>7, <1>c DEF BecomesDue, LeaseExpires, InHand, Own, TypeOK, Row
    <2>5. \A w \in Workers : \A c \in batch'[w] : Own(w, c)'
      BY <1>c, <2>1, <2>2, <2>4 DEF Own
    <2>6. QED BY <2>2, <2>3, <2>5 DEF HeldInv
  <1>8. CASE UNCHANGED vars
    BY <1>8 DEF vars, HeldInv, Own, Budgeted, Unrun, Live
  <1>9. QED
    BY <1>1, <1>2, <1>3, <1>4, <1>5, <1>6, <1>7, <1>8 DEF Next, EnqueueConflicts

LEMMA HeldCorrect == LeaseCovers /\ Spec => []HeldInv
  <1>1. Spec => []TypeInv
    BY TypeCorrect DEF TypeInv
  <1>2. LeaseCovers => (HeldInv /\ TypeInv /\ [Next]_vars => HeldInv')
    BY NextHeld
  <1>3. LeaseCovers \in BOOLEAN
    BY LeaseCoversAssumption
  <1>4. ASSUME LeaseCovers PROVE Spec => []HeldInv
    <2>1. HeldInv /\ TypeInv /\ [Next]_vars => HeldInv'
      BY <1>4, NextHeld
    <2>2. QED BY <1>1, <2>1, InitHeld, PTL DEF Spec
  <1>5. QED BY <1>4

(* While leases outlast their holders, a claimed row belongs to the one worker
   that holds it.                                                               *)
THEOREM HeldRowsAreOwn == LeaseCovers => (Spec => []HeldRowIsOwn)
  <1>1. TypeInv /\ HeldInv => HeldRowIsOwn
    BY DEF HeldInv, TypeInv, TypeOK, Claim, Own, HeldRowIsOwn, InHand
  <1>2. Spec => []TypeInv
    BY TypeCorrect DEF TypeInv
  <1>3. ASSUME LeaseCovers PROVE Spec => []HeldRowIsOwn
    <2>1. Spec => []HeldInv
      BY <1>3, HeldCorrect
    <2>2. QED BY <1>1, <1>2, <2>1, PTL
  <1>4. QED BY <1>3

(* While leases outlast their holders, no live job has used up its attempts. *)
THEOREM SpentJobsFail == LeaseCovers => (Spec => []SpentJobIsFailed)
  <1>1. HeldInv => SpentJobIsFailed
    BY DEF HeldInv, Budgeted, SpentJobIsFailed
  <1>2. ASSUME LeaseCovers PROVE Spec => []SpentJobIsFailed
    <2>1. Spec => []HeldInv
      BY <1>2, HeldCorrect
    <2>2. QED BY <1>1, <2>1, PTL
  <1>3. QED BY <1>2

\* What a settling worker does to the row in its hands, within its lease.
LEMMA SettleStep ==
  ASSUME LeaseCovers, TypeInv, HeldInv, NEW w \in Workers, Settle(w)
  PROVE  \E j \in Jobs :
           /\ jobs[j].status = "running" /\ jobs[j] \in Row
           /\ runs[j] = jobs[j].attempts + 1 /\ jobs[j].attempts < MaxAttempts
           /\ \A i \in Jobs \ {j} : jobs'[i] = jobs[i]
           /\ jobs' \in [Jobs -> Row]
           /\ runs' = runs /\ verdicts' = verdicts
           /\ \/ jobs'[j] = Succeeded(jobs[j]) /\ "ok" \in verdicts[j]
              \/ /\ jobs'[j] = Failed(jobs[j])
                 /\ "fatal" \in verdicts[j] \/ jobs[j].attempts + 1 >= MaxAttempts
              \/ jobs'[j] = BackedOff(jobs[j])
              \/ jobs'[j] = jobs[j]
  <1> USE DEF TypeInv
  <1>1. phase[w] = "settle" /\ UNCHANGED historyVars
    BY DEF Settle, MarkBackgroundJobSucceeded, MarkBackgroundJobFailed,
           RetryBackgroundJob, SettleErrors
  <1>2. PICK c \in batch[w] : c = returned[w].claim
    BY <1>1 DEF SettlesOwnClaim
  <1>3. PICK j \in Jobs : j = c.job
    BY DEF TypeOK, Claim
  <1>4. jobs[j].status = "running" /\ jobs[j].attempts = c.attempts
    BY <1>3 DEF HeldInv, Own
  <1>5. jobs[j] \in Row /\ returned[w].result \in verdicts[j]
    BY <1>1, <1>2, <1>3 DEF TypeOK, SettlesOwnClaim
  <1>6. runs[j] = jobs[j].attempts + 1 /\ jobs[j].attempts < MaxAttempts
    BY <1>4 DEF HeldInv, Budgeted, Live, LiveStatus
  <1>7. \/ jobs' = [jobs EXCEPT ![j] = Succeeded(jobs[j])] /\ returned[w].result = "ok"
        \/ jobs' = [jobs EXCEPT ![j] = Failed(jobs[j])] /\ FailsPermanently(returned[w])
        \/ jobs' = [jobs EXCEPT ![j] = BackedOff(jobs[j])]
        \/ jobs' = jobs
    BY <1>2, <1>3 DEF Settle, MarkBackgroundJobSucceeded, MarkBackgroundJobFailed,
                      RetryBackgroundJob, SettleErrors
  <1>8. FailsPermanently(returned[w]) =>
          "fatal" \in verdicts[j] \/ jobs[j].attempts + 1 >= MaxAttempts
    BY <1>2, <1>4, <1>5 DEF FailsPermanently, shouldFailPermanently
  <1>9. /\ \A i \in Jobs \ {j} : jobs'[i] = jobs[i]
        /\ \/ jobs'[j] = Succeeded(jobs[j]) /\ "ok" \in verdicts[j]
           \/ /\ jobs'[j] = Failed(jobs[j])
              /\ "fatal" \in verdicts[j] \/ jobs[j].attempts + 1 >= MaxAttempts
           \/ jobs'[j] = BackedOff(jobs[j])
           \/ jobs'[j] = jobs[j]
    BY <1>5, <1>7, <1>8 DEF TypeOK
  <1>10. jobs' \in [Jobs -> Row]
    BY <1>5, <1>7, WriteBackTypes DEF TypeOK
  <1>11. QED
    BY <1>1, <1>4, <1>5, <1>6, <1>9, <1>10 DEF historyVars

LEMMA TerminalStep ==
  ASSUME LeaseCovers, TypeInv, HeldInv, [Next]_vars
  PROVE  \A j \in Jobs : Terminal(j) => jobs'[j] = jobs[j]
  <1> SUFFICES ASSUME NEW i \in Jobs, Terminal(i) PROVE jobs'[i] = jobs[i]
    OBVIOUS
  <1>0. jobs[i].status \in TerminalStatus
    BY DEF Terminal
  <1>1. CASE \E j \in Jobs, k \in Keys, p \in Payloads : EnqueueInserts(j, k, p)
    BY <1>0, <1>1 DEF EnqueueInserts, TypeInv, TypeOK, TerminalStatus
  <1>2. CASE \E w \in Workers : RecoverStaleBackgroundJobs(w)
    BY <1>0, <1>2 DEF RecoverStaleBackgroundJobs, Stale, TerminalStatus
  <1>3. CASE \E w \in Workers : ClaimDueBackgroundJobs(w)
    BY <1>0, <1>3 DEF ClaimDueBackgroundJobs, Due, TerminalStatus
  <1>4. CASE \E w \in Workers : Settle(w)
    BY <1>0, <1>4, SettleStep DEF TerminalStatus
  <1>5. CASE \E j \in Jobs : BecomesDue(j) \/ LeaseExpires(j)
    BY <1>0, <1>5 DEF BecomesDue, LeaseExpires, TypeInv, TypeOK, TerminalStatus
  <1>6. CASE jobs' = jobs
    BY <1>6
  <1>7. CASE \E w \in Workers, r \in Results : \E c \in batch[w] : Handle(w, c, r)
    BY <1>6, <1>7 DEF Handle
  <1>8. CASE (\E w \in Workers : Crash(w)) \/ (\E k \in Keys : EnqueueConflicts(k))
    BY <1>6, <1>8 DEF Crash, EnqueueConflicts, vars
  <1>9. QED
    BY <1>1, <1>2, <1>3, <1>4, <1>5, <1>6, <1>7, <1>8 DEF Next, vars

(* While leases outlast their holders, a job that has ended stays as it ended. *)
THEOREM TerminalRowsAreFinal == LeaseCovers => (Spec => TerminalIsFinal)
  <1>1. ASSUME LeaseCovers PROVE Spec => TerminalIsFinal
    <2>1. Spec => []HeldInv
      BY <1>1, HeldCorrect
    <2>2. Spec => []TypeInv
      BY TypeCorrect DEF TypeInv
    <2>3. TypeInv /\ HeldInv /\ [Next]_vars
            => [\A j \in Jobs : Terminal(j) => jobs'[j] = jobs[j]]_vars
      BY <1>1, TerminalStep
    <2>4. QED BY <2>1, <2>2, <2>3, PTL DEF Spec, TerminalIsFinal
  <1>2. QED BY <1>1

-----------------------------------------------------------------------------
(* The queue implements JobContract while leases outlast their holders.  What a
   step of the queue is to the contract: an enqueue submits, a claim tries, a
   handler's return answers, a write-back or a recovery may end the job, and all
   else is invisible.                                                             *)

LEMMA InitContract == Init => Contract!Init
  BY DEF Init, Contract!Init, Visible, Live, LiveStatus, NoRow, None

LEMMA NextContract ==
  ASSUME LeaseCovers, TypeInv, HeldInv, [Next]_vars
  PROVE  [Contract!Next]_(Contract!vars)
  <1> USE DEF TypeInv
  <1> DEFINE state == [j \in Jobs |-> Visible(j)]
             keys  == [j \in Jobs |-> jobs[j].key]
  <1>0. /\ \A i \in Jobs : /\ Budgeted(i) /\ Unrun(i)
                           /\ jobs[i] \in Row /\ jobs[i].attempts \in Nat /\ runs[i] \in Nat
        /\ MaxAttempts \in Nat
    BY MaxAttemptsAssumption DEF HeldInv, TypeOK, Row
  <1>s. ASSUME jobs' = jobs, runs' = runs, verdicts' = verdicts
        PROVE  UNCHANGED Contract!vars
    BY <1>s DEF Contract!vars, Visible, Live
  <1>1. ASSUME NEW j \in Jobs, NEW k \in Keys, NEW p \in Payloads, EnqueueInserts(j, k, p)
        PROVE  Contract!Submit(j, k)
    <2>1. /\ jobs'[j].status = "queued" /\ jobs'[j].key = k
          /\ \A i \in Jobs \ {j} : jobs'[i] = jobs[i]
      BY <1>1 DEF EnqueueInserts, TypeOK, NoRow
    <2>2. state' = [state EXCEPT ![j] = "pending"]
      BY <2>1 DEF Visible, Live, LiveStatus
    <2>3. keys' = [keys EXCEPT ![j] = k]
      BY <2>1
    <2>4. state[j] = "absent" /\ ~\E i \in Jobs : state[i] = "pending" /\ keys[i] = k
      BY <1>0, <1>1 DEF EnqueueInserts, Visible, Live, LiveStatus, LiveRows, Row, TerminalStatus
    <2>5. QED
      BY <1>1, <2>2, <2>3, <2>4 DEF EnqueueInserts, Contract!Submit, historyVars
  <1>2. ASSUME NEW w \in Workers, RecoverStaleBackgroundJobs(w)
        PROVE  \E S \in SUBSET Jobs : Contract!GiveUp(S)
    <2> DEFINE S == {j \in Jobs : Stale(j) /\ Recovered(jobs[j]).status = "failed"}
    <2>1. \A j \in Jobs : Stale(j) =>
            /\ Recovered(jobs[j]).status \in {"queued", "failed"}
            /\ Recovered(jobs[j]).status = "failed" => runs[j] = MaxAttempts
            /\ Recovered(jobs[j]).key = jobs[j].key
      <3> SUFFICES ASSUME NEW j \in Jobs, Stale(j)
                   PROVE  /\ Recovered(jobs[j]).status \in {"queued", "failed"}
                          /\ Recovered(jobs[j]).status = "failed" => runs[j] = MaxAttempts
                          /\ Recovered(jobs[j]).key = jobs[j].key
        OBVIOUS
      <3>1. runs[j] = jobs[j].attempts + 1 /\ jobs[j].attempts < MaxAttempts
        BY <1>0 DEF Stale, Budgeted, Live, LiveStatus
      <3>2. Recovered(jobs[j]).status = "failed" => jobs[j].attempts + 1 >= MaxAttempts
        BY <1>0 DEF Recovered, Released, Row, shouldFailPermanently
      <3>3. Recovered(jobs[j]).status = "failed" => runs[j] = MaxAttempts
        BY <1>0, <3>1, <3>2
      <3>4. QED BY <1>0, <3>3, WriteBackEffects, WriteBackTypes
    <2>2. \A j \in S : Contract!MayGiveUp(j)
      BY <2>1 DEF Contract!MayGiveUp, Stale, Visible, Live, LiveStatus
    <2>3. \A j \in Jobs : Visible(j)' = IF j \in S THEN "failed" ELSE Visible(j)
      BY <1>0, <1>2, <2>1
         DEF RecoverStaleBackgroundJobs, Visible, Live, LiveStatus, Stale
    <2>4. state' = [j \in Jobs |-> IF j \in S THEN "failed" ELSE state[j]]
      BY <2>3
    <2>5. keys' = keys
      BY <1>2, <2>1 DEF RecoverStaleBackgroundJobs
    <2>6. QED
      BY <1>2, <2>2, <2>4, <2>5 DEF RecoverStaleBackgroundJobs, Contract!GiveUp, historyVars
  <1>3. ASSUME NEW w \in Workers, ClaimDueBackgroundJobs(w)
        PROVE  \E S \in SUBSET Jobs : Contract!Try(S)
    <2>1. PICK S \in SUBSET Due :
            /\ jobs' = [j \in Jobs |-> IF j \in S
                                       THEN [jobs[j] EXCEPT !.status = "running",
                                                            !.lease = "held", !.lockedBy = w]
                                       ELSE jobs[j]]
            /\ runs' = [j \in Jobs |-> IF j \in S THEN runs[j] + 1 ELSE runs[j]]
      BY <1>3 DEF ClaimDueBackgroundJobs
    <2>2. \A i \in S : /\ i \in Jobs /\ jobs[i].status = "queued"
                       /\ jobs'[i].status = "running" /\ jobs'[i].key = jobs[i].key
      BY <2>1 DEF Due, TypeOK, Row
    <2>3. \A i \in S : Visible(i) = "pending" /\ Visible(i)' = "pending" /\ runs[i] < MaxAttempts
      BY <1>0, <2>2 DEF Visible, Live, LiveStatus, Budgeted
    <2>4. \A i \in Jobs \ S : jobs'[i] = jobs[i]
      BY <2>1
    <2>5. state' = state /\ keys' = keys
      BY <2>2, <2>3, <2>4 DEF Visible, Live
    <2>6. S \in SUBSET Jobs
      BY DEF Due
    <2>7. verdicts' = verdicts
      BY <1>3 DEF ClaimDueBackgroundJobs
    <2>8. Contract!Try(S)
      BY <2>1, <2>2, <2>3, <2>5, <2>7 DEF Contract!Try
    <2>9. QED BY <2>6, <2>8
  <1>4. ASSUME NEW w \in Workers, NEW r \in Results, NEW c \in batch[w], Handle(w, c, r)
        PROVE  \E j \in Jobs : Contract!Answer(j, r)
    <2>1. c.job \in Jobs /\ jobs[c.job].status = "running"
      BY DEF TypeOK, Claim, HeldInv, Own
    <2>2. Visible(c.job) = "pending" /\ runs[c.job] > 0
      BY <1>0, <2>1 DEF Visible, Live, LiveStatus, Budgeted
    <2>3. jobs' = jobs /\ runs' = runs /\ verdicts' = [verdicts EXCEPT ![c.job] = @ \cup {r}]
      BY <1>4 DEF Handle
    <2>4. state' = state /\ keys' = keys
      BY <2>3 DEF Visible, Live
    <2>5. Contract!Answer(c.job, r)
      BY <2>1, <2>2, <2>3, <2>4 DEF Contract!Answer
    <2>6. QED BY <2>1, <2>5
  <1>5. ASSUME NEW w \in Workers, Settle(w)
        PROVE  \/ \E j \in Jobs : Contract!Succeed(j)
               \/ \E S \in SUBSET Jobs : Contract!GiveUp(S)
               \/ UNCHANGED Contract!vars
    <2>1. PICK j \in Jobs :
           /\ jobs[j].status = "running" /\ jobs[j] \in Row
           /\ runs[j] = jobs[j].attempts + 1 /\ jobs[j].attempts < MaxAttempts
           /\ \A i \in Jobs \ {j} : jobs'[i] = jobs[i]
           /\ jobs' \in [Jobs -> Row]
           /\ runs' = runs /\ verdicts' = verdicts
           /\ \/ jobs'[j] = Succeeded(jobs[j]) /\ "ok" \in verdicts[j]
              \/ /\ jobs'[j] = Failed(jobs[j])
                 /\ "fatal" \in verdicts[j] \/ jobs[j].attempts + 1 >= MaxAttempts
              \/ jobs'[j] = BackedOff(jobs[j])
              \/ jobs'[j] = jobs[j]
      BY <1>5, SettleStep
    <2>2. \A i \in Jobs \ {j} : Visible(i)' = Visible(i)
      BY <2>1 DEF Visible, Live
    <2>3. Visible(j) = "pending"
      BY <2>1 DEF Visible, Live, LiveStatus
    <2>4. keys' = keys
      BY <2>1, WriteBackTypes
    <2>5. CASE jobs'[j] = Succeeded(jobs[j]) /\ "ok" \in verdicts[j]
      <3>1. Visible(j)' = "succeeded"
        BY <2>1, <2>5, WriteBackEffects DEF Visible, Live, LiveStatus
      <3>2. state' = [state EXCEPT ![j] = "succeeded"]
        BY <2>2, <3>1
      <3>3. Contract!Succeed(j)
        BY <2>1, <2>3, <2>4, <2>5, <3>2 DEF Contract!Succeed
      <3>4. QED BY <3>3
    <2>6. CASE /\ jobs'[j] = Failed(jobs[j])
               /\ "fatal" \in verdicts[j] \/ jobs[j].attempts + 1 >= MaxAttempts
      <3>1. Visible(j)' = "failed"
        BY <2>1, <2>6, WriteBackEffects DEF Visible, Live, LiveStatus
      <3>2. state' = [i \in Jobs |-> IF i \in {j} THEN "failed" ELSE state[i]]
        BY <2>2, <3>1
      <3>3. jobs[j].attempts + 1 >= MaxAttempts => runs[j] = MaxAttempts
        BY <1>0, <2>1
      <3>4. Contract!MayGiveUp(j)
        BY <2>3, <2>6, <3>3 DEF Contract!MayGiveUp
      <3>5. Contract!GiveUp({j})
        BY <2>1, <2>4, <3>2, <3>4 DEF Contract!GiveUp
      <3>6. {j} \in SUBSET Jobs
        OBVIOUS
      <3>7. QED BY <3>5, <3>6
    <2>7. CASE jobs'[j] = BackedOff(jobs[j]) \/ jobs'[j] = jobs[j]
      <3>1. Visible(j)' = "pending"
        BY <2>1, <2>7, WriteBackEffects DEF Visible, Live, LiveStatus
      <3>2. state' = state
        BY <2>2, <2>3, <3>1
      <3>3. QED BY <2>1, <2>4, <3>2 DEF Contract!vars
    <2>8. QED BY <2>1, <2>5, <2>6, <2>7
  <1>6. ASSUME NEW j \in Jobs, BecomesDue(j) \/ LeaseExpires(j)
        PROVE  UNCHANGED Contract!vars
    <2>1. \A i \in Jobs : jobs'[i].status = jobs[i].status /\ jobs'[i].key = jobs[i].key
      BY <1>6 DEF BecomesDue, LeaseExpires, TypeOK, Row
    <2>2. runs' = runs /\ verdicts' = verdicts
      BY <1>6 DEF BecomesDue, LeaseExpires, historyVars
    <2>3. QED BY <2>1, <2>2 DEF Contract!vars, Visible, Live
  <1>7. CASE \E w \in Workers : Crash(w)
    BY <1>s, <1>7 DEF Crash, historyVars
  <1>8. CASE (\E k \in Keys : EnqueueConflicts(k)) \/ UNCHANGED vars
    BY <1>s, <1>8 DEF EnqueueConflicts, vars
  <1>9. CASE Next
    BY <1>1, <1>2, <1>3, <1>4, <1>5, <1>6, <1>7, <1>8, <1>9 DEF Next, Contract!Next, Results
  <1>10. QED BY <1>8, <1>9

(* While leases outlast their holders, the table and its workers are a correct
   implementation of the promise made to producers.                             *)
THEOREM QueueKeepsContract == LeaseCovers => (Spec => ImplementsContract)
  <1>1. ASSUME LeaseCovers PROVE Spec => ImplementsContract
    <2>1. Spec => []HeldInv
      BY <1>1, HeldCorrect
    <2>2. Spec => []TypeInv
      BY TypeCorrect DEF TypeInv
    <2>3. TypeInv /\ HeldInv /\ [Next]_vars => [Contract!Next]_(Contract!vars)
      BY <1>1, NextContract
    <2>4. QED
      BY <2>1, <2>2, <2>3, InitContract, PTL DEF Spec, ImplementsContract, Contract!Spec
  <1>2. QED BY <1>1

(***************************************************************************)
(* Collection reminders.                                                   *)
(***************************************************************************)
LEMMA ReminderSteps == [ReminderNext]_allVars => [Next]_vars
<1> SUFFICES ASSUME ReminderNext PROVE [Next]_vars
  BY DEF allVars
<1>1. ASSUME NEW e \in Events, NEW k \in Keys, EnqueueReminder(e, k) PROVE [Next]_vars
  BY <1>1 DEF EnqueueReminder, Next, Events
<1>2. ASSUME NEW w \in Workers, NEW recorded \in BOOLEAN, HandlerReturns(w, recorded) PROVE [Next]_vars
  <2>1. PICK a \in sending[w], r \in Results: Handle(w, a.claim, r)
    BY <1>2 DEF HandlerReturns, Results
  <2>2. a.claim \in batch[w]
    BY <2>1 DEF Handle
  <2> QED
    BY <2>1, <2>2 DEF Next
<1>3. ASSUME NEW w \in Workers, WorkerCrash(w) PROVE [Next]_vars
  BY <1>3 DEF WorkerCrash, Next
<1>4. CASE QueueStep
  BY <1>4 DEF QueueStep, Next
<1>5. ASSUME UNCHANGED vars PROVE [Next]_vars
  BY <1>5
<1> QED
  BY <1>1, <1>2, <1>3, <1>4, <1>5 DEF ReminderNext, RecordReminder, EnqueueFails, ProviderAnswers

(* Reminders use the job queue as everybody does.                          *)
THEOREM RemindersAreJobs == ReminderSpec => Spec
<1>1. ReminderInit => Init
  BY DEF ReminderInit
<1> QED
  BY <1>1, ReminderSteps, PTL DEF ReminderSpec, Spec

(* A reminder's job is in the hands of one worker at a time.               *)
THEOREM ReminderRowsAreOwn == LeaseCovers => (ReminderSpec => []HeldRowIsOwn)
  BY RemindersAreJobs, HeldRowsAreOwn

(* No job of a reminder waits with its attempts spent.                     *)
THEOREM SpentRemindersFail == LeaseCovers => (ReminderSpec => []SpentJobIsFailed)
  BY RemindersAreJobs, SpentJobsFail

(* Reminders are given what JobContract promises a producer.               *)
THEOREM RemindersKeepContract == LeaseCovers => (ReminderSpec => ImplementsContract)
  BY RemindersAreJobs, QueueKeepsContract

(***************************************************************************)
(* The invariant.  An event and channel have one job at most, and have it  *)
(* once SendReminder is done with them; a handler that is about to report  *)
(* success has written "sent"; and copies never outrun the runs, a claim   *)
(* whose provider call is still to come not even reaching them.            *)
(***************************************************************************)
There(j) == jobs[j].status # "absent"
EventOf(j) == jobs[j].payload
ChannelOf(j) == jobs[j].key
For(j, e, k) == There(j) /\ EventOf(j) = e /\ ChannelOf(j) = k

Shown == {"none", "skipped", "queued", "sent", "failed"}

Announced(j) ==
  There(j) => /\ EventOf(j) \in Events /\ ChannelOf(j) \in Keys
              /\ ChannelOf(j) \notin todo[EventOf(j)]
              /\ delivery[EventOf(j)][ChannelOf(j)] # "none"

BookInv ==
  /\ delivery \in [Events -> [Keys -> Shown]]
  /\ todo \in [Events -> SUBSET Keys]
  /\ \A i, j \in Jobs: There(i) /\ For(j, EventOf(i), ChannelOf(i)) => i = j
  /\ \A j \in Jobs: Announced(j)
  /\ \A e \in Events: \A k \in todo[e]: delivery[e][k] # "none"

Sends(w, a) ==
  /\ phase[w] = "handle" /\ a.claim \in batch[w]
  /\ a.accepted => copies[EventOf(a.claim.job)][ChannelOf(a.claim.job)] > 0

Succeeding(w) ==
  phase[w] = "settle" /\ returned[w].result = "ok"
    => delivery[EventOf(returned[w].claim.job)][ChannelOf(returned[w].claim.job)] = "sent"

ShownInv ==
  /\ DOMAIN sending = Workers
  /\ \A w \in Workers: sending[w] = {} \/ \E a \in Answer: sending[w] = {a} /\ Sends(w, a)
  /\ \A w \in Workers: Succeeding(w)
  /\ \A j \in Jobs: jobs[j].status = "succeeded" => delivery[EventOf(j)][ChannelOf(j)] = "sent"
  /\ \A e \in Events, k \in Keys: delivery[e][k] = "sent" => copies[e][k] > 0

Called(w, c) == \/ \E a \in sending[w]: a.claim = c
                \/ phase[w] = "settle" /\ returned[w].claim = c

CopiesInv ==
  /\ copies \in [Events -> [Keys -> Nat]]
  /\ \A e \in Events, k \in Keys: copies[e][k] > 0 => \E j \in Jobs: For(j, e, k)
  /\ \A j \in Jobs: There(j) => copies[EventOf(j)][ChannelOf(j)] <= runs[j]
  /\ \A w \in Workers: \A c \in batch[w]: ~Called(w, c) => copies[EventOf(c.job)][ChannelOf(c.job)] < runs[c.job]
  /\ \A j \in Jobs: runs[j] \in 0 .. MaxAttempts

ReminderInv == BookInv /\ ShownInv /\ CopiesInv

(* What is known of the queue while leases outlast their holders.          *)
QueueInv == TypeInv /\ HeldInv

LEMMA Held ==
  ASSUME QueueInv, NEW w \in Workers, NEW c \in batch[w]
  PROVE  /\ c \in Claim /\ c.job \in Jobs /\ jobs[c.job].status = "running"
         /\ \A v \in Workers: \A d \in batch[v]: d.job = c.job => v = w /\ d = c
<1>1. c \in Claim /\ c.job \in Jobs /\ Own(w, c)
  BY DEF QueueInv, TypeInv, TypeOK, HeldInv, Claim
<1>2. ASSUME NEW v \in Workers, NEW d \in batch[v], d.job = c.job PROVE v = w /\ d = c
  <2>1. d \in Claim /\ Own(v, d)
    BY DEF QueueInv, TypeInv, TypeOK, HeldInv
  <2>2. v = w /\ d.attempts = c.attempts
    BY <1>1, <1>2, <2>1 DEF Own
  <2> QED
    BY <1>1, <1>2, <2>1, <2>2 DEF Claim
<1> QED
  BY <1>1, <1>2 DEF Own

LEMMA Settling ==
  ASSUME QueueInv, NEW w \in Workers, phase[w] = "settle"
  PROVE  returned[w].claim \in batch[w]
BY DEF QueueInv, TypeInv, SettlesOwnClaim

(* A step of the queue that inserts nothing.                               *)
Same(j) == /\ There(j)' <=> There(j)
           /\ EventOf(j)' = EventOf(j) /\ ChannelOf(j)' = ChannelOf(j)

LEMMA RowsKeepTheirs ==
  ASSUME LeaseCovers, QueueInv, QueueStep, NEW j \in Jobs
  PROVE  Same(j)
<1> USE DEF Same, There, EventOf, ChannelOf
<1>0. jobs \in [Jobs -> Row] /\ jobs[j] \in Row
  BY DEF QueueInv, TypeInv, TypeOK
<1>1. ASSUME NEW w \in Workers, RecoverStaleBackgroundJobs(w) PROVE Same(j)
  <2>1. Stale(j) => jobs'[j] = Recovered(jobs[j]) /\ There(j)
    BY <1>1 DEF RecoverStaleBackgroundJobs, Stale
  <2>2. ~Stale(j) => jobs'[j] = jobs[j]
    BY <1>1 DEF RecoverStaleBackgroundJobs
  <2>3. /\ Recovered(jobs[j]).payload = jobs[j].payload /\ Recovered(jobs[j]).key = jobs[j].key
        /\ Recovered(jobs[j]).status # "absent"
    BY <1>0 DEF Recovered, Released, Row
  <2> QED
    BY <2>1, <2>2, <2>3
<1>2. ASSUME NEW w \in Workers, ClaimDueBackgroundJobs(w) PROVE Same(j)
  <2>1. PICK S \in SUBSET Due:
           jobs' = [i \in Jobs |-> IF i \in S THEN [jobs[i] EXCEPT !.status = "running", !.lease = "held", !.lockedBy = w]
                                   ELSE jobs[i]]
    BY <1>2 DEF ClaimDueBackgroundJobs
  <2>2. j \in S => jobs[j].status = "queued"
    BY <2>1 DEF Due
  <2> QED
    BY <1>0, <2>1, <2>2 DEF Row
<1>3. ASSUME NEW w \in Workers, Settle(w) PROVE Same(j)
  <2>1. PICK i \in Jobs:
          /\ jobs[i].status = "running" /\ jobs[i] \in Row
          /\ \A n \in Jobs \ {i}: jobs'[n] = jobs[n]
          /\ \/ jobs'[i] = Succeeded(jobs[i]) \/ jobs'[i] = Failed(jobs[i])
             \/ jobs'[i] = BackedOff(jobs[i]) \/ jobs'[i] = jobs[i]
    BY <1>3, SettleStep DEF QueueInv
  <2>2. \A row \in {Succeeded(jobs[i]), Failed(jobs[i]), BackedOff(jobs[i])}:
          row.status # "absent" /\ row.payload = jobs[i].payload /\ row.key = jobs[i].key
    BY <2>1 DEF Succeeded, Failed, BackedOff, Released, Row
  <2> QED
    BY <2>1, <2>2
<1>4. ASSUME NEW i \in Jobs, BecomesDue(i) \/ LeaseExpires(i) PROVE Same(j)
  BY <1>0, <1>4 DEF BecomesDue, LeaseExpires, Row
<1> QED
  BY <1>1, <1>2, <1>3, <1>4 DEF QueueStep

(***************************************************************************)
(* The steps.                                                              *)
(***************************************************************************)
LEMMA RecordKeeps ==
  ASSUME QueueInv, ReminderInv, NEW e \in Events, NEW channels \in Reminders, RecordReminder(e, channels)
  PROVE  ReminderInv'
<1> USE DEF There, EventOf, ChannelOf, For
<1>0. /\ BookInv /\ ShownInv /\ CopiesInv
      /\ delivery \in [Events -> [Keys -> Shown]] /\ todo \in [Events -> SUBSET Keys]
      /\ UNCHANGED <<jobs, phase, batch, returned, runs, verdicts, sending, copies>>
  BY DEF ReminderInv, BookInv, RecordReminder, vars
<1>1. channels \subseteq Keys
  BY RemindersAssumption, RegisteredAssumption
<1>2. PICK marks: marks = [k \in Keys |-> IF k \in channels THEN "queued" ELSE "skipped"]
  OBVIOUS
<1>3. marks \in [Keys -> Shown] /\ \A k \in Keys: marks[k] \notin {"none", "sent"}
  BY <1>2 DEF Shown
<1>4. delivery' = [delivery EXCEPT ![e] = marks] /\ todo' = [todo EXCEPT ![e] = channels]
  BY <1>2 DEF RecordReminder
<1>5. \A k \in Keys: delivery[e][k] = "none"
  BY DEF RecordReminder
<1>6. \A j \in Jobs: There(j) => EventOf(j) # e
  BY <1>0, <1>5 DEF BookInv, Announced
<1>7. /\ delivery' \in [Events -> [Keys -> Shown]] /\ delivery'[e] = marks /\ todo'[e] = channels
      /\ todo' \in [Events -> SUBSET Keys]
      /\ \A f \in Events: f # e => delivery'[f] = delivery[f] /\ todo'[f] = todo[f]
  BY <1>0, <1>1, <1>3, <1>4
<1>8. BookInv'
  <2>1. \A j \in Jobs: Announced(j)'
    BY <1>0, <1>6, <1>7 DEF BookInv, Announced
  <2>2. \A f \in Events: \A k \in todo'[f]: delivery'[f][k] # "none"
    BY <1>0, <1>1, <1>3, <1>7 DEF BookInv
  <2> QED
    BY <1>0, <1>7, <2>1, <2>2 DEF BookInv
<1>9. ShownInv'
  <2>1. \A j \in Jobs: There(j) => delivery'[EventOf(j)] = delivery[EventOf(j)]
    BY <1>0, <1>6, <1>7 DEF BookInv, Announced
  <2>2. \A w \in Workers: Succeeding(w)'
    <3> SUFFICES ASSUME NEW w \in Workers, phase[w] = "settle", returned[w].result = "ok"
                 PROVE  Succeeding(w)'
      BY <1>0 DEF Succeeding
    <3>1. There(returned[w].claim.job) /\ returned[w].claim.job \in Jobs
      BY Settling, Held
    <3>2. Succeeding(w)
      BY <1>0 DEF ShownInv
    <3> QED
      BY <1>0, <2>1, <3>1, <3>2 DEF Succeeding
  <2>3. \A j \in Jobs: jobs[j].status = "succeeded" => delivery'[EventOf(j)][ChannelOf(j)] = "sent"
    BY <1>0, <2>1 DEF ShownInv
  <2>4. \A f \in Events, k \in Keys: delivery'[f][k] = "sent" => copies[f][k] > 0
    BY <1>0, <1>3, <1>7 DEF ShownInv
  <2> QED
    BY <1>0, <2>2, <2>3, <2>4 DEF ShownInv, Sends
<1>10. CopiesInv'
  BY <1>0 DEF CopiesInv, Called
<1> QED
  BY <1>8, <1>9, <1>10 DEF ReminderInv

LEMMA EnqueueFailsKeeps ==
  ASSUME QueueInv, ReminderInv, NEW e \in Events, NEW k \in Keys, EnqueueFails(e, k)
  PROVE  ReminderInv'
<1> USE DEF There, EventOf, ChannelOf, For
<1>0. /\ BookInv /\ ShownInv /\ CopiesInv
      /\ delivery \in [Events -> [Keys -> Shown]] /\ todo \in [Events -> SUBSET Keys]
      /\ UNCHANGED <<jobs, phase, batch, returned, runs, verdicts, sending, copies>>
  BY DEF ReminderInv, BookInv, EnqueueFails, vars
<1>1. \A j \in Jobs: There(j) => EventOf(j) \in Events /\ ChannelOf(j) \in Keys
                                 /\ ~(EventOf(j) = e /\ ChannelOf(j) = k)
  BY <1>0 DEF BookInv, Announced, EnqueueFails
<1>2. /\ delivery' \in [Events -> [Keys -> Shown]]
      /\ \A f \in Events, n \in Keys: (f # e \/ n # k) => delivery'[f][n] = delivery[f][n]
      /\ delivery'[e][k] = delivery[e][k] \/ delivery'[e][k] = "failed"
  <2>1. CASE delivery' = delivery
    BY <1>0, <2>1
  <2>2. CASE delivery' = [delivery EXCEPT ![e][k] = "failed"]
    <3>1. PICK marks: marks = [delivery[e] EXCEPT ![k] = "failed"]
      OBVIOUS
    <3>2. /\ marks \in [Keys -> Shown] /\ marks[k] = "failed"
          /\ \A n \in Keys: n # k => marks[n] = delivery[e][n]
      BY <1>0, <3>1 DEF Shown
    <3>3. delivery' = [delivery EXCEPT ![e] = marks]
      BY <2>2, <3>1
    <3> QED
      BY <1>0, <3>2, <3>3
  <2> QED
    BY <2>1, <2>2 DEF EnqueueFails
<1>3. /\ todo' \in [Events -> SUBSET Keys]
      /\ \A f \in Events: todo'[f] \subseteq todo[f]
  BY <1>0 DEF EnqueueFails
<1>4. BookInv'
  <2>1. \A j \in Jobs: Announced(j)'
    BY <1>0, <1>1, <1>2, <1>3 DEF BookInv, Announced
  <2>2. \A f \in Events: \A n \in todo'[f]: delivery'[f][n] # "none"
    BY <1>0, <1>2, <1>3 DEF BookInv
  <2> QED
    BY <1>0, <1>2, <1>3, <2>1, <2>2 DEF BookInv
<1>5. ShownInv'
  <2>1. \A j \in Jobs: There(j) => delivery'[EventOf(j)][ChannelOf(j)] = delivery[EventOf(j)][ChannelOf(j)]
    BY <1>1, <1>2
  <2>2. \A w \in Workers: Succeeding(w)'
    <3> SUFFICES ASSUME NEW w \in Workers, phase[w] = "settle", returned[w].result = "ok"
                 PROVE  Succeeding(w)'
      BY <1>0 DEF Succeeding
    <3>1. There(returned[w].claim.job) /\ returned[w].claim.job \in Jobs
      BY Settling, Held
    <3>2. Succeeding(w)
      BY <1>0 DEF ShownInv
    <3> QED
      BY <1>0, <2>1, <3>1, <3>2 DEF Succeeding
  <2>3. \A j \in Jobs: jobs[j].status = "succeeded" => delivery'[EventOf(j)][ChannelOf(j)] = "sent"
    BY <1>0, <2>1 DEF ShownInv
  <2>4. \A f \in Events, n \in Keys: delivery'[f][n] = "sent" => copies[f][n] > 0
    BY <1>0, <1>2 DEF ShownInv
  <2> QED
    BY <1>0, <2>2, <2>3, <2>4 DEF ShownInv, Sends
<1>6. CopiesInv'
  BY <1>0 DEF CopiesInv, Called
<1> QED
  BY <1>4, <1>5, <1>6 DEF ReminderInv

LEMMA EnqueueKeeps ==
  ASSUME QueueInv, ReminderInv, NEW e \in Events, NEW k \in Keys, EnqueueReminder(e, k)
  PROVE  ReminderInv'
<1> USE DEF There, EventOf, ChannelOf, For
<1>0. /\ BookInv /\ ShownInv /\ CopiesInv
      /\ delivery \in [Events -> [Keys -> Shown]] /\ todo \in [Events -> SUBSET Keys]
      /\ UNCHANGED <<delivery, sending, copies>> /\ k \in todo[e]
  BY DEF ReminderInv, BookInv, EnqueueReminder
<1>1. todo' \in [Events -> SUBSET Keys] /\ k \notin todo'[e] /\ \A f \in Events: todo'[f] \subseteq todo[f]
  BY <1>0 DEF EnqueueReminder
<1>2. CASE EnqueueConflicts(k)
  <2>1. UNCHANGED <<jobs, phase, batch, returned, runs, verdicts>>
    BY <1>2 DEF EnqueueConflicts, vars
  <2>2. BookInv'
    BY <1>0, <1>1, <2>1 DEF BookInv, Announced
  <2>3. ShownInv' /\ CopiesInv'
    BY <1>0, <2>1 DEF ShownInv, Sends, Succeeding, CopiesInv, Called
  <2> QED
    BY <2>2, <2>3 DEF ReminderInv
<1>3. ASSUME NEW j \in Jobs, EnqueueInserts(j, k, e) PROVE ReminderInv'
  <2>1. PICK row: row = [NoRow EXCEPT !.status = "queued", !.key = k, !.payload = e, !.due = TRUE]
    OBVIOUS
  <2>2. row.status = "queued" /\ row.payload = e /\ row.key = k
    BY <2>1 DEF NoRow
  <2>3. /\ jobs' = [jobs EXCEPT ![j] = row] /\ ~There(j)
        /\ UNCHANGED <<phase, batch, returned, runs, verdicts>>
    BY <1>3, <2>1 DEF EnqueueInserts, workerVars, historyVars
  <2>4. jobs'[j] = row /\ \A i \in Jobs: i # j => jobs'[i] = jobs[i]
    BY <2>3 DEF QueueInv, TypeInv, TypeOK
  <2>5. \A i \in Jobs: ~For(i, e, k)
    BY <1>0 DEF BookInv, Announced
  <2>6. BookInv'
    <3>1. \A i, n \in Jobs: There(i)' /\ For(n, EventOf(i), ChannelOf(i))' => i = n
      BY <1>0, <2>2, <2>4, <2>5 DEF BookInv
    <3>2. \A i \in Jobs: Announced(i)'
      BY <1>0, <1>1, <2>2, <2>4 DEF BookInv, Announced
    <3> QED
      BY <1>0, <1>1, <3>1, <3>2 DEF BookInv
  <2>7. \A w \in Workers: \A c \in batch[w]: c.job \in Jobs /\ c.job # j
    BY <2>3, Held
  <2>8. ShownInv'
    <3>1. \A w \in Workers: Succeeding(w)'
      <4> SUFFICES ASSUME NEW w \in Workers, phase[w] = "settle", returned[w].result = "ok"
                   PROVE  Succeeding(w)'
        BY <2>3 DEF Succeeding
      <4>1. returned[w].claim.job \in Jobs /\ returned[w].claim.job # j /\ Succeeding(w)
        BY <1>0, <2>7, Settling DEF ShownInv
      <4> QED
        BY <1>0, <2>3, <2>4, <4>1 DEF Succeeding
    <3>2. \A w \in Workers: sending[w] = {} \/ \E a \in Answer: sending[w] = {a} /\ Sends(w, a)'
      BY <1>0, <2>3, <2>4, <2>7 DEF ShownInv, Sends
    <3>3. \A i \in Jobs: jobs'[i].status = "succeeded" => delivery[EventOf(i)'][ChannelOf(i)'] = "sent"
      BY <1>0, <2>2, <2>4 DEF ShownInv
    <3> QED
      BY <1>0, <3>1, <3>2, <3>3 DEF ShownInv
  <2>9. CopiesInv'
    <3>1. copies[e][k] = 0
      BY <1>0, <2>5 DEF CopiesInv
    <3>2. runs[j] = 0
      BY <2>3 DEF QueueInv, HeldInv, Unrun
    <3>3. \A f \in Events, n \in Keys: copies[f][n] > 0 => \E i \in Jobs: For(i, f, n)'
      <4> SUFFICES ASSUME NEW f \in Events, NEW n \in Keys, copies[f][n] > 0 PROVE \E i \in Jobs: For(i, f, n)'
        OBVIOUS
      <4>1. PICK i \in Jobs: For(i, f, n)
        BY <1>0 DEF CopiesInv
      <4>2. i # j
        BY <2>3, <4>1
      <4> QED
        BY <2>4, <4>1, <4>2
    <3>4. \A i \in Jobs: There(i)' => copies[EventOf(i)'][ChannelOf(i)'] <= runs[i]
      BY <1>0, <2>2, <2>4, <3>1, <3>2 DEF CopiesInv
    <3>5. \A w \in Workers: \A c \in batch[w]:
            ~Called(w, c) => copies[EventOf(c.job)'][ChannelOf(c.job)'] < runs[c.job]
      BY <1>0, <2>4, <2>7 DEF CopiesInv
    <3> QED
      BY <1>0, <2>3, <3>3, <3>4, <3>5 DEF CopiesInv, Called
  <2> QED
    BY <2>6, <2>8, <2>9 DEF ReminderInv
<1> QED
  BY <1>2, <1>3 DEF EnqueueReminder

LEMMA AnswerKeeps ==
  ASSUME QueueInv, ReminderInv, NEW w \in Workers, NEW c \in batch[w], NEW delivered \in BOOLEAN,
         NEW accepted \in BOOLEAN, ProviderAnswers(w, c, delivered, accepted)
  PROVE  ReminderInv'
<1> USE DEF There, EventOf, ChannelOf, For
<1>0. /\ BookInv /\ ShownInv /\ CopiesInv /\ copies \in [Events -> [Keys -> Nat]]
      /\ UNCHANGED <<jobs, phase, batch, returned, runs, verdicts, delivery, todo>>
      /\ phase[w] = "handle" /\ sending[w] = {} /\ (accepted => delivered)
  BY DEF ReminderInv, CopiesInv, ProviderAnswers, vars
<1>1. PICK j: j = c.job
  OBVIOUS
<1>2. /\ c \in Claim /\ j \in Jobs /\ There(j) /\ EventOf(j) \in Events /\ ChannelOf(j) \in Keys
      /\ \A v \in Workers: \A d \in batch[v]: d.job = j => v = w /\ d = c
  BY <1>0, <1>1, Held DEF BookInv, Announced
<1>3. PICK e \in Events, k \in Keys: e = EventOf(j) /\ k = ChannelOf(j)
  BY <1>2
<1>4. PICK n \in Nat: n = IF delivered THEN copies[e][k] + 1 ELSE copies[e][k]
  BY <1>0
<1>5. copies' = [copies EXCEPT ![e][k] = n]
  BY <1>0, <1>1, <1>3, <1>4 DEF ProviderAnswers
<1>6. /\ copies' \in [Events -> [Keys -> Nat]] /\ copies'[e][k] = n
      /\ \A f \in Events, m \in Keys: (f # e \/ m # k) => copies'[f][m] = copies[f][m]
  <2>1. PICK counts: counts = [copies[e] EXCEPT ![k] = n]
    OBVIOUS
  <2>2. /\ counts \in [Keys -> Nat] /\ counts[k] = n /\ \A m \in Keys: m # k => counts[m] = copies[e][m]
    BY <1>0, <2>1
  <2>3. copies' = [copies EXCEPT ![e] = counts]
    BY <1>5, <2>1
  <2> QED
    BY <1>0, <2>2, <2>3
<1>7. \A f \in Events, m \in Keys: copies[f][m] <= copies'[f][m] /\ copies[f][m] \in Nat /\ copies'[f][m] \in Nat
  <2>1. copies[e][k] \in Nat /\ copies[e][k] <= n
    BY <1>0, <1>4
  <2> QED
    BY <1>0, <1>6, <2>1
<1>8. PICK a \in Answer: a = [claim |-> c, accepted |-> accepted]
  BY <1>2 DEF Answer
<1>9. /\ sending' = [sending EXCEPT ![w] = {a}] /\ a.claim = c /\ a.accepted = accepted
  BY <1>8 DEF ProviderAnswers
<1>10. DOMAIN sending' = Workers /\ sending'[w] = {a} /\ \A v \in Workers: v # w => sending'[v] = sending[v]
  BY <1>0, <1>9 DEF ShownInv
<1>11. copies[e][k] < runs[j] /\ runs[j] \in Nat
  BY <1>0, <1>1, <1>2, <1>3 DEF CopiesInv, Called, QueueInv, TypeInv, TypeOK
<1>12. BookInv'
  BY <1>0 DEF BookInv, Announced
<1>13. ShownInv'
  <2>1. ASSUME NEW v \in Workers PROVE sending'[v] = {} \/ \E b \in Answer: sending'[v] = {b} /\ Sends(v, b)'
    <3>1. CASE v = w
      <4>1. accepted => copies'[e][k] > 0
        BY <1>0, <1>4, <1>6
      <4>2. Sends(w, a)'
        BY <1>0, <1>1, <1>3, <1>9, <4>1 DEF Sends
      <4> QED
        BY <1>8, <1>10, <3>1, <4>2
    <3>2. CASE v # w /\ sending[v] # {}
      <4>1. PICK b \in Answer: sending[v] = {b} /\ Sends(v, b)
        BY <1>0, <3>2 DEF ShownInv
      <4>2. b.claim.job \in Jobs /\ There(b.claim.job)
        BY <4>1, Held DEF Sends
      <4>3. EventOf(b.claim.job) \in Events /\ ChannelOf(b.claim.job) \in Keys
        BY <1>0, <4>2 DEF BookInv, Announced
      <4>4. Sends(v, b)'
        BY <1>0, <1>7, <4>1, <4>3 DEF Sends
      <4> QED
        BY <1>10, <3>2, <4>1, <4>4
    <3> QED
      BY <1>10, <3>1, <3>2
  <2>2. \A f \in Events, m \in Keys: delivery[f][m] = "sent" => copies'[f][m] > 0
    BY <1>0, <1>7 DEF ShownInv
  <2> QED
    BY <1>0, <1>10, <2>1, <2>2 DEF ShownInv, Succeeding
<1>14. CopiesInv'
  <2>1. \A f \in Events, m \in Keys: copies'[f][m] > 0 => \E i \in Jobs: For(i, f, m)
    BY <1>0, <1>2, <1>3, <1>6 DEF CopiesInv
  <2>2. \A i \in Jobs: There(i) /\ i # j => EventOf(i) # e \/ ChannelOf(i) # k
    BY <1>0, <1>2, <1>3 DEF BookInv
  <2>3. ASSUME NEW i \in Jobs, There(i) PROVE copies'[EventOf(i)][ChannelOf(i)] <= runs[i]
    <3>1. EventOf(i) \in Events /\ ChannelOf(i) \in Keys
      BY <1>0, <2>3 DEF BookInv, Announced
    <3>2. CASE i = j
      BY <1>3, <1>4, <1>6, <1>7, <1>11, <3>2
    <3>3. CASE i # j
      BY <1>0, <1>6, <2>2, <2>3, <3>1, <3>3 DEF CopiesInv
    <3> QED
      BY <3>2, <3>3
  <2>4. ASSUME NEW v \in Workers, NEW d \in batch[v], ~Called(v, d)'
        PROVE  copies'[EventOf(d.job)][ChannelOf(d.job)] < runs[d.job]
    <3>1. d.job \in Jobs /\ There(d.job)
      BY Held
    <3>2. EventOf(d.job) \in Events /\ ChannelOf(d.job) \in Keys
      BY <1>0, <3>1 DEF BookInv, Announced
    <3>3. d # c \/ v # w
      BY <1>0, <1>9, <1>10, <2>4 DEF Called
    <3>4. d.job # j
      BY <1>2, <3>3
    <3>5. ~Called(v, d)
      BY <1>0, <1>10, <2>4 DEF Called
    <3>6. copies[EventOf(d.job)][ChannelOf(d.job)] < runs[d.job]
      BY <1>0, <3>5 DEF CopiesInv
    <3> QED
      BY <1>6, <2>2, <3>1, <3>2, <3>4, <3>6
  <2> QED
    BY <1>0, <1>6, <2>1, <2>3, <2>4 DEF CopiesInv
<1> QED
  BY <1>12, <1>13, <1>14 DEF ReminderInv

LEMMA ReturnKeeps ==
  ASSUME QueueInv, ReminderInv, NEW w \in Workers, NEW recorded \in BOOLEAN, HandlerReturns(w, recorded)
  PROVE  ReminderInv'
<1> USE DEF There, EventOf, ChannelOf, For
<1>0. BookInv /\ ShownInv /\ CopiesInv /\ delivery \in [Events -> [Keys -> Shown]]
  BY DEF ReminderInv, BookInv
<1>1. PICK a \in Answer: sending[w] = {a} /\ Sends(w, a)
  BY <1>0 DEF ShownInv, HandlerReturns
<1>2. PICK c \in Claim: c = a.claim
  BY DEF Answer
<1>3. PICK j: j = c.job
  OBVIOUS
<1>4. /\ c \in batch[w] /\ j \in Jobs /\ jobs[j].status = "running" /\ There(j)
      /\ EventOf(j) \in Events /\ ChannelOf(j) \in Keys /\ phase[w] = "handle"
      /\ \A v \in Workers: \A d \in batch[v]: d.job = j => v = w /\ d = c
  BY <1>0, <1>1, <1>2, <1>3, Held DEF Sends, BookInv, Announced
<1>5. PICK e \in Events, k \in Keys: e = EventOf(j) /\ k = ChannelOf(j)
  BY <1>4
<1>6. PICK result: result = IF Succeeds(a.accepted, recorded) THEN "ok" ELSE "retry"
  OBVIOUS
<1>7. /\ Handle(w, c, result)
      /\ delivery' = IF recorded THEN [delivery EXCEPT ![e][k] = Outcome(a.accepted)] ELSE delivery
      /\ sending' = [sending EXCEPT ![w] = {}]
      /\ UNCHANGED <<todo, copies>>
  BY <1>1, <1>2, <1>3, <1>5, <1>6 DEF HandlerReturns
<1>8. PICK back: back = [claim |-> c, result |-> result]
  OBVIOUS
<1>9. /\ back.claim = c /\ back.result = result
      /\ returned' = [returned EXCEPT ![w] = back] /\ phase' = [phase EXCEPT ![w] = "settle"]
      /\ UNCHANGED <<jobs, batch, runs>>
  BY <1>7, <1>8 DEF Handle
<1>10. /\ returned'[w] = back /\ phase'[w] = "settle"
       /\ \A v \in Workers: v # w => returned'[v] = returned[v] /\ phase'[v] = phase[v]
  BY <1>9 DEF QueueInv, TypeInv, TypeOK
<1>11. DOMAIN sending' = Workers /\ sending'[w] = {} /\ \A v \in Workers: v # w => sending'[v] = sending[v]
  BY <1>0, <1>7 DEF ShownInv
<1>12. /\ delivery' \in [Events -> [Keys -> Shown]]
       /\ \A f \in Events, m \in Keys: (f # e \/ m # k) => delivery'[f][m] = delivery[f][m]
       /\ delivery'[e][k] = IF recorded THEN Outcome(a.accepted) ELSE delivery[e][k]
  <2>1. CASE ~recorded
    BY <1>0, <1>7, <2>1
  <2>2. CASE recorded
    <3>1. PICK marks: marks = [delivery[e] EXCEPT ![k] = Outcome(a.accepted)]
      OBVIOUS
    <3>2. Outcome(a.accepted) \in Shown
      BY DEF Outcome, Shown
    <3>3. /\ marks \in [Keys -> Shown] /\ marks[k] = Outcome(a.accepted)
          /\ \A n \in Keys: n # k => marks[n] = delivery[e][n]
      BY <1>0, <3>1, <3>2
    <3>4. delivery' = [delivery EXCEPT ![e] = marks]
      BY <1>7, <2>2, <3>1
    <3> QED
      BY <1>0, <2>2, <3>3, <3>4
  <2> QED
    BY <2>1, <2>2
<1>13. Outcome(a.accepted) # "none" /\ (Outcome(a.accepted) = "sent" => a.accepted)
  BY DEF Outcome
<1>14. BookInv'
  <2>1. \A i \in Jobs: Announced(i)'
    BY <1>0, <1>5, <1>7, <1>9, <1>12, <1>13 DEF BookInv, Announced
  <2>2. \A f \in Events: \A m \in todo[f]: delivery'[f][m] # "none"
    BY <1>0, <1>12, <1>13 DEF BookInv
  <2> QED
    BY <1>0, <1>7, <1>9, <1>12, <2>1, <2>2 DEF BookInv
<1>15. \A i \in Jobs: There(i) /\ i # j => delivery'[EventOf(i)][ChannelOf(i)] = delivery[EventOf(i)][ChannelOf(i)]
  <2>1. \A i \in Jobs: There(i) /\ i # j => EventOf(i) # e \/ ChannelOf(i) # k
    BY <1>0, <1>4, <1>5 DEF BookInv
  <2> QED
    BY <1>0, <1>12, <2>1 DEF BookInv, Announced
<1>16. ShownInv'
  <2>1. \A v \in Workers: sending'[v] = {} \/ \E b \in Answer: sending'[v] = {b} /\ Sends(v, b)'
    BY <1>0, <1>7, <1>9, <1>10, <1>11 DEF ShownInv, Sends
  <2>2. ASSUME NEW v \in Workers PROVE Succeeding(v)'
    <3>1. CASE v = w
      <4>1. result = "ok" => a.accepted /\ recorded
        BY <1>6 DEF Succeeds
      <4>2. result = "ok" => delivery'[e][k] = "sent"
        BY <1>12, <4>1 DEF Outcome
      <4> QED
        BY <1>3, <1>5, <1>9, <1>10, <3>1, <4>2 DEF Succeeding
    <3>2. CASE v # w /\ phase[v] = "settle" /\ returned[v].result = "ok"
      <4>1. returned[v].claim.job \in Jobs /\ There(returned[v].claim.job) /\ returned[v].claim.job # j
        BY <1>4, <3>2, Settling, Held
      <4>2. Succeeding(v)
        BY <1>0 DEF ShownInv
      <4> QED
        BY <1>9, <1>10, <1>15, <3>2, <4>1, <4>2 DEF Succeeding
    <3> QED
      BY <1>10, <3>1, <3>2 DEF Succeeding
  <2>3. \A i \in Jobs: jobs[i].status = "succeeded" => delivery'[EventOf(i)][ChannelOf(i)] = "sent"
    BY <1>0, <1>4, <1>15 DEF ShownInv
  <2>4. \A f \in Events, m \in Keys: delivery'[f][m] = "sent" => copies[f][m] > 0
    BY <1>0, <1>1, <1>2, <1>3, <1>5, <1>12, <1>13 DEF ShownInv, Sends
  <2> QED
    BY <1>7, <1>9, <1>11, <2>1, <2>2, <2>3, <2>4 DEF ShownInv
<1>17. CopiesInv'
  <2>1. ASSUME NEW v \in Workers, NEW d \in batch[v], ~Called(v, d)' PROVE ~Called(v, d)
    <3>1. CASE v = w
      <4>1. d # c
        BY <1>9, <1>10, <2>1, <3>1 DEF Called
      <4> QED
        BY <1>1, <1>2, <1>4, <3>1, <4>1 DEF Called
    <3>2. CASE v # w
      BY <1>10, <1>11, <2>1, <3>2 DEF Called
    <3> QED
      BY <3>1, <3>2
  <2> QED
    BY <1>0, <1>7, <1>9, <2>1 DEF CopiesInv
<1> QED
  BY <1>14, <1>16, <1>17 DEF ReminderInv
(***************************************************************************)
(* The steps that insert no job and write no event: the invariant stays    *)
(* when handlers only let go of what they hold, a success rests on an      *)
(* event marked as sent, and a claim taken is a run counted.               *)
(***************************************************************************)
SendingLetsGo(w) ==
  \/ sending'[w] = {}
  \/ sending'[w] = sending[w] /\ \A a \in sending[w]: phase'[w] = "handle" /\ a.claim \in batch'[w]

NothingReturned(w) == phase'[w] = "settle" => phase[w] = "settle" /\ returned'[w] = returned[w]

SuccessRests(j) ==
  jobs'[j].status = "succeeded"
    => jobs[j].status = "succeeded" \/ delivery[EventOf(j)][ChannelOf(j)] = "sent"

RunsGrow(j) == runs[j] <= runs'[j] /\ runs'[j] <= MaxAttempts /\ runs'[j] \in Nat /\ runs[j] \in Nat

CallIsDue(w, c) ==
  /\ c.job \in Jobs /\ There(c.job)
  /\ (c \in batch[w] /\ ~Called(w, c)) \/ runs[c.job] < runs'[c.job]

LEMMA QuietKeeps ==
  ASSUME QueueInv, ReminderInv, UNCHANGED <<delivery, todo, copies>>,
         \A j \in Jobs: Same(j) /\ SuccessRests(j) /\ RunsGrow(j),
         DOMAIN sending' = Workers,
         \A w \in Workers: SendingLetsGo(w) /\ NothingReturned(w),
         \A w \in Workers: \A c \in batch'[w]: ~Called(w, c)' => CallIsDue(w, c)
  PROVE  ReminderInv'
<1>0. BookInv /\ ShownInv /\ CopiesInv
  BY DEF ReminderInv
<1>1. \A j \in Jobs: /\ There(j)' <=> There(j)
                     /\ EventOf(j)' = EventOf(j) /\ ChannelOf(j)' = ChannelOf(j)
  BY DEF Same
<1>2. BookInv'
  <2>1. \A j \in Jobs: Announced(j)'
    BY <1>0, <1>1 DEF BookInv, Announced
  <2>2. \A i, j \in Jobs: There(i)' /\ For(j, EventOf(i), ChannelOf(i))' => i = j
    BY <1>0, <1>1 DEF BookInv, For
  <2> QED
    BY <1>0, <2>1, <2>2 DEF BookInv
<1>3. ShownInv'
  <2>1. ASSUME NEW w \in Workers PROVE sending'[w] = {} \/ \E a \in Answer: sending'[w] = {a} /\ Sends(w, a)'
    <3> SUFFICES ASSUME sending'[w] # {} PROVE \E a \in Answer: sending'[w] = {a} /\ Sends(w, a)'
      OBVIOUS
    <3>1. sending'[w] = sending[w] /\ \A a \in sending[w]: phase'[w] = "handle" /\ a.claim \in batch'[w]
      BY DEF SendingLetsGo
    <3>2. PICK a \in Answer: sending[w] = {a} /\ Sends(w, a)
      BY <1>0, <3>1 DEF ShownInv
    <3>3. a.claim.job \in Jobs
      BY DEF Answer, Claim
    <3>4. Sends(w, a)'
      BY <1>1, <3>1, <3>2, <3>3 DEF Sends
    <3> QED
      BY <3>1, <3>2, <3>4
  <2>2. ASSUME NEW w \in Workers PROVE Succeeding(w)'
    <3> SUFFICES ASSUME phase'[w] = "settle", returned'[w].result = "ok" PROVE Succeeding(w)'
      BY DEF Succeeding
    <3>1. phase[w] = "settle" /\ returned'[w] = returned[w]
      BY DEF NothingReturned
    <3>2. returned[w].claim.job \in Jobs /\ Succeeding(w)
      BY <1>0, <3>1, Settling, Held DEF ShownInv
    <3> QED
      BY <1>1, <3>1, <3>2 DEF Succeeding
  <2>3. \A j \in Jobs: jobs'[j].status = "succeeded" => delivery[EventOf(j)'][ChannelOf(j)'] = "sent"
    BY <1>0, <1>1 DEF ShownInv, SuccessRests
  <2> QED
    BY <1>0, <2>1, <2>2, <2>3 DEF ShownInv
<1>4. CopiesInv'
  <2>1. \A e \in Events, k \in Keys: copies[e][k] > 0 => \E j \in Jobs: For(j, e, k)'
    BY <1>0, <1>1 DEF CopiesInv, For
  <2>2. \A j \in Jobs: There(j) => /\ EventOf(j) \in Events /\ ChannelOf(j) \in Keys
                                   /\ copies[EventOf(j)][ChannelOf(j)] <= runs[j]
                                   /\ copies[EventOf(j)][ChannelOf(j)] \in Nat
    BY <1>0 DEF BookInv, Announced, CopiesInv
  <2>3. \A j \in Jobs: There(j)' => copies[EventOf(j)'][ChannelOf(j)'] <= runs'[j]
    BY <1>1, <2>2 DEF RunsGrow
  <2>4. ASSUME NEW w \in Workers, NEW c \in batch'[w], ~Called(w, c)'
        PROVE  copies[EventOf(c.job)'][ChannelOf(c.job)'] < runs'[c.job]
    <3>1. CallIsDue(w, c) /\ c.job \in Jobs /\ There(c.job) /\ RunsGrow(c.job)
      BY <2>4 DEF CallIsDue
    <3>2. CASE c \in batch[w] /\ ~Called(w, c)
      <4>1. copies[EventOf(c.job)][ChannelOf(c.job)] < runs[c.job]
        BY <1>0, <3>2 DEF CopiesInv
      <4> QED
        BY <1>1, <2>2, <3>1, <4>1 DEF RunsGrow
    <3>3. CASE runs[c.job] < runs'[c.job]
      BY <1>1, <2>2, <3>1, <3>3 DEF RunsGrow
    <3> QED
      BY <3>1, <3>2, <3>3 DEF CallIsDue
  <2>5. \A j \in Jobs: runs'[j] \in 0 .. MaxAttempts
    BY MaxAttemptsAssumption DEF RunsGrow
  <2> QED
    BY <1>0, <2>1, <2>3, <2>4, <2>5 DEF CopiesInv
<1> QED
  BY <1>2, <1>3, <1>4 DEF ReminderInv

\* What holds of every worker and row before a step.
LEMMA HandsBefore ==
  ASSUME QueueInv, ReminderInv
  PROVE  /\ DOMAIN sending = Workers /\ DOMAIN phase = Workers /\ DOMAIN batch = Workers
         /\ DOMAIN returned = Workers
         /\ \A w \in Workers: phase[w] # "handle" => sending[w] = {}
         /\ \A w \in Workers: phase[w] \in {"recover", "claim"} => batch[w] = {}
         /\ \A w \in Workers: \A a \in sending[w]: phase[w] = "handle" /\ a.claim \in batch[w]
         /\ \A w \in Workers: \A c \in batch[w]: c.job \in Jobs /\ There(c.job)
         /\ \A j \in Jobs: runs[j] \in Nat /\ runs[j] <= MaxAttempts /\ jobs[j] \in Row
<1>1. \A w \in Workers: \A c \in batch[w]: c.job \in Jobs /\ There(c.job)
  BY Held DEF There
<1> QED
  BY <1>1 DEF QueueInv, TypeInv, TypeOK, HeldInv, ReminderInv, ShownInv, CopiesInv, Sends

LEMMA CrashKeeps ==
  ASSUME QueueInv, ReminderInv, NEW w \in Workers, WorkerCrash(w)
  PROVE  ReminderInv'
<1>1. /\ UNCHANGED <<jobs, runs, delivery, todo, copies>>
      /\ batch' = [batch EXCEPT ![w] = {}] /\ returned' = [returned EXCEPT ![w] = NoReturn]
      /\ phase' = [phase EXCEPT ![w] = "recover"] /\ sending' = [sending EXCEPT ![w] = {}]
  BY DEF WorkerCrash, Crash, historyVars
<1>2. \A j \in Jobs: Same(j) /\ SuccessRests(j) /\ RunsGrow(j)
  BY <1>1, HandsBefore, MaxAttemptsAssumption DEF Same, SuccessRests, RunsGrow, There, EventOf, ChannelOf
<1>3. DOMAIN sending' = Workers /\ \A v \in Workers: SendingLetsGo(v) /\ NothingReturned(v)
  BY <1>1, HandsBefore DEF SendingLetsGo, NothingReturned
<1>4. \A v \in Workers: \A c \in batch'[v]: ~Called(v, c)' => CallIsDue(v, c)
  BY <1>1, HandsBefore DEF Called, CallIsDue
<1> QED
  BY <1>1, <1>2, <1>3, <1>4, QuietKeeps

LEMMA RecoverKeeps ==
  ASSUME LeaseCovers, QueueInv, ReminderInv, QueueStep, NEW w \in Workers, RecoverStaleBackgroundJobs(w)
  PROVE  ReminderInv'
<1>1. /\ UNCHANGED <<batch, returned, runs, delivery, todo, copies, sending>>
      /\ phase[w] = "recover" /\ phase' = [phase EXCEPT ![w] = "claim"]
      /\ jobs' = [j \in Jobs |-> IF Stale(j) THEN Recovered(jobs[j]) ELSE jobs[j]]
  BY DEF RecoverStaleBackgroundJobs, QueueStep, reminderVars, historyVars
<1>2. \A j \in Jobs: Same(j) /\ SuccessRests(j) /\ RunsGrow(j)
  BY <1>1, HandsBefore, RowsKeepTheirs, WriteBackEffects, MaxAttemptsAssumption DEF SuccessRests, RunsGrow
<1>3. DOMAIN sending' = Workers /\ \A v \in Workers: SendingLetsGo(v) /\ NothingReturned(v)
  BY <1>1, HandsBefore DEF SendingLetsGo, NothingReturned
<1>4. \A v \in Workers: \A c \in batch'[v]: ~Called(v, c)' => CallIsDue(v, c)
  BY <1>1, HandsBefore DEF Called, CallIsDue
<1> QED
  BY <1>1, <1>2, <1>3, <1>4, QuietKeeps

LEMMA ClaimKeeps ==
  ASSUME LeaseCovers, QueueInv, ReminderInv, QueueStep, NEW w \in Workers, ClaimDueBackgroundJobs(w)
  PROVE  ReminderInv'
<1>1. PICK S \in SUBSET Due:
        /\ jobs' = [j \in Jobs |-> IF j \in S THEN [jobs[j] EXCEPT !.status = "running", !.lease = "held", !.lockedBy = w]
                                   ELSE jobs[j]]
        /\ batch' = [batch EXCEPT ![w] = {[job |-> j, attempts |-> jobs[j].attempts]: j \in S}]
        /\ phase' = [phase EXCEPT ![w] = IF S = {} THEN "recover" ELSE "handle"]
        /\ runs' = [j \in Jobs |-> IF j \in S THEN runs[j] + 1 ELSE runs[j]]
  BY DEF ClaimDueBackgroundJobs
<1>2. UNCHANGED <<returned, delivery, todo, copies, sending>> /\ phase[w] = "claim"
  BY DEF ClaimDueBackgroundJobs, QueueStep, reminderVars
<1>3. ASSUME NEW j \in S PROVE j \in Jobs /\ jobs[j].status = "queued" /\ runs[j] < MaxAttempts
  <2>1. j \in Jobs /\ jobs[j].status = "queued"
    BY DEF Due
  <2>2. Budgeted(j) /\ jobs[j].attempts \in Nat
    BY <2>1, HandsBefore DEF QueueInv, HeldInv, Row
  <2>3. jobs[j].attempts < MaxAttempts /\ runs[j] = jobs[j].attempts + 0
    BY <2>1, <2>2 DEF Budgeted, Live, LiveStatus
  <2> QED
    BY <2>1, <2>2, <2>3
<1>4. ASSUME NEW j \in Jobs PROVE RunsGrow(j) /\ (j \in S => runs[j] < runs'[j])
  <2>1. runs[j] \in Nat /\ runs[j] <= MaxAttempts /\ MaxAttempts \in Nat
    BY HandsBefore, MaxAttemptsAssumption
  <2>2. CASE j \in S
    <3>1. runs'[j] = runs[j] + 1 /\ runs[j] < MaxAttempts
      BY <1>1, <1>3, <2>2
    <3> QED
      BY <2>1, <3>1 DEF RunsGrow
  <2>3. CASE j \notin S
    <3>1. runs'[j] = runs[j]
      BY <1>1, <2>3
    <3> QED
      BY <2>1, <2>3, <3>1 DEF RunsGrow
  <2> QED
    BY <2>2, <2>3
<1>5. \A j \in Jobs: SuccessRests(j)
  BY <1>1, HandsBefore DEF SuccessRests, Row
<1>6. DOMAIN sending' = Workers /\ \A v \in Workers: SendingLetsGo(v) /\ NothingReturned(v)
  BY <1>1, <1>2, HandsBefore DEF SendingLetsGo, NothingReturned
<1>7. ASSUME NEW v \in Workers, NEW c \in batch'[v], ~Called(v, c)' PROVE CallIsDue(v, c)
  <2>1. CASE v = w
    <3>1. PICK claims: claims = {[job |-> j, attempts |-> jobs[j].attempts]: j \in S}
      OBVIOUS
    <3>2. batch'[w] = claims
      BY <1>1, <3>1, HandsBefore
    <3>3. c.job \in S
      BY <2>1, <3>1, <3>2
    <3> QED
      BY <1>3, <1>4, <3>3 DEF CallIsDue, There
  <2>2. CASE v # w
    BY <1>1, <1>2, <1>7, <2>2, HandsBefore DEF Called, CallIsDue
  <2> QED
    BY <2>1, <2>2
<1> QED
  BY <1>2, <1>4, <1>5, <1>6, <1>7, QuietKeeps, RowsKeepTheirs

LEMMA SettleKeeps ==
  ASSUME LeaseCovers, QueueInv, ReminderInv, QueueStep, NEW w \in Workers, Settle(w)
  PROVE  ReminderInv'
<1>1. /\ UNCHANGED <<runs, delivery, todo, copies, sending>> /\ phase[w] = "settle" /\ NextInBatch(w)
  BY DEF Settle, MarkBackgroundJobSucceeded, MarkBackgroundJobFailed, RetryBackgroundJob, SettleErrors,
         QueueStep, reminderVars, historyVars
<1>2. PICK rest: rest = batch[w] \ {returned[w].claim}
  OBVIOUS
<1>3. /\ batch' = [batch EXCEPT ![w] = rest] /\ returned' = [returned EXCEPT ![w] = NoReturn]
      /\ phase' = [phase EXCEPT ![w] = IF rest = {} THEN "recover" ELSE "handle"]
  BY <1>1, <1>2 DEF NextInBatch
<1>4. PICK j \in Jobs: j = returned[w].claim.job
  BY <1>1, Settling, Held
<1>5. jobs[j] \in Row
  BY HandsBefore
<1>6. \/ jobs' = [jobs EXCEPT ![j] = Succeeded(jobs[j])] /\ returned[w].result = "ok"
      \/ jobs' = [jobs EXCEPT ![j] = Failed(jobs[j])]
      \/ jobs' = [jobs EXCEPT ![j] = BackedOff(jobs[j])]
      \/ jobs' = jobs
  BY <1>4 DEF Settle, MarkBackgroundJobSucceeded, MarkBackgroundJobFailed, RetryBackgroundJob, SettleErrors
<1>7. returned[w].result = "ok" => delivery[EventOf(j)][ChannelOf(j)] = "sent"
  BY <1>1, <1>4 DEF ReminderInv, ShownInv, Succeeding
<1>8. jobs \in [Jobs -> Row]
  BY DEF QueueInv, TypeInv, TypeOK
<1>9. \A i \in Jobs: SuccessRests(i)
  BY <1>5, <1>6, <1>7, <1>8, WriteBackEffects DEF SuccessRests
<1>10. \A i \in Jobs: RunsGrow(i)
  BY <1>1, HandsBefore, MaxAttemptsAssumption DEF RunsGrow
<1>11. DOMAIN sending' = Workers /\ \A v \in Workers: SendingLetsGo(v) /\ NothingReturned(v)
  BY <1>1, <1>3, HandsBefore DEF SendingLetsGo, NothingReturned
<1>12. ASSUME NEW v \in Workers, NEW c \in batch'[v], ~Called(v, c)' PROVE CallIsDue(v, c)
  <2>1. CASE v = w
    <3>1. c \in batch[w] /\ c # returned[w].claim /\ sending[w] = {}
      BY <1>1, <1>2, <1>3, <2>1, HandsBefore
    <3> QED
      BY <2>1, <3>1, HandsBefore DEF Called, CallIsDue
  <2>2. CASE v # w
    BY <1>1, <1>3, <1>12, <2>2, HandsBefore DEF Called, CallIsDue
  <2> QED
    BY <2>1, <2>2
<1> QED
  BY <1>1, <1>9, <1>10, <1>11, <1>12, QuietKeeps, RowsKeepTheirs

LEMMA ClockKeeps ==
  ASSUME LeaseCovers, QueueInv, ReminderInv, QueueStep, NEW i \in Jobs, BecomesDue(i) \/ LeaseExpires(i)
  PROVE  ReminderInv'
<1>1. UNCHANGED <<phase, batch, returned, runs, delivery, todo, copies, sending>>
  BY DEF BecomesDue, LeaseExpires, QueueStep, reminderVars, workerVars, historyVars
<1>2. ASSUME NEW j \in Jobs PROVE SuccessRests(j) /\ RunsGrow(j)
  <2>1. jobs \in [Jobs -> Row] /\ jobs[j] \in Row /\ jobs[i] \in Row
    BY DEF QueueInv, TypeInv, TypeOK
  <2>2. jobs'[j].status = jobs[j].status
    BY <2>1 DEF BecomesDue, LeaseExpires, Row
  <2> QED
    BY <1>1, <2>2, HandsBefore, MaxAttemptsAssumption DEF SuccessRests, RunsGrow
<1>3. DOMAIN sending' = Workers /\ \A v \in Workers: SendingLetsGo(v) /\ NothingReturned(v)
  BY <1>1, HandsBefore DEF SendingLetsGo, NothingReturned
<1>4. \A v \in Workers: \A c \in batch'[v]: ~Called(v, c)' => CallIsDue(v, c)
  BY <1>1, HandsBefore DEF Called, CallIsDue
<1> QED
  BY <1>1, <1>2, <1>3, <1>4, QuietKeeps, RowsKeepTheirs

LEMMA ReminderStart == ReminderInit => ReminderInv
<1> SUFFICES ASSUME ReminderInit PROVE ReminderInv
  OBVIOUS
<1> USE DEF ReminderInit, Init
<1>1. \A j \in Jobs: ~There(j) /\ jobs[j].status # "succeeded"
  BY DEF There, NoRow
<1>2. BookInv
  BY <1>1 DEF BookInv, Announced, Shown
<1>3. ShownInv
  BY <1>1 DEF ShownInv, Succeeding
<1>4. CopiesInv
  BY <1>1, MaxAttemptsAssumption DEF CopiesInv
<1> QED
  BY <1>2, <1>3, <1>4 DEF ReminderInv

LEMMA ReminderStep == LeaseCovers /\ QueueInv /\ ReminderInv /\ [ReminderNext]_allVars => ReminderInv'
<1> SUFFICES ASSUME LeaseCovers, QueueInv, ReminderInv, [ReminderNext]_allVars PROVE ReminderInv'
  OBVIOUS
<1>1. CASE UNCHANGED allVars
  BY <1>1 DEF allVars, vars, reminderVars, ReminderInv, BookInv, Announced, ShownInv, Sends, Succeeding,
              CopiesInv, Called, For, There, EventOf, ChannelOf
<1>2. CASE QueueStep
  BY <1>2, RecoverKeeps, ClaimKeeps, SettleKeeps, ClockKeeps DEF QueueStep
<1>3. ASSUME NEW e \in Events, NEW channels \in Reminders, RecordReminder(e, channels) PROVE ReminderInv'
  BY <1>3, RecordKeeps
<1>4. ASSUME NEW e \in Events, NEW k \in Keys, EnqueueReminder(e, k) \/ EnqueueFails(e, k) PROVE ReminderInv'
  BY <1>4, EnqueueKeeps, EnqueueFailsKeeps
<1>5. ASSUME NEW w \in Workers, NEW delivered \in BOOLEAN, NEW accepted \in BOOLEAN, NEW c \in batch[w],
             ProviderAnswers(w, c, delivered, accepted)
      PROVE  ReminderInv'
  BY <1>5, AnswerKeeps
<1>6. ASSUME NEW w \in Workers, NEW recorded \in BOOLEAN, HandlerReturns(w, recorded) PROVE ReminderInv'
  BY <1>6, ReturnKeeps
<1>7. ASSUME NEW w \in Workers, WorkerCrash(w) PROVE ReminderInv'
  BY <1>7, CrashKeeps
<1> QED
  BY <1>1, <1>2, <1>3, <1>4, <1>5, <1>6, <1>7 DEF ReminderNext

LEMMA RemindersAreInvariant == ASSUME LeaseCovers PROVE ReminderSpec => []ReminderInv
<1>1. Spec => []TypeInv
  BY TypeCorrect DEF TypeInv
<1>2. Spec => []HeldInv
  BY HeldCorrect
<1>3. TypeInv /\ HeldInv => QueueInv
  BY DEF QueueInv
<1>4. QueueInv /\ ReminderInv /\ [ReminderNext]_allVars => ReminderInv'
  BY ReminderStep
<1> QED
  BY <1>1, <1>2, <1>3, <1>4, ReminderStart, RemindersAreJobs, PTL DEF ReminderSpec

(* The reminder's columns keep their types and a handler one answer.       *)
THEOREM ReminderTypeCorrect == LeaseCovers => (ReminderSpec => []ReminderTypeOK)
<1>1. ASSUME ReminderInv PROVE ReminderTypeOK
  <2>1. ASSUME NEW w \in Workers PROVE sending[w] \subseteq Answer /\ Cardinality(sending[w]) <= 1
    <3>1. CASE sending[w] = {}
      BY <3>1, FS_EmptySet
    <3>2. ASSUME NEW a \in Answer, sending[w] = {a} PROVE sending[w] \subseteq Answer /\ Cardinality(sending[w]) <= 1
      <4>1. Cardinality({a}) = 1
        BY FS_Singleton
      <4> QED
        BY <3>2, <4>1
    <3> QED
      BY <1>1, <3>1, <3>2 DEF ReminderInv, ShownInv
  <2> QED
    BY <1>1, <2>1 DEF ReminderTypeOK, ReminderInv, BookInv, CopiesInv, Shown
<1>2. ASSUME LeaseCovers PROVE ReminderSpec => []ReminderTypeOK
  <2>1. ReminderSpec => []ReminderInv
    BY <1>2, RemindersAreInvariant
  <2>2. ReminderInv => ReminderTypeOK
    BY <1>1
  <2> QED
    BY <2>1, <2>2, PTL
<1> QED
  BY <1>2

(* What the trustees see is true: an event shown as sent reached the       *)
(* provider, and a job that succeeded left its event shown as sent,        *)
(* whatever crashed, failed to be written or was recovered before.         *)
THEOREM ShownRemindersWereSent == LeaseCovers => (ReminderSpec => []SuccessIsShown)
<1>1. ReminderInv => SuccessIsShown
  BY DEF ReminderInv, ShownInv, SuccessIsShown, EventOf, ChannelOf
<1>2. ASSUME LeaseCovers PROVE ReminderSpec => []SuccessIsShown
  <2>1. ReminderSpec => []ReminderInv
    BY <1>2, RemindersAreInvariant
  <2>2. ReminderInv => SuccessIsShown
    BY <1>1
  <2> QED
    BY <2>1, <2>2, PTL
<1> QED
  BY <1>2

(* Retries are bounded for the owner too: crashes, recoveries and refused  *)
(* writes never send more than MaxAttempts copies of one reminder.         *)
THEOREM CopiesAreBounded == LeaseCovers => (ReminderSpec => []CopiesBounded)
<1>1. ASSUME ReminderInv PROVE CopiesBounded
  <2> SUFFICES ASSUME NEW e \in Events, NEW k \in Keys PROVE copies[e][k] <= MaxAttempts
    BY DEF CopiesBounded
  <2>1. copies[e][k] \in Nat
    BY <1>1 DEF ReminderInv, CopiesInv
  <2>2. CASE copies[e][k] > 0
    <3>1. PICK j \in Jobs: For(j, e, k)
      BY <1>1, <2>2 DEF ReminderInv, CopiesInv
    <3>2. runs[j] \in 0 .. MaxAttempts /\ copies[e][k] <= runs[j]
      BY <1>1, <3>1 DEF ReminderInv, CopiesInv, For
    <3> QED
      BY <2>1, <3>2, MaxAttemptsAssumption
  <2> QED
    BY <2>1, <2>2, MaxAttemptsAssumption
<1>2. ASSUME LeaseCovers PROVE ReminderSpec => []CopiesBounded
  <2>1. ReminderSpec => []ReminderInv
    BY <1>2, RemindersAreInvariant
  <2>2. ReminderInv => CopiesBounded
    BY <1>1
  <2> QED
    BY <2>1, <2>2, PTL
<1> QED
  BY <1>2
=============================================================================
