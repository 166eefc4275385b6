------------------------------ MODULE JobQueue ------------------------------
(***************************************************************************)
(* The durable job queue: the background_jobs table, the producers that    *)
(* enqueue into it and the worker processes that run WorkOnce in a loop    *)
(* (backend/internal/jobs/service.go, db/queries/background_jobs.sql,      *)
(* cmd/worker/main.go).  Each SQL statement is one atomic action; whatever *)
(* happens between two statements of a worker may happen here too.         *)
(*                                                                         *)
(* Time is abstracted to the two comparisons the SQL makes: `due' stands   *)
(* for run_after <= now() and the lease is "expired" once                  *)
(* locked_at < now() - leaseTTL.                                           *)
(***************************************************************************)
EXTENDS Integers, FiniteSets

CONSTANTS Jobs,         \* row ids the table can allocate
          Keys,         \* (kind, idempotency_key) pairs
          Registered,   \* the keys whose kind has a handler in the registry
          Payloads,     \* what a handler is told to do
          Workers,      \* worker processes
          MaxAttempts,  \* max_attempts of every row
          BatchSize,    \* LIMIT of one claim
          LeaseCovers   \* TRUE: no lease runs out while its holder is alive

None == "none"

ASSUME MaxAttemptsAssumption == MaxAttempts \in Nat \ {0}
ASSUME BatchSizeAssumption == BatchSize \in Nat \ {0}
ASSUME RegisteredAssumption == Registered \subseteq Keys
ASSUME LeaseCoversAssumption == LeaseCovers \in BOOLEAN
ASSUME NoneAssumption == None \notin Keys /\ None \notin Payloads /\ None \notin Workers

VARIABLES jobs,      \* the table: Jobs -> row
          phase,     \* where each worker is in WorkOnce
          batch,     \* the rows each worker has claimed and not settled, as it saw them
          returned,  \* the handler result a worker has not written back yet
          runs,      \* history: how often each row was claimed
          verdicts   \* history: what handlers answered for each row

tableVars   == <<jobs>>
workerVars  == <<phase, batch, returned>>
historyVars == <<runs, verdicts>>
vars        == <<jobs, phase, batch, returned, runs, verdicts>>

LiveStatus     == {"queued", "running"}
TerminalStatus == {"succeeded", "failed"}
Results        == {"ok", "retry", "fatal"}

Row == [status : {"absent"} \cup LiveStatus \cup TerminalStatus,
        key : Keys \cup {None}, payload : Payloads \cup {None},
        attempts : Nat, due : BOOLEAN,
        lease : {"none", "held", "expired"}, lockedBy : Workers \cup {None}]

NoRow == [status |-> "absent", key |-> None, payload |-> None, attempts |-> 0,
          due |-> FALSE, lease |-> "none", lockedBy |-> None]

\* A claimed row as RETURNING bj.* handed it to the worker: its attempts are a snapshot.
Claim == [job : Jobs, attempts : Nat]

Return == [claim : Claim, result : Results]
NoReturn == [claim |-> [job |-> None, attempts |-> 0], result |-> None]

Live(j)     == jobs[j].status \in LiveStatus
Terminal(j) == jobs[j].status \in TerminalStatus

\* Mutant: an index on queued rows only.
QueuedRows(k) == {j \in Jobs : jobs[j].status = "queued" /\ jobs[j].key = k}

\* The partial unique index (kind, idempotency_key) WHERE status IN ('queued', 'running').
LiveRows(k) == {j \in Jobs : Live(j) /\ jobs[j].key = k}

\* w still means to write to row j.
InHand(w, j) == \E c \in batch[w] : c.job = j

-----------------------------------------------------------------------------
Init == /\ jobs = [j \in Jobs |-> NoRow]
        /\ phase = [w \in Workers |-> "recover"]
        /\ batch = [w \in Workers |-> {}]
        /\ returned = [w \in Workers |-> NoReturn]
        /\ runs = [j \in Jobs |-> 0]
        /\ verdicts = [j \in Jobs |-> {}]

(* Enqueue: INSERT ... ON CONFLICT on the live key DO UPDATE.  A conflict
   returns the live row and drops the new payload.                         *)
EnqueueInserts(j, k, p) ==
  /\ LiveRows(k) = {}
  /\ jobs[j].status = "absent"
  /\ jobs' = [jobs EXCEPT ![j] = [NoRow EXCEPT !.status = "queued", !.key = k,
                                               !.payload = p, !.due = TRUE]]
  /\ UNCHANGED <<workerVars, historyVars>>

EnqueueConflicts(k) ==
  /\ LiveRows(k) # {}
  /\ UNCHANGED vars

-----------------------------------------------------------------------------
(* What the four UPDATE statements do to a row. *)
\* Mutants: gives up one attempt late, or one early.
GivesUpLate(attempts)  == attempts >= MaxAttempts
GivesUpEarly(attempts) == attempts + 2 >= MaxAttempts

shouldFailPermanently(attempts) == attempts + 1 >= MaxAttempts

Released(row, status) ==
  [row EXCEPT !.status = status, !.lease = "none", !.lockedBy = None]

Succeeded(row)  == Released(row, "succeeded")
Failed(row)     == [Released(row, "failed") EXCEPT !.attempts = row.attempts + 1]

\* Mutant: a retry that is not charged.
BackedOffFree(row) == [Released(row, "queued") EXCEPT !.due = FALSE]

BackedOff(row)  == [Released(row, "queued") EXCEPT !.attempts = row.attempts + 1,
                                                   !.due = FALSE]

Recovered(row)  ==
  [Released(row, IF shouldFailPermanently(row.attempts) THEN "failed" ELSE "queued")
     EXCEPT !.attempts = row.attempts + 1]

\* Mutants: recovery that does not look at the lease, or leaves out rows on their last attempt.
StaleAnyLease(j)  == jobs[j].status = "running"
StaleRetryable(j) == /\ jobs[j].status = "running" /\ jobs[j].lease = "expired"
                     /\ ~shouldFailPermanently(jobs[j].attempts)

Stale(j) == jobs[j].status = "running" /\ jobs[j].lease = "expired"

RecoverStaleBackgroundJobs(w) ==
  /\ phase[w] = "recover"
  /\ jobs' = [j \in Jobs |-> IF Stale(j) THEN Recovered(jobs[j]) ELSE jobs[j]]
  /\ phase' = [phase EXCEPT ![w] = "claim"]
  /\ UNCHANGED <<batch, returned, historyVars>>

Due == {j \in Jobs : jobs[j].status = "queued" /\ jobs[j].due}

\* Which due rows LIMIT keeps depends on run_after, which is not modelled: any may be kept.
ClaimSize == IF Cardinality(Due) < BatchSize THEN Cardinality(Due) ELSE BatchSize

ClaimDueBackgroundJobs(w) ==
  /\ phase[w] = "claim"
  /\ \E S \in SUBSET Due :
       /\ Cardinality(S) = ClaimSize
       /\ jobs' = [j \in Jobs |-> IF j \in S
                                  THEN [jobs[j] EXCEPT !.status = "running",
                                                       !.lease = "held", !.lockedBy = w]
                                  ELSE jobs[j]]
       /\ batch' = [batch EXCEPT ![w] = {[job |-> j, attempts |-> jobs[j].attempts] : j \in S}]
       /\ phase' = [phase EXCEPT ![w] = IF S = {} THEN "recover" ELSE "handle"]
       /\ runs' = [j \in Jobs |-> IF j \in S THEN runs[j] + 1 ELSE runs[j]]
  /\ UNCHANGED <<returned, verdicts>>

(* handleJob up to the handler's return.  RETURNING promises no order, so any
   claimed row may be next; a kind without a handler counts as fatal.        *)
Handle(w, c, r) ==
  /\ phase[w] = "handle"
  /\ c \in batch[w]
  /\ jobs[c.job].key \notin Registered => r = "fatal"
  /\ returned' = [returned EXCEPT ![w] = [claim |-> c, result |-> r]]
  /\ phase' = [phase EXCEPT ![w] = "settle"]
  /\ verdicts' = [verdicts EXCEPT ![c.job] = @ \cup {r}]
  /\ UNCHANGED <<jobs, batch, runs>>

\* handleJob returns and WorkOnce goes on with the rest of its batch, or starts over.
NextInBatch(w) ==
  LET rest == batch[w] \ {returned[w].claim}
  IN /\ batch' = [batch EXCEPT ![w] = rest]
     /\ phase' = [phase EXCEPT ![w] = IF rest = {} THEN "recover" ELSE "handle"]
     /\ returned' = [returned EXCEPT ![w] = NoReturn]

(* The write-backs say WHERE id = $1: neither the status nor the lease of the
   row is looked at, and the budget is judged on the claim's snapshot.        *)
MarkBackgroundJobSucceeded(w) ==
  LET c == returned[w].claim
  IN /\ phase[w] = "settle" /\ returned[w].result = "ok"
     /\ jobs' = [jobs EXCEPT ![c.job] = Succeeded(@)]
     /\ NextInBatch(w) /\ UNCHANGED historyVars

FailsPermanently(ret) == ret.result = "fatal" \/ shouldFailPermanently(ret.claim.attempts)

MarkBackgroundJobFailed(w) ==
  LET c == returned[w].claim
  IN /\ phase[w] = "settle" /\ returned[w].result # "ok" /\ FailsPermanently(returned[w])
     /\ jobs' = [jobs EXCEPT ![c.job] = Failed(@)]
     /\ NextInBatch(w) /\ UNCHANGED historyVars

\* The unique index refuses a row that would become live beside another one of its key.
RetryBackgroundJob(w) ==
  LET c == returned[w].claim
  IN /\ phase[w] = "settle" /\ returned[w].result # "ok" /\ ~FailsPermanently(returned[w])
     /\ LiveRows(jobs[c.job].key) \subseteq {c.job}
     /\ jobs' = [jobs EXCEPT ![c.job] = BackedOff(@)]
     /\ NextInBatch(w) /\ UNCHANGED historyVars

\* A write-back that errors (database, index, cancelled context) is only logged.
SettleErrors(w) ==
  /\ phase[w] = "settle"
  /\ NextInBatch(w)
  /\ UNCHANGED <<jobs, historyVars>>

Settle(w) == \/ MarkBackgroundJobSucceeded(w)
             \/ MarkBackgroundJobFailed(w)
             \/ RetryBackgroundJob(w)
             \/ SettleErrors(w)

\* The process dies with rows in hand and starts again: the table knows nothing of it.
Crash(w) ==
  /\ batch[w] # {}
  /\ batch' = [batch EXCEPT ![w] = {}]
  /\ returned' = [returned EXCEPT ![w] = NoReturn]
  /\ phase' = [phase EXCEPT ![w] = "recover"]
  /\ UNCHANGED <<jobs, historyVars>>

-----------------------------------------------------------------------------
(* The clock. *)
BecomesDue(j) ==
  /\ jobs[j].status = "queued" /\ ~jobs[j].due
  /\ jobs' = [jobs EXCEPT ![j].due = TRUE]
  /\ UNCHANGED <<workerVars, historyVars>>

LeaseExpires(j) ==
  /\ jobs[j].status = "running" /\ jobs[j].lease = "held"
  /\ LeaseCovers => \A w \in Workers : ~InHand(w, j)
  /\ jobs' = [jobs EXCEPT ![j].lease = "expired"]
  /\ UNCHANGED <<workerVars, historyVars>>

Next == \/ \E j \in Jobs, k \in Keys, p \in Payloads : EnqueueInserts(j, k, p)
        \/ \E k \in Keys : EnqueueConflicts(k)
        \/ \E w \in Workers : RecoverStaleBackgroundJobs(w)
        \/ \E w \in Workers : ClaimDueBackgroundJobs(w)
        \/ \E w \in Workers, r \in Results : \E c \in batch[w] : Handle(w, c, r)
        \/ \E w \in Workers : Settle(w)
        \/ \E w \in Workers : Crash(w)
        \/ \E j \in Jobs : BecomesDue(j) \/ LeaseExpires(j)

Spec == Init /\ [][Next]_vars

(* The worker loop polls for ever and every statement it issues is eventually
   answered; time passes.  Nobody has to enqueue and nobody has to crash.       *)
Fairness ==
  /\ \A w \in Workers : /\ WF_vars(RecoverStaleBackgroundJobs(w))
                        /\ WF_vars(ClaimDueBackgroundJobs(w))
                        /\ WF_vars(\E r \in Results : \E c \in batch[w] : Handle(w, c, r))
                        /\ WF_vars(Settle(w))
  /\ \A j \in Jobs : WF_vars(BecomesDue(j)) /\ WF_vars(LeaseExpires(j))

FairSpec == Spec /\ Fairness

-----------------------------------------------------------------------------
(* Every row, worker and history variable keeps its type. *)
TypeOK == /\ jobs \in [Jobs -> Row]
          /\ phase \in [Workers -> {"recover", "claim", "handle", "settle"}]
          /\ batch \in [Workers -> SUBSET Claim]
          /\ returned \in [Workers -> Return \cup {NoReturn}]
          /\ runs \in [Jobs -> Nat]
          /\ verdicts \in [Jobs -> SUBSET Results]

(* Idempotency: a (kind, key) never has two live jobs, although a stale worker
   may put a row that ended long ago back into the queue (migration 00032).     *)
OneLiveJobPerKey ==
  \A i, j \in Jobs : Live(i) /\ Live(j) /\ jobs[i].key = jobs[j].key => i = j

(* The attempts column never undercounts: every claim but the one in progress
   (or the one that succeeded) has been charged to the row, whichever of the
   write-backs, recovery or a crash ended it.                                   *)
EveryRunIsCharged ==
  \A j \in Jobs : runs[j] <= jobs[j].attempts
                     + (IF jobs[j].status \in {"running", "succeeded"} THEN 1 ELSE 0)

\* What a worker is about to write back is a claim of its own, and its handler's answer.
SettlesOwnClaim ==
  \A w \in Workers : phase[w] = "settle" =>
    /\ returned[w].claim \in batch[w]
    /\ returned[w].result \in Results \cap verdicts[returned[w].claim.job]

(* A row is marked succeeded only after its handler has answered without error,
   whoever writes and whatever the row went through in between.                 *)
SuccessWasEarned ==
  \A j \in Jobs : jobs[j].status = "succeeded" => "ok" \in verdicts[j]

(* While leases outlast their holders, the row in a worker's hands is its own:
   it is running, locked by that worker, and in nobody else's hands.            *)
HeldRowIsOwn ==
  \A w \in Workers, j \in Jobs :
    InHand(w, j) => /\ jobs[j].status = "running"
                    /\ jobs[j].lockedBy = w
                    /\ \A v \in Workers \ {w} : ~InHand(v, j)

(* docs/production-reliability-runbook.md:370: "A job moves to `failed` after its
   configured max attempts."  So no live row has spent its attempts.            *)
SpentJobIsFailed ==
  \A j \in Jobs : Live(j) => jobs[j].attempts < MaxAttempts

(* A job that has succeeded or failed is never run or reported again. *)
TerminalIsFinal == [][\A j \in Jobs : Terminal(j) => jobs'[j] = jobs[j]]_vars

(* Whatever crashes, is lost or takes too long, the queue gets every job it
   accepted to an end, and it stays there.                                      *)
EveryJobEnds == \A j \in Jobs : Live(j) ~> [](Terminal(j))

-----------------------------------------------------------------------------
(* While leases outlast their holders the queue keeps the promise JobContract
   states.  A row's state is what a producer sees of it: pending until it ends. *)
Visible(j) == IF Live(j) THEN "pending" ELSE jobs[j].status

Contract == INSTANCE JobContract
              WITH state <- [j \in Jobs |-> Visible(j)],
                   key <- [j \in Jobs |-> jobs[j].key],
                   tries <- runs,
                   answers <- verdicts

ImplementsContract == Contract!Spec
=============================================================================
