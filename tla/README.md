# StrataHQ in TLA+

StrataHQ manages sectional-title schemes: levies and their payments, AGMs, maintenance,
notices, compliance. It is a Go API (`src/backend`) on PostgreSQL with Redis beside it, one or
more worker processes, and a Next.js front end. The API is stateless, so all that can go wrong
between two requests goes wrong in the tables: most handlers read, check, and then write in a
later statement, some of them in a transaction, none of them with row locks or above READ
COMMITTED. The modules here follow that: **what a request does between two visible writes is a
step, and a transaction's writes are private until it commits.**

Contents: [inventory](#inventory), [modules](#modules), [what is checked](#what-is-checked),
[what is proved](#what-is-proved), [what the runs found](#what-the-runs-found),
[what is left out](#what-is-left-out), [plan](#plan), [running it](#running-it).

## Inventory

| Component | State | Operations | Correct when |
|---|---|---|---|
| Job queue, `internal/jobs`, `cmd/worker` | `background_jobs`, a worker's batch | `Enqueue`, `WorkOnce` (recover, claim, handle, write back) | one live job per key; every claim is charged; every job ends, once, for a reason |
| Collection reminders, `levy.SendReminder`, `jobs/collection_reminders.go` | `collection_events` | record, enqueue per channel, send, mark | what is shown as sent was delivered; copies bounded; nothing queued for ever |
| Levy ledger, `levy.Reconcile` | `levy_accounts.paid_cents`, `levy_payments` | post a batch of payments | a balance is the sum of its payments; a reference posts once |
| Bank statement imports, `levy/bank_statement_import.go` | `bank_statement_imports`, `bank_statement_rows` | upload, process (worker), apply (admin) | a deposit is posted once; an applied row is money in the ledger; the import's counters and status are those of its rows |
| Levy periods and financials, `levy.CreatePeriod`, `internal/financials` | periods, accounts, budget lines, reserve fund | create a period, set lines and reserve, forecast | a label is billed once; the recommended increase covers the shortfall |
| Attention queue, `levy/attention.go` | the last collection event of an account | score, recommend | urgency follows time and money |
| AGM, `internal/agm` | meetings, resolutions, votes, proxies | schedule, vote, assign a proxy | totals are those of votes and proxies; nobody counts twice or is silenced; outcomes are final |
| Sessions, `internal/auth` | users, `refresh_tokens`, Redis reset tokens | register, login, refresh, logout, reset, setup | a refresh token has one successor; a failed refresh loses nothing; a new password ends what worked before it; a reset link works once |
| Invitations, `internal/invitation` | `invitations`, memberships | create, resend, revoke, accept | nobody is left half inside; a stored link was mailed; revoked means out |
| Early access, `internal/earlyaccess` | `early_access_requests` | submit, approve, reject | an approved applicant can enter; the first review decides |
| Maintenance, `internal/maintenance` | `maintenance_requests` | create, assign, resolve, counters | work has somebody who does it; resolved work stays done unless overtaken |
| Contractors, `internal/contractors` | directory, scheme links, reviews | create, update, marketplace, review | what is offered can be assigned; reviews stand for work |
| WhatsApp, `internal/whatsapp` | threads, messages, intakes, worker slots | webhook, bot, make or dismiss a request, broadcast | a message becomes one request at most; counts and slots add up |
| Billing, `internal/billing` | `org_subscriptions` | checkout, webhook, entitlement | entitled on the provider's word; the newest event decides |
| Compliance, `internal/compliance` | items, assessments | create, update, delete, assess | an edit keeps the fields it leaves out |
| Schemes, units, `internal/scheme` | schemes, units, their audit events, a health score | create, update, delete, health | quotas fit; the trail tells what was replaced and outlives the scheme; the score follows the facts |
| Audit log, `internal/audit` | `resource_audit_events` | record, list | see schemes |
| Documents, communications, integrations, AI | tables of their own | single inserts, deletes and reads | no multi-step protocol |
| Middleware, platform, clients, front end | pools, one Redis script, cookies | plumbing | not modelled |

How they interact: `SendReminder` and `ImportBankStatement` commit a row and then *enqueue* in
a statement of its own; the worker's handlers call back into the levy service and the
providers; reconciliations, import handlers and admins' clicks all post to the same levy
accounts; invitations and early access approvals write the same users and memberships, which
decide who may vote; the WhatsApp goroutines and the staff make requests in the maintenance
tables; assignments ask the contractors' directory; the financial dashboard, the health score
and the attention queue read what levies, maintenance, compliance and meetings have left.

The hard behaviours are the same everywhere: state read before a transaction and used in it
(AGM totals, balances, import counters, subscriptions), absolute values written over what
another request wrote, a commit followed by a second write a crash can separate it from (grants
and marks, links and mails, rows and jobs), at-least-once jobs whose leases can run out under a
live worker, webhooks in any order, and retries of what was already done. `PROJECT.json` lists
them with their lines and the properties that watch them.

## Modules

    JobContract               what the queue promises              (abstract)
       ^ implemented by
    JobQueue                  the queue and its workers            JobQueueProofs
       ^ extended by
    ReminderDelivery          reminders through the queue          JobQueueProofs

    Sessions                  tokens, passwords, reset links       SessionsProofs
    AgmVoting                 votes, proxies, totals, quorum       AgmProofs

    Membership                users and memberships
       ^ extended by
    Invitations, EarlyAccess  together in MCOnboarding             OnboardingProofs

    Contractors <- Maintenance <- WhatsAppDesk                     DeskProofs
    LevyLedger <- BankStatementImport        with them in MCDesk   LedgerProofs, DeskProofs

    ResourceAudit <- SchemeRegistry                                OfficeProofs
    Billing, Compliance, LevyBooks                                 OfficeProofs
    SchemeHealth, Attention                  with them in MCOffice OfficeProofs

    SumTheorems               sums over finite sets, for LedgerProofs and OfficeProofs

`A <- B`: B extends A. The `MC*` modules and `.cfg` files are small instances for TLC.

`MCDesk` and `MCOffice` put components side by side that share no variable, or only rows that
are created: a constant-valued variable `part` chooses which of them is at work in a behaviour
while the others rest, as their product is out of TLC's reach and would add nothing. In
`MCDesk` the part "inbox" writes the tables of "staff" (tickets, decisions), so there the
shared rows *are* composed; that the staff's own steps and the inbox's may be mixed freely is
`WhatsAppSpec`, for which the theorems of `DeskProofs` hold, and which `DeskIsTheirs` relates to the
instance; `DeskIsTheLedgers` does so for the statements and `OfficeIsItsParts` for the office. The
parts "statements" and "one statement" are both the imports: in the first one request runs after
the other (`OneAtATime`), in the second two overlap on one statement.

### JobQueue

| Code | Model |
|---|---|
| a `background_jobs` row; `id`, `(kind, idempotency_key)` | `jobs[j]`, its `key`; `j \in Jobs` are ids not yet or already allocated |
| `run_after <= now()`; `locked_at < now() - leaseTTL` | `due`; `lease = "expired"`. Time is these two comparisons: `BecomesDue`, `LeaseExpires` |
| `EnqueueBackgroundJob`, `ON CONFLICT` on the partial unique index | `EnqueueInserts`, `EnqueueConflicts` (the live row is returned, the new payload dropped) |
| the worker's place in `WorkOnce`, the claimed rows as `RETURNING` gave them | `phase`, `batch` (with the *snapshot* of `attempts`) |
| recovery, claim, handler, write-back | `RecoverStaleBackgroundJobs`, `ClaimDueBackgroundJobs`, `Handle`, `Settle` |
| a write-back that errors (database, unique index, cancelled context) is only logged | `SettleErrors` |
| process death at any point with rows in hand | `Crash` |

The write-backs look at neither status nor lease (`WHERE id = $1`), and `shouldFailPermanently`
judges the snapshot: the module keeps both. `runs` and `verdicts` are history only. The
constant `LeaseCovers` says whether a lease can run out while its holder lives; the code cannot
promise it (a batch is handled in sequence under leases taken together), so each property says
which case it is for.

Every row has the same `MaxAttempts`, and `Registered` are the keys whose kind has a handler.
Several statements of a worker are never one step. `WorkOnce` errors (recovery or claim fails)
leave everything as it was and are covered by not taking the step.

### ReminderDelivery

Extends `JobQueue`: a job's key is an account's channel, its payload a collection event.
`RecordReminder` is the commit of the event; `EnqueueReminder` and `EnqueueFails` follow one
channel at a time, in any order, or never (a crash of the API needs no action: `todo` just stays).
`ProviderAnswers` and `HandlerReturns` are the two halves of a handler; the worker may die
between them. A provider that reports an error may have delivered, and the mark that records
the answer may fail. The mark after a failed enqueue may fail too.

### LevyLedger and BankStatementImport

`payments` and `paid` are the committed tables; `tx[r]` is the transaction request `r` has open:
the payments it `made`, the balances it has written (and so holds row locks on) in `held`, and
the balance it has `seen`. A posting is `GetLevyAccount` (an unlocked read) and then `PostLine`
(insert and absolute update). Insert and update are one step: between them nothing can
happen to the request but waiting for another transaction or aborting, which `Waits` and
`Rollback` stand for. `Rollback` is always possible: invalid lines, lost connections, deadlocks,
crashes.

An import's CSV is the constant `Statement[i]`; a row is its amount, fingerprint and the accounts
whose unit or owner it mentions, which is all `matchBankStatementRow` tells apart. `BeginProcess`
reads the import and the open accounts before the transaction, `ProcessRow`/`PostRow` are the
loop, `CommitProcess` the commit and the clearing of the CSV (which may fail). `BeginApply` reads
the import *before* its transaction and `ListBankStatementRows` its rows in it, as the code does;
`MatchRow`/`ApplyRow` are the loop over the admin's matches, `CommitApply` writes counters computed
from what `BeginApply` read. The job queue's effect on the handler is that it may run at any time,
again, and twice at once. `ReconcileNext` goes on in between.

Any query may fail, and all of those failures but one are `RollbackImport` or no step. The exception is
the query by which a retry finds its own rows (`bank_statement_import.go:743`): its error is ignored,
so `Unfinished(i, listed)` lets `BeginProcess` go on with `listed` false. With the CSV still there the
rows are met again at the unique index; once it is cleared there is nothing to insert, and the import
is written as applied with counters of zero. `blind` is history: the imports a retry took up in that
state. `AppliedImportIsDone` and `CountersMatchRows` speak of the other imports, and
`StatusOutlivesRetry`, which speaks of all, is violated (`import_blind_retry`).

### AgmVoting

One meeting. `CastVote` is `CheckVote`, `ReadProxies`, `CreateAgmVote` (with the list of votes its
transaction sees), `CommitVote`; `AssignProxy` is `CheckProxy`, `CreateProxyAssignment`; both end
in `ListProxyAssignments`, `ListVoters`, `UpdateAgmQuorumPresent`, and `Fail` anywhere. Consecutive
checks are merged where what they look for never goes away again (votes, proxies, closed
resolutions, a date in the past): passing all of them one after the other implies passing them
together at the first. `Spoken` are the members a list of votes and proxies speaks for on one
side, which is what `calculateVoteTotals` adds up. `JoinScheme` is external: the invitation
service admits members at any time, also after the meeting was scheduled and its
`total_eligible` counted.

### Sessions

One user, created by `CheckEmail`/`CreateUser`. `token[t]` is the row of a refresh token, `link[k]`
the Redis key of a reset token. `Refresh` is one transaction: `ConsumeRefreshToken` takes the row's
lock and `CommitRefresh` makes its two writes visible, or `Fail` neither; reads in between change
nothing. `Register`, `Login` and `ReissueSession` end in an insert of its own
(`CreateRefreshToken`), so they may fail after what they did before, and a login may be overtaken
by a new password. `ChangePassword` compares the current password and `ResetPassword` consumes the
link (`consumeResetTokenScript`, atomic in Redis) before the transaction they share:
`UpdateUserPassword` takes the user's row, `RevokeAllUserRefreshTokens` sees the tokens committed by
then (`seen`) and waits for their locks, `CommitPassword` is the commit. Statements of one request
with nothing visible between them are one step. `parent`, `closed`, `resets` and a request's `old`
(what worked when it began) are history. Expiry is `TokenExpires` and `LinkExpires`, at any time.
The answer to a client may be lost after any commit; the server's state is the same.

### Membership, Invitations, EarlyAccess

`users`, `orgRole` and `member` are the tables both services write; a user is its address.
Invitations: `Create` inserts, `SendInvitation` mails, `RevokeUnsent` takes an unsent one back;
`Resend`, `MailResent`, `StoreToken` mail *before* they store; `Verify`, `LookUpUser`, `Grant`,
`MarkAccepted` are `Accept`, whose grant is a transaction of its own; `CheckRevoke` and `Revoke` are
two statements. `RequestEnds` is any failure or crash after any of them. What writes the row
(`MarkAccepted`, `Revoke`, `StoreToken`) asks for its id alone. Tokens are drawn in order, which makes them
interchangeable; `mailed` is what reached a mailbox.

EarlyAccess: a review is `GetEarlyAccessRequest`, `LookUpApplicant`, `Register`,
`IssuePasswordResetURL`, `SendApproval`, `Approve`, with `ReviewFails` anywhere; `Reject` is a
statement, and both move only a pending row (`transitionPendingReview`). `UpdateMember` of the
scheme service is in Membership.

### Contractors, Maintenance, WhatsAppDesk

`contractor[c]` is a directory entry as one scheme sees it: `listed` stands for published and
vetted, which every query asks for together, `linked` for a link to the scheme. Every decision on
a maintenance request (`Assign`, `Resolve`, `CreateReview`) reads and checks in one step and writes
`WHERE id = $1` in another (`CommitAssign`, ...), with `CheckAssignable` between them when the
contractor is one of the directory; `clerk[k]` is a decision under way. `worked` is history.

`WhatsAppDesk` adds the inbox of one thread. `Inbound` is the webhook up to its 200, from where a
goroutine holds a worker slot: `IncrementWhatsAppThreadUnread`, then `MakeRequest`,
`RequestNotMade` or `MakeCandidate`, then the bot (`Respond`, `logMaintenanceRequest`), then
`ReplyAndRelease`; `GivesUp` is a panic or the 30 seconds. The staff's `CreateMaintenanceFromMessage`,
`DismissMaintenanceIntake` and `CreateBroadcast` are decisions like the others. What a message says
is its `Kind`: what `classifyMaintenanceIntent` and the bot's own prefix test make of it. `contested`
and `overwrote` are history: messages decided by two at a time, a count written over a newer one.

### SchemeRegistry, ResourceAudit

`scheme[s]` is the `unit_count` of a scheme, `unit[u]` a unit with its share. `Setup` (of auth),
`Create`, `Update`, `CreateUnit`, `UpdateUnit` check in one step and write in the next, together with the
audit event, which may be lost (`RecordResourceEvent`); `Delete` is one statement that cascades to
the units but not to the trail. `raced` is history: some request committed while another was
under way. `MaxEvents` and `MaxCount` bound the trail and the counts.

### Billing

`standing` and `sent` are the provider's side (external): the status of each subscription and the
events it has sent, which `HandleWebhook` may receive in any order, any number of times, or never.
`CreateCheckoutSession`/`StoreCheckoutSession` and `HandleWebhook`/`ApplyWebhook` are the reads and the
writes with the provider's call or the merge between them; `CallFails` ends either. An event that
names no organisation is matched by the ids the row holds (`Resolvable`). `MaxSent` bounds `sent`.

### Compliance, LevyBooks, SchemeHealth, Attention

`Compliance`: `UpdateItem` reads and merges, `UpdateComplianceItem` writes all of the row back.
`CreateItem` draws an id no request under way knows, as a uuid does. `meant` and `crossed` are history.
The dashboard's score is `int(float64(..)/float64(..)*100)`: `truncatedPct` gives 28, 56 and 57 for
exactly 29, 57 and 58 in a hundred, as the doubles do.

`LevyBooks`: `CreatePeriod` reads units and periods, `CreateLevyPeriod` is the transaction. The
forecast is a set of operators over the tables, one per Go function, with their roundings.

`SchemeHealth` computes the score of `computeHealthScore` over `facts`, counts of what the other
components keep, and lets them change as those components change them. Levels of `Billed`,
`Target` and the counts are so small that the code's doubles are exact on them.

`Attention` is the score of one account: `DayPasses`, `PartPaid`, `RecordCollectionEvent`.

## What is checked

Every property of a passing run also has a *mutant*: a plausible bug put in place of one
definition of the model, under which TLC must find the property violated. The operators that
only mutants use stand in the modules beside what they replace and say so.

| Run | Instance | Shows |
|---|---|---|
| `jobqueue_slow` | 2 rows, 2 keys (one without a handler), 2 workers, 2 attempts, leases may run out, fairness | `OneLiveJobPerKey`, `EveryRunIsCharged`, and that every job ends (`EveryJobEnds`) |
| `reminder` | 2 reminders to one account, 2 rows, 2 workers, 2 attempts, leases outlast holders, fairness | of the queue: `HeldRowIsOwn`, `SpentJobIsFailed`, refinement of `JobContract` (`ImplementsContract`); of the reminders: `SuccessIsShown`, `CopiesBounded`, `ReminderWithJobEnds` |
| `sessions` | 2 requests at a time, 3 tokens, 1 link, 2 passwords | `SessionHasOneToken`, `LinkSetsOnePassword`, `NewPasswordEndsOldTokens` |
| `agm` | one request at a time with 4 members and 2 resolutions, or two with 3 and 1 | one by one: `TotalsAreCurrent`, `NobodyIsShutOut`, `OutcomeIsFinal`; always: `EachMemberCountsOnce`, `QuorumIsReal` |
| `onboarding` | 1 address, 2 invitations, 2 links, 2 requests, 1 application and a review | `ApprovedCanEnter`, `StoredLinkWasMailed`, `RevokedForGood` |
| `desk` | parts: staff (1 contractor, 2 tickets, 2 decisions, 2 organisations); inbox (2 messages, 2 slots); statements one by one (3 imports: a re-upload, one that does not parse; 2 batches, 4 lists of clicks); one statement by two requests at a time | `OfferedIsAssignable`, `ReviewedWorkWasDone`, `ResolvedIsDone`; `DecidedOnce`, `CountsAreHonest`; one by one `BooksAreExact`, `EachPaymentHasRow`; always `OncePerAccount`, `PaidIsBacked`, `AppliedRowHasPayment`, `AppliedImportIsDone` |
| `office` | parts: registry (1 scheme, 2 units, 2 requests); billing (2 organisations, 2 calls, 3 events); compliance (1 item, 2 officers); books (2 periods, 2 units, 2 admins, 1 name in 2 spellings); health; attention (12 days) | `QuotasFit`, `TrailIsKept`; `EntitledOnProvidersWord`, `OrderedIsCurrent`; `EditsKept`; `IncreaseCovers`, `BilledOnce`; `HealthFollowsFacts`; `UrgencyIsMonotone` |

and the five runs of [what the runs found](#what-the-runs-found).

**One by one and overlapping.** Under overlap several intended properties fail (below). Where that is
so, a property says for which states it is meant (`~busy`, `part # "one statement"`, `~raced`, items
not in `crossed`, messages not in `contested`, organisations not in `disorder`; imports not in `blind` are
excepted for a failure of the code's own, not for an overlap). It then shows that
the sequential logic, with every rollback, retry and order of calls, is right, so that what fails
under overlap fails *because of* the overlap; the other properties say what can be relied on anyway.
The history variables are as narrow as the code allows: an item is in `crossed` only while two
updates had it read at one time and until it is deleted, a message is `contested` only if somebody
else had passed their checks when a decision committed.

**Bounds.** Two workers are enough for two to hold one row, and a third adds only more
holders; two rows and two keys give a key that is free, live and reused; two attempts separate the
first from the last. Two accounts and levies of 2 with deposits of 1 and 2 give partial, exact and
covered accounts, a row that fits a unit, one that mentions two units, one by owner, one that fits
nothing. Three tokens are a session, its successor and a second session or successor. Three members
give a chain of proxies, a fourth a bystander. Two invitations are the old and the renewed one of an
address, two links what was mailed first and last. Two messages and two slots give a full and a
half-full pool. `Whole` 3 with two units gives quotas that fit exactly, leave room or overflow.
Three events of the provider are a beginning, an end and a completed checkout in any order. Two
periods, levies of 4, payments of 3 and 5 (one above the levy), costs of 1 and 6 and steps of 5
make every rounding of the forecast go both ways. The marks of months and days lie on both sides
of every threshold of the code: 12 and 32 months, 7, 2, 3, 30 and 90 days. Where a theorem exists
the bound matters only for TLC. Ids, requests, workers and members are symmetric where the run
checks no liveness and the ids are not ordered. There is no state constraint: ids run out,
`MaxAttempts` bounds the queue, `MaxSent`, `MaxEvents`, `MaxCount`, `MaxOpen`, `MaxItems` and `Days`
are named bounds in guards. Runs whose model really stops (a meeting that is over, tokens that are
used up, ids that have all been given out) disable the deadlock check; `jobqueue_slow` and
`reminder` do not.

**Fairness.** `Fairness` of `JobQueue` is weak fairness on each worker's own loop
(`cmd/worker/main.go` polls for ever, and is restarted when it dies), on the settling of a row in
hand, and on the clock. No fairness on enqueues, on `Crash`, or on which answer a handler or
provider gives: a job may be retried until its attempts are spent and liveness still holds, because
each round charges it. `Settle` as a whole is fair, `SettleErrors` included: a write-back that always
fails is a fair behaviour, and recovery must deal with it. The other components serve requests of
users, whom nothing obliges to come; no fairness is assumed of them and no liveness is claimed.

## What is proved

Theorems checked by TLAPS for **every** value of the constants, from the assumptions the modules
name (ids that differ, bounds that are numbers, finite sets where something is counted). The
invariants are stronger than the properties because no property is inductive; each proof module
defines its own, one step per action.

`JobQueueProofs`

| Theorem | States | Argument |
|---|---|---|
| `TypeCorrect` | `[]TypeOK`, with `SettlesOwnClaim` | `TypeInv`, one step per action; `SettlesOwnClaim` is needed since a write-back indexes the table with what the worker holds |
| `UniqueLiveKey` | `[]OneLiveJobPerKey` | every step that makes a row live does so with no other live row of its key (`Admitted`): recovery only moves live rows, write-backs are guarded by the index |
| `RunsAreCharged`, `SuccessIsEarned` | `[]EveryRunIsCharged`, `[]SuccessWasEarned` | `HistoryInv`: each row is `Charged`, `Earned`, blank before insertion, and nobody holds a claim on a blank row |
| `HeldRowsAreOwn`, `SpentJobsFail` | `LeaseCovers => (Spec => ...)` | `HeldInv`: what a worker holds is running, locked by it, within its lease and *has the attempts it saw*; the snapshot is then as good as the row, so the budget is judged right |
| `TerminalRowsAreFinal` | `LeaseCovers => (Spec => TerminalIsFinal)` | no step starts from an ended row, as the settled row is the worker's own |
| `QueueKeepsContract` | `LeaseCovers => (Spec => ImplementsContract)` | each action maps to `Submit`, `Try`, `Answer`, `Succeed`, `GiveUp` or a stutter: a claim is a `Try` of its rows, recovery a `GiveUp` of those it fails |

The first four need no assumption about leases: they are what survives when two workers settle
the same row.

Reminders, in the same module. `RemindersAreJobs` shows `ReminderSpec => Spec`, so that `ReminderRowsAreOwn`,
`SpentRemindersFail` and `RemindersKeepContract` follow from the queue's theorems. On top,
`ReminderInv` = `BookInv` (which job belongs to which event) /\ `ShownInv` (a job that succeeded has an
event marked sent, a sent event has been delivered, and so for what a worker is about to write) /\
`CopiesInv` (an event's copies are at most its job's runs, and fewer before the provider is called
again) gives `ShownRemindersWereSent` and `CopiesAreBounded`, both under `LeaseCovers`.

`SessionsProofs`

| Theorem | States | Argument |
|---|---|---|
| `TypeCorrect` | `[]TypeOK` | `TypeInv` adds that what is under way past its first check belongs to a registered user |
| `SessionsNeverFork` | `[]SessionHasOneToken` | `LockInv`: a token held by a refresh is held by one only and is neither revoked nor replaced; `ChainInv`: exactly the used-up tokens have a successor. `RevokeKeepsChains` covers `Logout` and new passwords alike, as both wait for locks |
| `ResetLinkIsForOneUse` | `[]LinkSetsOnePassword` | `LinkInv`: one request holds a consumed link, and until it commits the link has set no password |
| `NewPasswordEndsSessions` | `Spec => NewPasswordEndsOldTokens` | `SeenInv`: no row is ever deleted (`TokensStay`), so what `RevokeAll` sees includes what the request began with |

`AgmProofs`

| Theorem | States | Argument |
|---|---|---|
| `MeetingTypeCorrect`, `NobodyCountsTwice`, `QuorumIsNeverInvented` | `Spec => []...`, any overlap | `MeetingInv`: every list of votes and proxies a request has read has one row per voter and per grantor, so `Spoken` for and against are disjoint subsets of the members (`Apart` for the rows about to be inserted); a list once read only falls behind the tables |
| `TotalsStayCurrent`, `EverybodyIsHeard`, `OutcomesAreFinal`, `ProxiesMakeNoChains` | `MeetingSpec => ...`, one request at a time | `SerialInv`: what a request has checked and read is still so; holders of proxies have given none and grantors have not voted, hence a new vote adds exactly its own weight and a new proxy none; a resolution is open only while the totals are below `total_eligible` |

`OnboardingProofs`, over `MCOnboarding`'s specification: `IInv` = `TypeOK` /\ `NobodyIsOrphaned` /\
`AcceptedIsMember` /\ `ApprovedCanEnter` /\ `RowsOK` /\ `RequestsOK` /\ `ReviewsOK`: what each request has
passed at each stage (a grant found or made the account, a token to be stored has been mailed, a
review about to approve has registered and mailed). From it `TypeCorrect`, `NobodyOrphaned`,
`AcceptedAreMembers`, `ApprovedEnter`, and the action properties `StoredLinksWereMailed`,
`RevokedStays`, `ReviewsAreFinal`.

`DeskProofs`, over `WhatsAppSpec`: `DeskInv` = `StaffInv` (whom a decision names, whose work a review
is for, that no entry is linked across organisations) /\ `LinkInv` (message, intake and request name
each other) /\ `CountInv` (slots and unread counts are cardinalities of sets of messages). From it
`MaintenanceTypeCorrect`, `OffersAreAssignable`, `ReviewsStandForWork`, `AllWorkIsAssigned`,
`MessagesAreDecidedOnce`, `CountsStayHonest`, `ResolvedStays`, and with small strengthenings of their
own `InboxTypeCorrect` and `DashboardIsRight` (`CountersAgree`: the counters computed in Go and in
SQL are the same). `DeskIsTheirs`: the specification TLC runs implies `WhatsAppSpec`.

`LedgerProofs`, over `BankStatementImport`'s specification, where requests and handlers overlap freely

| Theorem | Assumes | Argument |
|---|---|---|
| `LedgerTypes` | | `TypeInv`: for each place in a handler's code, what it has read and written so far: how much of the statement is placed (`Aligned`), that the row in hand has a match, that `held` and `made` are finite |
| `PaidIsAlwaysBacked` | | `BackedInv`: what a request has seen, holds or is about to write is at most what the payments it sees add up to; payments are only added, so a balance read too early is too low and never too high |
| `AppliedRowsHavePayments` | `LinesAgree` | `LinkedInv`: each row that is applied, or that a handler has placed or written, has its payment among those its transaction sees; a re-used reference is of the same amount (`AgreeInv`) |
| `AppliedImportsAreDone` | | `OnceInv`, the matches of one Apply are of different rows, none applied; `DoneInv`, for imports not in `blind`: the count a request has read never exceeds the rows that are applied, rows never leave that status, and only a request that saw them all sets it. What commits is of one import (`CommitsAreOfOne`), so a blind retry disturbs no other |
| `CreditedOnce` | | `UniqueInv`: no two payments bear one reference, uncommitted ones included, as the second would wait for the first; `RivalInv`: a payment with a suffix is of the account in it, and there is a payment without the suffix, of another account, among those its transaction sees |

and for the desk, in the part where requests run one after the other, in `DeskProofs`:
`BooksStayExact` from `ExactInv`, with equalities where `BackedInv` has bounds, and `CountersInv`;
`PaymentsKeepRows` (assuming `LinesAreNoDeposits`) from `ReadInv` (what an Apply has read is what is
there) and `ShownInv` (each payment for a deposit is that of a row of it, committed or about to be).
They begin with `DeskIsTheLedgers`.

The assumptions are facts about the inputs. `References` of payment lines come from the bank or a
user, fingerprints are hashes of rows: `LinesAgree` and `LinesAreNoDeposits` say that the former do
not happen to be the latter (of another amount; at all), and the instance satisfies both. Without
them a line can post a deposit under its own fingerprint. `FingerprintAssumption` says that the amount
is hashed. That the query of a retry succeeds is not assumed: `blind` names the imports where it mattered.

`OfficeProofs`, each theorem over its component's own specification

| Theorem | Argument |
|---|---|
| `EditsAreKept` | `ComplianceInv`: an update that alone holds an item writes what it should |
| `LabelsAreBilledOnce` | `BooksInv`: the label a lone request has checked is still unused |
| `IncreaseAlwaysCovers` | `FiguresInv` for the types of what is averaged; then arithmetic over division: a quotient rounded up times the divisor covers, by less than the divisor (`CeilingCovers`, `RoundUpToNearestFits`) |
| `RegistryTypeCorrect`, `TrailKept` | `RegistryInv`: until somebody overtakes, what a request has read is what it replaces |
| `QuotasAlwaysFit` | `QuotaInv`: until then every check a request has passed would still pass, and quotas are sums that grow by what is inserted or written (`SumOfInserted`, `SumOfUpdated`) |
| `BillingTypeCorrect`, `EntitlementIsTheProvidersWord` | `BillingInv`: every status that entitles, in the row or in a read about to be written, goes back to an event of that organisation |
| `NewestEventDecides` | `OrderInv`: what the provider holds is what its newest event says, and an organisation not in `disorder` has the status of the newest event applied |
| `HealthFollows` | `Sound`: late requests are open ones, and counts are numbers; each factor is a percentage and moves with its facts (`RoundedIsMonotone`, `RoundedOfFewer` for a resolved late request, `HeavierItemsHelp` for items), hence so does their weighted sum |
| `UrgencyFollowsTime` | arithmetic of the score, case by case |

`OfficeIsItsParts`: the specification TLC runs implies the specifications of all six.

`SumTheorems`. The library's induction theorems take an operator as a parameter, which the provers
cannot instantiate; here induction is over *sets*, which they can: the set of subsets for which a
claim fails, were it not empty, would have a smallest member (`SmallestSubset`, from the
well-foundedness of strict inclusion on finite subsets), and taking an element out of that one gives
a contradiction. So are shown that the recursive equation of `SumFunctionOnSet` has a solution and
only one (`SolutionExists`, `SumAgrees`), that sums do not depend on the order of their summands
(`SumWithout`) and grow as their sets do (`SumWithOneMore`, `SumOfMore`). The models sum with that operator
of the community modules for this reason.

**Model-checked only.** Liveness (`EveryJobEnds`, `ReminderWithJobEnds`), which is outside TLAPS's
reach. Every invariant and action property that a passing run checks is a theorem as well.

## What the runs found

| Run | Property | What happens |
|---|---|---|
| `jobqueue_spent` | `SpentJobIsFailed` | A worker's lease runs out, another worker spends the last attempts, and the first one's retry puts the row back into the queue with `attempts = max_attempts`. The runbook says such a job is `failed`. |
| `reminder_lost` | `QueuedHasJob` | The idempotency key is the levy account, not the event: a second reminder while the first one's job is live is recorded as `queued` and no job names it. Nothing ever changes that status. |
| `import_lost_update` | `PaidIsSum` | Two postings to one account read the same balance; the later commit overwrites the earlier credit. Both payments stay, and since references are idempotent, sending the batch again does not repair it. `PaidIsBacked` shows the error is always against the owner. |
| `import_blind_retry` | `StatusOutlivesRetry` | The handler has committed an import with rows to review and cleared its CSV, and runs again (its write-back was lost). The query for the rows fails, the error is ignored, the empty CSV is parsed as no rows, and the import is `applied` with zero counters: Apply refuses it from then on, and the rows stay unreviewed. |
| `deposit_reuploaded` | `DepositPostedOnce` | A unit has accounts in two periods; a deposit that pays the first to the cent is posted to it. The statement is uploaded again: the first account is no longer open, so the deposit now matches the second one, finds its reference taken by another account, and is posted under a suffix. One deposit has paid two levies, with nobody's click and nothing overlapping, although `00004_levy.sql` calls the reference an idempotency key. `OncePerAccount` is what the reference does achieve. |

Found the same way, without a run of their own:

* AGM: two votes at one time each list the votes without the other's, or a proxy is assigned
  between the read and the commit; the totals stay wrong, a resolution everyone voted on may stay
  open, and one that passed may turn into one that failed. Two proxies assigned at one time (A to B and
  B to C) form a chain, and nobody can cast the vote in the middle.
* Imports: two Applies of one row to two accounts at one time post the deposit twice as well, and the
  row links to the later payment only (`EachPaymentHasRow` excludes them); two Applies leave counters
  that are not those of the rows.
* Sessions: `NewPasswordEndsOldTokens` speaks of tokens, not of sessions: a refresh or login that
  overlaps a new password may commit its token after `RevokeAll` has looked, and that token stays. A
  `Logout` that waits for a refresh of the same token revokes a token already replaced: the successor
  stays.
* WhatsApp: the bot logs a request of its own, open and linked to nothing, beside the candidate of
  the same message; a candidate's upsert that comes late takes the status `ticket_created` off an intake; a
  message the provider delivers twice is two messages, as no `MessageSid` is compared.
* Billing: without order checks an old event written late stays, until the next one.
* Compliance and schemes: overlapping updates of an item lose one another's fields, overlapping unit
  changes exceed the quota or the count. A due date cannot be taken away again, an invalid status is
  silently kept, and stored assessments are never read.
* Maintenance: `before_state` of an assignment's audit event takes the status from the row after the write
  (`maintenance/service.go:267`, 630), so it is `in_progress` whatever it was; `docs/database.md:109` says it is
  the state before.
* Attention: an account without any collection event has `LastActionDaysAgo` 0, Go's zero value, so the
  points for "No recent follow-up" go to everybody but those nobody has followed up; the test of the score
  (`attention_test.go:20`) uses 999 days, a row the program never builds. Only the last event counts, so that logging the follow-up the queue recommends ends the
  7-day rest after a legal review, and hides a promise; a promise is overdue on the very day it names.
* Health: resolving a request that is on time lowers the maintenance factor, as the rate of late ones
  goes up; setting up a reserve fund lowers that factor from 100; without a levy period the levy factor
  is 0. `HealthFollowsFacts` names what is left.
* Levy books: budget lines meet periods by their raw label, which CreatePeriod compares trimmed and
  folded; labels are not unique in the database; a unit added after CreatePeriod has read the units gets
  no account; the forecast does not look at the collection rate it shows.

## What is left out

* Authorisation, validation of formats, wording, pagination. Audit events but for those of schemes
  and units: they are recorded in the same way.
* `skipped` and `matched` as stored row statuses: no code path leaves a row so.
* Transaction dates and `paid_date`; `status` of a levy account other than paid or not.
* Several meetings, closing a meeting by hand (no operation does), removal of members.
* Several schemes and periods in the ledger: accounts of one scheme are the constant `Accounts`.
* That two real deposits may share a fingerprint is in the model (`References`), but nothing in
  the code says whether it is right to post them once.
* A crash between the insert of an import and its enqueue strands it (no sweep exists); nothing in
  the code or its docs promises otherwise. `QueuedHasJob` shows the same gap for reminders.
* Billing's plan codes, periods and `cancel_at_period_end` (which a checkout's events reset); the
  customer portal, which writes nothing. The profile's single updates in auth.
* WhatsApp media, the matching of phone numbers, the bot's other replies; other threads.
* The browser: the front end's proxy refreshes sessions on behalf of parallel requests and may delete
  the cookies a parallel refresh has just set. The server's side of that race is `SessionHasOneToken`.
* Components with nothing but single statements or reads (documents, communications, integrations,
  AI copilot), plumbing (middleware, clients, server, configuration, generated queries) and the demo
  seed. `PROJECT.json` gives the reason for each.

## Plan

1. **The browser's side of sessions** (`BrowserSession`, extends `Sessions`): cookies, parallel
   requests, the proxy's refresh with its timeout and its retry; a signed-in browser is not signed
   out by its own requests.
2. **Composition of imports with the job queue**, for the stranded import, as `ReminderDelivery` does
   for reminders.
3. **Other resources' audit events** in `ResourceAudit`: first that of an assignment, whose
   `before_state` is wrong (above).

## Running it

    tlc -workers 2 -config MCDesk.cfg MCDesk
    tlc -workers 2 -config MCImportBlindRetry.cfg MCBankStatementImport
    tlapm AgmProofs.tla

Each run ends within two minutes or so; the largest proof modules take a few minutes.
