# Verification of the Guardian backend

TLA+ modules, TLC configurations and TLAPS proofs about the service under `src/`, a
NestJS/Prisma/PostgreSQL backend that sends security guardians to clients' jobs. A client
registers and creates a job for one or several guardians; a dispatcher sends offers; guardians
accept, travel, work, may be released early or replaced; when all are done the client confirms, an
invoice is issued and paid, and the guardians are paid out.

Paths below are relative to `src/`; documents are those of `docs/`. `PROJECT.json` maps every
definition to the lines it models.

## 1. The system

### 1.1 Components

| Component (code) | State it keeps | What makes it hard | Module |
|---|---|---|---|
| Offer acceptance and staffing (`src/assignments/assignments.service.ts`, `assignment-accept.util.ts`, `competing-offer-release.util.ts`, `src/jobs/job-staffing.*`) | `job_assignments.status`, `versionNumber`; `jobs.status` | row locks taken in conflicting orders, deadlock victims, stale versions, counts taken without the job lock | `OfferAcceptance` |
| Job lifecycle (`src/jobs/jobs.service.ts`, `job-lifecycle.service.ts`) | `jobs.status`, deadline, departing assignment | handlers of several transactions that act on a job read earlier | `JobLifecycle` |
| Dispatching (`src/dispatching/dispatching.service.ts`) | offers, deadline, `unreachableSince`, pause reason | open slots are counted, then offers inserted without a lock on the job; several servers | `JobLifecycle`, `OfferAcceptance`; whom a round asks: `Roster` |
| Early release and replacement (`src/assignments`) | resolutions, `replacesAssignmentId` | overlap with completion, no-show, cancellation and another replacement | `JobLifecycle`; what it costs: `Pricing` |
| No-show automation (`no-show-automation.service.ts`) | none | races arrival and acceptance | `JobLifecycle`, `OfferAcceptance`; its conditions over time: `Pricing` |
| Reconciliation scan (`src/jobs/job-status-reconciliation.service.ts`) | none | acts on jobs other handlers are working on | `JobLifecycle` (partly) |
| Guardian shift and eligibility (`src/guardians`) | one shift state per guardian | one state shared by all jobs of a guardian; read before it is written | `Roster` |
| Location and presence (`src/guardians/connectivity.service.ts`, `src/redis/presence.service.ts`) | heartbeats | a guardian who is on duty may not be reachable | `Roster` (partly) |
| Guardian accounts (`src/admin/admin-guardians.service.ts`, `admin-users.service.ts`) | account, verification, certificates | administrators act on guardians whom a round is about to ask | `Roster` (partly) |
| Invoicing and billing confirmation (`src/billing`) | invoices, disputes, auto-confirm event | no lock and no version anywhere; several transactions | `Billing` |
| Payments (`src/payments`) | payments | confirmed whatever became of the invoice; repeated confirmations | `Billing` |
| Guardian payroll (`src/guardian-payroll`) | earnings, payouts | accruals and payouts at the same time | `Billing` |
| Billing calculation (`src/billing`, `src/common/config/booking-policy.config.ts`) | none | models, proration, night hours, relays of guardians | `Pricing` |
| Pay and price policies, services catalogue (`src/guardian-payroll`, `src/admin`, `src/services`) | policies, rules, snapshots of their terms | policies change between booking, acceptance, draft and accrual | `Pricing` |
| Billing alerts (`src/billing/billing-ops-automation.service.ts`) | alerts | scans overtake each other | `Pricing` (partly) |
| Transactional outbox (`src/outbox`) | `outbox_events` | several processes claim; a failed or interrupted event is never claimed again | `Outbox` |
| Offer expiry queue (`src/queue`) | BullMQ jobs or timers | scheduled after the offer's commit; lost with a process | `Outbox` (partly) |
| Registration and verification (`src/auth/register-onboarding.service.ts`, `src/organizations`) | user, organisations, sites, documents, step | steps repeated in any order, on two devices, with tokens that disagree | `Registration` (partly) |
| Authentication, tokens, OTP (`src/auth`) | codes, refresh tokens, Redis revocations, permission cache | attempt counters read early, rotation in two writes, stale permissions | `Sessions` (partly) |
| Documents, organisations, reviews; notifications, e-mail, SMS; admin and analytics views | single rows, queries, output | no multi-step state | - |

### 1.2 How they interact

- Handlers share `jobs` and `job_assignments` in PostgreSQL at READ COMMITTED. Some lock the
  assignment and then the job (`accept`, `applyNoShow`), some compare `versionNumber`
  (`updateOptimistic`), and some do neither (`failJob`, `requestDispatch`, the bulk releases,
  everything in billing).
- A handler that wants guardians enqueues `JOB_DISPATCH_REQUESTED`, some inside their
  transaction, most after it; the outbox worker of any server claims the event and calls
  `processDispatch`.
- A round locks the guardian rows it considers; suspension, review and deletion wait for it. The
  shift state, which decides who may be asked, is written by staffing, by guardians and by
  administrators without a lock.
- A sent offer is given an expiry in the BullMQ queue; the scan of the reconciliation service is
  the safety net when an event or an expiry is lost.
- The last completion moves the job to AWAITING_CONFIRMATION and drafts the invoice from the
  times of the assignments and the terms stored with the job; `completeJob` or the auto-confirm
  event completes the job and issues it. A confirmed payment accrues the guardians' earnings,
  which payouts collect.

### 1.3 What makes each part correct

- Staffing: never more acceptances than `requestedGuardianCount`; taking the last slot closes
  every other offer; nothing but a no-show takes a slot back; every request is answered although
  locks are taken in conflicting orders.
- Dispatch: offers out plus slots filled never exceed the request; a search is never forgotten,
  and it ends; every candidate is asked; only guardians in good standing are.
- Replacement: while a job seeks a substitute, the departing guardian waits on site and the job
  knows who it is.
- Completion: no ordinary guardian is at work on a job that waits for confirmation, but for one whose
  accept came too late to be counted.
- Assignments: no write leaves `ALLOWED_ASSIGNMENT_TRANSITIONS`, except that `applyNoShow` marks
  unanswered offers NO_SHOW, which that table does not know.
- Duty: who went off duty stays off duty until a shift starts, an offer is accepted or a relief
  arrives; who is BUSY comes free, unless the completion throws.
- Billing: a paid invoice stays paid, an undisputed one is issued, and what it charges is what the
  terms of the booking give for the hours somebody was there.
- Payroll: no money out before money in; each guardian gets one earning, and what counts as paid
  was in a payout.
- Outbox: an event is handed to one handler; due events settle; offers end.
- Sign-in: a user who goes on gets in; no device signs another one out; permissions that are out of
  date leave the cache.
- Registration: the client who goes on is registered, once.

`PROJECT.json` lists each hazard at the line where it bites, with the properties that cover it.

## 2. Modules

| Module | What it is | Grain |
|---|---|---|
| `OfferAcceptance` | the staffing of one job until the first arrival | row locks and statements |
| `SlotPool` | what staffing promises: a pool of slots, without locks, statuses or concurrency | - |
| `JobLifecycle` | one job from creation to billing confirmation, cancellation or failure | transactions |
| `Roster` | guardians whom jobs share: duty, accounts, and the rounds that pick among them | reads and writes |
| `Billing` | one invoice, the client's payments, earnings and payouts | reads and writes |
| `Pricing` | what one booking costs and pays, on a time line | handlers; scans by statement |
| `Outbox` | events and expiries, claimed and handled by processes that die | statements |
| `Registration` | one client from the phone number to the first booking | writes |
| `Sessions` | one user who signs in on several devices | statements |
| `MC*` | symmetry and circumstances for TLC | |
| `*_proofs` | theorems of the module they are named after | |

Two grains are used because the two questions need different ones. What happens *inside* an
accept depends on the order of row locks, and a model with every lock cannot also hold a whole job
life. `JobLifecycle` therefore takes a transaction for one step and keeps what happens *between*
the transactions of a handler; `OfferAcceptance` justifies it for the handlers whose locks are
interesting: `ImplementsSlotPool` says that, seen from outside, an accept is atomic.

### 2.1 OfferAcceptance

| State | Code |
|---|---|
| `job`, `asg`, `ver` | committed `jobs.status`, `job_assignments.status`, `versionNumber` |
| `jobLock`, `rowLock` | the holder of `SELECT ... FOR UPDATE` or of a written row |
| `tx[t]` | the transaction a database session runs: its kind, how far it is, what it read before it began (`seenVer`, `seenJob`), the rows its bulk update has still to lock (`todo`) and has locked (`hit`) |
| `wk[w]` | the number of open slots a dispatch worker has computed |

`accept` is `AcceptBegin` (lock and read the assignment), `AcceptLockJob` (lock the job, check
the slots, compute the transition, find the excess offers) or `AcceptRejected`, `SweepRow` once
for each excess offer, and `AcceptCommit`. `decline`, `rejectOffer` and `expireOffer` are
`WithdrawRead` and `WithdrawCommit` or `Conflict`; `applyNoShow` is `NoShowRead`, `NoShowLock`
and `NoShowCommit` or `NoShowRefused`, where the *seen* job status decides which transition is
tried and the *current* one whether it is allowed. `failJob` sweeps, commits, and writes FAILED in
a later step. `requestDispatch` reads, and overwrites. A dispatch round is `DispatchRead` and
`DispatchInsert`. `DeadlockVictim` is PostgreSQL's detector: in a minimal cycle of waiting
sessions one is rolled back.

Offers that a row update finds no longer OFFERED are skipped, as a READ COMMITTED `UPDATE ...
WHERE` does after waiting. Guard and commit of a transaction see what is committed then.

### 2.2 JobLifecycle

| State | Code |
|---|---|
| `status`, `asg`, `replaces`, `departing` | `jobs.status`, `job_assignments.status`, `replacesAssignmentId`, `replacementDepartingAssignmentId` |
| `freed` | the status a bulk release (`updateMany` without a new `versionNumber`) took an assignment from |
| `paused` | `dispatchFailureReason` holds a pause reason of replacement dispatch |
| `deadline`, `dark` | `dispatchDeadlineAt` absent, ahead or past; `unreachableSince` set |
| `invoice` | none, DRAFT, ISSUED |
| `events` | pending dispatch events of the job (merged beyond `MaxEvents`; a merged round would do what the kept one does) |
| `op[p]` | where a process stands in a handler of several transactions, and what it remembers: a row, the status (`was`) and the job status (`seen`) it read, the rows it found, the slots it counted |
| `uncounted` | history: rows accepted after the count of the completion that ends the job |

Processes are `Dispatchers` (outbox workers) and `Clerks` (request handlers, timers, scans). Each
way out of `processDispatch` is an action that starts with `Take`. A handler that does several
transactions, or trusts what it read, is a sequence with anything in between (`failJob`,
`requestDispatch`, `applyNoShow`, `accept` of a job that seeks a replacement, `decline`,
`expireOffer`, `onSite` of a substitute, `approveReplacement`, `complete`, `cancel`, a dispatch
round). A handler of one transaction under a version check that decides by its assignment alone is a
single step (`EnRoute`, `Arrives`, early release, replacement requests): nothing can have moved the
assignment since it was read, or the check refuses it. So is `AcceptSlot`, the accept that tests the
job again under its lock. The exception are the bulk releases of
`failJob` and `cancel`, which write CANCELLED under the same version. `ReadAs(r, S)` says when a
handler that read row `r` in a status of `S` may write it: the row still has the status, or it was
released from it (`freed`). `Crash` ends a process between two of its steps.

`applyNoShow` is `NoShowRead` and `NoShowCommit` or `NoShowRefused`: which transition is tried
depends on the job status read first, whether it is allowed on the one of now. An accept that
reads SEEKING_REPLACEMENT (`AcceptRead`) skips the slot check and the transition of the job whatever
the job is when it commits (`AcceptCommit`). A decline enqueues, or does not, by the job read before
its transaction (`DeclineRead`, `DeclineCommit`). A handoff (`HandoffRead`, `HandoffCommit` or
`HandoffRefused`) goes through although another one has ended the search, since a transition to
IN_PROGRESS does nothing when the job is there already. `cancel` is a
sequence of reads of ids (`CancelRead`) and unconditional writes to them (`CancelRelease`).

### 2.3 Roster

| State | Code |
|---|---|
| `user`, `account`, `verified`, `certified` | `users.status`, `guardians.status`, `verificationStatus`, a valid certification |
| `shift`, `reachable` | `guardian_shift_state` (`availableForJobs` iff AVAILABLE); a recent heartbeat |
| `open`, `live`, `past` | whether the job is not cancelled; the assignment in progress of each job, kind and guardian, and how earlier ones ended |
| `stranded` | history: whose last completion threw before it set them available |
| `round[j]` | the transaction of a dispatch round: the guardian rows it holds, its candidates, how many it may ask |
| `op[c]` | where a request handler stands |

`RoundBegins` is the eligibility query with its `FOR UPDATE SKIP LOCKED`, the limit of the pool and
the exclusions, `RoundOffers` the inserts and the commit. `FreeRead`, `FreeWrite` and `FreeEnds` are
`setAvailable`, which reads the shift and then writes it, on its own connection, in front of the
write of the decline, expiry or no-show that calls it. A completion writes COMPLETED, moves the job
and drafts the invoice, and only then frees the guardian: `Complete` is followed by `CompletionFrees`
or, when one of these throws, by `CompletionThrows`. `CancelJob` leaves a substitute who is on site,
or who asked to leave, as it is. `Accept`, `Handoff`, `StartShift`, `EndShift`, `Activate`, `Suspend`, `Delete` and the reviews write duty and accounts.
`Fails` is a handler that throws or dies half way. The life of a job is shortened to what duty and
rounds look at.

### 2.4 Billing

| State | Code |
|---|---|
| `invoice`, `before` | `invoices.status`, `statusBeforeDispute` |
| `awaiting`, `autoConfirm` | the job awaits confirmation; the outbox event JOB_BILLING_AUTO_CONFIRM |
| `payment`, `payout` | status per idempotency key |
| `earning`, `payoutOf`, `names` | `guardian_earnings.status` and `payoutId`; what the amount of a payout was computed from |
| `op[c]` | where a request stands: the status it read, the payment or payout, the assignment it has reached |

A request is one step per read that decides something and one per statement or transaction that
writes: view (`ViewRead`, `ViewWrite`), confirmation by client or worker (`Confirm`, `IssueRead`,
`IssueWrite`), issue by staff, void with the cancellation of earnings, dispute and clearing, payment,
the accrual loop (`AccrueRead`, `EarningMissing`, `EarningCreate`, or `EarningDuplicate` when the
unique `assignmentId` makes it throw), payouts. With one clerk in `office` requests run one after
another; with two their steps interleave.

### 2.5 Pricing

A clock of half hours. `Book` stores the billing terms of the policy that applies on the day of the
start, `Accept` the pay terms; arrivals, handoffs, releases and their answers set the times and
resolutions; `Complete` drafts the invoice when the last guardian leaves (`Draft`: coverage from the
first arrival to the last completion, `Duration`, `isNightShift`, the price rule), `ConfirmPayment`
accrues. `WriteBillingPolicy`, `WritePayPolicy`, `WritePricingRule` and `UpdateService` change what
administrators may change at any time. The scans for unanswered releases (`ScanReleases`,
`AutoApproveRead`, `AutoApproveWrite`), for no-shows (`AutoNoShow`) and for anomalies (`ScanStarts`,
`AlertRead`, `AlertWrite`, with the flag `running`) are split at their statements. `worked` and
`covered` are history: ticks a guardian, or anybody, was on site. They are counted by the clock and
by nothing in the code, so that `ChargedAsAgreed` and `PaidAsAgreed` compare the code's arithmetic
on time stamps with what happened.

### 2.6 Outbox

A process ticks (`ClaimLock`, `ClaimCommit`: `SELECT ... FOR UPDATE SKIP LOCKED` and the update to
PROCESSING), runs the handler of each event of its batch (`ProcessEvent`, `HandlerReturns` or
`HandlerOffers`, `FinalizeOffer`) and records how it went (`MarkCompleted`, `MarkFailed`, or a
statement that throws). An event's handler may leave an offer and queue its expiry, in Redis or as
a timer of the process, unless Redis refuses (`FinalizeThrows`); an expiry reads the offer, writes it,
and enqueues the next event. One that comes too early by the clock of its process is dropped
(`ExpiryTooEarly`). `Answered`, `ReleaseBegins`, `ReleaseEnds` are those who close offers otherwise,
`JobEnds` the end of their job; an offer closed by a bulk release is `released`: its version has not
changed, so an expiry that read it before still goes through. A process dies between any two steps, and comes back without batch, timers and locks.

### 2.7 Registration

The routes of `register-onboarding.service.ts`, each a read and its writes one by one (`VerifyStart`
to `SubmitOrg`), with the token that authorises it: a token names an organisation or none
(`tokens`), and `Authorised` is `resolveOnboardingContext`. The TIN is left out, blank or given
(`Tin`): the column is unique, so a write whose number another organisation has throws (`Taken`,
`BusinessThrows`). `ReviewOrganization`,
`UpdateOrganization` and `CompletePrimarySite` follow. `Crash` ends a handler between its writes.

### 2.8 Sessions

`RequestOtp`, `CreateOtp`, `VerifyOtp` (which checks the attempts it reads), `WrongCode`,
`RightCode`, `Gate`, `SignInWithPassword`, `SetPassword`, `Answer`; `ResetPassword` with the list of
tokens it revokes one by one; `Refresh`, `Rotate` and `Reissue`; `Logout`; and the permission cache,
`Resolve`, `LoadFromDb`, `CacheSet`, against `ChangeRole` and `InvalidateUser`. The gate of a sign-in
looks at the account after the code was verified, that of a reset at the account as it was read
before (`barred`). Revocations are in
Redis, or in the memory of a process that forgets them when it dies. Messages get lost (`sent`).

### 2.9 What is abstracted

- In `OfferAcceptance` and `JobLifecycle` who is eligible, ranked, reachable or late, and when time
  passes, is decided by the environment: a round may find anybody or nobody, an offer may expire at
  any time or never. `Roster` decides who is asked; `Pricing` has the time.
- `wasGuardianPreviouslyTried` appears in `JobLifecycle` as: each row is a guardian of its own, and
  the pool may be exhausted once somebody was tried and no offer is out.
- Reasons, histories, audit records, notifications and amounts are left out. Rates, VAT and revenue
  shares multiply what `Pricing` computes; nothing is decided by them.
- An arrival without a handoff looks at the job as it is when it commits: whichever status it read,
  the transition of the job refuses it when the job seeks a replacement by then, and admits it when
  it is in progress. One that read SEEKING_REPLACEMENT is a handoff, of two steps.
- `transitionJobStatus` reads the job and writes it in two statements, without a row lock for
  arrivals, completions and approvals. `JobLifecycle` takes them as one.
- `Pricing` requests one guardian per job, who may be relieved by others in turn.
- A refresh token's family is only carried along by the code: nothing looks at it.
- BullMQ's own rules (job ids, retries, removal) are not modelled, only what is queued, cancelled
  and fired.

## 3. Runs

Every passing run finishes within two minutes on two workers. `CHECK_DEADLOCK FALSE` is set
throughout: a job, an invoice, a guardian or a registration at its end rightly takes no step.

| Run | Instance | Checks | What it shows |
|---|---|---|---|
| `offer_locks` | 1 slot, 2 offers, 2 sessions, 2 workers; 50 thousand states | `TypeOK`, `NoOverstaffing`, `ImplementsSlotPool`, `EveryRequestAnswered` | no order of locks, kills and stale versions overstaffs a job or takes a slot back; lock cycles are broken and every admitted request is answered |
| `job_concurrent` | 2 slots, 3 rows, 1 dispatcher, 2 clerks, early release with approval; 790 thousand states | `TypeOK`, `SeekingHasDeparting`, `OrdinaryDoneAtConfirmation` | two requests of several steps interleave with the dispatcher |
| `job_redispatch` | 1 slot, 3 rows, 1 dispatcher, 2 clerks; repeated dispatch requests, no-shows; 1.1 million states | `SlotBudget`, `SearchNeverStalls`, `AssignmentsMoveAsAllowed` | handlers that act on a job status committed over since they read it, and writes to released rows |
| `job_search_ends` | 2 slots, 2 rows, 1 dispatcher, 1 clerk, every request, crashes; 300 thousand states | `SearchEnds` | a dispatched job stops searching even when crashes lose its events |
| `roster` | 2 guardians, 2 jobs of 1 slot, a pool of 1; five circumstances, in turn and overlapping, one with failing handlers; 66 thousand states | `TypeOK`, `RoundsKeepApart`, `OfferedInGoodStanding`, `StaysOffDuty`, `BusyComesFree`, `EveryCandidateAsked` | guardians whom jobs share, in turn and overlapping |
| `billing` | 2 assignments, the second without a rate, 1 payment, 2 payouts; one clerk, one who crashes, two clerks; 520 thousand states | `TypeOK`, `NoPayoutWithoutPayment`, `PaidEarningsAccounted`, `PaidIsFinal`, `EarningsMove`, `AccrualFollowsPayment`, `UndisputedGetsIssued` | money in and money out, in turn and overlapping |
| `pricing` | 2 or 3 guardians in turn, windows of 20:30 or 21:00 to 22:30 and of an hour, 4 billing and 2 pay policies; 3.3 million states | `TypeOK`, `ChargedAsAgreed`, `PaidAsAgreed`, `AlertedOnce` | the invoice and the earnings follow the hours worked and the terms agreed |
| `outbox` | 2 processes, 2 events; a process that dies, released offers, clocks that disagree, a Redis that refuses, timers with failing statements; 400 thousand states | `TypeOK`, `StartedOnce`, `DueEventsSettle`, `OffersEnd` | events are handled once and settle, offers end |
| `registration` | one device with a crash, two devices, with one organisation or two; 54 thousand states | `OnlyFirstApplies`, `StepAgrees`, `RegistrationEnds`, `SiteGetsPinned` | the client who goes on is registered, and can book |
| `sessions` | 2 devices, 2 codes, 3 tokens; six circumstances; 390 thousand states | `TypeOK`, `SessionsKept`, `SignsIn`, `OutdatedGetsDropped` | sign-in through errors and losses, several devices, stale permissions |
| `no_show_of_assigned` | 2 slots, 3 offers, 2 sessions, 1 worker | `AssignedNoShowRecorded` | refuted: section 5 |
| `rejection_stands` | one guardian, an unanswered release, a client who answers meanwhile | `RejectionStands` | refuted: section 5 |

### 3.1 Bounds, and why they are enough

- `Requests` says which of repeated dispatch requests, cancellation and no-shows may happen in a run
  of `JobLifecycle`. They are separated because some of them really break properties that hold
  without them (section 5), not to save states.
- *Two slots* are the least for which partial staffing, "the last slot" and a job with one guardian
  at work and one to come exist. *Three rows* leave one beyond the slots: an excess offer, a refill
  after a no-show, or a substitute. `MaxOffers` equals the number of rows, so the limit on offers is
  reached; `MaxReplacementOffers = 1`, so the search for a substitute pauses.
- *Two sessions* are enough for each cycle of one job lock and one row lock, *two workers* count the
  same slots and both insert. More of either is the matter of the proofs.
- `job_redispatch` has one slot: two clerks with all of these requests and two slots take TLC minutes.
  What it checks is proved for every number of slots and clerks (section 4).
- `MaxEvents = 2` separates "an event is pending" from "another one still is after it was taken".
- `ver` and the row numbers are bounded by the rows: every change of a version closes or takes an
  offer, and no row is ever offered again.
- `Roster`: two guardians and a *pool of one* are the least in which a candidate hides another; two
  jobs of one slot, in which two rounds want the same guardian and one job frees whom the other keeps
  at work. `past` is a set, so histories of any length are covered.
- `Billing`: two assignments are the least with an accrual that stops between them; two payouts, in
  which one earning may be named twice; two clerks make every pair of requests overlap.
- `Pricing`: the clock runs from 20:30 to 22:30, across the beginning of the night, in half hours, so
  that every duration may be half an hour off a whole one. Three guardians in turn have one in the
  middle, whose times must not count. `Timers` are two, the least that overtake each other. The terms
  are those in which proration, minimum and release differ.
- `Outbox`: two processes race for two events, and the second is what the first one's expiry asks
  for. Retries are bounded by `MaxRetries` of the code.
- `Registration`: two handlers create two organisations at most.
- `Sessions`: two attempts, so that two devices pass the check of the last; a cooldown of a tick, a
  code of two, a lockout of three, in the order of the code's 1, 5 and 15 minutes. Codes and tokens
  that nobody can use any more give their names back, so no history is cut short.

### 3.2 Fairness

- `OfferAcceptance!FairSpec`: strong fairness of what a session does once admitted. PostgreSQL
  queues lock requests, so a session whose lock is free again and again obtains it; the deadlock
  detector runs after `deadlock_timeout`. No guardian, worker or client has to do anything.
- `JobLifecycle!FairSpec`: Node continues a handler it has begun (weak); time passes (weak); each
  outbox worker polls on an interval (strong: between two polls its process may be busy with an
  event); the reconciliation scan runs on an interval beside the request handlers (strong, since
  a clerk stands for all of them). Guardians, clients and operators have no fairness. `SearchEnds`
  assumes `CrashesCease`, that servers crash finitely often.
- `Billing!FairSpec`: requests go on (weak), the worker comes round to its event (strong, for the same
  reason). Clients, staff and payroll have no fairness.
- `Roster!FairSpec`: requests and rounds go on (weak); rounds begin, and offers expire, again and
  again (strong): the worker and the queue recur. Nobody has to answer an offer.
- `Outbox!FairSpec`: time passes, ticks recur, queued expiries fire, releases go on (weak).
- `Registration!FairSpec` and `Sessions!FairSpec` are about users who go on: handlers end and the
  clock goes on (weak), and the user repeats each request that may be made (strong). Without a user
  who goes on nobody gets registered or signed in; what is shown is that the code does not keep out
  who does. Other devices, administrators and expiries have no fairness; deaths and losses are
  bounded by the circumstances.
- `Pricing` has safety properties only.

## 4. Proofs

Checked with TLAPS for every value of the constants, under the named assumptions of the modules:
positive bounds, finite sets of rows or offers, `None` apart from what it is not, circumstances of
their type. `PROJECT.json` lists every theorem; these are the arguments.

**`OfferAcceptance_proofs`**

- `TypeCorrect`: `Spec => []TypeOK`.
- `LockInvariant`: `Spec => [](TypeOK /\ LockInv)`. `NoOverstaffing` is not inductive: a state with
  an accept that has passed its check and no slot left satisfies it and breaks it at the commit.
  `LockInv` adds what the locks guarantee. The job row is held by accepts past their check and by
  nobody else (`JobLockHeld`); an accept holds the row of its offer, which is still OFFERED
  (`OfferHeld`); a bulk update holds what it has hit, still OFFERED (`SweptRowsHeld`); an accept
  past its check still has a slot to take, and when it is the last one every other pending offer
  has been swept or is still to be (`SlotKept`); a late decline or expiry whose version still
  matches meets an offer that is open or released by the sweep of a failure (`WithdrawSound`); a
  no-show past its update holds its row (`NoShowHeld`).
- `NeverOverstaffed`: `Spec => []NoOverstaffing`, for every number of accepts and workers.
- `SlotPoolImplemented`: `Spec => Pool!Spec`, by `PoolStep`: each step takes, opens, closes or
  gives up offers of the pool, or leaves it alone.

**`JobLifecycle_proofs`**

- `TypeCorrect`: `Spec => []TypeOK`, without any assumption beyond the modules'.
- `SearchInvariant`, `MovesAsAllowed`, if nobody cancels: a write is a transition of
  `ALLOWED_ASSIGNMENT_TRANSITIONS` from the status the row has or, if it was released in bulk, from the
  one it had before, or it is the no-show of an offer nobody answered (section 5). The invariant `SearchInv` says
  that inserts hit fresh rows (`Numbered`), that nothing but an offer was ever released in bulk
  (`OffersFreed`, so that the version check is sound for whoever read anything else, lemma
  `StillAsRead`), that an approval or a no-show under way is of a row that admitted it (`Approvable`,
  `Absence`), that a search for a substitute knows whom it replaces (`SubstituteKnown`), and that
  only dispatchers insert (`DispatchersSend`).
- `OneDispatcherKeepsBudget`: if nobody cancels and there is at most one dispatcher,
  `Spec => []SlotBudget`. The invariant `Budget` adds that what a dispatcher has counted is still
  free: claimed slots plus `op[p].open` never exceed the request. No other step claims an ordinary
  slot: an offer that is accepted was claimed before, and a substitute does not count. Both
  assumptions are needed. With two dispatchers `NoOverstaffing` fails; with a cancellation a row that
  was released while its guardian was setting out counts again, after the slot was offered to
  somebody else (section 5).
- `DoneAtConfirmation`: if nobody cancels, asks for dispatch again or reports a no-show,
  `Spec => []OrdinaryDoneAtConfirmation`, though completions count the active guardians without a
  lock. The property alone is not inductive: a completion that has counted may be overtaken. The
  invariant `DoneInv` says that a job that has begun is not searched for again (`BegunIsLate`), that
  whoever finishes a job has completed an assignment of it (`Finishing`), and that from the count
  that found nobody at work on nobody is (`AllCounted`), but for guardians whose accept read the job
  while a replacement was sought and committed after that count (`uncounted`); unsent rows are blank
  (`Blank`). The exception is of the code: `accept` does not look at the job again (section 5).

- `RowsOrderly`, whatever is requested and whatever dies: offers get the next numbers in turn, and
  what a no-show, an approval or a cancellation under way has read are rows that were sent
  (`Orderly`), so no insert takes a row from an offer or a guardian.
- `SearchKnowsWhom` (`SeekingHasDeparting`), if nobody cancels or no process dies: the version check
  keeps whoever waits for relief waiting (`ReliefStays`), and who cancels goes on until the job is
  CANCELLED (`CancelGoesOn`). The hypothesis is needed: a cancellation that dies after it released the
  departing guardian leaves the job seeking for nobody.
- `SearchGoesOn` (`SearchNeverStalls`), without any hypothesis: a step that is neither a crash nor the
  commit of an accept, a decline or a no-show that read the job while it sought a replacement leaves
  alone all that keeps the search going (`SearchKept`), fills the slot or leaves an offer out, or
  leaves an event or a handler behind that goes on (lemma `StallStep`, one step per action). Whether a
  decline goes on is decided by the job it read, not by that of its commit. `NeverStalled` draws the
  consequence: where no process dies, nobody is reported absent and nobody asks for dispatch again,
  `Spec => []~Stalled`, with cancellations. Who answered while a replacement was sought then commits
  when the job is past its search for good (`Beyond`, lemma `PastSearch`), and a late answer leaves
  nothing stalled.
- `LifeImplementsSlotPool`: if nobody cancels and there is at most one dispatcher,
  `Spec => ImplementsSlotPool`. Initial states map to initial states; a step that accepts takes a free
  slot, since the budget of offers holds, and closes the others with the last one (`TakingStep`);
  other steps only move guardians within their slots, give one back by a no-show, insert within the
  budget or close offers (`PoolStep`). Only the abstract `Cardinality` has to be carried over
  (`SameCardinality`).

**`Roster_proofs`** - `RoundsStayApart`, `OffersInGoodStanding`, `TypeCorrect`, from `IInv`: what a
round holds is held by it alone; its candidates are active and verified as long as it holds them,
since whoever changes a guardian row waits; what it counted as open stays open until it inserts,
since one worker at a time handles a job and every other step only frees slots. `OffDutyStays`
(`StaysOffDuty`): in serial order the step that puts a guardian on duty is a `StartShiftWrite` of that
guardian, in good standing, or an `Accept` or `Handoff` by which the guardian gets to work; no
`setAvailable`, activation or review does. The proof adds `Alone`: at most one request is under way,
and the duty or the account it has read is still as it was read when it writes.

**`Billing_proofs`** - `PaysOutAfterPayment`, `EarningsAccounted`, `EarningsMoveAsStated`, `PaidStays`,
`TypeCorrect`, from `IInv`. No handler locks, so the invariant bounds what a request in progress has
read by what can have happened since: an earning exists, or an accrual is under way, only after a
payment (`PaidFirst`); a PAID earning is named by a payout that completed (`Accounted`); and, for
requests in turn only, whoever is about to write an invoice still finds what it read (`InTurn`).

**`Pricing_proofs`** - `ChargesAsAgreed`, `PaysAsAgreed` under `NoOverlap` (no client answers a release
while the automation does), `AlertsOnce`, `TypeCorrect`. The invariant says that the guardians who
served are numbered in the order of their arrivals, each leaving when the next arrives; that
`covered` and `worked` are the differences of time stamps while somebody is there; that stored terms
are never written again; and that a scan in progress is the only one and has alerted what it passed.

**`Outbox_proofs`** - `HandlersStartOnce`, `TypeCorrect`, from `Apart`: the batches of two processes have
no event in common, events of a batch are locked or PROCESSING, and one whose handler was started
is neither PENDING nor in a batch.

**`Registration_proofs`** - `FirstApplies`, `StepsAgree`, from `IInv`: handlers act for organisations that
exist, an application is that of the first, and in serial order whoever acts still finds what it
has checked.

**`Sessions_proofs`** - `SessionsStay` (`SessionsKept`), from `SessionInvariant`, for any number of
devices, codes and tokens: no two devices hold the same token (`OwnTokens`); only a logout and a
reset have tokens to revoke (`OnlyListed`), the one such as nobody holds any more (`GivenUp`), the
other such as it found in use (`Found`); so a token that is held, as long as no handler has died, is
usable, in the middle of its own refresh, or taken by a reset (`Kept`). `OfficeApart`, that the office
is no device of the user, is assumed.
`AttemptsLimited` and `TypeCorrect`, for every finite set of devices, whatever overlaps and dies. That
`attempts` stays below `MAX_ATTEMPTS + Cardinality(Devices)` is not inductive: the invariant `TInv`
counts the attempts with the handlers that have compared the code and not yet written (`Tries`),
which only works because a code's name is its own (`OwnCodes`); a new handler gets there only below
the limit, and then at most all other devices are there too. The ages of the codes are finitely many
numbers, one above the other (lemmas `Nth`, `Largest`, by counting what lies below).

Only model-checked: everything under fairness (`EveryRequestAnswered`, `SearchEnds`,
`AccrualFollowsPayment`, `UndisputedGetsIssued`, `BusyComesFree`, `EveryCandidateAsked`,
`DueEventsSettle`, `OffersEnd`, `RegistrationEnds`, `SiteGetsPinned`, `SignsIn`,
`OutdatedGetsDropped`), which is out of the prover's reach. Every other property of a passing run is
stated by a theorem.

## 5. Where the code departs from its documents, and what does not hold

Two statements have a run in which TLC refutes them.

1. **A no-show of an ASSIGNED job is not recorded** (`no_show_of_assigned`).
   `applyUnfilledSlotRedispatch` calls `transitionToPartiallyAssigned`, which does not admit
   ASSIGNED; the transaction rolls back and the absent guardian keeps the slot.
2. **A rejected early release is approved after all** (`rejection_stands`). `autoApproveEarlyRelease`
   reads that the request is open and approves it by id; a rejection committed in between is
   overwritten, and the client is charged by it. If the job was drafted in between, the release of a
   guardian who is billed already changes.

Everything else in this section was found while modelling. The statements named are written down in
the modules; TLC refutes them with the constants given.

### 5.1 Staffing and the life of a job

Constants are those of `JobLifecycle_concurrent.cfg` (two clerks, `Requests = {}`), or with
`Clerks = {c1}` where it says "1 clerk", and as given.

| Statement | Constants | What happens |
|---|---|---|
| `NoOverstaffing` (`api/multi-guardian-production-review.md:62`) | 1 clerk, 2 dispatchers, `MaxRows = MaxOffers = 4` | `accept` skips the slot check while the job seeks a replacement, for ordinary offers too; a second dispatcher has counted the same slots and left a surplus offer |
| `AllDoneAtConfirmation` (same, :79) | 1 clerk | the count of active guardians leaves replacement assignments out: a job is confirmed while a substitute works on it |
| `RefillCanBeTaken` (same, :77) | 1 clerk | the transitions of `accept` do not admit IN_PROGRESS, so the refill of a job in progress cannot be accepted |
| `FailedJobHasNobody` | 1 clerk | `failJob` writes FAILED over a job that was accepted after its release of the offers, or whose guardians are at work when the refill reaches `MaxOffers` |
| `ReplacementNeverStalls` | 1 clerk, `MaxReplacementOffers = 2`, `Requests = {"noShow"}` | a no-show of a substitute enqueues nothing |
| `ReliefIsSought` | | a second approval overwrites the departing assignment of the first |
| `ConfirmedJobIsBilled` | | confirmation comes before the draft invoice and issues nothing; so does a crash between the completion and the draft |
| `CancelReleasesOffers` | 1 clerk, `Requests = {"cancel"}` | a round in progress inserts offers after the release |
| `ClosedAssignmentsStayClosed` | 1 clerk | an offer released by `failJob` is declined or expired by a handler that read it before: its version did not change; with `Requests = {"cancel"}` assignments under way come back the same way |
| `MovesAsTabled` (`assignment-transitions.ts:8-13`) | 1 clerk, `Requests = {"noShow"}` | `applyNoShow` marks an offer NO_SHOW, which its own list of statuses admits and the table of transitions does not; without no-shows an offer released by `failJob` is declined or expired, as above |
| `AssignedMeansFullyStaffed`, `FailedIsTerminal` (of `OfferAcceptance`) | those of `OfferAcceptance_AssignedNoShowRecorded.cfg` | a no-show is decided by a stale status; `requestDispatch` overwrites whatever the status has become |

Properties of the runs that fail when more may happen; these failures are the code's as well:

| Property | Constants | What happens |
|---|---|---|
| `OrdinaryDoneAtConfirmation` | `Requests = {"noShow"}` | a no-show of an offer, read while the job was PENDING, puts a job that has been started meanwhile back to DISPATCHING; the last guardian at work completes, another accepts, and the count of the completion is stale |
| `OrdinaryDoneAtConfirmation` | `Requests = {"dispatch"}` | the same by a dispatch request that overwrites IN_PROGRESS |
| `OrdinaryDoneAtConfirmation` without its exception (`Active = {}`) | those of `job_concurrent` | an accept reads the job while it seeks a replacement and skips the slot check; the relief arrives, the last completion counts, and the accept commits on a job that awaits confirmation (`assignments.service.ts:127-150`) |
| `SearchNeverStalls` without its exception for no-shows | `Requests = {"dispatch", "noShow"}` | a dispatch request overwrites SEEKING_REPLACEMENT; a no-show of an open offer that saw the old status enqueues nothing |
| `SearchNeverStalls` without its exception for declines | `MaxOffers = 4`, `Requests = {"dispatch"}`, `AllowsEarlyRelease = FALSE` | the same with a decline that read the job while replacement dispatch was paused (`assignments.service.ts:252-254`). The exception for accepts takes three slots, which TLC was not given: the accept of the only open offer, committed after such a dispatch request, enqueues nothing although another slot is open |
| `SeekingHasDeparting` | `Requests = {"cancel"}`, `MayCrash = TRUE` | a cancellation dies after it released the departing guardian, and leaves the job seeking for nobody |
| `SlotBudget` | 1 clerk, `Requests = {"cancel"}` | `cancel` releases an accepted guardian, a round refills the slot, and the guardian's "en route", read before, revives the released row |

### 5.2 Guardians

- A guardian at work becomes AVAILABLE when an offer of another job is declined, expires or is reported
  as a no-show, or when another job ends (`api/guardians.md:44,48`), since one shift state serves all
  jobs and `setAvailable` asks nothing else. That is possible because an offered guardian stays
  AVAILABLE, so that two jobs may book the same one.
- A handoff, and an acceptance followed by a completion, put a guardian on duty who had ended the shift
  (`api/guardians.md:32`). `StaysOffDuty` names both; overlapping, `setAvailable` also reopens
  a shift that ended between its read and its write.
- `complete` commits COMPLETED before it moves the job, drafts the invoice and frees the guardian
  (`assignments.service.ts:884-895`). When no guardian is at work any more, the move throws on a job
  that was cancelled while a substitute was on site, whom `cancel` leaves there
  (`dispatching.service.ts:592-618`), on one that seeks a relief or was confirmed meanwhile; and the
  draft may fail. The guardian then stays BUSY until the next `startShift`, without any crash:
  `BusyComesFree` excepts `stranded`.
- `setAvailable` inside the transaction of a no-show uses another connection: when the transaction
  rolls back the guardian is free all the same. A handler that dies before it leaves the guardian
  BUSY, which is why `BusyComesFree` excludes `trouble`.
- A suspended guardian can still accept a pending offer (`api/admin-onboarding.md:207`); `activate`
  revives the account of a deleted user.
- The blockers of a deletion leave out EARLY_RELEASE_REQUESTED, REPLACEMENT_REQUESTED and
  AWAITING_RELIEF (`api/admin.md:20`), and they are counted before the transaction: a round may
  offer in between.
- A replacement round excludes only who is busy on the job. When the best candidate declined before,
  `wasGuardianPreviouslyTried` refuses the pick, and every later round picks the same one
  (`dispatching.service.ts:307-335`): `EveryCandidateAsked` is about ordinary rounds.
- A pool full of guardians who are not reachable hides the others, as `Waits` states.

### 5.3 Invoices, payments and payroll

- A disputed or voided invoice becomes PAID when a payment created before is confirmed
  (`billing-overhaul-implementation.md`: "issue & payment blocked").
- Two payouts may name the same earning and both complete, also one after the other
  (`api/multi-guardian-production-review.md:125`, `api/admin.md:135`).
- The auto-confirm event is consumed when it finds a dispute, or lost with a process: after the
  dispute nothing but a client or staff issues the invoice. `UndisputedGetsIssued` excludes both.
- With two clerks `PaidIsFinal` fails: an issue, a void or a clearing that read the invoice before the
  payment writes over PAID.
- A payment confirmed before a crash leaves guardians without an earning until it is confirmed again. A
  BLOCKED earning is never unblocked.
- A booking whose billing policy has ended, or whose service is switched off, when its last guardian
  leaves, makes the draft throw: it is never billed. Hourly rate, surcharge and VAT are those of the
  draft, not of the booking, and a FLAT rule that has only an hourly rate has no rate at all.
- A night of less than an hour at the end of a booking (20:30 to 22:30) is not charged: the loop steps
  by whole hours from the start.
- A relief's arrival is always alerted as late, the guardian it relieves as early; and two processes
  may both log the same alert, since the flag is in memory.

### 5.4 Events, expiries, registration and sign-in

- A FAILED event is never claimed again, although `markFailed` schedules it anew and counts its
  retries (`architecture.md:169`; `outbox.service.ts:50` against 78-97). `FailedIsRetried` of `Outbox` states
  it; TLC refutes it as a PROPERTY of `Outbox.cfg`. An event stays PROCESSING when its process dies
  or `markFailed` itself throws.
- Without Redis a restart loses the timers, another process cannot cancel them, and one that finds its
  offer changed rejects unhandled, which ends the process (`ExpiryStale`).
- An offer stays open for ever when a process dies between its commit and `scheduleOfferExpiry`, or
  `queue.add` throws there (`queue.service.ts:134-142`), when one dies between `cancelOfferExpiry` and
  the write of CANCELLED, when its expiry comes while the job awaits confirmation or is completed
  (`dispatching.service.ts:1119`), or too early by the clock of the process that runs it (`:1126`).
  `OffersEnd` is about expiries that are queued.
- A bulk release leaves `versionNumber` alone (`dispatching.service.ts:632-635`), so an expiry that read
  the offer before writes EXPIRED over CANCELLED and goes on to enqueue (`:1130-1135`).
- Registration: a process that dies between the two writes of the submission leaves
  `applicationSubmittedAt` unset, and no request can repeat it; two devices create two organisations,
  and when the second got the TIN (`schema.prisma:260`, unique) the patch of the first throws for ever
  and its application cannot be submitted, which `RegistrationEnds` excepts and TLC refutes without;
  a patch that was under way takes the step back after the submission; the payment step is not
  required (`api/onboarding.md`), and it is the location that sets PAYMENT_COMPLETE; the type of an
  organisation may change after it applied.
- Sign-in: several devices may pass the check of the last attempt, so a code may be refused more
  often than `MAX_ATTEMPTS`, by the number of devices less one, as `TypeOK` states. A refresh that dies
  half way costs the session. Cached permissions may be out of date up to their time to live.

## 6. What is not modelled, and why

- Documents, organisations, reviews: single-row create, read and update handlers; what registration and
  permissions need of them is in `Registration` and `Sessions`. Hard deletion, profile edits and
  vetting records of guardians likewise.
- Notifications, e-mail, SMS: output, no handler decides by what was sent. That a code gets lost is
  part of `Sessions`.
- Admin and analytics views, the reconciliation view, ledgers: queries and presentation.
- Scores, distances, positions and the history of locations: data by which the ranking of `Roster` is
  given. Names and rates of services, amounts, VAT, revenue shares: data no decision reads.
- The drift warnings of the reconciliation scan and `replacement-invariants.ts`: they only log.
- The connectivity and dispatch queues, which nothing fills in production; BullMQ's own rules.
- Invitations to an organisation, its further sites; roles, guards and what tokens carry.

## 7. How the modules fit, and what is left

`OfferAcceptance` implements `SlotPool`, which is why `JobLifecycle` may take an accept as one step; and
`JobLifecycle`, with its replacements, refills and failures, implements it too, as long as one dispatcher
sends the offers and nobody cancels (`LifeImplementsSlotPool`; TLC checks `ImplementsSlotPool` when it is
added to the PROPERTIES of `JobLifecycle_redispatch.cfg`).
`JobLifecycle` ends where the invoice is drafted, `Billing` begins there. `Roster` takes the choice of
guardians that `JobLifecycle` leaves open, `Outbox` the fate of the events and expiries that
`JobLifecycle` takes as arriving late or never, `Pricing` the time that both leave to the environment.

Left to do: the unlocked read-then-write of `transitionJobStatus` at the grain of statements; `Outbox` as
a refinement of `JobLifecycle`'s `events`.

## 8. Running it

    tlc -workers 2 -config JobLifecycle_concurrent.cfg MCJobLifecycle
    tlapm JobLifecycle_proofs.tla
