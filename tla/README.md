# EduFlow in TLA+

Specifications, model-checking configurations and proofs for the backend of
EduFlow (`src/backend`, FastAPI over MongoDB, with a browser frontend and an
assistant called Flo). They say what the concurrent and failing parts of that
backend promise, check it with TLC on small instances, and prove what matters
most with TLAPS for every instance.

Paths below are relative to `src/backend`.

1. Inventory
2. Modules and code
3. Runs
4. Fairness
5. Proofs
6. Where code and comments disagree
7. What is not modelled
8. Where to go on

## 1. Inventory

All state lives in MongoDB, plus a few caches and queues in each server process.
A request is a coroutine: it can be interleaved with any other at every `await`,
and it dies with its process at any point. What the database gives the code is
single-document atomicity (conditional updates, unique indexes), TTL deletion,
and, where a session is used, multi-document transactions with snapshot reads.
Most services use the first, few use the second, so the recurring questions are:
which update decides a race, what has already happened when the next statement
fails, and what a repeated request finds.

### The assistant's write path

| Component | State | Operations | What makes it correct |
|---|---|---|---|
| Planner and tools (`ai/planner.py`, `ai/tool_functions_v2.py`) | none of its own | turns a sentence into a plan of write steps with preconditions; each tool adapts a service | every write goes through a plan, and a step is bound to its school and branch |
| Confirmation gate (`routes/chat.py` `_execute_confirmed_dispatch`, `services/confirm_tokens.py`, `ai_rate_limiter.py`, `ai_kill_switch.py`, `ai_shadow_mode.py`) | `confirm_tokens`, `ai_rate_limit_counters`, `system_flags`, `ai_dispatch_audit_log`; a flag cache per process | peek, gate, charge, redeem, authorize, audit, run, answer; operator switches | a token runs its plan at most once; no more plans an hour than the limit; the kill switch stops writes; a refusal costs nothing; audit row, reply and effect agree |
| Plan executor (`ai/plan_executor.py`, `services/txn_context.py`) | `ai_write_idempotency`, the records of the steps | revalidate, claim a key and run, per step, in one transaction; commit, or abort and answer | a plan is applied once, whole, and every answer is true of it |

Chat calls the gate; the gate calls the executor; the executor calls the tools,
and the tools the services below, which the browser's own pages call too.

### Money

| Component | State | Operations | What makes it correct |
|---|---|---|---|
| Token billing (`services/razorpay_service.py`, webhook of `routes/tokens.py`) | `razorpay_webhook_inbox`, `token_purchases`, `token_balances` | journal an event, handle it, file it | a payment is credited once, and one that is reported is credited in the end |
| Token spending (`services/token_service.py`) | `token_balances`, `token_usage`, role limits | check before a model call, debit after it | a budget is not exceeded by calls at once |
| School-fee checkout (`razorpay_service.py`) | `school_fee_checkouts`, `fee_transactions` | create, settle | a payment settles what was due, once |
| Fee ledger (`fees_service.py`, `fee_lifecycle_service.py`, `admission_charge_service.py`, `concession_service.py`) | `fee_transactions`, `fee_idempotency_keys`, structures, the marks on a child's record | record, correct, delete, generate, mark, recompute | no payment and no concession twice; open bills follow the marks, paid ones stand |
| Late fine (`late_fine_service.py`) | none: worked out from two dates | compute, assess a family's quarters | the fine is the one the school's rule adds up |
| Fee synchronisation (`fee_sync_service.py`) | `fee_sync_jobs` | trigger, conflict, time out | one job at a time |
| Accounting periods (`accounting_period_service.py`) | `accounting_periods` | open, close, guard a posting | nothing is posted into a closed period |
| Payroll (`payroll_service.py`) | `salary_disbursements` | disburse, correct | one disbursement a month (a unique index) |

### People and decisions

| Component | State | Operations | What makes it correct |
|---|---|---|---|
| Login sessions (`auth_tokens.py`, `routes/auth.py`) | `refresh_tokens` | issue, rotate, revoke | a rotated or revoked token is of no further use |
| Decisions (`approval_registry.py` over `leave_service.py`, `student_leave_service.py`, `profile_change_service.py`, `approvals_service.py`, `certificate_service.py`, `announcement_service.py`; `approval_thread_service.py`) | requests with a status, what they ask for, a conversation each | raise, decide, delete, reply, bring in, reopen | one decision per request, by somebody with the authority for it, and its consequence exactly if it was an approval; a conversation that closes with the decision and hides its history from newcomers |
| Admissions (`admissions_service.py`) | applications, students | status chain, enrolment | one student per application |
| Undo (`undo_service.py`) | audit rows | write back the previous value | a later change is not lost |
| Quizzes, substitution, attendance, timetable, campus operations, records | single documents | create, update, delete | last writer wins |

### Around all of them

HTTP idempotency (`services/idempotency.py`) replays a stored response to a
repeated request; live updates (`services/sse.py`) fan events out through bounded
queues of one process; tenant scoping (`tenant.py`, `database.py`) adds school and
branch to every query; the audit log is append-only except for the row of an AI
dispatch; messaging, documents, memory, migrations, the operator's pages and the
frontend complete the list. `PROJECT.json` names each with its files.

### Hard behaviours

- **Races for one document**: two confirms of one token, two runs of one plan,
  two deliveries of one event, two deciders of one request.
- **Lost answers**: a commit, a redeeming update or an increment takes effect and
  the driver raises.
- **Crashes** between a claim and its release (an event's lease), between a
  charge and its refund, between an effect and its record.
- **Time**: a token expires and its document is deleted while a request holds
  it; the clock hour turns between charge and refund; a lease runs out under a
  slow handler.
- **Caches**: the shadow flag is up to 30 seconds old in another process.
- **Writes outside the transaction**: a service that ignores the ambient session.

`PROJECT.json` lists them as hazards, line by line, with the property that would
catch each, or the reason why none does.

## 2. Modules and code

```
PlanExecutor -- implements --> AtomicPlan <-- uses -- ConfirmGate
Approvals (leaves) -- implements --> Decision
FeeLedger (counter, plans, bills, links, period)     Billing     LateFine
```

Each of `PlanExecutor`, `ConfirmGate`, `Billing`, `Approvals`, `FeeLedger` and
`LateFine` has an `MC...` module with the values of its constants, and a
`...Proofs` module with its theorems; those about the gate's budget are in
`ConfirmGateBudgetProofs`. Operators named `X_Something` with a comment
"Mutated form of X" are plausible mistakes in X; no behaviour of a module uses
them. They document what each property would catch.

### PlanExecutor (`ai/plan_executor.py`)

`run()` executes the steps of one plan inside one transaction. The state is what a
run does next (`pc`, `idx`), what its transaction sees and holds (`snap`, `held`),
and what is durable (`keys` = `ai_write_idempotency`, `effects`, `records`). One
action per statement that another run can come between:

| Action | Code |
|---|---|
| `StartSession`, `SessionUnavailable` | `get_txn_session()` and the start of the transaction |
| `CheckStep` | `_assert_step_scope`, `_revalidate_precondition` |
| `ClaimKey`, `ClaimDuplicate`, `ClaimContended` | `_claim_idempotency` and the three ways it ends |
| `RunStep`, `StepFails`, `StepRaises` | `invoke_tool` and what it returns or raises |
| `Commit`, `DryRunAbort` | leaving the transaction; a commit whose acknowledgement is lost is a `Commit` that ends in `internal` or `conflict` |
| `WriteConflict`, `ResolveConflict` | the transient-error branch, which asks for the plan's first key |
| `StatementFails`, `Crash` | any other exception, the end of the process |
| `ChangeRecord` | another user |

A step is reduced to what the executor can tell of it: the record it is about, the
precondition the planner attached (`guard`), whether the service behind it passes on
the session (`enlisted`), and whether its parameters name a branch (`scoped`), so that
its check may find them outside the plan's. MongoDB appears as snapshot reads from the
first statement on, key claims that exclude each other while a transaction is open,
write conflicts that abort the later writer, and atomic commits.

`AtomicPlan` is the promise: a plan is applied in one step by at most one run,
and each answer ("done", "nothing", "unknown") is true of the plan. It is kept by
what the transaction carries, the steps that enlist (`EnlistedSteps`). What any
other step writes is durable at once and stays, whatever the run answers; nothing
is claimed of it. `already_applied` is said only of plans of which every step,
enlisted or not, is durable (`Whole`).

### ConfirmGate (`routes/chat.py`, `services/confirm_tokens.py`, `ai_rate_limiter.py`, `ai_kill_switch.py`, `ai_shadow_mode.py`)

A request is one call of `_execute_confirmed_dispatch`. Its stages follow the
function from top to bottom: `Peek`/`Reject`, `GateClosed`/`GateUnacked`/
`GateOpen`, `CheckBudget`/`Charge`/`ChargeTwice`/`Recount`, `Consume`/
`ConsumeUnanswered`/`Bind`/`Inspect`, `Refund`, `Authorize`, `WriteAhead`,
`ReadShadow`, `Execute`/`Conclude`, `Finalize`. The variables are the documents
(`token`, `expires`, `count`, `writesOn`, `shadowOn`, `audit`), the cache of each
process (`shadowSeen`) and the request's local state (`pc`, `bucket`, `dry`). The
executor is used through `AtomicPlan`, so what is checked here holds for every
executor that implements it. `barred` is the only history variable: the
request arrived while writes were off, and they have been off since. What the
audit row says of a committed plan is the code's: a plan of several steps is a
success, a single action is what its tool's result says, and a result that does
not say so is filed as a failure (`Outcome`; `Mute` names the tokens of such tools).

Failing database calls are named in `FailingCalls`, one name per `try` block of
the code, because each has a consequence of its own (a failed flag read allows; a
failed shadow read means live; a failed increment is repeated; a failed redeeming
update is a 503 that keeps the charge; a failed audit write is logged).

### Billing (`services/razorpay_service.py`, `routes/tokens.py`)

A delivery of an event goes through the journal (`Look`, `Claim`, `ClaimFails`;
then `Finish`, `Fail`, `EndUnrecorded`) and through its handler. `fresh` is the
five-minute lease of `begin_webhook_event`; `LeaseAges` ends it, also under a handler
that is still running. The provider (`Receive`) delivers again until it is answered
with a 2xx.

A handler first resolves what the event is about (`Resolve`): the branch its notes
name for a top-up and an activation, the balance for a renewal, one of the two for a
cancellation. An event it cannot use (notes or amounts that do not fit, a branch that
is gone, a renewal without a balance) is logged and dropped: the handler returns, the
event is filed as processed and answered 200, and nothing is credited. `Complete`
names the events that say all their handler needs, `DeleteBranch` takes the branch
away, and `Creditable` says which top-ups are not dropped; the properties are about
those. Then `FindPurchase` looks for the payment and `Credit` inserts the purchase and
adds its tokens in one transaction guarded by the unique index on the payment's
reference; `credits` counts how often that transaction took effect.
`UpdateSubscription` sets the status for the other kinds.

### Approvals (`routes/approvals.py`, `services/approval_registry.py` and the services behind it)

A caller makes one API call about one request of one of six kinds. What the call
does next is `pc`; between any two of its statements the others may go on. The
kinds differ in what decides a race, and the module keeps each as it is:

| Actions | Code |
|---|---|
| `Vet`, `Insert` | raising a request: one correction waiting a person, one leave for a day; what needs no approval is agreed at once |
| `Load` | the read every route of the queue begins with; what the conversation may do with the caller goes by what it said |
| `QueueLooks` | the registry's own read, with `may_decide`, before it calls the service |
| `ServiceReads` | the service's own read and checks; a staff leave has none, a general request is not asked whether it has been decided |
| `Prepare`, `CarryOut`, `CorrectLogin` | what a general request or a correction asks for, done *before* it is marked |
| `Mark`, `MarkLost` | the update that decides: conditional for leaves (on "pending", or on the status that was read), by the id alone for the rest. The loser of a staff leave is answered 409 by `routes/staff.py:818` and 500 by `routes/operations.py:316` and by the queue (`Lost`) |
| `RecordAbsence` | the attendance rows of an approved leave, *after* it is marked |
| `FindToDelete`, `Remove` | certificates that were not issued, announcements |
| `Ensure` ... `WriteMessage` | the conversation: found or created, closed after the decision, opened again, replied to; numbers are counted, then used. `past` records how many messages there were when a newcomer got in |
| `Fail` | any statement raises, or the process dies |

`Decision` is the abstract promise: decided at most once, carried out at most once
and only if agreed. Leaves keep it (`LeavesAreDecidedOnce`); general requests,
corrections, certificates and announcements do not, which is the finding of
`approvals_refusal`. Left out: editing a waiting request, attachments, who is told.

### FeeLedger (`services/fees_service.py`, `fee_lifecycle_service.py`, `admission_charge_service.py`, `concession_service.py`, `accounting_period_service.py`, the checkout of `razorpay_service.py`)

The fee documents of one child under one version of one structure. `doc` holds
the quarters' bills, the joining bill and the payments recorded at the counter;
`key` the idempotency rows, `link` the payment links, `marks` what the child's
record says of concessions and a government place, `status`, `version` and `holder`
the accounting period and the open transaction that has written to it. `status` is
"none" in a school that keeps no periods: there posting is always allowed, and a
plan has no document to write to.

| Actions | Code |
|---|---|
| `LookForKey`, `CheckPosting`, `InsertPayment`, `StoreKey` | `record_payment` of the page: four statements, no session |
| `PlanBegins`, `PlanTouches`, `PlanCommits` | the same call as a plan's step: one snapshot, and a write to the period if there is one, so that two plans, or a plan and a closing, conflict |
| `KeyExpires` | the 24 hours of a key's TTL |
| `ReadOriginal`, `Correct`, `ReadTarget`, `Remove` | `correct_transaction` (another amount or the same, and any status), `delete_transaction` |
| `ReadChild`, `ReadExisting`, `Raise`, `Stamp` | `generate_charges`: preview, an upsert a quarter, and the stamp on the one-time amount |
| `SetMark`, `ReadAgreed`, `Agree` | the marks, each followed by |
| `ReadStudent`, `ReadBills`, `Rework` | `recompute_open_charges`, whose updates are unconditional |
| `ReadOwed`, `IssueLink`, `Settle` | the checkout: a link over chosen bills, and the transaction of the webhook, which Billing's journal lets through once |
| `ReadPeriod`, `ChangeStatus` | closing and reopening the period |

`find_one` over keys that are not unique returns any of them, so `LookForKey` may
find an expired row beside a fresh one. A counter payment is named by who recorded
it; it is made in full or in part (`Deposit`), and is "paid" or "partial" by that.
`alone` (no two calls have overlapped, none has failed) and `before` (the payments
whose key was stored when a call began) are history variables. Concession
arithmetic is kept (half for staff, the sibling table, the one-time amount, the
cap at the fee); the amounts are constants. Left out: discounts, structure
versions, transport charges, receipts, audit, correction and revision rows.

### LateFine (`services/late_fine_service.py`)

`compute_late_fine` and its helpers as operators over days counted from 1 April,
beside the rule they shall compute, which adds to `accrued` day by day. Days pass
(`NextDay`), a family clears a quarter (`Clear`), and a government place takes the
school fee off open bills but not the bus (`GrantPlace`). The code asks for the fine
in two ways, and both are modelled. `/late-fine/calculate` passes the amount billed
and the day of clearing (`Billed`, `FineNow`): the fine of a cleared quarter stays as it
was on that day. A child's page sums what is still open and passes no day
(`Outstanding`, `FineShown`): the fine of a cleared quarter is gone from it.

## 3. Runs

Every pass run has a mutant per property.

| Run | Instance | What it shows |
|---|---|---|
| `executor_runs` | two runs of one plan of three steps, the first of which names a branch and has a precondition and the last of which writes outside the transaction, beside a shadow run of another plan; every fault | the plan's transaction is applied at most once and whole; refusals and `already_applied` are true; runs end; the executor implements `AtomicPlan`; the inductive invariant |
| `gate_requests` | three requests of one user, two for one token, budget 2, token lifetime 0 of 1 tick; drifted branch, a deletion that may come unacknowledged, kill switch | one run per token, exact budget, working switch, refusals that cost nothing |
| `gate_faults` | two requests of one user with budget 1, one for a tool that need not say it succeeded; every call may fail, shadow mode is switched | the budget holds, the audit row is true, every request is answered |
| `billing_faults` | four deliveries of a top-up (twice), an activation and a renewal that says too little; journal, handler and process fail | a payment is credited once, and one that can be credited is so before its event is filed as processed |
| `billing_retried` | the same top-up beside a cancellation; handlers fail, the branch may be deleted | a reported top-up is credited in the end, unless its branch goes first, and before its event is filed as processed |
| `billing_acknowledged` | two deliveries of one top-up, a crash | finding 1 of section 6 |
| `approvals_decisions` | ten requests of the six kinds; two callers with any two calls about one request or two rivals; failure at every statement | leaves are decided once, answers are true, what reads as agreed was carried out and agreed by the right person, conversations close after the decision |
| `approvals_refusal` | the same instance | finding 2 |
| `approvals_history` | the same instance | finding 4 |
| `late_fine` | 370 days of a leap year, payment days before, on and after the days on which the rule changes | the fine is the rule's, for the office and on a child's page; one daily fine runs |
| `ledger_calls` | three callers with any call, two quarters, every concession, failure at every statement; a school with an accounting period and one with none | repeated and planned payments, snapshots, closed periods; bills and receipts of calls that do not overlap |
| `ledger_one_time` | the same callers and amounts, every quarter billed at the start | finding 3 |

Bounds and why they suffice:

- *Two runs, requests or deciders for one key, token, event or request* make every
  race here: each is decided by one write, with a winner and a loser.
  `gate_requests` has a third request, so that the counter is shared by a winner, a
  loser and a bystander; `ledger_calls` a third caller, so that a call can finish
  before two others race. The proofs cover every number.
- *Three steps*: two are the least with a "first step" that has written when the next
  fails, and with a first key that is not the current one; the third writes outside
  the transaction. One record suffices, since no two steps are told apart by theirs.
  Shadow runs claim no key, so one is enough.
- *One clock hour*: a refund after the hour has turned breaks the budget
  (section 6), and is outside the instances that hold. `MaxTime` 1 is enough for
  a token to be issued, to expire (`Lifetime` 0 expires at the first tick) and to
  be deleted.
- *Limits* of 1 and 2 are below the number of requests that may be charged (two, and
  three, since the deletion may come acknowledged), so the limit is reached.
- *Records* are `same`, `edited` or `gone`; *amounts* are such that every concession
  and their cap give a different net.
- `approvals_decisions`: the two callers are interchangeable, so the one whose
  operation is listed first in `Ops` is named first. Calls that no role can make are
  left out by `Makes`; the owner differs from the principal for general requests
  only, so it appears there only.
- `ledger_calls`: callers are symmetric; whoever bills or pays online means the first
  quarter, alone or with the second (`FirstQuarter`: the quarters differ by their
  order only). Two quarters are the least with a "later" one. Whoever corrects or
  deletes means a payment, the joining bill or the first quarter. The ledger begins
  with no bill, or with the joining bill and the first quarter's, so that the second
  is raised beside bills that are open; without periods, with none. `Deposit` is half the
  fee, so that a payment may be partial.
- `late_fine`: all quarters are billed alike, with the bus or without. `PayDays` 15,
  20, 92 and 290 are the due day, a day of the daily fine, the day a quarter's end
  charges begin and a day of the last quarter.
- `billing_faults` uses the symmetry of the two deliveries of one event.
  Deletion of the branch is left to `billing_retried`; the proofs are about every set
  of faults at once.

`CHECK_DEADLOCK FALSE` is set everywhere: requests, runs, calls, deliveries and days
are finitely many, and the system rests when all are answered. The largest instances
are `billing_faults` (1.5 million distinct states) and `ledger_calls` (1.2 million).

What the properties do not say, though their names may suggest it:

- `AllOrNothing`, `RefusalsAreHonest` and `AppliedAtMostOnce` speak of the steps that
  enlist. A step outside the transaction keeps what it wrote (section 6).
- `CommittedSawItsRecords` is about records that are deleted. One that is edited goes
  unseen, because no precondition carries a version.
- `KillSwitchStops` is about requests that arrive while writes are off. One that has
  passed the gate when the switch is flipped goes on.
- `BudgetIsExact` and `RunsWithinBudget` are claimed within one clock hour.
- `ThreadsCloseAfterDecision` excepts a child's leave, `RefusedStaysClosed` is about
  leaves of staff.
- `ResubmissionsAreRecognised` is about calls that began after the key was stored,
  `PlannedPaymentsAreSingle` about schools that keep accounting periods.
- `BillsFollowMarks` and `ReceiptsStand` are about calls that do not overlap. Neither
  catches the stale rewrite of a bill, or a settlement at another amount (section 6).
- `FineFollowsTheRule` says of a cleared quarter that whoever asks with the amount
  billed and the day of clearing is told what accrued up to that day; the child's
  page does not ask so, and shows nothing.

## 4. Fairness

- `PlanExecutor!FairSpec`, `ConfirmGate!FairSpec`: weak fairness of what a
  coroutine does next (`Proceed`). The event loop runs every ready coroutine, and
  every database call returns or raises. Faults have no fairness: nothing is
  obliged to fail or to succeed.
- `Billing!FairSpec`: weak fairness of the server and of the provider's redelivery,
  and strong fairness of the three steps of a handler that credit a top-up (`Resolve`,
  `FindPurchase`, `Credit`): a handler that is tried again and again does not fail for
  ever. Without it `TopupsAreCredited` is false, and rightly so.
- `Approvals!FairSpec`: weak fairness of each caller's next statement; `AgreedIsRecorded`
  excepts the callers that fail.
- `FeeLedger` and `LateFine` state no liveness: every call is one pass of statements.
- `billing_retried` has no crash and no failing journal. With a crash the property
  is false: this is the finding of `billing_acknowledged`.

## 5. Proofs

All obligations are proved by TLAPS, for any sets of runs, plans, requests,
tokens, users, events, callers and calls, any number of quarters, any amounts and
payment days, under the assumptions named in the modules (the
functions have their types; a plan has at least one step).

**PlanExecutorProofs.** `TypeCorrect`; then `InvariantHolds`, the induction. None of
`AppliedAtMostOnce`, `AllOrNothing` or `AlreadyAppliedIsTrue` is inductive: why a
second run cannot commit lies in the keys. `IInv` therefore says that open
transactions hold disjoint keys, none of them committed, and the plan's first one from
its first claim on (`ClaimsAreExclusive`); that a committed key stands for a plan made
durable as a whole (`KeysStandForPlans`) and a durable enlisted write for a committed
first key (`EffectsAreCommitted`); and that a checked precondition outlives its step,
since the snapshot does not change (`SnapshotsWereChecked`). From it follow
`AppliedOnce`, `WholeOrNothing`, `HonestRefusals`, `TrueReplays` and `GuardedCommits`,
for plans with any mixture of steps. `Refinement`: if every plan has a step that
enlists (`SomeEnlisted`; otherwise its transaction is empty and applies nothing), the
executor implements `AtomicPlan`; `Commit` is `Apply` (with its answer, or with the
answer still to come after a lost acknowledgement), endings are `Answer`, all else
stutters. `RunsAreBounded` gives every run a number (`Left`, at most three for each
step of the plan and three more) that each of its own steps lowers, that nobody else
raises, and that is zero exactly when the run has ended: no conflict, refusal or crash
leads back. It says of `EveryRunEnds` all that does not rest on fairness.

**ConfirmGateProofs.** `TypeCorrect`; `OneRun`, from `OneRunPerToken` strengthened by
`RedemptionIsFinal` (a redeemed token is never live again, whether it stays or is
deleted), so that the conditional update cannot match twice; `SwitchedOff`, for
deployments in which the switch can be read (`"flag" \notin FailingCalls`, since a
failed read allows by design), from the invariant that a barred request is at the
gate or has its reply. `RefusalsKeep`, by following where the steps of a request lead:
from beyond the redemption none leads back to a refusal. `AuditTrue`, from `AuditInv`:
what each stage implies of the request's own answer, dry run and effect
(`Answered`), and what a row implies of the requests of its token (`Row`); `OneRun`
is why no second request can come between a row and its outcome. `RequestsAreBounded`
does for a request what `RunsAreBounded` does for a run: fourteen steps at most, the
two at the executor included, and neither the clock, the operator, the caches nor
other requests add to them.

**ConfirmGateBudgetProofs.** Two counts over finitely many requests
(`IsFiniteSet(Requests)`) within one clock hour (`OneClockHour`; section 6 says what
happens beyond it). `WithinBudget`, whatever calls fail, from `LimitInv`: the counter
is never less than the number of requests let through, and that number never exceeds
the limit. The first part also counts the requests whose increment is being repeated
(`recount`): they have been added and not let through yet, and what they read back
must cover themselves. `ExactBudget`, if neither the increment nor the refund fails,
from `Exact`: the counter lies between the charged requests that live and all that
were charged. Both rest on `Placed`, which says at which stages a request has its
hour.

**BillingProofs.** `TypeCorrect`; `EachCreditedOnce` and `EachProcessedCredited`, by
induction on `BooksInv`, which adds that a top-up's handler that is about to file the
event has seen the purchase (`FinishedIsCredited`). The unique index makes the first
true however many handlers run; the second needs that purchases never shrink, and that
a branch that is gone does not come back (`CreditableFades`): an event dropped for
want of its branch is not creditable afterwards. It speaks of creditable top-ups
only; what `Complete` leaves out, and what `DeleteBranch` takes away, is dropped by
design and covered by `CreditedOnce` alone. `AcknowledgementsHold` says how much of
the promise that finding 1 of section 6 refutes is kept: a creditable top-up answered
"received" is credited, one answered "duplicate" is credited or its row is still open
(`CreditedOrOpen`). It needs that rows are never removed and that only events of no
interest are filed as ignored (`OpenInv`).

**ApprovalsProofs.** The invariant: the types that tell a decision; `Place(c)`, what
each stage implies of its call (a caller at `mark` has read a status it may
decide, one at `shut` has decided); `Standing(q)`, what is true of a request whoever
looks (recorded absences are of agreed leaves, a conversation that is closed has
a decision behind it). With it: `RightPerson`, `CarriedOut`, `TrueAnswers`,
`ClosedAfterwards`, `StaysClosed`, and `PromiseKept`, the refinement of `Decision` by
the leaves, where `Mark` is `Decide`, `RecordAbsence` is `CarryOut`, and all else
stutters. `TypeCorrect` rests on a second invariant (`Conversed`): a conversation has a
greatest message number (`HasLast`), which a new message keeps, so that no induction
over the conversation is needed. `AbsencesAreOwed`: an agreed leave is recorded, or
the caller who decided it stands at the record or has failed (nobody else's failure
excuses it; `DeciderStays`: a decided leave keeps its decider);
`CallsAreBounded`: each statement of a call lowers a bound of fifteen. Together they
say of `AgreedIsRecorded` what does not rest on fairness.

**LateFineProofs.** `FollowsTheRule`, by induction over the days: one more day adds to
the computation what the rule adds, for both kinds of year and any payment days.
It needs that a cleared quarter was cleared in the past (`ClearedInThePast`).
For the child's page, a quarter that is owed is one that has not been cleared, and
one that is not owed has no fine (`NothingOwed`). `OneAtATime` follows.

**FeeLedgerProofs.** Five layers. `Typed` gives each stage of a call its shape. `KeysInv`:
a key is stored once and after its payment, and who is on the way to a payment
although a key was stored when it began has met an expired one; from it
`Resubmissions`. `PlansInv`: a plan whose snapshot is still the period's has seen it
open, and then either no plan has posted or a key has expired; the plan that holds
the period is the one that commits; from it `PlannedOnce` and `PlannedInTime`. Where
there is no period nobody holds it, and `PlannedOnce` claims nothing.
`CorrectionsInv`: a payment is what was recorded but for its corrections (in full or
in part, `Recorded`), and so is what a correction has read; from it `Snapshotted`.
`AloneInv`, of ledgers whose calls have not overlapped: one call is busy, and the
rows it has still to rework are unpaid; from it `ReceiptsKept`. `FollowInv`, of such
ledgers too: every open bill nobody has corrected is what the marks make it, or the
one busy call will still work it out; a bill has one of two
nets, with and without the agreed one-time amount; a stamp changes neither. From it
`MarksFollowed`.

**Model-checked only**: liveness (`EveryRunEnds`, `EveryRequestAnswered`,
`TopupsAreCredited`, `AgreedIsRecorded`), since fairness and ENABLED are beyond the
prover. For three of them the bounds above prove the other half, that nothing goes
on for ever without answering; deliveries of a top-up are repeated without bound,
so `TopupsAreCredited` has none. Every safety invariant and action property of the
passing runs is stated by a theorem.

## 6. Where code and comments disagree

Findings with a run that shows them:

1. `billing_acknowledged`: an event whose handler died is acknowledged as a
   duplicate when it is redelivered within five minutes
   (`services/razorpay_service.py:81`), and is then never handled.
2. `approvals_refusal`: "the refusal stands ... so a no cannot be quietly turned into
   a yes on the same record" (`services/approval_thread_service.py:355`); a general
   request can be approved after it was rejected, and its action carried out
   (`services/approvals_service.py:342`).
3. `ledger_one_time`: the one-time concession "must never repeat"
   (`services/concession_service.py:166`); recorded after two bills have been raised,
   it is taken off both (`services/fee_lifecycle_service.py:348`).
4. `approvals_history`: "somebody added without the history starts where they joined",
   and "before you joined" is "exact rather than nearly always right"
   (`services/approval_thread_service.py:162`, `:169`); the number their view starts at
   is counted (`:304`) before they are let in (`:307`), and a message written in
   between was there before them and is shown.

Seen in the models or while modelling, not made runs of their own.

*Assistant:*
- Tools whose services ignore the ambient session write outside the transaction
  (`ai/tool_functions_v2.py:3379`); a failed or shadow plan leaves those writes.
- Preconditions never carry a version (`ai/planner.py:94`): only a deleted record makes
  a plan stale. That of `approve_leave` names the collection `leaves`, whose
  records are in `leave_requests` (`ai/planner.py:50`): always stale.
- A refund after the hour has turned is taken from the new hour
  (`services/ai_rate_limiter.py:255`). The charge of a request is kept when its token
  is deleted between peek and redemption. A dispatch whose write-ahead row cannot be
  written goes ahead unaudited (`routes/chat.py:3655`). The row of a single action that
  committed says "failure" if the tool's result does not say that it succeeded
  (`services/confirm_tokens.py:318`). Another process may act on a shadow flag that is
  up to 30 seconds old.

*Billing:* an event its handler cannot use is filed as processed and answered 200, with
a line in the log and no credit: a top-up whose notes or amounts do not fit or whose
branch is gone (`services/razorpay_service.py:413`-`:465`), a renewal handled before
the activation (`:565`). An operator who repairs the cause has no event left to repeat.

*Decisions:*
- Of the three routes that decide a staff leave only `routes/staff.py:818` knows
  `LeaveConflictError`: the loser is answered 409 there, and 500 by
  `routes/operations.py:316` and by the queue (`Lost`).
- A teacher's approval that passes a child's leave on to the principal closes its
  conversation all the same (hence the exception in `ThreadsCloseAfterDecision`).
- A certificate issued between the check of `delete_certificate` and its delete is
  removed. A request decided since `edit_pending` read it is edited.
- Message numbers may be given twice. Of two creators of a conversation one is
  answered 500, after its decision took effect.

*Fees:*
- Two overlapping submissions at the counter record two payments: the key is looked
  up, then stored, without a unique index (`ResubmissionsAreRecognised` is of calls
  that began afterwards). After a key has expired a resubmission records again. A
  payment deleted and entered anew within 24 hours is answered as a replay.
- Plans conflict over the period's document only. In a school that keeps no periods
  `assert_posting_allowed` writes nothing (`accounting_period_service.py:84`-`:95`), the
  key's index is not unique, and two overlapping plans both record the payment.
- The one-time concession "can never be handed out twice"
  (`student_concession_service.py:22`). `record_admission_concession` reads whether an
  instalment consumed it (`:158`) and writes the record whole (`:172`): between the
  two `generate_charges` may bill and stamp a quarter
  (`fee_lifecycle_service.py:257`), and the write takes the stamp away, so that a
  further quarter is given the amount again.
- A counter payment is posted into a period closed since the check; only plans are
  protected (`PlansPostIntoOpenPeriods`).
- A recomputation that overlaps a payment rewrites the bill that has been paid
  meanwhile (`fee_lifecycle_service.py:282`: "never touched"). A bill a correction has
  put back to pending keeps the money against it, and is left alone (`:323`). Two
  links over one bill can both be paid, and a settlement sets the amount paid to the
  bill's present amount, not the link's.
- The joining charge "carries no concession" (`admission_charge_service.py:123`) and is
  halved by the recomputation after a mark.
- The fine of a cleared quarter vanishes from the child's page, which asks only about
  open bills (`student_concession_service.py:245`), while the office's calculation keeps
  it (`routes/fees.py:983`).
- A new version of a structure lets a quarter be billed twice. Receipts requested at
  once are given different numbers. `outstanding_by_quarter` promises to count part
  payments and never reads `partial`. The guard of a second synchronisation looks
  for `in_progress`, and jobs are `running`.

## 7. What is not modelled

- Of the executor: the no-op session that development uses without a replica set,
  and the side effects after commit with their compensations: no plan built in the
  repository has one.
- Of the gate: the conversation a confirmation belongs to, metrics, the
  assistant's transcript message, and the keyed hash of a stored plan, which
  guards against a changed database.
- Of billing: the purchase and the spending of tokens; several subscriptions at
  once (events of different branches share only the journal's collection); what
  exactly an event fails to say (`Complete` is a set of events).
- Of decisions: editing a waiting request, attachments, notifications.
- Of fees: discounts and their approval, structure versions, transport charges,
  receipts, synchronisation, other children (they share only the period), other
  periods and the books above them. A counter payment never settles a bill: neither
  does the code's. Its status goes by the amount paid; one that the caller names
  (`fees_service.py:107`) is not modelled, nor are therefore payments recorded as
  pending, which a recomputation would rework, and links over counter payments.
- Of accounting periods: their creation, and a day that none of a school's periods
  covers (posting is refused then, as in a closed one).
- Of the late fine: which quarters a bill belongs to, part payments of a quarter (the
  fine is of the quarter, not of the rest), and what a page prints.
- `AuditIsTrue` speaks of the row of a token; requests of one token that never
  redeem it write none.
- Sessions, HTTP idempotency, token spending, live updates, synchronisation and undo
  have a protocol and no module; their hazards are in `PROJECT.json` with a note.
- Components without a protocol (single-document records, text, layout, input and
  output) are listed in `PROJECT.json` with the reason.

## 8. Where to go on

The modules were written in the order of what a mistake would cost: executor, gate,
billing, decisions, late fine, fee ledger with checkout and periods. Whoever extends
the project might take, in this order:

1. **RefreshTokens**: rotation, logout and sign-out of departed staff; a token is
   consumed at most once.
2. **Idempotency** around an abstract handler, composed with the ledger.
3. **Spending**: budget check and debit, composed with Billing's credits.
4. **Fee synchronisation**, **live updates**, **undo**.
5. The composition of gate and executor without the abstract executor in between.

