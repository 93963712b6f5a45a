# A verification of i10's delivery core

i10 is an e-mail service: an HTTP API that accepts mail, workers that hand it to a provider (SES, or
i10's own Stalwart server), webhooks that tell customers what became of it, mailboxes with their own LDAP
front, and billing through Polar. This directory models the parts where a mistake costs a customer mail,
a notification, a mailbox or money, and where the code is most concurrent:

| Part | What it promises | Modules |
|---|---|---|
| **send path** | accepted mail gets a true verdict, is sent once, and not under a hold | `SendTypes` `MessageStore` `SendQueue` `SendPipeline` `AtLeastOnce` `SendPipelineProofs` |
| **webhook delivery** | each event reaches the endpoint once, in order, and the owner knows how the endpoint stands | `WebhookTypes` `WebhookStore` `WebhookQueue` `WebhookDelivery` `WebhookDeliveryProofs` |
| **usage books** | sent mail is metered, metered mail is billed once | `UsageBooks` `UsageBooksProofs` |
| **mailbox sign-in** | the provider never locks an account out because of us, and nobody is told what is not so | `MailAccounts` `FailureBudget` `BindVerification` `BindVerificationProofs` `BindAnswersProofs` |
| **subscriptions** | a workspace sends under the plan Polar says it pays for | `PolarSubscriptions` `Subscriptions` `SubscriptionsProofs` |
| **content store** | a body can be given back, whatever it was rewritten into | `ContentObjects` `ContentBodies` `ContentProofs` `ContentBodiesProofs` |

TLC checks all six on small instances. TLAPS proves for every instance each safety invariant and action property
that a passing run checks, and the two refinements; liveness stays with TLC. Four runs show where the code and its own
comments disagree.

## 1. The system

### How the parts interact

```
 API replica        Postgres                Redis (groupmq)        worker process        provider
 acceptSend ──────▶ core.messages ─enqueue─▶ send queue ──lease──▶ handleBatch ────────▶ SES / Stalwart
                      ▲  ▲  ▲   ◀───────────── claim, verdict ───────┘  │ recordSent          │
   sweep CronJob ─────┘  │  └── risk hold cancels queued rows           ▼                     │ events
   (re-enqueues)         │                                      core.meter_events             ▼
                         └── SES reconciler ◀────────────── core.message_events ◀── SNS/SQS
                                                                          │
 billing CronJob: SES repair, count both books, top up, flush ──▶ Polar   ▼
                                          core.webhook_deliveries ─▶ webhook queues ─▶ handler ─▶ endpoint
```

Postgres holds what is owed. Redis only prompts somebody to look, so every part has a sweep or a
reconciler that finds what Redis lost. The rows' guarded updates are the only locks between processes.

### Inventory

| Component | State | Operations | What is hard | What makes it correct |
|---|---|---|---|---|
| acceptance (`send/accept.ts`, `accept-db.ts`) | `core.messages`, bodies, idempotency keys | gates, one-transaction write, one enqueue per due time | crash or failed enqueue after the commit; a hold placed after the gate looked | written rows are settled; a hold stops them |
| claim and verdicts (`db/claim.ts`) | status, claimed_by, claimed_at, attempts | claim, markSent, markFailed, markCanceled | stale claims of live workers | the claim is a lock; a verdict stands |
| send worker (`worker/*`) | batches in memory | claim, restore bodies, hold check, call, record, bill | crashes, lost answers, failures of one of many, lost leases | no duplicate but after a slip; bill only what is sent |
| send queue (`queue/send-queue.ts`) | groupmq jobs | add, lease, complete, retry, dead-letter | a lease shorter than a claim | (a prompt only) |
| message sweep (`sweep.ts`, `db/*.sql`) | none | read stuck rows, enqueue chunks | must agree with the claim on what is due | everything written settles |
| sending holds (`risk/holds.ts`) | `core.sending_holds` | place (and cancel), lift | races with accept, claim, requeue | no new mail leaves while it is in force |
| SES reconciler (`send/reconcile-ses.ts`) | none | mark rows SES says went | races with every writer of the row | corrects only what is untrue |
| usage ledger (`send/metering.ts`, `metering/ingest.ts`, `send/reconcile-run.ts`) | `core.meter_events` | recordSent, top-up, flush | lost records, two counts at two times, lost answers, two copies | only sent mail, once, in the end |
| webhook engine (`webhooks/engine.ts`, `deliver.ts`, `db.ts`) | `core.webhook_deliveries`, leases, lanes | load, attempt, record, retry, move aside, sweep | jobs of four origins for one row, leases, delays, order, Redis restarts | one attempt at a time, when owed, in order, answered in the end |
| webhook health (`webhooks/health.ts`) | enabled, failing_since, health | success, failure, disable, resume, notice | attempts that end in any order around a change | the last notice is true; off stays off |
| webhook resend, replay (`webhooks/replay.ts`) | reopened rows, replay runs | reopen and enqueue | the same row has older jobs | no second copy of an accepted event |
| webhook breaker and shares (`webhooks/fairness.ts`) | counters in Redis | admit, defer, trip, close | jobs deferred again and again | nobody starves |
| entitlement windows (`metering/levels.ts`, `packages/metering`) | windows, tiers | remaining allowance | month ends, plan changes inside a window | never over-admits by a window edge |
| billing (`billing/*`) | `core.subscriptions`, `plan_assignments`, `polar_checkouts` | attribute, record, grant, mark; webhooks, reconciler, checkout page | three transactions, out-of-order or missing events, one customer with several workspaces | the plan becomes what Polar states; what was paid for reaches its buyer, and no webhook takes it away |
| tenant lifecycle (`tenants/*`, `0046`) | `core.tenants` | provision, terminate, revoke at Polar | two systems, one of which fails | a terminated workspace's row is released, and its buyer may subscribe again |
| Clerk projection (`projection/*`) | `authd.accounts` | upsert, remove, raise the epoch | duplicates, order | the row is the newest version that was applied |
| authd (`services/authd`) | per pod: cache, refusals, flights, throttle; `authd.bind_failure_budget` | LDAP bind | shared detached verification, one budget over pods and windows, cache against revocation, panics | the provider's lockout is never reached; a revoked password is refused; "wrong password" is only said of wrong passwords |
| content store (`content/*`) | `message_bodies`, `content_objects`, `content_templates`, `content_packs`, R2 | move, link, promote, pack, sweep | overlapping runs, R2 and Postgres do not commit together, sweep against link | what a body names is there; every body can be given back; garbage is freed |
| retention (`retention/expire.ts`, `retention.ts`) | deletes by age | expire, then the three sweeps | rows still in flight | nothing kept is deleted |
| risk scoring (`risk/*`) | bands, facts | score, act | two runs at once | a band rise is one event |
| domains, DNS, mailboxes, team inboxes, devices, templates, GitHub sync, suppressions, SES status, auth, console, UIs | rows of their own | single transactions around external calls | mostly the external call | see the notes in `PROJECT.json` |

`PROJECT.json` lists every component with its sources, and the 40 hazards that matter most, each at its
line with the properties that would catch it.

## 2. Modules, and how they correspond to the code

`PROJECT.json` "map" gives the lines behind every definition. The correspondence in outline:

**Send path.** `MessageStore` holds the rows: `status`, `claimedBy`, `providerId`, which rows are old enough
to be swept (`old`), which claims have outlived `WORKER_STALE_AFTER` (`stale`), which have no surviving
recipient (`bare`), and the clock; each SQL statement is an operator with its WHERE clause as the guard.
`SendQueue` is one groupmq group: what is in each job and who runs it. `SendPipeline` composes the two with

- `Accept`: `Admit` (the hold gate), `Persist`, `EnqueueGroup` (one per due time, may fail), `ApiCrash`;
- `Deliver`: `ClaimNothing`, `ClaimThrows`, `ClaimBatch`, and `ClaimStrands`, where the claim commits and
  restoring a body throws;
- `Proceed`: `HeldCheck`, `CancelOne`, `CancelThrows`, for each message `CallAccepted`, `CallAnswerLost`,
  `CallRejected`, `CallDeferred`, then `RecordSent`, `RecordFailed` or `RecordThrows`, and `FinishBatch`;
- `WorkerCrash`, `JobStalls`, `ClaimGoesStale`: what ends behind a handler's back;
- `Sweep`, `PlaceHold`, `ReleaseHold`, `SesRepair`, and time.

`holder`, `taken`, `slipped` and `exposed` are history. A message **slips** when its claim goes stale or when the
provider's acceptance of it is never reported back: exactly the two events after which the code cannot
know whether the mail is out, and the only excuse the properties allow.

`AtLeastOnce` is the abstract promise: pending messages, a provider that takes each at most once short of a
slip, and verdicts that tell the truth. `KeepsPromise` says that `SendPipeline` implements it, with the two
in-flight statuses mapped to "pending".

**Webhook delivery.** One endpoint. `WebhookStore` holds its delivery rows (status, attempts, when the
next attempt is due, lease, lane) and its own state (enabled, how long it has been failing, health, the
latest notice). `WebhookQueue` is the endpoint's group in the two groupmq queues, with what the source says
of groupmq: order by `orderMs`, delays that hold the group, chaining of the next job whatever its delay, names
that make a repeated add a no-op, a bounded memory of completed names, stalls, loss of everything.
`WebhookDelivery` composes them: `RecordEvent`, `Resend`, `Queue`/`PromptLost` (between a commit and its enqueue), `SweepRead`,
`Skip`/`SkipDisabled`/`Load`/`Defer` (the start of a handler), `Attempt`, `SandboxOut`, `MarkDelivered`, `MarkFailed`,
`Retry`/`MoveAside`/`Finish`, `Break`, `Crash`, `LeaseEnds`, `RedisRestarts`, `Pause`, `Resume`.

**Usage books.** One tenant. Mail sent at a tick is named by the tick. `MarkSent`, `RecordSent`, `RecordLost`
are the worker's side. A run of the CronJob goes through its legs `ses` → `ours` → `theirs` → `topup` →
`page` → `ingest` → `mark`, one action per statement or call, each of which can fail; `Killed` may come at any point and
several runs may be under way. `Reconcile` is the pure function of `send/reconcile.ts`, `UnbilledIds` its
statement.

**Mailbox sign-in.** `MailAccounts` is the person: the versions of the Clerk record, the webhooks that carry
them (any order, more than once), and the row `applyUser` writes. `FailureBudget` is the one row every pod
shares, with its two statements `Reserve` and `Release`; it is a specification of its own. `BindVerification` extends
both with the pods: `ReadRow`, cache, `Join` or start a flight, remembered refusals, throttle, budget, provider, and the
answer to every bind that joined; a flight goes on when its bind has timed out. Calls may fail, answers may be lost,
shared work may panic, and a pod may be killed; Clerk, the epoch and the clock move at any step. Time is in ticks: an operation is bounded by 14
seconds (`bind.go`) and a window or a cached password lasts minutes, so what began in a tick is over before the next but one.

**Subscriptions.** `PolarSubscriptions` is Polar: the latest statement of each subscription, and every statement it ever sent, each of which may be
delivered at any later time. `Subscriptions` is our side, for workspaces whose owner is one customer at Polar. `OpenCheckout` writes the checkout's row (or fails
to), the person may `Pay`, and Polar makes the subscription some time after (`Purchase`). Attribution (holder, checkout, the customer's external id) and the pipeline
record → grant → mark, three transactions, are walked by webhook handlers, the reconciler and the checkout page. `Poll` is that page: of any checkout that was paid, as long as the
row of its workspace says that nothing was granted, and whether the workspace lives or not. `Terminate` frees the plan, marks the row, and `EndBilling` then tries to end the
subscription at Polar. `strayed` is history: who took a subscription through a page without having bought it.

**Content store.** `ContentObjects` has the files and images, identified by hash: touch, upload, insert, rewrite against the
sweep's read, delete in R2 and commit. `ContentBodies` extends it with what becomes of the html: it is linked to
a template, or establishes one, is stamped as examined, packed in R2 and released; and with retention and the three sweeps. What a
pass read and what it then writes are separate steps, and each write is guarded as in the code.

## 3. What is checked

Every passing run is exhaustive within its bounds. The mutants in `PROJECT.json` give for each property a bug of the
code that it catches; the mutated operators stand beside the originals, marked as mutants or bugs.

| Run | Instance | Shows |
|---|---|---|
| `two_workers` | 1 scheduled message, 2 worker processes, 2 jobs | duplicates and wrong verdicts only after a slip, only sent mail is billed, a verdict stands, a hold stops what has not passed its check, and the whole implements `AtLeastOnce` |
| `settles` | 1 message, 1 worker, holds, events, all failures | every written message reaches a verdict (`EventuallySettled`) |
| `webhook_jobs` | 2 handlers, 2 lanes, 1 retry, 1 resend, 1 then 2 deliveries | no second copy short of a slip, true verdicts, the policy's budget, order on the ordered lane, true health notices |
| `webhook_answered` | 1 delivery, 1 handler | every delivery is delivered or failed in the end, though all of Redis may be lost at any time |
| `usage` | 1 worker, 1 CronJob, 2 days, the first leaving the look-back half way, 1 fault | only sent mail is metered, what is marked as shipped is at Polar, nobody pays twice, no false surplus, every event is shipped, and of each day as many of the earliest messages as it lacks are metered |
| `binds` | 2 binds, 2 pods, 2 passwords, 3 versions of the record, 1 fault, windows of 1 slot | the budget is kept and its count exact, one forward for identical binds, the row is the newest applied version, a success is of the row that was read, a refusal is true, and a raised epoch turns away every cached password |
| `subscriptions` | 2 workspaces of one customer, 2 checkouts, 3 changes at Polar, 1 fault | the row tells the plan, what was paid for is held by its buyer or by one whose checkout's page took it, is lost only to a page of an older checkout, and the plan becomes what Polar states once the pages are closed |
| `content` | 2 bodies, 2 shared hashes, 2 overlapping runs, 2 templates, 2 packs, 2 faults | every body can be given back, what a body names is in R2 unless a sweep rolled back, the objects move as `ContentObjects` says, and what nobody names is freed, row and bytes, but for the bytes of a run that died before their row |

Runs that refute a statement of the repository (details and quotations in `PROJECT.json` "findings"):

| Run | The source says | The model shows |
|---|---|---|
| `usage_gap` | the books close the gaps the send path leaves | a top-up takes the day's earliest messages, metered or not, so a gap behind a metered message stays |
| `account_order` | a delayed older event must not overwrite newer state | an upsert is guarded by `clerk_updated_at`, a removal is not: the delayed event takes the mailbox of a person who has it again |
| `late_grant` | `event_at` keeps a delayed `active` from re-granting a plan | the guard is on the row, the grant is a transaction of its own: a handler that recorded earlier grants later, and the reconciler finds the row and Polar in agreement |
| `object_lost` | a row means the object is there | a sweep that deletes in R2 and rolls back leaves rows without objects; a run of the content job that trusts one rewrites the only copy away |

Other disagreements met while modelling. The models contain the behaviour, and no run is kept for it:

- a message whose `to` are all suppressed is "recorded and never queued" (`drizzle/0007:24`), but the sweep enqueues it (`accept.ts:511-512` only keeps acceptance from it);
- with `WORKER_BATCH_CONCURRENCY` > 1 two batches of one process share `claimed_by`, so the one that lost its claim can still record (`worker.ts:86`, `claim.ts:198-203`; the default of 1 is safe);
- a late event with an earlier time goes first, and completing it chains a waiting retry before it is due (`engine.ts:259-269`);
- a handler that breaks at the first attempt leaves a job name groupmq remembers as completed, and the sweep re-adds that very name (`engine.ts:309-311`, `327`, `357`): without other traffic the row stays owed;
- two overlapping runs of the content job may lose a body that `content-store.ts:24-26` says they would not harm: one reads it while its
  link is stale (an image has left the html since), the other unlinks it, links it anew and finds it exact, the first takes that good link away
  (`compact.ts:470-475` looks neither at what was read nor at the link), and the second releases the original, whose text is what it read (`478-487`). `undone` marks such a body. The CronJob's
  `concurrencyPolicy: Forbid` is what prevents it, and `OneRunUndoesNothing` proves that it does;
- the page of a checkout takes "the newest subscription of that product since", of which `checkout-status.ts:457-460` says it "can be nothing other than the one
  just bought", `events.ts:471-479` that the floor keeps it honest when two live workspaces share a customer, and `db.ts:83-95` that a subscription has exactly one buyer. The floor drops only what is
  older than the checkout. The page of an older checkout of another workspace, which was terminated, or lives and was never granted a plan its row remembers, takes the newer subscription of the workspace that bought
  it: the page asks neither for a session nor whether its workspace lives. The loser's row is deleted and its plan assignment stays, which is the "one payment entitling two accounts" of `0047:3-5`; and two
  such pages can take the subscription from each other for as long as both are open. `strayed` marks each such taking; `LostToOlderOnly` is what the floor does guarantee;
- a workspace whose subscription could not be ended at Polar is granted its plan again by the reconciler (`billing/reconcile.ts:353` against `drizzle/0046_tenant_termination.sql:124-128`).

### Bounds, and why they are enough

A region is a CONSTRAINT named in the MC module: the run explores the union of the regions, each of which keeps a few sources of change
still so that the others can be combined fully.

- **Send path.** `taken` saturates at 2 ("more than once"); `MaxTime` is the last due time. One message shows every
  race for a row, because rows are only related through batches and through the hold. Two slots are enough for a claim to be lost and
  the loser to go on, two jobs let a swept copy meet the original. Batches of several messages are covered by the theorems, which
  are for any number of messages, requests and slots.
- **Webhooks.** `webhook_jobs` explores four regions: one delivery around
  pauses and switch-offs (`Alone`), one delivery sent again (`SentAgain`), two on the ordered lane
  (`FirstInLine`), two on different lanes around the endpoint's changes (`SideBySide`). The first three stop at a slip: the
  properties they serve say nothing about a delivery that has slipped, and it never unslips, so nothing they could
  refute is cut off; `SideBySide` goes on, because `HealthTold` has no such excuse.
  `FirstInLine` stops once the first delivery cannot be overtaken any more. The queues hold two jobs and remember one name. `Gaps = 1` gives a first attempt,
  a retry and an exhausted budget. It is too small for one thing: with `Gaps` = 2 a retry chained before its time and then deferred comes back
  to a row that is not yet due and is dropped, which the proof of `OrderKept` found and the run did not. `Early` says so now, and the theorem is
  for any number of gaps.
- **Usage.** Days of 3 ticks, `Horizon` 5 and `Lookback` 4: the window begins in the middle of the first day, which is where a count could come out ahead.
  `TopUpLimit`, `IngestLimit` and `MaxPasses` are 1 or 2, so that limits are met. `MaxFaults` counts kills, throws and
  lost answers; losses of the worker's record are not counted. Two copies of the job at once are covered by the theorems.
- **Sign-in.** A window, a cached password and a bucket of one tick, one slot and one token meet every limit in two ticks. Regions: two pods and
  a fault of a person nothing changes about (`Steady`), one pod without faults while the record and the epoch change (`Changing`), and a third
  version of the record between binds (`Restless`). Two binds are a leader and one that joins, or two that compete for the slot; more are covered by the
  theorems about the budget.
- **Subscriptions.** Three changes at Polar are a purchase, a change and its reversal, or two purchases and an end. Regions: one subscription with a
  fault or a lapse and the end of the workspace (`One`); one whose checkout has no row, so that the customer's name decides (`Unwritten`); two of one workspace (`Second`); those of two
  workspaces that live or end side by side (`SideBySide`); and that of the workspace that follows one that ended (`Heir`). Where every checkout has a row the customer's name decides nothing
  and is fixed. No fair step leads out of a region, so a behaviour that is fair in it is fair, and `EventuallyEntitled` means there what it says. A page takes another workspace's subscription in
  `SideBySide` and in `Heir`.
- **Content.** `b1` has two files, the first of which is also the image of `b2`: files and images share an object. Regions: `Moving`, in which files
  and images move, are named, expire and are swept while the html stays in its row, and `Rewriting`, in which the html moves and
  no object goes stale. `EventuallyFreed` is checked where no fair step leads out, that is in `Moving`; `MovesObjects` and its theorem say that nothing
  the html does moves an object otherwise. Ages are "past the grace or not".

### Fairness

- `FairSpec` of `SendPipeline`: weak fairness for what the deployment keeps doing (handlers go on, time passes, leases
  run out, the sweep is a CronJob every five minutes); strong fairness for a call to Postgres, Redis or the provider that is tried again and
  again: one of the tries succeeds. It is stated of the current claim only; a handler that lost its claim may stop
  for good. Nothing is assumed of people: a hold may stay for ever, and mail is then `canceled`.
- `FairSpec` of `WebhookDelivery`: likewise. `Traffic` adds that other endpoints' jobs push old names out of groupmq's memory
  of 1,000. `EndpointStill` in the liveness
  run leaves pauses out; a constraint can hide a behaviour from a liveness check, and here it hides those with a pause.
- `FairSpec` of `UsageBooks`: a run that nothing disturbs goes on, and the CronJob comes back. `MaxFaults` bounds how many runs are
  disturbed: if every run is killed, nothing is shipped.
- `Subscriptions`: what a handler began goes on unless it is killed, the reconciler comes back every half hour. Webhooks need not arrive. A page polls for 90 seconds
  (`checkout-status.ts:255-257`), so `EventuallyEntitled` is about what follows when the pages are closed (`PagesClose`); with two open for ever it is false. It excuses
  the cases it names: an ended subscription whose later event holds the row (`Buried`), and a grant that overlapped another or was
  not marked, which the row then hides from the reconciler (`late_grant`).
- `ContentBodies`: a run that nothing disturbs goes on, the grace passes (`Passing`) and the retention job comes back; faults are finite. Nothing obliges a pass to
  begin.
- Sign-in has no liveness property: every step of a bind is bounded by a timeout that answers it.

## 4. What is proved

TLAPS checks the following for every value of the constants that satisfies the named assumptions
(each says only what the constants are: disjoint requests, due times within the clock,
`None` not a process; a calendar with days longer than a tick, positive limits; finitely many binds, at least one pod and bind per user; Polar's free plan is none of the
paid ones; handlers are not tenants; deliveries are numbered in order; what a body holds is a set of hashes, and a template is promoted from at least
one body; and that the marks for "nothing" are not values).

**Send path** (`SendPipelineProofs`). `TypeCorrect` is type correctness. `OneHandler`, `DuplicateOnlyIfSlipped` and
`VerdictMatchesProvider` are not inductive: from "at most one handler holds the message" alone nothing follows about a claim
of a row that another handler still has. `Invariance` proves `Inv`, whose parts are

- `WrittenOnce`: a row that is absent is in nobody's hands, and no two requests write it;
- `ClaimIsLock`: until it slips, whoever has a message is its latest claimer and the row is `sending`;
- `TakenIsAnswered`: until it slips, a message the provider took is `sending` or `sent`, and whoever has it knows;
- `TakenIsTrue`: a row, an event or a handler that says the provider took it is right;
- `StaleIsSlip`: staleness is a slip, and an event the reconciler would act on belongs to a sent row or a slip;
- `BilledOnlyIfSent`.

The steps are grouped by what they do to a message (`AcceptInv`, `ClaimInv`, `CallRefusedInv`, `CallTakenInv`, `RecordsInv`, `HandleInv`,
`PlaceHoldInv`, `SesRepairInv`, `AgesInv`; `ForgetsInv` covers those in which handlers only let go), and `ClaimIsALock`, `DuplicatesAreSlips`, `VerdictsAreTrue` and
`OnlySentIsBilled` follow. So do the action properties: `HoldStops`, which needs that under a hold only handlers past their check
are sending (`HoldIsSeen`); `VerdictsStand`, from the guards of the statements and `ClaimIsLock`; and the refinement `SendKeepsPromise`, one step per
action, where `TakenIsTrue` and `VerdictMatchesProvider` are what makes a recorded verdict a step of `AtLeastOnce`.

**Webhook delivery** (`WebhookDeliveryProofs`). `DeliveryInductive` proves one invariant in two halves. The rows': `LeaseInv` (until a delivery slips one
handler holds it, and what it read of the row stands), `OutcomeInv` (what the endpoint accepted, and who knows) and `BudgetInv` (the row's count is behind
the attempts since a resend by at most the one that is being answered). From these come `AcceptedOnce`, `LogIsTrue` and `AttemptsAreBudgeted`. The queues': a group runs
one job and its runner has it (`QueueInv`), the ordered queue has only what has its place in the line (`LineInv`), everything about an ordered delivery is on that
lane (`LaneInv`), and a delivery in its place has a job there, which waits while the row's time has not come (`PlaceInv`). `OrderIsKept` follows, since a
handler is given the head of the line. `HealthIsTold` is inductive by itself. The proof of `PlaceInv` failed at first, and rightly: see the bounds of the webhook runs.

**Usage books** (`UsageBooksProofs`). `Inv` adds to the properties where the evidence is on its way: what a worker will record, what a
run will top up and what it ships are all sent or metered already, and a page about to be marked is at Polar
(`MarkAfterPolar`). It gives `OnlySentIsMetered`, `MarkedIsShipped` and `NobodyPaysTwice`, for any number of copies of the job.
`SurplusIsTrue` holds of one run at a time (`OneRun`, the CronJob's `concurrencyPolicy: Forbid`): between the run's two counts
the ledger may grow, and `Balance` shows that whatever it gains was counted as sent before (`CountStands`) or lies
beyond the window's common end (`LateMailIsOutside`), and that a day's midnight is never inside the window when the day's first
part is not (`ClockOrBucket`). With two copies a false surplus is possible: one tops up or repairs between the other's counts.

**Failure budget** (`BindVerificationProofs`). `WithinBudget` speaks of every window, the row only of one, so the invariant `BudgetInv` adds that
the row's count is exactly what is out of its own window and that nobody holds a slot of a window to come (`RowInv`): a new window is
then empty (`NewWindowIsEmpty`), a slot taken goes into the row's window (`TakingInto`), and one given back late either finds its window in the row
or touches nothing (`GivingBack`). `BudgetInductive` proves it of `FailureBudget` alone; `BindsImplementBudget` proves that every step of the bind path is a
step of that specification or leaves the budget alone. `BudgetHolds` and `BudgetIsExact` follow for any number of pods, binds and faults.

**Answers to a bind** (`BindAnswersProofs`). That an answer was true when it was given says nothing of what was read before, so `Inv` follows every reading: the row
(`AccountInv`: a newer version is on its way while the row is behind), what flights, binds and caches read of it (`ReadsInv`: two that read the same read it between the same
revocations), what each such reading implies about the password in the record (`TruthInv`), and that what a pod remembers of
refusals is finite and of bounded age (`MemoryInv`), so that there is an oldest to evict. `FlightsInv` gives a flight its key and its joiners. The theorems are `RowCatchesUp`,
`RefusedIsNotForwarded`, `RetiredIsRetired`, `InvalidNeverLies` and `RevokedIsRevoked`; the budget's half of the types comes from the refinement above.

**Subscriptions** (`SubscriptionsProofs`). `RowIsTruthful`: `RowTellsPlan` speaks of workspaces nobody is working on, so `GrantInv` says what holds in between: short of a
slip one worker is between row and mark, the row is the one it wrote, and only its grant is ahead. `PolarInv` and `KnownInv` keep Polar's statements apart by their time.
`PaidIsBuyers` and `OlderCheckoutsOnly` follow from `OwnerInv`: every job that is under way is for the buyer, for one whose page took the subscription before, or from a page; and a page's workspace has a paid
checkout that is no younger than the subscription (`Fits`), which stays so (`Remembers`). Nothing is assumed of how many workspaces share the customer, which of them live, or whom it names.

**Content store** (`ContentProofs`). That a body's objects are there is not inductive: what a run has read long ago decides what it names now.
`ObjectsInv` adds that a name has a row (`NamedHasRow`), a row an object but for what a sweep deleted (`RowHasObject`), that the
sweep holds only stale rows nobody names (`DoomedUnwanted`), and that what a run past its touch is about to name is fresh or still its own work (`MoveIsFresh`).
`ObjectsInductive` proves it of `ContentObjects`; `BodiesMoveObjects` that `ContentBodies` implements it; `ObjectsNotLost` is the consequence.

`ContentBodiesProofs` proves `BodiesGivenBack`. What a run read of a body is what it was, images aside (`ReadsOnce`, `LiftMatches`, `OneBody`); what it found exact still is
(`ExactStands`), so a released original has its link (`ReleasedHasLink`, `LinkHasTemplate`); a pack being filled is fresh (`PackIsFresh`), one being swept is not used (`SweptIsUnused`), and one
that is used is in R2 (`PackIsThere`). Bodies that another run undid are excepted, and `OneRunUndoesNothing` proves that with one run at a time there are none.

**Only model-checked:** liveness under fairness (`EventuallySettled`, `EventuallyAnswered`, `EventuallyShipped`, `HeadIsMetered`, `EventuallyEntitled`, `EventuallyFreed`), which with `ENABLED` is beyond
this prover; and of course the four properties that runs refute.

## 5. What is abstracted, and what is left out

- One tenant and one traffic class in the send path, one endpoint in webhooks, one tenant in the books, one person at the mail server, one
  customer at Polar, one workspace's bodies: others share no row and no queue group with it.
- Message content, addresses, formatting, signing, egress rules and transforms; a transform's outcome is a choice. Only the absence of a surviving
  recipient is kept.
- The gates of acceptance that refuse before anything is written, and the idempotency key.
- `attempts` of a message, which the code counts and never compares.
- groupmq is external: modelled from what the source says of it and relies on.
- In the books: a pod's clock and Postgres' are one, a transaction's time is its commit's, a message is one unit.
- In webhooks: polling endpoints, fan-out of health events and mails about them, `replay_missing` and a replay's cursor, the
  watchdog, the 1,000-attempt ceiling, deletion of endpoints. The breaker and the tenant share are one
  nondeterministic `Defer`. A resend that the sweep finds first is tried on the schedule, because the row does not
  remember who reopened it; the model has this, and `BudgetKept` covers it.
- In sign-in: searches, the service bind, aliases, and which address is the mailbox's. Provisioning a mailbox also writes the row directly from a fresh reading of Clerk (`projectClerkUser`,
  `writer.ts:110-116`, from `mailboxes/provision.ts:291`), under the same `clerk_updated_at` guard as the webhook of that version, which follows: that a version is so written twice, or late, is left out. The budget is of the failures we know of: a
  provider may count one whose answer was lost, and `bind.go:305` gives that slot back.
- In billing: plan changes begun in the console, seats, invoices, and the second customer of a person who uses two e-mail addresses.
- In the content store: how a template is derived and matched is a choice of the environment, subject to the byte-exact check; a pass works on one body at a time
  when moving; any linked body may be packed; sealing, fingerprints and the readers are out. A put and a delete in R2 are atomic. The grace before
  a sweep is at least an hour (`env.ts:986`), longer than the jobs' deadlines (4 minutes and half an hour), so nothing goes stale under a run that has touched it. An object uploaded by a job
  that dies before the insert is garbage no row knows (`orphaned`): `EventuallyFreed` excepts it, and it only.
- Retention deletes bodies of finished messages here; the rows of `messages`, events and deliveries are not aged.
- The rest of the repository (the console and the other interfaces, templates, domains, DNS, team inboxes, devices, GitHub sync, migration jobs, shared
  packages, deployment) is single transactions around external calls, pure formatting, or UI; `PROJECT.json` gives the reason of each.

## 6. Plan

In order of importance, with the hazards in `PROJECT.json` that wait for them:

1. `AcceptIdempotency`: the key as a lock, replay, conflict, prune, composed with `SendPipeline`'s `Persist`.
2. `BreakerShare`: the counters behind `Defer`, and that a deferred job is not starved.
3. Retention as an action of `SendPipeline` and `UsageBooks`, with its clamp as an assumption.
4. Proofs: the inductive invariants of the modules above.
5. `EntitlementWindows`: the arithmetic of windows and tiers against a reference definition.
6. `RiskRun`: the lease around a score, and that a rise of a band is one event.
