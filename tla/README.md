# SplitPay: a TLA+ model of its payments

SplitPay is a NestJS backend for people who share a subscription. A *group* has a
host, members, a cost and a split method; every billing *period* gives each member a
*payment record*; a record is paid by a gateway (Midtrans or Xendit), or reported by
the member and approved by the host, or entered by the host. This directory models
that life in TLA+, checks it with TLC and proves part of it with TLAPS.

Paths below are relative to the repository's `src/modules/` unless they start with
another directory.

## 1. Inventory

| Component | State | Operations | Hard behaviour |
|---|---|---|---|
| Payment handlers, `payments/payments.service.ts` | none of its own: `payment_records`, Redis `confirm:used:{id}` | createGatewayPaymentLink, confirmPayment, hostMarkPaid, waivePayment, confirmManual, reviewPayment; reads; reminders | every handler checks the status it read and updates by id some awaits later |
| Persistence, `database/repositories/` | rows | find, `update` = find + assign + save | no transaction, no lock, the `version` column is written but never compared |
| Webhooks, `webhooks/` | `payment_webhook_logs`, BullMQ queue | log, enqueue (5 attempts), processWebhook | reports repeated, late, reordered, of several invoices; each under a row lock |
| Billing cycle, `billing/billing-cycle.service.ts` | `payment_periods` | generateNextCycle, updateCycleStatus, activatePeriod (no caller) | a period and its records are separate inserts; status is judged on stale rows |
| Daily check, `scheduler/daily-check.service.ts` | Redis `notif:sent:…` | reminders, overdue sweep, generation | `entrypoint.sh` starts two processes that both run the cron |
| Members, `members/members.service.ts` | `group_members` | addMember (new, or revived), updateMember, removeMember, recalculateEqualShares | several rows and the records of upcoming periods change one by one |
| Split, `split/split-calculation.service.ts` | none | equal, percentage, nominal, pro-rata | remainders, tolerances |
| Groups and cache, `groups/`, `cache/` | `groups`, Redis lists with 60 s | create, list, update, delete | creation generates a period; cache-aside against invalidation |
| Notifications, `notifications/` | three BullMQ queues, `notification_logs`, `push_subscriptions` | enqueue by preference, three workers | retries after a send, dead subscriptions, two processes |
| Auth, `auth/` | `otp_codes`, Redis `blacklist:jti:…` | register, sendOtp, verifyOtp, refresh, logout | attempts and cooldowns counted on copies |
| Gateways, `payment-gateway/` | external | createPaymentLink, verify, parse | the reference stored and the reference reported must agree |

Interaction: handlers and the cron call repositories directly; hostMarkPaid and
reviewPayment(approve) end in `BillingCycleService.updateCycleStatus`; the gateway
answers by webhooks through a queue; membership changes rewrite the records of
upcoming periods. Everything meets in the rows of Postgres and a few keys of Redis.

What makes it correct:

- *handlers*: a record is PAID only on the host's word or the gateway's; columns that
  belong together agree; a settled record is not reopened; an amount entered was due;
- *webhooks*: a report acts only on the record it names, and at most as often as it
  says something new;
- *billing cycle*: the status of a period follows its records and its due date, and
  every member has exactly one record in it;
- *members and split*: shares add up to the cost, also after changes;
- *daily check and notifications*: nothing expires early, everyone is told once;
- *auth*: a code is used once; a refreshed token is dead.

`PROJECT.json` lists the hazards at their lines.

## 2. Plan

The order is by importance of what goes wrong; all of it is written.

1. `PaymentStateMachine`, `PaymentRecords`: all writers of the records of a period.
2. `PaymentLifecycle`: the atomic abstraction; `PaymentSerial`: PaymentRecords shown
   to implement it.
3. `PaymentRecordsProofs`, for these four.
4. The MC modules.
5. `BillingCycle`: generateNextCycle, createGroup, deleteGroup, addMember and two crons,
   with the unique indexes and with crashes between the inserts; `BillingCycleProofs`.
6. `BillingDates`: the calendar of computePeriodDates and of the cron; `PeriodProofs`,
   with 9.
7. `NotificationDelivery`: preferences, dedup keys, two queues with retries, the unique
   index on sent logs, dead subscriptions; `NotificationDeliveryProofs`.
8. `WebhookQueue`: log rows, attempts, stalled workers, the reference that is not stored
   yet; liveness for either provider; `WebhookQueueProofs`.
9. `GroupShares`: the four splits, and what members and records carry of them.
10. `AuthSessions` and `AuthSessionsProofs`; `GroupCache` and `GroupCacheProofs`;
    `PushSubscriptions` and `PushSubscriptionsProofs`.

Every property of a passing run but the four of liveness is the statement of a theorem.

## 3. Modules

`PaymentStateMachine` has the status values and the two transition tables, of
`payments.service.ts` and of `webhooks.service.ts`.

`PaymentRecords` is one period of an EQUAL-split group.

| In the model | In the code |
|---|---|
| `row[r]` | the row of `payment_records`: status, confirmed_by, amount_due, amount_paid, paid_at (confirmed_at is always written with it), gateway_reference_id, gateway_transaction_id |
| `period` | `payment_periods.status` |
| `inactive`, `deleted` | members with status REMOVED, with `deleted_at`; two variables because they are two writes |
| `used` | Redis keys `confirm:used:{id}` |
| `invoices`, `events` | what the gateway issued and has to say; an event is never consumed, so that a webhook can come again, late, or never |
| `clock` | before the due date, past it, past the grace days |
| `req[q]` | a handler in flight: the await it is at, the snapshot or the values it carries |
| `hostAsked`, `reported`, `dues` | history, read by the properties only |

Each handler is a chain of actions, one per await. `ReadRecord`, `ConfirmRead` and
`ReadLater` load; `HostMarkPaid`, `Approve`, ... decide on the snapshot; `UpdateFind`,
`SaveLoad`, `SaveWrite` are the three database calls of `BaseRepository.update`:
find and `Object.assign`, the load inside TypeORM's `save`, and an UPDATE of exactly
the columns that differ from that load. Two handlers can therefore mix their columns
in one row, and this is the heart of the model. `CycleRead` to `CycleWrite` are
`updateCycleStatus`. `SoftDelete` to `ReviveRecord` are the membership changes.
`WebhookMismatch` and `WebhookApply` are `processWebhook`, one step because it holds
the row lock from its first read to its commit. `Fail` is an await that rejects or a
process that dies: the handler is gone, what it wrote stays.

A decision the code takes between two awaits is one step with the await before it
only where no other process can tell. The checks of the member and the caller
(`assertHostOwnership`) are evaluated with the decision: they read rows no property
compares with the snapshot. `RemoveMember` checks the member and writes REMOVED in one
step: nothing but the membership handlers writes what it checks, and a second removal
leaves the same rows.

`PaymentLifecycle` is the specification of one record when every handler is atomic.
`PaymentSerial` maps the rows to it (`life`: an amount is or is not entered, a date
is or is not set), so that what is proved of atomic handlers holds of the code's while
one handler runs at a time. `Serial` says that; a webhook, which
locks the row but no handler, writes only while no handler is in flight (`SerialNext`).

`BillingCycle` is one group from createGroup on, with the periods it gets.

| In the model | In the code |
|---|---|
| `group`, `deleted`, `members` | the rows of `groups` and `group_members` |
| `shares` | computed by an EQUAL or PRO_RATA split, or entered and adding up or not: `calculateShares` throws for the last |
| `schedule` | `groups.frequency` and `due_day`, which updateGroup may change at any time |
| `periods` | the rows of `payment_periods` in the order of creation: start, due date and status, and (history) the schedule its generation had read |
| `records`, `paid` | the rows of `payment_records`, and those that are PAID |
| `today` | the date, of the days in `Days` |
| `PeriodDates`, `dueWithin7Days` | constants: what generator and cron compute for a schedule on a day |
| `req[q]` | a handler, or the cron of one process, at the await it is at |
| `ran`, `complete`, `joined` | history, read by properties and by time |

`FindActive` and `FindUpcoming` are the two SELECTs of findCurrentByGroup, whose three
callers go on as `NoCurrent` says. `ReadGroup` to `Generated` are generateNextCycle, one
INSERT per action; a generation keeps the schedule `ReadGroup` has read and computes its
dates from that, and the cron asks by its own reading of the group. `Finish` is also
what its callers make of an error, which is to log it. `WriteGroup` is the update of
updateGroup, which gives a status, a frequency and due day, or both. `AddMember` to
`MemberAdded` are addMember for a new email; the recalculation of shares between its
INSERT and its look at the periods is in `PaymentRecords`. `Pay` is a whole
hostMarkPaid, whose interleavings are in `PaymentRecords` too, and `UpdateShares` a
whole updateMember, which counts as a request.

`BillingDates` counts days since the year 1 and walks through the calendar; its
definitions are the arithmetic of computePeriodDates and of the cron. `BillingCycle` has
their results as constants, of which `CalendarAssumption` says what its proofs need: that
as the days go by the same period is offered until its due date, and then a later one.
`PeriodsTile` says that of BillingDates. `MCBillingCycle` gives both constants as tables
of a few days, and `CalendarOfBillingDates` has TLC compute every entry by an instance of
BillingDates: with another entry its specifications have no behaviour, and TLC refuses the
run. `AskedForWhatIsDue` says that cron and generator mean the same date in a monthly
group, `WindowsAlternate` that every due date has one stretch of days before it on which
the cron asks, the last of them the day before: so time does not leave a day on which a
due date is near before a pass of the cron has ended.

`NotificationDelivery` follows the member of one record.

| In the model | In the code |
|---|---|
| `day` | days until the due date, as the passes compute it |
| `status`, `active` | of the record, and of its period, as far as the passes read them |
| `keys` | Redis `notif:sent:{id}:T-{days}` |
| `tasks`, `remind`, `sweep` | the two passes of handleDailyCheck in each process, at their awaits |
| `jobs` | the jobs of the email and push queues, with their attempts and the await their worker is at |
| `logs` | the rows of `notification_logs` with status sent, which the partial unique index keeps apart |
| `subs`, `alive` | `push_subscriptions`, and what the push service still knows |
| `byHand`, `failures`, `refusals` | counts for the bounds |

`ScanReminders` to `SetKey` are checkPaymentReminders, `ScanOverdue` to `AlertOverdue`
are markOverdueAndAlert; `SendManualReminders` and `NotifyAmountMismatch` are the other
producers. `TakeJob` to `LogNotification` are the workers' process methods. `JobStalls`
is a worker that dies: BullMQ gives the job out again, once.

`WebhookQueue` is the way of a gateway's report to its record.

| In the model | In the code |
|---|---|
| `row[r]` | status, amount_due, gateway_reference_id, gateway_transaction_id of a record |
| `call[h]` | another handler of a record in flight: the await it is at, the entity it carries, the columns it has assigned or is about to write |
| `invoice` | the gateway's invoices; the position is the transaction id |
| `log` | the rows of `payment_webhook_logs`, each with its BullMQ job: the await of its worker, the attempts left, whether it has stalled before |
| `alerts` | mismatch alerts enqueued, per log row |
| `undone` | history: processed reports of a record to which an update() that had found it before wrote its old transaction back; `stale` marks the calls that can |

`Receive` and `EnqueueFails` are the controller; `Attempt`, `Alert` and `Commit` are
processWebhook: the SELECT under lock, the alert enqueued inside the transaction, the
writes with the log's processed flag. `Locked` keeps other writers out meanwhile.
`AttemptFails` rolls back and spends an attempt (`Thrown`), `JobStalls` gives the job out
again. The other handlers of the record read it and decide in one step (a link in three,
with the gateway between), and then go through `UpdateFind`, `SaveLoad` and `SaveWrite`,
the three calls of `BaseRepository.update`, as in `PaymentRecords`: an entity that was
found before a webhook committed differs from the row in its transaction, and save()
writes that back. `Provider` chooses the tables and references of Midtrans or Xendit.

`GroupShares` is the money of one group: `calculateEqual` to `calculateCustomPercent`
are the splits in integer cents, and what floating-point arithmetic may decide either
way (a sum of percentages that misses a hundred by a hundredth, a product that comes out
just below a whole cent) is a choice. `method`, `total`, `status`, `amount`, `pct` are
columns of `groups` and `group_members`, `due` the amounts of the current period's
records, `moved` those of them that are no longer PENDING, which the recalculation
leaves as they are (`Synced`), `passed` (history) whom the last one left. `AddMember`,
`UpdateMember`, `RemoveMember`, `UpdateGroup`, `GenerateNextCycle` are whole handlers
with the recalculation that ends them; `RecordMoves`, `RecordReopens` and `HostSettles`
are what happens to the records meanwhile. New members' shares come from a formula of
addMember's own (`NewShares`), the others' from the service.

`AuthSessions` is one person's way in. `code` are the rows of `otp_codes`, `pair` the
pairs of tokens by jti, `blacklist` when the Redis key of a jti expires, `req` the
requests at their awaits, `mails` how many codes have been mailed. `SendOtp`,
`invalidateOldOtps`, `MailOtp` and then `StoreOtp` are sendOtp, so that two requests may
store in another order than they mailed. `Found` is the row findValidByEmail answers;
`VerifyOtp`, `CountAttempt`, `UseCode`, `MarkVerified`, `OpenSession` are verifyOtp;
`RefreshToken`, `Revoke`, `OpenSession` are refreshToken, `Logout`, `Revoke` logout.
`Admitted` are the guards' strategies, which let everybody pass when Redis does not
answer. `compared`, `opened`, `refreshed` and `loggedOut` are history. Time is in ticks,
tokens and keys live whole seconds: `Remaining` truncates as the code does.

`GroupCache` is the list of listMyGroups for a host and the members of one group. Rows
are counted up at every change (odd numbers exist), so that a list is the numbers it was
put together from. `Miss`, `Fetch` (one SELECT each) and `Store` are getOrSet around
fetchMyGroups; `CreateGroup` to `ChangeMember` and then `Invalidate` are the handlers
that change and delete a key; `ChangePeriod` is the scheduler, which deletes none.
`late` and `answered` are history.

`PushSubscriptions` is the table of push subscriptions under PushSubscriptionService and
the push worker. `row[e]` is the row of an endpoint (its index is unique), `call` a
request at its await with the entity it loaded, `push` a worker's list of ids and the
stale ones among them. Rows are found by endpoint and written or deleted by id:
`SaveLoad`, `SaveInsert` and `SaveUpdate` are TypeORM's save, which inserts an entity
again whose row is gone. `met`, `left` and `sure` are history.

### Abstractions

- Amounts are cents, the gateway's are rupiah (`Rupiah`, `Math.round`). `SameText` is
  the comparison `rec.amountDue !== newAmount` of a share printed without trailing
  zeros with a column read with two decimals: equal only when the last cent digit is
  not zero, so that the update is usually made even if nothing changed.
- The host is a member with a record and takes the remainder of the split, being the
  first to have joined.
- payment_method, payment_note and version are written but decide nothing, and are
  left out. Nothing reads `version`.
- The share columns of the members are written in one step (`SaveShares`): no property
  here reads them.
- In `PaymentRecords` the members are those of the start; new ones join in
  `BillingCycle`.
- In `BillingCycle` no generation is in flight when the date changes: requests last
  seconds, the cron runs at seven, dates change at midnight. Time does not pass a day of
  `Days` on which a due date is near before a pass of the cron has ended: days on which a
  process is down are failures of the cron within a week of chances. The update of
  updateGroup is one step: a column its save() writes back unasked gets a value another
  request could have asked for, and that request is among the behaviours.
- The records are inserted in the order of joining; the deletion of a member is in
  `PaymentRecords` only.
- In `NotificationDelivery` passes end on the day they began. A message's answer may be
  lost, which the email provider's code takes for a refusal. The push devices that did
  not answer include those whose answer was lost: the push worker retries neither.
- A mismatch report may come for a record in any state, and again.
- In `GroupShares` every handler is one step, and names, notes and due days are left out.
  A record moves by itself only in an upcoming period: in an active one no amount follows.
  An earlier period's records are not followed once it has closed.
- `AuthSessions` leaves out hashes and signatures (a token is what it was signed for),
  what a mail contains and the rate limits of the controller. The increment or the use of
  a code and the comparison before it are one step: the comparison reads the copy only.
- In `GroupCache` one host's request is in flight at a time: its row and its key are two
  steps, between which lists are read and stored.
- In `PushSubscriptions` a worker lists one user's rows and sends to them one at a time;
  the code sends to all and waits for all before it deletes.
- TypeORM, Redis expiry and the gateways are external and marked so in `PROJECT.json`.

## 4. Runs

The runs about payments have the host's record and one member's. Two records are the
fewest with "some" and "all" apart, with a remainder and with a changing share; no
action touches more than one record but the sync of shares, which goes through them one
by one. Two slots let any two handlers overlap; a third request then still meets what
the first two left. `TotalAmount` is 600 cents: shares of 300 alone and 600 after a
removal. Slots are interchangeable, so `Symmetry` permutes them where no property is
temporal beyond a single step.

| Run | Question | Bounds |
|---|---|---|
| `records` | Do handlers that overlap leave only justified columns and a period that follows them, and does the inductive invariant hold? | 3 requests; either reports by hand, waivers, reviews and the sweep by host and payer, with 1 failure; or links, host payments, members leaving and returning, repeated PAID reports of 2 invoices (`serial` has EXPIRED ones too) |
| `serial` | Do the database calls of one handler at a time amount to one atomic step, and is a settled period COMPLETED? | 3 requests, 1 failure, 2 slots, of which one is in use at a time |
| `generation` | Is of the periods of one schedule only the newest open, however generations overlap, is whoever was added billed, and does every due date get its period? | host and one member, 2 requests, createGroup's included, besides the crons, 1 failure, 2 slots; a monthly group made for the 28th and perhaps moved to the 2nd; 27 January, 2 and 26 February; fair |
| `periods` | Do periods tile the calendar and agree with the cron, and is every due date asked for in its time? Do shares add up after any edits, whoever joins or leaves, and do bills say what the group shows? | every due day, all frequencies, a common and a leap year; 3 members, 3 edits, all methods, costs of 400 and 402 cents, amounts of 100 and 201, percentages of 33.33, 50 and 50.01 |
| `delivery` | Do logs, attempts, pruning and alerts tell the truth, and do the attempts suffice? | one process, both channels, 2 devices, 2 jobs of the host's making or the passes', 1 failure, 1 refusal, from the due date to the end of grace, fair |
| `webhooks` | Does a processed report stay bound to its record, is a mismatch told once, and is a reported payment recorded? | 1 record, 1 other handler at a time, 2 invoices, PAID reports, 2 of them, 2 amounts, 1 change besides the links, 1 failure, 2 attempts, Xendit, fair |
| `sessions` | Are attempts, single use, the code mailed last and the blacklist kept by requests that overlap? | 2 requests, 2 codes, 2 pairs, 3 verifications, 1 failure, 1 attempt allowed, cooldown and access 2 ticks, code 3, refresh 4, time 3 |
| `cache` | Does an answered change show, and does every list catch up? | host and one member, 2 readers, 1 tick to live, 2 changes, 1 failure, fair |
| `push` | Does who left stay away, and does an undisturbed subscription stay? | 2 users, 1 endpoint, 2 keys, 2 requests in flight of 5, 1 worker, 1 failure |

The constants whose names begin with `Max` are the only cuts; where there is a theorem
(section 5) it needs none of them. Deadlock checking is off where the system stops when
they are used up.

Two runs explore two parts one at a time. In `records` a behaviour uses the entry points
of one family (`InFamily`), which share hostMarkPaid; the families meet in `serial`, one
handler after the other, and in the theorems, which are about all of them. In `periods`
the calendar walks while the group is as it was made, and the group moves on one day
(`CalendarRests`, `GroupRests`): the two have no variable in common.

Why the bounds are enough. Two slots of `generation` are the two crons, or one and a
request; the days are before, on and after a due date of each schedule, and the first on
which an old period can stand in the way of the next; on 27 January and 26 February the
due dates of both due days are near, so that moving one moves the period the cron makes.
In `delivery` two jobs are the two channels of one message, or two messages of one
channel. In `webhooks` two invoices are the fewest that compete for a record, two
attempts the fewest with a retry, and one handler is enough to hold an old reading while
a report is committed; it has the links, one after the other, and the change. In
`periods` the costs leave a remainder and none, the percentages miss a hundred from
below and above, the amounts fit, miss by less than the tolerance, and miss by more. In
`sessions` one allowed attempt lets every entry be the last, and time passes the end of
a cooldown, of a code and of an access token. Two requests that overlap are the case the
code's copies are about; more of them add to the bound `ComparisonsAreLimited` states.
In `push` one endpoint is where users meet; the theorems are about any number.

Four runs assume fairness. `generation`: as long as nothing fails, some handler gets on
with its work or a cron is started, since Node runs what has been awaited and `@Cron`
starts its pass every day; it is enough that one of the two processes does. `Fail` is not
fair, and a failure is excused by the property. `delivery` and `webhooks`: weak fairness of
each job's worker steps; BullMQ hands out what waits. The property of the first excuses
failures, because a stalled job is given up the second time; that of the second asks that
more attempts are left than may fail. `cache`: weak fairness of the clock, by which Redis
lets keys expire, and of the steps of a read. Requests, payments, refusals, changes and
(in the others) time are never fair. The safety properties of these runs do not use the
fairness.

Three runs show where the code departs from what the repository says of it:

| Run | Statement | What happens |
|---|---|---|
| `webhooks_midtrans` | "PENDING -> PAID (via confirm/host/webhook)" (payments/README.md:162) for a link "via Midtrans/Xendit" (payments.controller.ts:166) | createPaymentLink stores the Snap token, the report names the order id: without a failure five attempts find no record, and it waits for ever |
| `confirm` | "PENDING -> PAID (via confirm/host/webhook)" and "Verify status updated to PAID" (payments/README.md:162, :319; the answer in :30-38 and test/e2e/payments.e2e-spec.ts:70-71 have PAID, confirmed by "self") | confirmPayment writes PENDING_HOST_REVIEW, and a used link has not paid its record; `PaidIsAuthorised` is about the code, for which the member's word is not enough |
| `generation_moved` | "Guard: no duplicate active cycle" (billing/billing-cycle.service.ts:47), "skips if an ACTIVE or UPCOMING cycle already exists" (:32) | the host moves the due day between the readings of two generations; both have passed the guard, their periods start on different days, and the unique index keeps both |

Other statements of the repository are known from these models to be false and have no
run:

- "Distribute by days active in period. Members joined mid-period pay less."
  (split/split-calculation.service.ts:188), and a test that bills 15 days half of 30
  ('splits by active days proportionally', split-calculation.spec.ts:86-95):
  calculateShares calls calculateProRata without a period (:76), so that it begins now
  (:199) and everybody is active for all its days; whoever joined in the middle of it pays
  as much as the others (`ProRataIsEqualSplit` in `PeriodProofs`);
- "every caller enforces the same state machine" (payments.service.ts:45): a webhook may
  pay a record while a second link is being made, whose update returns it to
  AWAITING_GATEWAY; the overdue sweep writes EXPIRED over PENDING, which the transition
  map does not have; a rejection saved after an approval reopens a PAID record;
- all records PAID: period COMPLETED (payments/README.md:352): a webhook that pays the
  last one judges no period, and two last payments by the host at once can leave it as
  the older reading judged it; nothing calls activatePeriod, so that a period is
  activated by its first payment only;
- "scheduler retries later" (groups.service.ts:94): a first generation that fails after
  inserting its period leaves one without records, which counts as open;
- only when due within 7 days (daily-check.service.ts:227): weekly and yearly groups are
  asked about by the monthly date;
- Redis deduplicates (daily-check.service.ts:64): two processes read the key before
  either sets it; and the jobs the cron enqueues have one attempt, not 3 to 5; an alert
  is lost when enqueueing fails after the status was written; the unique index on sent
  logs cannot prevent a second message, since the log is written after sending;
- two additions at once pass the check for 20 members; a generation can insert its period
  between the check and the deletion of a group.

What the properties of the newer modules had to allow for, because the code does it:

- verifications of one code that overlap may each log in, and k of them compare it k - 1
  times more often than the limit;
- both tokens of a pair share one key, so that a logout admitted before an exchange
  shortens the entry for the refresh token, and a logout with an access token says
  nothing of the refresh token once the access token would have expired; when Redis does
  not answer, everybody passes; a refresh that fails after its revocation costs the
  session;
- a list being read while its key is deleted is stored and kept for its time to live; a
  member's joining or leaving deletes that member's key only, a change by the host the
  host's only, the scheduler none: for up to 60 seconds others see what was;
- requests of two users that overlap on one browser can delete the new owner's row by
  its id, or leave one's ownership with the other's keys;
- two requests for a code that overlap each mail and then store: first one mails, then the
  other mails and stores, then the first stores, and the code mailed last is refused, for
  the first one's row is the newer;
- an update() that has found a record before a webhook commits writes the transaction back
  it has read: the processed report is unbound, and the report of a second invoice may
  take the record;
- two periods made for different due days may be open at once;
- a record of an upcoming period that has been reported or is no longer PENDING for
  another reason keeps its amount when somebody joins or leaves, and the amounts do not
  add up until it is counted at what its member owes now;
- percentages may miss a hundred by a hundredth, nominal shares the cost by less than a
  rupiah as far as their check goes, and are then refused by the check to the cent.

Every property of a passing run has a mutant: a definition of the model changed as a
bug would change it, for which TLC finds the property violated. Definitions such as
`PaidByHost_Total` are those changes; nothing else uses them.

## 5. Proofs

`PaymentRecordsProofs` proves, for any finite set of records, any slots, any set of
operations and actors, any invoices and any bounds:

- `Invariance`: `Spec => []IInv`;
- from it `TypeCorrect`, `PaymentsAreAuthorised`, `GatewayIsQuoted`,
  `CollectedWasDue`, `ExpiryIsJustified`, `NoLinkIsBurntEarly`, `CompletionIsBacked`
  and `PeriodsMoveOn`.

None of these properties is inductive: an UPDATE writes what a handler read long ago.
`IInv` strengthens them by the same statement about everything in flight. `Backed(v, r)`
says column by column that a version v of record r is justified: PAID by a host's
request or a report, an amount by what was due, and so on. It must be by column,
because `SaveWrite` puts columns of two versions into one row; and every part of it is
monotone in `events`, `hostAsked`, `dues` and `clock`, so a snapshot that was justified
stays so however old it gets. `Read` adds what holds of snapshots but not of assembled
values. `SlotInv` applies both to each handler by the await it is at; `BurnInv` follows
a self-report to the moment its link is burnt; `CycleInv` says that a judged period
status is as good as a stored one. `RemoveMember` never takes the host, so the members
over whom shares are divided are never none: `HostRecord \in Active` belongs to `IInv`
for the division in `EqualShare`.

The proof has one lemma per action or per group of actions that share a frame, each
split by the conjunct it can disturb, and ends in the three facts initiation,
consecution and implication. It uses the assumptions of `PaymentRecords` and the finite
set theorems of the library.

Of `PaymentLifecycle` it proves `SettledRecordsAreDated`, `HostPaymentsAreCollected` and
`ClosedRecordsStayClosed`, from the invariant that the first two form together; they are
stated of the instance `PaymentSerial` has of it. It then proves that serial handlers
are atomic: `HandlersAreAtomic`, that `SerialSpec` implements the lifecycle, for any
number of records and slots and with failures at any await. `SerialInv` adds to `IInv`
that what the handler in flight has seen is still so (`Fresh`): the snapshot it decides
on is the row, and through all three database calls of an update the row it will leave
is the one it found, or one that a step of the lifecycle makes of it (`Intends`). Every
step but `SaveWrite` and the webhook's is then a stutter, and these two are steps of
`PaymentLifecycle`. `SerialRecordsAgree` is what follows for the rows from the three
theorems about the lifecycle. `SettledPeriodsComplete` needs one thing more,
`Completing`: a period whose records the host has all settled is COMPLETED, or a handler
is inside updateCycleStatus; one that makes a record paid by the host always goes there.

`BillingCycleProofs` proves, for any members, slots, schedules, days and bounds, and any
calendar with `CalendarAssumption`, `TypeCorrect`, `CyclesDoNotOverlap` and
`NoNewcomerIsMissed`. That only the newest period of a schedule is open is not inductive
by itself: the generator looks for one, computes, and inserts. The invariant adds that
the periods of one schedule are ordered by their start, none of them later than the one
generated today, and that one whose due date is to come is that one (`Ordered`); and
that a generation in flight knows of the open periods of the schedule it has read that
they are the one of today (`OnlyNow`), which holds because the date does not change
under it. The unique index then refuses the second INSERT. Of periods of other schedules
a generation knows nothing, since the host may change the group behind it. For newcomers
`SlotOK` says of each generation and each addition which members or periods it still has
to come to, and `PairOK` that of an addition and a generation in flight together one has
the other's row in its list.

`WebhookQueueProofs` proves `TypeCorrect`, `ProcessedReportsHold` and
`AlertsAreBounded`, for any number of other handlers. A stored reference is stored by the
record's own link only; an open transaction holds the lock of the record it found, so that
the record stays as it was found and no two transactions are about one. `Sound` says of
each handler in flight that an entity it has found carries the transactions of all reports
processed for the record, unless one was processed since and the handler is marked stale:
what it writes then is what `ProcessedTookEffect` excuses, and nothing else is. For
each report the alerts enqueued are
counted against the failures it has met and the step its job is at (`AlertInv`).

`GroupCacheProofs` proves `TypeCorrect` and `OnlyLateListsAreOld`: an answered version is
at most that of the row, and a list, kept or being read, which nobody has overtaken is at
least as new as what was answered, because deleting the key marks the reads in flight.

`PushSubscriptionsProofs` proves `TypeCorrect`, `NobodyIsBroughtBack` and `SureOnesStay`.
Requests on one endpoint that are in flight together have met (`Met`), and an id is one
endpoint's, whether in a row, in an entity a request has loaded or in a worker's list
(`OwnIds`), so that deleting by a stale id cannot hit an endpoint still known. `Leaves`
and `Alone` say what a request that has met nobody who matters still finds in the table;
`Sure` that where a subscription is sure only others are asking to leave, and will be
refused.

`NotificationDeliveryProofs` proves `TypeCorrect`, `LogsTellTheTruth`, `OneMessagePerJob`,
`PruningIsSafe` and `SweepsAlert`, for any processes, devices and bounds. The invariant
follows each job by the await of its worker (`Sound`): a job about to be logged as sent
has been delivered, its deliveries are counted against the stalls and lost answers that
excuse a second one, and the devices a worker is about to prune are none that the push
service knows. `PassesAreDue` says of the passes that each is about the day it began on,
which with the alerts already enqueued and the failures gives `SweepsAlert`.

`AuthSessionsProofs` proves `TypeCorrect`, `AttemptsAreLimited`, `CodesAreUsedUp`,
`LastMailedStaysOpen`, `ExchangedAreRefused` and `FailuresLoseSessions`, for any
requests, limits and lifetimes. Attempts are counted in the row and compared on copies,
so the limit alone is not inductive: `Comparisons` adds to the comparisons made those
still to come from verifications that have read the row below the limit, and bounds the
sum by the limit and the number of requests less one. `Formed` says what each request
carries at its await. `LastStands` says that the code mailed last is still to be stored,
or stored and not retired but for a reason, and `InOrder` that rows are as old as their
place in the table, so that among the valid ones only a row stored later hides it.
`Owed` counts the sessions lost against the failures. That an exchanged token stays
refused is arithmetic: its entry lives `Remaining` seconds, rounded down from ticks by
less than one second (`Division`).

`PeriodProofs` is about what a generated period is; it extends both modules. Of
`BillingDates` it proves `PeriodsFollowEachOther`, `PeriodsAreAskedForWhenDue` and
`DueDatesAreAskedForOnce`, for every day from any first year on. The invariant is the
calendar (`CalendarInv`). That the first of a month is a month's days after the last one
(`NextMonthStarts`) and that a year has its 365 or 366 days (`NextYear`) is arithmetic of
quotients by 4, 100 and 400; so each step is one day (`Tomorrow`), and what
computePeriodDates and the cron answer on two successive days can be compared case by
case. The caps on the due day are never reached, since it ends at 28.

Of `GroupShares` it proves `EverySplitAddsUp`, `ShownSharesAreBilled` and
`UpcomingPeriodsAddUp`, for any number of members and any costs
and percentages. The first holds of any columns (`ColumnsOK`). The percentages may
exceed a hundred by a hundredth, so that it is not obvious that the one who takes the
remainder pays nothing negative: the largest percentage is at least a hundredth, so the
others' are a hundred at most, and their shares, rounded down, the cost at most
(`PercentSplit`). The last two need the invariant `SharesInv`: `Shown` says that unedited
columns are those of the equal split; `Billed` that in an upcoming period of an equal
split everybody active has a record, because addMember gives the newcomer one, and
without it the recalculation would pass somebody over; `UpcomingAddsUp` is inductive with
these two, because whoever a recalculation passes over is counted by the column that it
does write. A newcomer is never the first member, so that the share calculateEqual has for
it is the rounded quotient, which its own formula misses by one cent at most.

A sum is a fold of the library, and nothing about folds can be cited: the induction
theorems take an operator as a parameter, which no installed prover can instantiate. The
two inductions needed, over the sizes and over the subsets of a finite set, are therefore
done by a least counterexample (`LeastNumber`, `SubsetInduction`), which the library's
theorem on well-founded sets gives. `IterateExists` shows that the recursive function
behind the fold exists, `AddedStep` that the order of adding does not matter; the other
`Added` lemmas follow.

Model-checked only: the liveness `EveryMonthIsGenerated`, `EmailsGoOut`,
`PaymentsAreRecorded` and `ListsCatchUp`, which the prover cannot reach.

## 6. Not modelled

WhatsApp jobs, confirmations of payments and bulk reminders: no caller produces them;
activatePeriod, delPattern and removeAllUserSubscriptions have none either. Message
templates, DTO validation, guards, filters, rate limits, logging, bootstrapping and the
seed keep no state of interest, and of the migrations the columns and unique indexes are
in the modules that use them. Signatures and hashes are taken as they are: confirmPayment
starts where its token has been validated, a session where its token has been verified.
updateProfile, a member's name and notification preference change nothing here.
