# Verification of the VPN bot: money, panel, notices, desks and servers

TLA+ modules, TLC configurations and TLAPS proofs for the Python service in `src/`: a
Telegram bot (aiogram) that sells VPN subscriptions, a FastAPI web console, a payment
webhook, and scheduled jobs, over one Postgres database, Redis, the Marzban VPN panel and
the Platega payment API. The repository has no tests (`CODE_QUALITY.md`, QC-3.1), so the
order of events across sessions, jobs and remote calls is nowhere exercised; that order is
what is checked here.

## 1. Inventory

The documents read beside the code are `CODE_QUALITY.md`, `DECISIONS.md`, `ROADMAP.md`,
`SECURITY.md`, `SPRINT_PLAN.md`, `PROJECT_AUDIT.md`, `CRM_BACKLOG.md` and `docs/i18n.md`.
Paths are below `src/app/`.

| component | state it keeps | operations | what is hard about it | what makes it correct | module |
|---|---|---|---|---|---|
| Invoice engine (`services/payment_engine.py`, `payment_polling.py`, `idempotency.py`) | `invoices`, `transactions`, `users.balance` | create, toggle balance, confirm, cancel, provider callback, poll, approve/cancel/refresh as admin, bulk cancel | callbacks late, twice or never; polling reads the oldest hundred only; a panel call in the middle of a transaction; bot commits where others roll back | no service unpaid, an invoice settles once, the balance equals its transactions, a link asks for the right amount | `Payments` |
| Bot handlers and session middleware (`handlers/purchase.py`, `vpn.py`, `middlewares/db.py`) | one DB session per update; the data of the buttons | the screens of a purchase and their buttons | a press on an old screen; exceptions caught before the middleware sees them are committed | a bill says what the screen said; half of a consumption is never kept | `Shop`, `Payments` |
| Tariffs (`services/tariffs.py`, pricing pages) | rules, tariffs, packs, sale of devices | price a basket, edit, archive | legacy codes beside rows, gaps in periods, rounding | more never costs less | `Tariffs`, `Shop` |
| Payment providers and webhook (`services/payments/*`, `webhooks.py`) | transactions at Platega | create, status, report | outside; answers may be lost, reports repeated and reordered | repetition has no effect | in `Payments` |
| Subscriptions and Marzban client (`services/subscriptions.py`, `marzban.py`) | `subscriptions`; the panel's user | apply an invoice, cycle, expiry, console pages; read, PUT, retry | retries of POST/PUT, read-modify-write, snapshots older than the row | what was paid for is in the panel; row and panel agree | `Subscription` |
| Paid traffic reset (`handlers/vpn.py`) | balance copy in the session | click, reset, charge | balance read before the lock | never charged for nothing | `ManualReset` |
| Balances, trials, referrals, privacy (`db/repositories`, `referrals.py`, `promos.py`, `privacy.py`) | `users`, `referrals` | spend, credit, bonus, trial, bind, erase | locks of two users, copies from before the lock | balance is booked, gifts given once, no deal waits for ever | `Wallets` |
| Promo codes (`services/promos.py`, promo pages) | `promo_codes`, redemptions | redeem, edit, archive, delete | limits and old copies | one bonus per user and code | `PromoCodes` |
| Outbox (`services/outbox.py`, `OutboxRepository`) | `outbox_messages` | enqueue, claim, mark sent or failed, dispatch | two workers, a crash between answer and commit, reclaim after a timeout | sent means delivered, every message ends | `Outbox`, `Delivery` |
| Notifications (`notifications.py`, `notification_dispatcher.py`) | flags, cooldowns, snoozes, keys | seven jobs, rules | stale snapshot, cooldown before the commit, keys that never expire | each notice once for its reason | `Notifications` |
| Broadcasts (`services/broadcasts.py`, `broadcast_polling.py`) | jobs, deliveries, cursor | write, claim, chunk, cancel, resume | crash in a chunk, cancel while sending | each recipient once, counters true | `Broadcasts` |
| Support tickets (`handlers/support.py`, ticket pages) | `support_tickets`, messages | open, reply, close, auto-close, erase | job, admin and user at once; locks in two orders | one open ticket, a closing recorded once | `SupportTickets` |
| Support AI (`services/support_ai`, AI pages) | `llm_configs`, `canned_responses` | draft, test, activate, edit | the answer comes seconds after the read | usage counts what was answered | `SupportAi` |
| Nodes (`node_registry.py`, `node_probe.py`, `node_policy.py`) | registry | sync, probe, alert, select, edit | old news written over new | one alert per failure; only listed nodes are chosen | `Nodes` |
| Deployment (`marzban_env_manager.py`, `geodata_updater.py`, page of Marzban) | three files, backups | render, back up, replace, roll back | a failure or a death between two steps | a failure leaves nothing; what was replaced is kept | `Deployment` |
| Routing profiles (`routing_profiles.py`) | `routing_profiles` | save, default, bulk, copy, delete, choose | pages that lock in different orders; no unique index behind the default | routing keeps a default, and one unless two pages cross | `RoutingProfiles` |
| Scheduler and leader (`scheduler.py`, `main.py`) | one Redis key with a TTL | start, refresh, reclaim, release, watchdog | commands of several instances interleave; stalls | one scheduler; a deposed one stops | `SchedulerLeader` |
| Circuit breaker (`services/circuit_breaker.py`) | state, failure count, probe flag | before call, success, failure | results of old calls in a new state | never stuck, opens at the threshold | `CircuitBreaker` |
| Anti-spam, cache (`anti_spam.py`, `cache.py`) | buckets in Redis and in memory | check, block | fallback half way | the limit holds, nobody else is refused | `RateLimit` |
| Web console accounts (`web/auth.py`, accounts pages) | failures by address; `web_admin_users` | sign in; create, demote, delete | a check and a write apart, with no lock around them | a limit on failures; a superadmin remains unless two requests race | `SignIn`, `WebAdmins` |
| Observability, i18n, menus | – | counters, texts, screens | – | – | not modelled |

Components meet in the database. Every payment operation takes row locks in one order:
invoice, user, then (inviter, invited, referral), then subscription, and holds them to the
end of its transaction. Two facts about sessions matter everywhere:

* `db/session.py` builds sessions with `expire_on_commit=False`, and SQLAlchemy keeps the
  attributes of an object it has loaded: `SELECT ... FOR UPDATE` of a row the session already
  holds waits for the lock but does **not** refresh the object. What was read before the lock
  is what the code decides on.
* A bot handler that catches an exception returns normally, so `DbSessionMiddleware` commits
  what had been done. The webhook, the polling job and the console let the exception out, so
  the transaction is rolled back. Calls to the panel survive either way.

The hazards, each at its line, are in `PROJECT.json`.

## 2. Modules

A module whose name has no prefix models a component; `Delivery` is the abstract
specification that `Outbox` implements, and `Shop` extends `Tariffs`, whose price list it
sells from. `MCPayments` and `MCShop` give constants to one component; `MCDuties`, `MCDesks`,
`MCRecords` and `MCSettings` set several side by side, and `MCBooks` the last two; `*Proofs` hold
theorems (section 4), and `Sums` the lemmas about sums over finite sets that they cite. A
definition introduced by "mutant" or "mutation" is a wrong version of its neighbour. No specification uses it; it
records which slip in the code a property is there to catch (`PROJECT.json`, "mutants").

### Side by side

These modules have one variable of their own, `focus` (`MCFocus`), chosen at the start and
never changed: the component that runs. The others stand still in an initial state. The
components share no variable, so such a run explores exactly the behaviours that separate runs
would, each under its own fairness, and answers one question about a group of components: what
works without a click and what guards the entrances (`duties`), transactions that wait for
each other's locks (`desks`), and what must agree with something outside the database or is
set up in the console (`books`, which joins `MCRecords` and `MCSettings`).
The property of a group is the conjunction of what its components promise; its parts are
defined, with their own comments, in the modules of the components.

### Payments

State: `inv` is the table of invoices (status, owner, purpose, amount, share paid from the
balance, whether it has an external id); `keyed` are the invoices whose `idempotency_key` a
click of the current minute would hit; `wallet`, `ledger` are `users.balance` and the sum of
the user's transactions; `rows` counts the rows and receipts an invoice has left; `prov`,
`provAmount`, `collected` belong to the provider; `notices` are status reports on their way
(a webhook or a polled snapshot: never removed, so each may arrive late, repeatedly, or never);
`served` is the panel; `view` holds console requests between their first read and their lock.

| action | code |
|---|---|
| `CreateInvoice` | `create_*_invoice`, with the unique index on the key |
| `ToggleBalance` (`Reissue`, `Recalculate`) | `toggle_balance`: a clone if there is a link already, else in place |
| `ConfirmInvoice` | `process_invoice_for_user`: ask for a link, learn a cancellation, or consume |
| `CancelInvoice` | `cancel_invoice` |
| `PollPending` (`Linked`, `Behind`), `ProviderCallback` | `process_pending_platega_invoices`, which reads the `PollLimit` oldest pending invoices with a link (`list_pending_by_provider`, limit 100), and the webhook, through `process_provider_callback` |
| `OpenConsole`, `Diagnose`, `RefreshAsAdmin`, `ApproveAsAdmin`, `CancelAsAdmin`, `GiveUp` | the console's requests, read first and locked later |
| `CancelStale` | `admin_invoices_bulk_cancel_stale` |
| `Pay`, `Expire`, `Chargeback`, `SendWebhook` | the provider |
| `NextMinute` | the bucket of the idempotency key changes |

A locked operation is one action because its locks last to the end of the transaction; what
varies is how it ends. `Settle` commits everything. `RefusedInBot` and `PanelFailsInBot` are
what the middleware commits after a handler swallowed the exception. `RolledBack` leaves only
what the panel did. `CrashAfterService` is a death, or a failed commit, after the panel
answered. Abstracted: prices of baskets, durations, devices and texts (an amount is a number,
and a purpose stands for how the engine treats it; `device_topup` is handled like `topup`),
the panel's own state (`served` is a set of invoices; its detail is in `Subscription`), and
the copy of the user a bot handler works on (here the row is fresh under its lock; that it is
not always is the subject of `Wallets` and `ManualReset`).

### Tariffs and Shop

`Tariffs` keeps the rows the console edits (`rules`, `tariff`, `pack`, `upsell`), one action
for each form, and the pricing as operators (`Basket` and what it rests on), in kopecks and
thousandths. `Shop` is the dialogue of `purchase.py`: one message (`screen`) whose buttons carry all that
was chosen; `service` is the user's subscription, `amount` the sum of a top-up being typed.
`BuyNew`, `Renew`, `ChooseMode`, `SetCount`, `ConfirmCount`, `SetTraffic`, `ConfirmTraffic`,
`SetMonths`, `ConfirmMonths`, `BackToDevices` are the buttons of a tariff; `OpenPacks`,
`BuyPack`, `PreviewDevice`, `ConfirmDevice`, `OpenTopup`, `TypeAmount`, `StepAmount`,
`ConfirmAmount`, `CancelTopup` the other sales; `BillIsPaid`, `BillIsDropped` end a bill,
`TakeTrial` and `DaysPass` change the service, `PricesChange` is any form of the console.
There is one message; older keyboards in the chat are left out. `tariff_visibility` is never
asked on the way to a sale, and its form (`web/routes.py` 3837–3948) is not modelled. The text of
the cart rounds a discount of 2.5 % to 3 %; nothing is computed from it.

### Subscription

One subscription: `panel` is the panel's user, `row` the committed row, `task` the operation
that holds the row's lock, `page` a console request and `job` the snapshot a notification
job holds. A step of `Operate` is one HTTP request or the commit, with its lost answers and
retries (`_do_request`), so that `modify_user` is a read followed by a PUT of what was read.
`task.kind` is an invoice (`_apply_tariff_invoice`, with the panel's note as its idempotency
mark, and `topup_traffic`) or the monthly reset; `Administer` is a console page,
`JobReads`/`JobSyncs` are the jobs, `AMonthPasses` time. No lock is common to operations,
pages and jobs, and any of them may start and write between the reading and the writing of
another. `misread` is the history of that: somebody has written what follows from a reading
that was no longer so, and would have written something else after a fresh one (`Misreads`
says so of an operation, and `Administer` and `JobSyncs` compare likewise). The usage counter,
the URL and the device limit are not tracked.

### ManualReset

`LoadUser` is the first plain read of the user in `get_or_create_user`; `ResetTrafficPaid` is
the locked part up to the commit, which works on that copy and writes it back whole. Writers
that read under the lock are `OthersWrite`.

### Wallets

`row` are the rows of users, `rowHolder` their locks, `deal` the transactions at work. A deal
starts (`BotStarts` keeps a copy read before the lock; `OthersStart` reads when it locks),
takes one lock after the other, writes and releases (`Proceed`), or is the victim PostgreSQL chooses in a
cycle. The operations are named after what they do: promo, spend, first purchase (with its
referral bonus, which locks the inviter), erase, trial, bind; credit, approved purchase,
increase, decrease (which clamps at zero), trial reset and so on from console and jobs.

### PromoCodes

`Redeem` is one action, because the promo's row is locked from its checks to the commit; the
bot's menu (`MenuEdits`, `MenuToggles`, `MenuDeletes`) reads under the lock too. A console
page reads (`PageOpens`) and later writes the columns in which the form differs from what it
read (`PageUpdates`, `PageSetsActive`, `PageDeletes`), or fails (`PageGivesUp`).

### Notifications

`ReadPanel` is what a job reads before it locks; `Visit` is the row's lock, the decision of
the dispatcher (rule, snooze, cooldown, correlation key) and the commit; `NotifyWithoutRedis`
and `NotifyIsLost` are its failures: a cooldown survives a rollback. `PeriodRenewed`,
`TrafficAdded`, `ToggleRule`, `Snooze` and the ends of keys are the rest of the world.

### Outbox and Delivery

`Claim` is the transaction of `claim_due` (`FOR UPDATE SKIP LOCKED`), `Send` the call of
Telegram outside any transaction, `RecordSent` and `RecordFailed` the transactions of
`mark_sent` and `mark_failed`. A transient error may hide a message that was accepted.
Clocks are flags: `due` (back-off over) and `stale` (older than the processing timeout).
A slow worker keeps its batch when another reclaims the rows, as in the code, where neither
record compares who claimed the row. `Delivery` is the promise: a message stays queued until
it is finished (only after the recipient got it) or given up, and neither end is taken back.

### Broadcasts

`bcast` are the jobs, `rows` the deliveries, `sender` what a scheduler is doing. A sender
claims, loads a chunk under the job's lock, sends without it, and stores results and cursor
under it (`Work`, with `DeliveryFails`, `AnswerIsLost`, `SenderFails`, `SenderDies`); admins
create, update, delete and cancel in between, and the audience changes.

### SupportTickets

Each handler is a worker with one transaction: `Begin` (what starts it and what it reads),
`Continue` (its next lock, delivery, write or commit: `todo` is the rest of its work) and
`BreaksOff`. Covered are first and later messages of the user, replies and closings of staff
in the bot, two console pages, the bulk close, the auto-close job and erasure, with the locks of
users and tickets each of them takes. A cycle of locks ends with one worker as the victim.

### Nodes, Deployment, RoutingProfiles

`Nodes`: `SyncReads`/`SyncCommits`/`SyncFails` and `ProbeReads`/`ProbeCommits`/`ProbeFails` are
the two jobs, apart because the panel is read over HTTP before the rows are; `PageCreates`,
`PageEdits`, `PageClearsDefault`, `PageSetsDefault` are the console; `Selected` is what the
policy may choose, the order among equals being a choice.

`Deployment`: a request starts (`ApplyPage`, `EditEnv`, `AskGeodata`, `Download`), then
`BackUp`, `Replace` and `Succeed`, or `ReplaceFails`, `PagePutBack`, `PageStays`; `ConsoleDies`
may come between any two. `about` is the file of a behaviour, since the three share nothing;
`Prunings` are the backups that a geodata update may delete, and `wasted` remembers that one
of those it kept was a copy of a file it then did not replace.

`RoutingProfiles`: a page opens with its rows (`OpenForm`), locks them one by one in the order
of the form (`TakeRow`), and writes (`CommitForm`) or is rolled back by the database
(`Victimised`). A page that names a default first finds the others (`FindDefaults`) and then
clears them row by row (`ClearRow`), as the UPDATE of `clear_default` does. A page that has
looked already does not find the default another page makes afterwards; it remembers that
(`passed`), and once it has written all the same, `doubled` does. `spoiled` are the operations
that left routing without a profile to fall back on. `Choice` is `select_for_tags`.

### SchedulerLeader

Each Redis command is a step, and between two of them any instance may act. `start` is
`Acquire`, `Inspect`, `Reclaim`, `Retry`: SET NX, then GET and TTL, then DELETE, then SET NX.
`RefreshFinds` is the script that sees another token; `Watchdog` stops the scheduler some
time after. A token is new at each start of a process, so a lock that outlives its process
belongs to `Ghost`. `Expire` may hit a live holder: that is a process stalled for longer than
the TTL, or a Redis that lost its data. `deposed` remembers the schedulers from whom the lock
was taken while they ran. Without Redis every instance leads, which is not modelled.

### CircuitBreaker

The three handlers run under an asyncio lock without awaiting in it, so each is one action;
requests overlap between them. The clock is the one bit the code derives from it (`cooled`).
`probes` is history.

### RateLimit, SignIn, WebAdmins, SupportAi

`RateLimit`: an event is passed unchecked, or checked in Redis (a Lua script), in the memory,
or in both when the answer of Redis is lost; the settings are cached, the memory forgets the
longest unused buckets (`Trimmed`, by the number of the event that last touched them). A stamp
in a bucket is the number of the event, whose second is in the list of events. `SignIn`: `Knock` is the check, `LetIn` and `TurnAway` the end of a
request, which records its failure last. `WebAdmins`: `SignIn`, `Check` and `Write` are the
three moments of a request, `Restart` the bootstrap from the environment. Nothing is locked
between `Check` and `Write`, and several clerks cross there: `overtaken` are the checked
requests since whose count a superadmin was taken away, `raced` says that one of them took
another away. `SupportAi`: a draft
reads (`Ask`), waits (`ProviderAnswers`, `ProviderFails`), then loads, flushes and saves the
counters; a console page is one step.

## 3. Runs

All passing runs finish within three minutes on two workers; sizes are distinct states.

| run | instance | states | what it shows |
|---|---|---|---|
| `payments_console` | 1 user, 2 invoices, 1 console request, panel errors | 797 337 | no service unpaid; the balance is what its transactions say; the link's amount; one live invoice per click; types |
| `payments_crash` | 2 users (one invited the other), tariff and top-up, 2 invoices of which a poll reads 1, provider errors and deaths, fair polling | 220 468 | all effects once or none; money conserved with bonuses; settled is final; every paid pending invoice is settled, unless older ones stay in front of it |
| `duties` | eight components, below | 183 059 | background work does what it reports and ends; the entrances hold |
| `desks` | two components, below | 98 246 | tickets, balances and gifts agree, and every transaction ends |
| `books` | nine components, below | 810 646 | rows agree with the panel and with what was sent; the outbox implements `Delivery`; nodes, files, routing and prices stay in order whatever pages and jobs cross |
| `shop_months` | one tariff, codes with and without a row | – | violated: two months are billed as promised, one is delivered |
| `payments_double_charge` | 1 user, balance 4, panel errors | – | violated: two debits for one invoice |
| `payments_paid_ignored` | 1 invoice, no fault | – | violated: a cancelled invoice is paid and the money kept |
| `subscription_overlap` | 2 renewals, the disable page, no fault | – | violated: a paid renewal is overwritten |
| `broadcast_cancel` | 1 sender, 1 job, no fault | – | violated: a confirmed cancel never takes effect |
| `wallets_stale_copy` | 2 users, 2 desks, spend and credit | – | violated: a booked credit is overwritten |
| `admins_overlap` | 2 logins, 2 clerks at once | – | violated: two superadmins take each other's role |

What the groups consist of:

| run | component | instance | property (its parts) |
|---|---|---|---|
| `duties` | breaker | 4 calls, threshold 2, counter to 4 | `BreakerIsCoherent` (`HalfOpenHasProbe`, `ClosedBelowThreshold`); `BreakerRecovers`: neither open nor half-open lasts |
| | leader | 3 instances, 3 ends of a process | `OneScheduler`; `LeadershipHeals` (`DeposedStops`, `StaleKeyIsReclaimed`) |
| | broadcasts | 2 senders, 1 job, 3 users in chunks of 2, 2 faults, 2 changes | `BroadcastIsAccounted` (`OncePerUser`, `CountersAgree`, `CompletedTriedAll`, `OneText`, `CancelStops`); `BroadcastEnds` in `DutiesEnd` |
| | outbox | 1 message, 2 workers, 3 attempts, 2 mishaps | `EndsAreTrue`: sent was delivered, dead has a reason; `DeliveriesAreCounted`; `Finishes` in `DutiesEnd` |
| | rate | 2 sources, 2 events in 3 s, block 1 s, 1 bucket in memory, 4 events | in `EntrancesAreLimited`: `SpamIsLimited` (`LimitIsKept`, `RefusedForAReason`) |
| | sign-in | 2 addresses, 2 requests, 2 failures in 2 min, 1 address tracked | in `EntrancesAreLimited`: `FailuresAreLimited` |
| | accounts | 2 logins, 2 passwords, 2 clerks at once, 3 requests | `LostOnlyInARace` |
| | drafts | 2 configurations, 2 canned answers, 2 drafters, 2 answers | `UsageIsHonest` |
| `desks` | tickets | 2 workers, 1 user, 2 tickets, 2 messages, 1 break | `TicketsAgree` (`OneActiveTicket`, `StoredWasDelivered`, `ClosingIsRecordedOnce`, `ErasureForgets`), `ClosedIsLeftAlone`; in `DesksEnd` |
| | wallets | 2 people, 2 desks, 3 deals of every kind | `BalanceIsBooked`, `GiftsAreCounted` (`BonusIsGrantedOnce`, `TrialNeedsReset`); in `DesksEnd` |
| `books` | outbox | 2 messages, 1 worker, batch 2, 2 mishaps (58 803) | `ImplementsDelivery` |
| | reset | 2 clicks, price 2, balance 4, 2 writes (10 329) | `ChargedOnlyForResets` |
| | subscription | 1 renewal, 1 top-up, 3 pages, 1 month, 1 fault, all overlapping (226 266) | `PaidIsKept`, `RepeatedOnlyIfForgotten`, `PanelAndRowAgree` (`OffStaysOff`, `RowFollowsPanel`) |
| | notices | 3 kinds, 1 renewal of the period, 1 loss, 1 week (91 904) | `NoticesAreHonest` (`NotToldTwice`, `OneReportPerCooldown`, `FlagHasMessage`) |
| | promos | 2 promos, 1 code, 2 users, 1 page (21 737) | `RedemptionsAddUp` (`UsesAreCounted`, `PaidOnce`) |
| | shop | 2 price lists, 1 tariff row, 3 devices (135 912) | `ShopIsHonest` (`SoldAsShown`, `MoreNeverCostsLess`) |
| | nodes | 2 rows, 2 nodes of one name, threshold 2, 3 turns (43 858) | `RegistryIsTrusted` (`AlertOncePerStreak`, `SelectedWasListed`) |
| | deployment | 3 files, 2 requests, 3 deployments, 2 seconds, 1 kept (123 960) | `DeploymentIsSafe` (`FailureLeavesNothing`, `WhatWasReplacedIsKept`, `CheckedIsWhole`) |
| | routing | 2 profiles, 1 tag, 2 pages at once, 3 forms (97 877) | `RoutingHasDefault` |

Each group has one type invariant, which checks that of the component in focus; `books` has
that of the records and that of the settings.

### Why the bounds are enough

*Payments.* Two invoices are needed for a reissue, for two planned uses of the same balance,
and for a key that collides; no operation touches more than two. A price of 2 with a balance
of 1 gives "nothing", "part" and (after a bonus or top-up) "all" from the balance; a bonus of
1 lets a referral change what the balance covers. `notices` is a set: a report that arrives
twice is the same report delivered twice. A poll that reads one of two invoices is the least
that leaves a newer one unread.

*Duties.* Two workers and attempts left over are the least with an overlap and with both ends
of a row; one mishap orphans a row, two orphan a reclaimed one. Three instances let a second
depose the first and a third disturb the second. Four calls let two open the breaker, a third
be late and a fourth probe. Three recipients in chunks of two give a full chunk, a rest, and a
user on each side of the cursor. A limit of two in three seconds with one bucket in memory
gives a full window, a block, and a forgotten bucket. Two logins are the least with a
superadmin to demote and one who demotes, two clerks the least that demote each other. Two drafters are the least that cross.

*Desks.* Two transactions are the least that wait for each other, two users the least that
invite each other, two tickets the least a bulk close takes in two orders; a third deal finds
what two others left.

*Books, the records.* The note of one renewal is overwritten by the reset and by the extension
of the console, one fault loses an answer or a commit and makes a retry, and one month lets a
cycle end. Operations, pages and jobs overlap without limit, but a subscription is followed
only to its first write from an outdated reading (`UntilMisread`, a state constraint): from
there on nothing but the types and `RepeatedOnlyIfForgotten` is claimed, and both are proved
without the constraint. One notice of each sort (flag cleared by a renewal, flag cleared by
traffic, no flag) covers the seven jobs, which differ in nothing else here. Two promos of one
code reuse it after a deletion.

*Books, the settings.* Two price lists let a price change under an open screen; periods
{1, 3} have a gap. Two panel nodes of one name let a node be created anew. Two requests and one
second are the least that cross or collide in a backup's name; three deployments with one kept
backup make a rotation. That a copy made in vain pushes out one that was needed (`wasted`)
takes two kept backups and three seconds; the theorem covers it. Two pages that name a default
are the least that miss each other's.

`CHECK_DEADLOCK FALSE` stands where the system may rightly stop: all invoices used and
settled, all messages ended, all bounded writes, turns, pages and faults used up, every
instance standing by. That nobody waits for ever is a property (`DesksEnd`, `DutiesEnd`), not
the absence of deadlock.

### Fairness

* `Payments!FairSpec`: the polling job runs every 30 s for ever (`WF` of `PollPending`), and
  its processing of one invoice is not cut off each time (`WF` of `PollingSettles`, the
  successful ends). No fairness on users, the provider, webhooks or crashes. `PaidIsSettled`
  exempts an invoice whose balance share is no longer covered, which the engine refuses, and
  one before which `PollLimit` older linked invoices stay pending for ever (`[]Behind`), since
  the job reads the same oldest hundred every time; it is claimed without panel errors only: an invoice left in `applying` by a bot handler is
  not polled, because `list_pending_by_provider` lists `pending` rows.
* Outbox: the job runs every few seconds, back-offs and timeouts pass (`WF`); crashes are
  bounded by `MaxMishaps`.
* Leader: Redis answers or raises, the refresh loop wakes, a process that ended is restarted
  (`WF`); ends are bounded by `MaxEnds`. Nothing expires by fairness.
* Breaker: the jobs keep calling, HTTP timeouts end each request, time passes (`WF`).
* Broadcasts: the scheduler runs again and again, and Telegram answers (`WF` of `Work`).
* Tickets and wallets: `SF` of each worker's next step. A row lock of PostgreSQL is a
  first-in-first-out queue, so a worker that waits again and again gets its turn, and its
  deadlock detector always picks a victim. The other components claim no liveness.

## 4. Theorems

TLAPS proves these for every value of the constants, from the assumptions named in each
module: prices, balances and bounds in `Nat`; nobody invites himself; at least one attempt; a
threshold, a chunk, a number of kept backups of at least 1; finitely many users, invoices,
workers, logins, canned responses, requests at the door (they are rows of a table or
processes); stand-ins such as `NoUser` that are none of the things they stand beside; names
of operations, and of the panel's notes, that differ. Some theorems have a hypothesis of their own, below.

| module | theorem | states | hypothesis |
|---|---|---|---|
| `PaymentsProofs` | `TypeCorrect` | `TypeOK` | |
| | `NoServiceUnpaid` | `PaidBeforeService` | |
| | `LinkAsksTheRightAmount` | `ProviderAmountMatches` | |
| | `BalanceIsExplained` | `LedgerExplainsBalance` | |
| | `ClicksAreIdempotent` | `OneLivePerClick` | |
| | `NothingIsLostOrMade` | `MoneyIsConserved` | no console requests |
| | `ChargedServedAndAnnouncedOnce` | `AllOrNothing` | no console requests, no panel errors |
| | `SettledStaysSettled` | `SettledIsFinal` | no console requests |
| `OutboxProofs` | `EndsHold`, `CopiesAreCounted` | `EndsAreTrue`, `DeliveriesAreCounted` | |
| | `OneWorkerRefines` | `ImplementsDelivery` | one worker |
| `DutiesProofs` | `BreakerTypeCorrect`, `BreakerCoheres` | `BreakerTypeOK`, `BreakerIsCoherent` | |
| | `LeaderTypeCorrect`, `OneLeader` | `LeaderTypeOK`, `OneScheduler` | |
| | `BroadcastTypeCorrect`, `BroadcastsAreAccounted` | `BroadcastTypeOK`, `BroadcastIsAccounted` | |
| `GuardsProofs` | `SuperadminLostOnlyInARace` | `LostOnlyInARace` | |
| | `UsageStaysHonest` | `UsageIsHonest` | |
| | `FailuresStayLimited`, `SpamStaysLimited` | `FailuresAreLimited`, `SpamIsLimited` | |
| | `EntrancesStayLimited` | `EntrancesAreLimited`: both, in the composition of the run | |
| | `DutiesTypeCorrect` | `DutiesTypeOK` | |
| `DesksProofs` | `DesksTypeCorrect` | `DesksTypeOK` | |
| | `MoneyIsBooked`, `GiftsAreGivenOnce` | `BalanceIsBooked`, `GiftsAreCounted` | |
| | `TicketsStayInOrder`, `ClosedStaysClosed` | `TicketsAgree`, `ClosedIsLeftAlone` | |
| `RecordsProofs` | `RedemptionsAlwaysAddUp` | `RedemptionsAddUp` | |
| | `NoticesStayHonest` | `NoticesAreHonest` | |
| | `ResetTypeCorrect`, `NeverChargedForNothing` | `ResetTypeOK`, `ChargedOnlyForResets` | |
| | `RepeatedOnlyWhenForgotten` | `RepeatedOnlyIfForgotten` | |
| | `WhatIsPaidIsKept` | `PaidIsKept` | |
| | `PanelAndRowStayTogether` | `PanelAndRowAgree` | |
| | `RecordsTypeCorrect` | `RecordsTypeOK` | |
| `ServersProofs` | `RegistryStaysTrusted` | `RegistryIsTrusted` | |
| | `RoutingKeepsItsDefault` | `RoutingHasDefault` | |
| | `DeploymentStaysSafe` | `DeploymentIsSafe` | |
| | `ShopStaysHonest` | `ShopIsHonest` | |
| | `SettingsTypeCorrect` | `SettingsTypeOK` | |

`MoneyIsConserved` and `SettledIsFinal` need their hypothesis because TLC refutes them with
console requests, which decide on a stale copy (section 5). Without panel errors is how
`payments_crash` states all-or-nothing, whose opposite is `payments_double_charge`; money is
conserved under panel errors too, which the run has none of. With two workers a row in hand may
be recorded by another, which is no step of `Delivery`. Where requests race because the code
has no lock, no theorem assumes that they do not: a history of the model says that they did
(`raced`, `misread`, `doubled`), only a race of exactly the kind that does the harm sets it,
and the theorem covers all that the code promises until then.

### Why they hold

Hardly one of the properties is inductive. Each proof module says, at its invariant, what is
added; in short:

*Payments.* A console request acts on a copy it read long ago and a callback on a status that
was true once. `IInv` adds what such a memory still guarantees: a copy is of an invoice that
exists, and never asks for more balance than the price (`Sound`, `ViewOK`); "paid" was reported
only of a transaction that had collected money (`ProvOK`), and collected money is never
uncollected. Then a stale copy may revive an invoice but not give service unpaid, and
`BalanceCovers`, evaluated on the user's row under its lock, makes the clamp of
`subtract_balance` idle, so that wallet and ledger move together. `KeysOK` adds that a key is
held only by an invoice that was written, and so has an owner and a purpose nobody changes.
For money, `NoEarlyTrace` adds that an invoice which may still be rewritten has moved nothing
yet. The two sums of `MoneyIsConserved` are folds of the community modules; `Sums` proves by
induction over the subsets of a finite set that a step which changes one summand changes the
sum by as much, which needs no theorem with an operator parameter: the induction is over
sets of subsets closed under adding an element, by the well-foundedness of strict inclusion.

*Outbox.* `InHand` is what a worker holds between Telegram's answer and its record: it is
true, whatever happened to the row meanwhile. For the copies, a claim is spent by sending, so
attempts pay for what was delivered and for what is still in a hand. With one worker a row in
hand is in `processing`, so every step is a step of `Delivery` or a stutter.

*Breaker, leader.* The flag is set exactly in half-open, with its probe in flight. Whoever
runs without having been deposed holds the lock, so SET NX succeeds only when all running
schedulers are deposed.

*Broadcasts.* One sender at most is at a job that runs (`Attended`), because a claim takes it
under the row's lock, and nobody else until that sender is dead. What a sender has in hand
(`WorkSound`) is a beginning, of at most a chunk, of the untried users beyond the cursor; what
was sent of it and is not yet stored is what a crash repeats, and is counted as a repetition.

*Accounts, drafts.* A checked request that would remove a superadmin's rights has counted
another one, who is still there unless the request was overtaken. A draft that is about to count carries the
counter it has read; where nobody crossed it, that is still the counter of the row, and the
answers on their way make up for the difference.

*Entrances.* A window is any stretch of seconds, the stores know only the one that ends now:
the invariant says of the present window that what was let through in it is in the bucket
(`RedisKeepsOf`), or that failures and requests at the door together are within the limit
(`WindowsKept`), and of every window that the limit held, which a new event can only change for
windows that reach the present. Whatever is in a bucket was counted (`Truthful`), and a block
that has not ended was set over a full window, which is the reason of a refusal. The buckets in
memory are touched one at a time, so the oldest that is kept has fewer than the capacity beside it.

*Wallets.* A transaction that is locked holds the row of its user, and of the inviter it is
about to pay, so the copy of the inviter is the row. Nothing is known of the copy of its own
user, which may be older than the lock: hence `outdated`. A trial is given only with the flag
and the subscription both free, under the user's lock, so trials are counted by resets.

*Tickets.* `WorkSound` and `LocksSound` say what a handler in each of its moments may rely on:
which rows it has locked, and that a ticket it has locked still is what it decided on. Only a
first message is between its read and its lock, and so is the one that may write to a closed
ticket. `Counted` relates stored texts to those that were delivered and wait to be stored.

*Promo codes, notices, reset.* Every redemption belongs to a promo that exists, ids are not
used twice, and what was paid has its row until the promo is deleted. A visit decides on an
old snapshot of the panel, but on the flag and the cooldown of the moment. Every charge comes
with a reset in the same step.

*Subscription.* The three properties need three invariants, each by what the writer at work
has in hand. A task about to put a renewal has not found its note, or the note was
overwritten (`Unseen`, `Noted`), whichever writers overlap. Until somebody misreads, a PUT is what a reading of
that moment would have made it (`PageUserIs` and its neighbours), so what it changes is known of
the panel as it now is, whatever ran beside it. A commit has the panel in hand, or misreads; what
it writes in the row is worth what was paid because what the task has read and put stays worth
that (`TaskKeeps`, `PageKeeps`). For the row, `Agreed` says of each moment between a PUT and
its commit what the panel already has and the row is about to say.

*Nodes, routing, deployment.* A row with a source says of it what the last sync that committed
had read, and a row that alarmed has failed as often as the threshold, so it does not meet it
again before a good probe. A page that names a default has every default in what it locked,
is about to lock or has cleared, unless another was made since it looked (`passed`). A request that has replaced a
file holds the old content, which is the youngest copy; copies are numbered by how many
replacements ago they were made, and pruning removes the oldest.

*Shop.* `ShopInv` says of each screen that what it shows is what the price list, as it now is,
makes of the choice in its buttons, unless the prices changed since it was drawn (`outdated`),
and of the service that the devices it has are some that could be sold. `MoreNeverCostsLess`
is arithmetic: the nearest of the periods does not get shorter as more months are asked for
(`PeriodGrows`), up to a year a longer period adds more than its discount takes
(`ShareGrows`), and rounding keeps an order (`TotalGrows`). More devices cost more by steps
where a code has no row; a row costs the same for one and for several, because its modes are
never recognised (`RowCosts`). A basket does not depend on the traffic that was named, so the
first screen of a renewal, which names none, says what the bill will say.
`PriceListAssumption` gives the types of what may be saved, with two bounds that the forms do
not check: periods of at most `MAX_MONTHS` and a scale of at most `MAX_CUSTOM_DEVICES`
devices, which are the defaults of the rules and of a code without a row. The first bound is
needed (section 5); rows with a longer scale of devices are simply not covered.

*Types.* The type invariant of each run is a theorem of its composition: every step of it is a
step of one component and a stutter of the others, so their invariants hold side by side. What
they say beyond types needs a little of its own. A code belongs to one promo because each write
that could give it to another looks for it under the lock, and a form that leaves its code
alone leaves the row's (`PromoTypes`). What is put to the panel has a note, and a cycle that is
written ends a month from now at most (`SubTyped`). The line of addresses has no address twice,
and drops its oldest together with their failures (`InLine`). Activating a language model
switches the others off, and neither a test nor a draft that is saved late switches one on
(`OneOn`).

### Model-checked only

All liveness (fairness and ENABLED are out of the prover's reach): `PaidIsSettled`,
`DutiesEnd`, `BreakerRecovers`, `LeadershipHeals`, `DesksEnd`. Every invariant that a passing
run checks, and every action property of one, is a theorem of its specification, some under a
hypothesis (above).

## 5. What the checks found

Seven runs end in a counterexample against what the repository says of itself; the lines are
quoted in `PROJECT.json`, "findings".

* `payments_double_charge`: the bot commits the debit although the panel failed, and the next
  confirmation debits again.
* `payments_paid_ignored`: cancelling a pending invoice leaves its link payable, and a later
  payment is answered with `cancelled_ignored`.
* `subscription_overlap`: two reads followed by two PUTs of the whole panel user lose a paid
  renewal. So, after such a misreading, a user that was switched off may be on again and the row
  at rest may say something else than the panel: `OffStaysOff` and `RowFollowsPanel` fail without
  their `~misread`.
* `admins_overlap`: two pages count two superadmins and take each other's away, against the
  comment beside the check (`web/routes.py:5186`).
* `broadcast_cancel`: the job that carries out a cancel locks the row it already holds, in a
  second session, and waits for itself.
* `wallets_stale_copy`: a handler writes back a balance it read before the lock.
* `shop_months`: a code without a tariff row sells one month for a bill that promises two.

Further counterexamples, for properties and constants that no run uses:

* `Payments!CancelledIsNotApproved`: the console decides on the status it read before the
  lock, and approves what was cancelled meanwhile.
* `ManualReset!WriteOffIsSafe`: a top-up is overwritten by the copy of a paid reset.
* `SupportTickets!ErasedIsErased`: a message whose handler had found the account before the
  erasure is stored after it.
* `Notifications!FlagMeansQueued` (against `CODE_QUALITY.md:72`): correlation keys are never
  reused, so in a second period the flag is set and no message is queued.
* `PromoCodes!UsedIsKept`: a page deletes a promo that was redeemed after the page read it.
* `Shop!FixedPlanKeepsItsPrice`: the mode of a tariff row is never recognised, so its fixed
  price is not used.
* `Tariffs` with `LongestPeriod` 24, which the form of the rules admits, and a most of the
  discount above about 52%: each month takes another 2.5% off all of them, so 22 months cost
  less than 21. The proof of `MoreNeverCostsLess` stops there; the discount as shipped is at
  most 25%.
* `Payments!PaidIsSettled` without `[]Behind`: older invoices that nobody pays or cancels fill
  what the polling job reads, and a newer one that was paid is not polled before they are gone.
* `Deployment`: that the geodata keeps the last `KeepCount` contents it replaced. A copy is made
  before the download is known to be good, and one made in vain takes a place among the backups
  that are kept; `WhatWasReplacedIsKept` says so (`wasted`). The attempt to prove it found
  this; it takes two kept backups and three seconds to be seen.
* `RoutingProfiles`: that there is at most one default, without `doubled`. No index of the
  database makes it unique, and two pages that each look before the other writes leave two. A
  single form may also leave the default disabled (`spoiled`).

Noted while modelling: `CODE_QUALITY.md:72` speaks of exactly-once delivery, and the outbox
delivers at least once. A broadcast whose sender died stays `running`: `claim_due` takes
scheduled jobs only, so nobody sends the rest (`DutiesEnd` exempts such a job). The rate limit
holds for each store; across an outage of Redis a source may use up both. In `SchedulerLeader.start`, TTL is -2 for a key that has expired since
the SET, and the DELETE that follows may remove the lock another instance has just taken. An
instance that was refused the lock never asks again (`main.py:585`), so after the last leader
nobody leads until a restart. Any late call that succeeds closes the breaker before its
cooldown, and the late failure of one frees the probe's slot. Redis keeps the counted events
through a block, while the memory clears them, so with a block shorter than the window a
source is blocked again at once. Two drafts that count at the same time lose one, and a stale
"deactivate" page switches off what another page activated. A name that another row holds
makes every node sync fail; the cooldown of one node's alert swallows another's. Overlapping
deployments restore each other's content on rollback, and two backups in one second share a
name. `marzban_restart_command` is not among the settings, so as shipped nothing is restarted.
The bot's edit menu clears the tariff a promo unlocks (`admin_panel.py:645`). A routing profile
is resolved by its code even if it is disabled.

## 6. Not modelled, and what is next

Not modelled: rendering, keyboards and texts; parsing of provider answers; external AI
answers (a provider answers or fails); metrics and translations; read-only pages; the export
of a user's data; imports and searches over several subscriptions; media and tags of tickets;
scores of nodes; the Xray patch, which has no caller; visibility of tariffs, which no sale
asks. Certificates, logs and statistics of the Marzban client are
read-only. Components that are "partly" modelled say in `PROJECT.json` what is missing.

Next: the parts of "partly" components that `PROJECT.json` names, above all the pages of the
console that change several components in one transaction.
