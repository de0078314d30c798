# A verification project for the liquidation bot

TLA+ models of the Telegram bot "Bybit Liquidation Terminal", model-checked
with TLC and proved about with TLAPS. Paths below are relative to
`src/src/` unless they start with `docs/`.

Short names: BP `services/logic/billing_processor.py`, BS
`database/crud/billing_service.py`, BO `services/workers/bouncer.py`, PW
`services/workers/payment_worker.py`, US `database/crud/user_service.py`, RB
`core/redis_bus.py`, AN `services/logic/analyzer.py`, CW / MW
`services/workers/chart_worker.py` / `messenger_worker.py`, WS
`services/ingestion/bybit_ws.py`.

| file | what it is |
|------|------------|
| `Billing.tla` | the payment core: invoices, providers, admin review, Redis and row locks |
| `Ledger.tla` | what the payment core promises, without any of that |
| `Subscription.tla` | everybody who writes `users.subscription_end`: bouncer, purchase, bonuses, administrator |
| `Checkout.tla` | the two ways to a payment page, under the CactusPay lock or without one |
| `RedisStream.tla` | operators: one Redis stream with one consumer group |
| `Signals.tla` | one signal's path through analyzer, chart worker and messenger, with crashes |
| `SignalFeed.tla` | what that path promises, without the hops |
| `TriggerRules.tla` | the pure rules: which signal is raised, drawn and sent to whom |
| `ChartWorker.tla` | token bucket, mute and chart cache |
| `MediaResolve.tla` | messages of the log channel, the placeholder and its locks |
| `Dispatch.tla` | the fan-out under the notifier's semaphore |
| `Gatekeeper.tla` | the membership gate of free users and its key |
| `Audience.tla` | one user in the table and in the two caches; settings behind the paywall |
| `Listener.tla` | the pool of websockets, watchdog and listing sync |
| `Liquidations.tla` | the memory of liquidations and its window sums |
| `SupplySync.tla` | circulating supply: CoinGecko, table, memory |
| `MCBilling.tla`, `MCSubscription.tla`, `MCPipeline.tla`, `MCServices.tla` | small instances |
| `*.cfg` | one configuration per run |
| `Billing_proofs.tla`, `Subscription_proofs.tla`, `Checkout_proofs.tla`, `Gatekeeper_proofs.tla` | the proofs about the module of that name |
| `Refinement_proofs.tla` | Billing implements Ledger |
| `Signals_proofs.tla` | Signals: its invariants, and that its steps are SignalFeed's |
| `Pipeline_proofs.tla` | the proofs about TriggerRules, ChartWorker, MediaResolve and Dispatch |
| `Services_proofs.tla` | the proofs about Listener, Liquidations and Audience |
| `PROJECT.json` | components, runs, mutants, the map to the source, findings, hazards, theorems |

## 1. Inventory

One asyncio process (`main.py`) runs the bot, ingestion, aggregators, bouncer,
payment worker, retention, dashboard and supply sync. The chart worker and the
messenger worker are processes of their own. They talk through Redis Streams
(signals), Redis keys (locks, caches, history) and Redis pub/sub (invalidation);
all of them share PostgreSQL (READ COMMITTED, SQLAlchemy async sessions with
`expire_on_commit=False`). aiogram handles updates concurrently, one session per
update: inside one process, everything between two `await`s is atomic and
nothing else is.

| component | state | operations | talks to | what is hard |
|---|---|---|---|---|
| Payment processor (BP, BS) | rows of `invoices`, `users`, `transactions` | sync with a provider, manual approval, activation, purchase | providers, Redis locks, PostgreSQL | several settlements of one invoice; stale reads under locks; crash between steps |
| Payment worker (PW) | none of its own | poll open invoices, close overdue ones | payment processor | writes a status from an unlocked read |
| Shop and wallet handlers | FSM data | create invoice, check button, screenshot, purchase, auto-renewal switch | payment processor, admins | checkout reuse, checks made before an await |
| Admin review (`admin_payments.py`) | review cards, FSM prompts | approve, custom sum, reject | payment processor | two admins, two cards, one invoice |
| Redis locks (RB) | keys with token and TTL | acquire, compare-and-delete | everyone | the TTL runs whatever the holder does |
| Providers (`services/payments/`) | remote | create, get status | BP, shop | answers late or out of order, paid after expiry |
| Persistent model | tables | - | everyone | absolute values computed in Python |
| Bouncer (BO) | one session per round, last run | warn, renew, notify, degrade | users, Telegram, Redis gate | row locks kept while it walks on; stale user after a commit |
| User service (US) | settings, trial flag | degrade, presets, activity | caches | invalidation before commit |
| Settings, onboarding, commands | one user's row | bonuses, presets, menus | BS, US | two presses of one button |
| Analyzer, trigger engine | user cache, anti-spam keys | evaluate a liquidation, publish | streams, caches | check-then-act over Redis |
| User caches (analyzer, MW) | lists of users | load, invalidate, refresh one | pub/sub, PostgreSQL | a slow load applied after a newer one |
| Signal streams (RB, CW, MW) | entries, pending lists | publish, read, claim, ack | - | at-least-once, entries of a dead name, trimming |
| Chart worker (CW) | token bucket, symbol locks | render, upload, publish ready | Telegram, streams | bucket thresholds, lock objects dropped in use |
| Messenger worker (MW) | media cache, history keys, gate keys | resolve media, check the gate, fan out | Telegram, streams | history key before the send; recursion under a lock; nested retries |
| Membership gate (MW, BO, `onboarding.py`) | one Redis key per user | ask Telegram, write the verdict, read it | Telegram | three writers of one key with awaits in between |
| Ingestion (`services/ingestion/`) | pool of websockets | connect, heartbeat, reconnect, add symbols | exchange | reconnect racing new symbols |
| Aggregators | deques per symbol | record, sum, prune | analyzer | out-of-order events |
| Supply worker | a round's ids and figures, `coin_fundamentals` | resolve ids, fetch, upsert | CoinGecko, aggregator | each await may fail or find what it read changed |
| Placeholder (`asset_manager.py`) | one message id in table, Redis and RAM | check, restore | Telegram, Redis lock | two processes restore at once |
| Retention, dashboard, broadcast, drawing, admin reports, middlewares, presentation, start-up | - | - | - | no interacting writers; see `PROJECT.json` for each |

What makes each of them correct:

* **Payments.** Money a provider or an admin vouches for reaches the balance
  once and completely; the balance is the sum of the transactions; an intent is
  executed at most once and only with the money there; statuses converge. A
  payment page leads to an invoice, and pressing twice does not make two orders.
* **Subscription.** Time is neither invented nor lost; only who asked for it is
  charged; an expired subscription ends; the bouncer blocks nobody for good.
  What only a VIP may set ends with his subscription.
* **Signals.** A published signal stays queued until it is handled, or is
  dropped by the streams' length bound, and none waits for ever; a user's alerts
  grow by half; none is suppressed on account of one never sent; the shared
  filter drops nothing somebody asked for.
* **Gate and caches.** Who left the channel is stopped within the key's life,
  who joined is admitted; after the last change both caches are the table.
* **Limits.** The last tokens go to cascades; one chart per symbol and cache
  life; no permit is lost; a batch comes back.
* **Data.** One feed per symbol, every listed symbol fed; every window sum is
  exact; the supply comes to agree with its source.

Every hazard found while reading is listed in `PROJECT.json` at its line, with
the properties that watch it or the reason why none does.

## 2. Plan

**Done.**

1. `Billing` and `Ledger`; `Subscription`; invariants, action properties and the
   refinement proved, progress model-checked.
2. The signal path: `RedisStream`, `Signals`, `SignalFeed`, `TriggerRules`,
   `ChartWorker`, `MediaResolve`, `Dispatch`, `Gatekeeper`; every safety property
   proved, and the step half of the refinement of `SignalFeed`.
3. Around it: `Checkout`, `Audience`, `Listener`, `Liquidations`, `SupplySync`;
   every safety property proved.

**Left**, in the order of its value.

4. An abstract specification of the subscription (time bought, granted, used)
   that `Subscription` implements, as Billing implements Ledger.
5. Liveness of the payment core under fair polling (a payment confirmed before
   the timeout is credited in the end), as a `FairSpec` of Billing. Its state
   space is at the limit already, so it needs a smaller instance of its own.
6. Composition of Checkout with Billing through `create_invoice`, and of
   Audience with Gatekeeper (the bouncer degrades in both).
7. The market aggregator's RSI and OHLC buckets as recursive functions over
   integers, against a reference definition.

## 3. Billing and Ledger

**State.** The variables are the columns of the three tables that the payment
core reads or writes: `status`, `amt`, `expected`, `shot` (invoices), `balance`
and `subs` (users; `subs` counts the periods `subscription_end` was extended
by), and of `transactions` the sums and counts the code asks for (`deposits` and
`charges` per invoice, `ledger` and `withdrawals` per user). `rowInv` and
`rowUser` are PostgreSQL's row locks, `rlock` the Redis lock of a user with its
holder; `provSt`, `provAmt`, `approved`, `card`, `aged` are the outside world. A
task has a place (`pc`, the await it is suspended on) and its locals (`op`: the
provider's answer and the columns as its session loaded them).

**Actions.** One per stretch of code between two awaits that others can observe.
`process_payment_update` is StartSync, ProviderAnswers or ProviderFails,
AcquireRedis or RedisRefuses, ReadInvoice, LockInvoice, LockUser, ReadLedger,
Commit or Abort, ReleaseRedis; `process_manual_approval` joins the same chain
from the admin's card (PressApprove, OpenPrompt, SubmitCustom) and may leave it
early (ReturnApproved). The handlers that write a status without looking again
are pairs: FindOverdue and WriteExpired, SendScreenshot and WriteScreenshot,
SubmitReason and WriteRejected. PurchaseSubscription is one step: it locks the
rows it reads with the reading SELECT itself. RedisExpires lets the TTL pass at
any time, Crash kills all tasks, loses the admins' prompts (kept in memory),
rolls back and leaves the Redis keys.

Two facts of SQLAlchemy decide what is stale, and the model has both. A locking
`get` does not refresh an object that is loaded already, so `seenStatus` and
`seenAmt` date from ReadInvoice, before the row lock. An UPDATE names only the
columns whose value differs from the one loaded, so writing back what was read
leaves what the table holds by then (`Written`).

**Ledger** has five variables and three actions: somebody vouches for money, an
invoice settles a part of what is due (executing its intent if the balance
allows), somebody buys a period. `KeepsPromise` maps Billing onto it:
`due` is the confirmed sum up to the tolerance, `settled` the deposits.

Money is in whole units: prices and tolerances are integers, rounding to cents
is exact. Float error is not modelled.

## 4. Subscription

**State.** `end`, `balance`, `auto`, `used` (the two bonus flags), `warnedAt`,
`attemptAt` of `users`; of `transactions` what is asked of it (`ledger`,
`deposited`, `withdrawals`, `bonuses`, `trialEnd`). `row` holds the row locks of
all sessions. The bouncer has `place`, its remaining candidates `todo` and what
its session loaded of the current one, `ses`; `ses.gap` is a history variable
that says whether the session has committed since it loaded the user, that is,
whether the row was free in between. Handlers have `pc` and `op` as in Billing.

**Actions.** A round of `bouncer_worker` is Scan; per candidate NextCandidate,
LockCandidate, Warn or DoNotWarn, then StartRenewal and Renew, or
NotifyShortfall, or DoNotRenew, then Degrade or NotExpired; and CloseSession.
The order of the candidates is left open. A row locked for a candidate who needs
nothing stays locked until a later candidate commits or the round ends, as in
the code. GiveUp ends the round: after a rollback the loaded user is expired and
the handler's own `user.id` (BO 299) cannot be loaded again, so the exception
reaches the outer handler. StartPurchase and CommitPurchase are
`charge_and_activate_subscription` with the lock of the buyer and then of the
referrer; StartBonus and IssueBonus the handlers of trial and community bonus,
which load the user before they lock it; AdminSets is
`update_user_subscription`; Deposit stands for Billing. DeadlockDetected is
PostgreSQL failing one session of a cycle, Fails any other error.

Billing has many settlements and no bouncer, Subscription the bouncer and
deposits as single steps. They share `users.balance` and
`users.subscription_end`. Billing's `BooksBalance` holds because everyone in it
loads the user with the locking SELECT; Subscription shows that the bouncer does
not keep to that (finding 3), so the theorem about Billing is one about the
payment core and not about the whole bot.

## 5. The way of an alert

**RedisStream** is a record of what Redis keeps for one stream and one group
(bodies, how far MAXLEN has trimmed, the last identifier delivered, pending list
and which entries in it are idle) and one operator per command as RB uses it.
`ReadGroup` is `read_stream_group`: claim idle entries, then the reader's own
pending ones, then new ones, whichever is first not to come back empty. XADD's
approximate MAXLEN leaves how much is trimmed open within its bound. A claimed
entry that was trimmed leaves the pending list and is not returned.

**Signals** applies them to the raw and the ready stream of one symbol and side.
An event has one analyzer task with the three Redis calls of its anti-spam
check (ReadBrain, PublishRaw, RememberBrain), all tasks interleaving. Artist
and messenger are one process each with a name, a batch and a place; the artist
forwards before it acknowledges (ArtistForward, ArtistAck); the messenger reads
each user's history key, writes it and then sends (ReadSeen, RememberSeen,
Dispatch), and acknowledges (MessengerAck). Each may crash at any step and
comes back under the same name or, when the container was recreated, another
one; calls to Redis may fail, which the code swallows. `brain` and `seen` are
the history keys with the sum and whether the cooldown still runs. Three
history variables tell what the properties excuse: `forgot` (a user's key could
not be read or set; its expiry counts as that, too), `cut` (the messenger died
between its steps), `handled`.

**SignalFeed** has one variable, the stage of each event, and five moves;
`ImplementsFeed` reads the stage off the streams. It has a liveness part
(`Served`): time and again nothing is queued.

**TriggerRules** has no steps. A state is one signal and one population; the
operators are `evaluate_trigger_logic`, AN's prefilter with the lowest thresholds
of the cached users, the decision to draw, and the messenger's evaluation per
user. Its two properties relate the decision made for all to the one made for
each. A threshold is the set of values that would do, so that `inf` is the empty
set. `Rendered` leaves out the ratios by market
capitalisation, which only add charts, and the properties are about users whose
thresholds are in dollars.

**ChartWorker** counts tokens in refill steps, so Tick refills exactly; a draw
is Consider (may this grade take a token?), Lookup, Upload or Flood, Save. The
loop is sequential and so the per-symbol locks of CW are never contended; they
are left out.

**MediaResolve** has the log channel, the placeholder's id in table, Redis and
RAM, the resolve locks and the nested calls of `resolve_media` (`frames`):
after a flood the function calls itself while its own frame still holds the lock
of the message, and gets out because that lock expires.
`ensure_placeholder` runs in both processes under the asset lock.

**Dispatch** is `send_liquidation_alert` under `broadcaster_semaphore`: `depth`
is `retry_count`, and a retry is a nested call that asks for one more permit.

**Gatekeeper** is one free user and the key `csl:gate:{user_id}`. The messenger,
the bouncer and the button "check my subscription" are three checkers that ask
Telegram about one resource after the other and then write the key; the
messenger and the main menu read it. The check stops at the first refusal in
the messenger and the bouncer, the button asks about all. `ago` and the
checks' ages are history clocks; `Slow` bounds a check, which in the code is the
HTTP client's time-outs. The user's trial is used. The verdict is taken when the
messenger filters, not when the alert leaves. RB's `get_key` swallows errors and
returns None, so an error in reading leads to a live check.

## 6. Around it

**Checkout** is one buyer with two concurrent presses. `_start_cactus_payment_flow`
is PressCactus (takes the lock), ReadBalance, FindOrder, CreatePayment or
CreateFails, Record, Leave; `_start_manual_payment_flow` joins it without a lock.
Lapse is the lock's ten seconds passing under a call that may take fifteen;
Leave releases by compare-and-delete. Settles, Grows and Reopens are what Billing
may do to an invoice in the meantime (Reopens is finding 2). `overlap` and
`reopened` are the excuses: a lapsed lock, a search that failed (the code then
makes a new order), an invoice put back.

**Audience** is one user: his row, the brain's cache and the messenger's, and
in each process the list a failed query falls back on (`lastUsers`, `msgUsers`).
A task of the bot writes, commits (Write), reloads (ReadUsers, AssignUsers: the
row may change in between) and publishes (Publish); the messenger hears it or
was not listening (Deafen), refreshes one user (Hear, Refresh), and each process
reloads periodically. Settings are the set of columns that differ from the free
preset. A dialogue is opened behind the paywall and answered without it; the
onboarding's preset buttons have none; both are `excused`.

**Listener** is WS: `open` and `feeds` are what the exchange sees, `ws_map` what
the program believes. Watchdog and listing sync share one event loop and suspend
at every subscription. The watchdog replaces a quiet socket (DogReconnects), or
loses its chunk when the new constructor raises (DogLosesChunk); the sync adds
symbols to a socket with room or opens one. The constructors wait for an identity
of `Sockets` that is not in use (`Constructible`): a bound, not a behaviour. The
chunks of `start` are slices of one list of distinct symbols, so pairwise
disjoint (`ListenerAssumption`).

**Liquidations** is the deque of `liq_aggregator.py` and the rows it is reloaded
from after a restart. An event is stamped when appended and again when saved, so
the two orders may differ; the metrics' single pass from the newest entry to the
first old one relies on the deque's order. A window's sums and counts are
modelled as the set of liquidations they are taken over: a sum is exact when
that set is, each member counted once. The table returns the rows oldest first
and those of one tick in any order (`Loaded`).

**SupplySync** is a round of `supply_worker.py`: targets, manual mapping, top
list, coin list, ids, figures by chunks, upsert. Every await may fail.

## 7. Runs

| run | instance | checks |
|---|---|---|
| `billing_auto` | a CRYPTOPAY top-up and a CACTUS subscription of one buyer with a sponsor, two tasks | types; charged once; books balance; every charge extends; CACTUS all or nothing; refinement |
| `billing_partial` | one CRYPTOMUS subscription, paid in parts of 1 to 4 around price 3, tolerance 1 | no overcredit; what is recorded is credited; no debt |
| `billing_manual` | one MANUAL subscription, sums 1, 3, 4 | no overcredit; recorded is credited; PAID means funded |
| `billing_review` | one MANUAL invoice | `ApprovalIsFinal` is violated (finding 1) |
| `billing_converges` | one CACTUS invoice | `SecondSyncSeesPaid` is violated (finding 2) |
| `sub_safety` | one user, two tasks, both bonuses, time 1 to 3, one deposit, one failure | types; nothing for free; books off trial; time is kept; renews as asked |
| `sub_progress` | friend and sponsor, one task, community bonus, time 1 to 2 | expired subscriptions are settled; handlers return |
| `sub_books` | as `sub_safety` without failures | `BooksBalance` is violated (finding 3) |
| `sub_bonus` | the same | `BonusOnce` is violated (finding 4) |
| `pipeline` | Signals, TriggerRules, ChartWorker, MediaResolve, Dispatch and Gatekeeper, one at a time | alerts escalate; history is backed; the prefilter is sound; cascades are drawn and have their reserve; one placeholder; permits are kept; the feed is implemented; one drawing per cache life; resolves and batches return; leavers are stopped, members served |
| `dispatch_flood` | three alerts, four permits, three retries | `BatchReturns` is violated (finding 5) |
| `services` | Listener, Liquidations, SupplySync, Checkout and Audience, one at a time | one feed per symbol; exact sums; one open order; screens are payable; paid settings end with VIP; listings are tracked; the supply is synced; caches catch up |

In `pipeline` and `services` the constant variable `part` says which component a
behaviour exercises; the others stay in their first state. Their models share no
state, so this checks each of them for itself, as separate runs would, and makes
no claim about their composition. Where a property would otherwise be asked of
an idle component, it is guarded by `part` and named with *Here*.

**Why these bounds: payments and subscription.** Two tasks suffice for a race
between two readers of one row, and with the buyer's PurchaseSubscription,
RedisExpires and Crash there are always further actors. Two invoices of one
owner share the owner's lock and balance. The sums lie on both sides of
`expected - Tolerance` and of `expected`. In Billing nothing else needs a bound:
providers' states and sums only grow. In Subscription MaxTime, MaxMoney and
MaxFailures bound the clock, the deposits and the errors. Time runs to 3 and
warning windows, renewal window and bonuses are 1 or 2, so warning, renewal,
expiry and the instants where two of them are open at once occur within one
bonus; the renewal window lies below the paid warning and overlaps the trial
warning, as 60 minutes lie below 23 hours and overlap 45 to 75 minutes. A
purchase adds 3, beyond the clock: bought time does not expire in these
instances, bonus time does. AdminTime is 0: the administrator only revokes,
because a granted time would hide bonuses in `NothingForFree`; the proofs cover
any value. In `sub_safety` the only user has no sponsor: sponsors' rows matter
for locks, which `sub_progress` has. `sub_progress` leaves out the trial to stay
small: what deadlocks there is a purchase by the friend against a round that
holds both rows.

**Why these bounds: the way of an alert.** Two events of one symbol with sums 2
and 3: the second has grown by half, the first after it has not, so each order
of publication decides differently, and MaxLen 1 makes the second trim the
first. One VIP target is enough for the keys (they are per target); the proofs
cover any number, and targets with a gate. One fault at any step and two names
give each crash its claim under another name. The rules are checked for sums
below, between and above two thresholds, and for every pair of users out of four
kinds. The bucket has capacity 4 with thresholds 4 and 3 and two symbols, so
each grade is refused at its own level. MediaResolve has three placeholder
messages and one trouble: one restoration by each process. Dispatch has two
alerts and seven permits, just enough (`MaxRetry * Alerts + 1`); `dispatch_flood`
has too few. The gate has both resources, a life of 1 and checks of 1, so a
check can be as old as a key, and one rare event (purchase, departure, error or
death).

**Why these bounds: services.** Two chunks, one full and one with room, and two
later listings: one joins, one needs a socket of its own; five identities are
never exhausted, and two mishaps are a silence and a failure. Three liquidations
over windows 0 to 3 can be out of order, saved late and reloaded. Two coins and
two ids can be mapped wrongly and corrected; chunks of one give the round a
place between two requests. Two presses of one tariff, two balances (two gaps),
two orders, two upsets. One task, one column and two events in Audience: one
task writes one change while the periodic reload, the other process and the
clock move.

Deadlock checking is on except in `services` and `dispatch_flood`: there the
bounds (time, events, mishaps) really end some components, and the semaphore
really stops. In Billing a lock can always expire, in Subscription the
administrator can always write a free row, so it says little; progress is
therefore stated as leads-to.

**Fairness** is assumed where liveness is checked, and only of the program's own
loops and of timers.

* `sub_progress`: `SF(Bounce)` and `SF(Handle(p))`. asyncio runs every task that
  can continue, and PostgreSQL queues the sessions that wait for a row, so a
  waiting session is not overtaken for ever although the row is free only now and
  then. `WF` of DeadlockDetected: `deadlock_timeout` is a timer. Users,
  administrator, the clock and failures owe nothing. With `MaxFailures = 0`
  errors other than deadlocks are left out of that run: a database that fails in
  every round settles nothing. The clock stops at MaxTime; this removes no
  obligation, because what has expired stays expired.
* Signals: `WF` of the two processes and the ageing of entries together. Both
  restart always (`docker-compose.yml`) and loop for ever, and time passes.
  Faults owe nothing and are bounded; analyzer, cooldowns and expiries owe
  nothing.
* MediaResolve: each process goes on, locks in Redis expire. Dispatch: the
  semaphore and the answers of Telegram. Gatekeeper: time, signals, the
  bouncer's answers, the menu. Listener: `start`, watchdog and sync on one loop.
  SupplySync: the worker's round. Audience: the two periodic reloads, nothing
  else, so invalidation is shown to be an acceleration and not a necessity.

The stability properties (`ListingTracked`, `SupplySynced`, `CachesCatchUp`) say
what holds once the bounded disturbances are over. That is what their bounds
mean: an exchange, a table or a user that never rests is never caught up with.

Each property of a passing run has a mutant in `PROJECT.json`: a definition
changed as a plausible bug would change it, which makes TLC find that property
violated. The mutated operators stand in the modules next to their originals
under a comment that begins "Mutation".

## 8. Theorems

Everything is proved for all values of the constants under the modules' named
assumptions (`BillingAssumption`, `SubscriptionAssumption`, `SignalsAssumption`
and so on: a sponsor is another user, prices are positive, the chart thresholds
are ordered), which TLC evaluates in the runs. There are no other assumptions.

* `TypeCorrect`, `BooksAreRight`, `SumsAreRight` and, each property by itself,
  `ChargedOnce`, `NeverInDebt`, `ChargesExtend`, `RecordedCredited`, `PaidFunded`,
  `CactusBinary` (Billing). The properties are
  not inductive. `MoneyInv` adds who holds which row lock at which place
  (`LocksHeld`) and that what a task loaded under a lock is what the table holds
  while it keeps the lock (`LocalsFresh`); from these `Books` follows: balance
  equals ledger, every charge extends, one charge per invoice, no debt.
  `SumInv` adds that locals stem from rows that exist (`RowsExist`), that sums in
  flight are vouched for (`Vouched`), and the bounds on deposits (`Sums`).
  The Redis lock appears in no invariant: the proof shows that the row locks
  alone carry the money, so its TTL is harmless.
* `PromiseKept` (Billing implements Ledger): a Commit is a settlement
  (`CommitSettlesPromise`), a purchase a purchase (`PurchaseBuys`), everything
  else leaves the mapped variables alone or raises `due` (`OthersVouch`).
* `SubscriptionTyped`, `NoFreeTime`, `BooksOffTrial`, `ChargesAsAsked`,
  `TimeKept` (Subscription). `IInv` says who holds the row of the user being
  worked on (`Discipline`), that until the session commits what it loaded is in
  the table (`Fresh`), that a session that committed before a renewal has a user
  with a trial in the books or one outside the window (`GapOnTrial`), and that
  not only `end` but every copy of it in a session is paid for (`Paid`).
  `Frame` shows once and for all that nobody but the bouncer touches rows the
  bouncer holds, `PaidKept` that a step need answer only for the ends and copies
  it writes. `GapOnTrial` rests on the assumption that every paid warning lies
  outside the renewal window, which is so for 23 hours against 60 minutes. The
  theorem would be lost if someone widened that window.
* `AlertsGrow`, `HistoryIsBacked` (Signals), for any events, users, batch sizes,
  stream lengths and faults. `SigInv` adds to the types (`SignalsTypeOK`) that the
  key of a user who lost none stands at least as high as what he was sent
  (`Covered`), that an alert in preparation already has its sum in the key
  (`Prepared`) and was accepted against the alerts before it (`Accepted`), and
  `HistoryBacked` itself. The streams enter only through what a read may return
  (operators of RedisStream), so the proof holds for any redelivery.
* `SignalsMoveAsPromised` (Signals implements SignalFeed's initial state and
  moves, `FeedSafety`; what is missing to `ImplementsFeed` is `Served`, a
  liveness property). `FeedInv`: an entry that was delivered is pending, dropped,
  or its signal has come to the next station (`Settled`; from raw to the ready
  stream, from ready to `handled`), and the artist acknowledges only what it has
  republished. Lemmas about RedisStream say which entries a read, an XACK and an
  XADD leave so (`ReadGroupReads`, `AckSettles`, `AddSettles`), lost replies
  included. `StageFits` then gives each signal's stage: in particular none is
  ever "vanished".
* `LossNeedsBacklog`: a published signal that nobody handled and nobody can read
  has had MaxLen newer entries added behind one of its own in one of the
  streams. On top of `FeedInv` it needs that an approximate trim never reaches
  the newest MaxLen entries (`KeepsNewest`).
* `FilterLosesNothing`, `CascadesDrawn` (TriggerRules), for any population,
  thresholds and signal. The shared prefilter uses the least threshold of its
  users, so whatever passes one user's passes it; `FirstQualifying` says what the
  ranking of the alert types returns, for the brain's and the user's call alike.
* `OnePlaceholder` (MediaResolve), for any number of restorations, deletions and
  expiring locks. `MediaInv`: without trouble only the lock's owner restores,
  and the messenger only while its resolve waits for it (`Excluded`); the
  channel's placeholder is the row's, or the one just posted (`Named`,
  `Posted`); who posts has seen that there is none (`Cleared`).
* `PermitsBalance`, `PermitsSuffice` (Dispatch), for any batch, semaphore and
  number of retries. The permits held are counted as a set, one element per
  level of a call (`Held`); the waiters are exactly those in the line, each once
  (`InLine`, `Queued`). `PermitsSuffice` bounds finding 5: with 25 permits and
  three retries a batch of eight can always go on.
* `CascadesHaveReserve`, `ChartsAreReused` (ChartWorker). `Reserved`: tokens and
  the cascades drawn since the last lesser signal make up the reserve, unless a
  flood emptied the bucket. `CacheInv`: a chart's key lives as long as its upload
  is recent (`Remembered`), and who is about to send found no key (`SendsStale`).
* `NobodyStaysLong` (Gatekeeper). `GateInv`: who is inside was just seen
  (`Present`); a check that still says yes has seen the user in what it has asked
  about no longer ago than it has run (`Favourable`); a favourable key has at most
  its own life and one check behind it (`KeyIsYoung`). No order of the three
  writers is used.
* `OneOrderAtATime`, `ScreensPay` (Checkout). `CheckoutInv`: only
  CactusPay's presses search and create (`Sorted`), who may still make an order
  owns the lock (`Holders`), and while it makes one none like it is open
  (`Unopened`); every CactusPay invoice, also the one about to be recorded, has
  its order there (`Known`). `overlap` is
  the only way out, and the proof shows where: a lapsed lock or a failed search.

* `FeedsNeverDouble` (Listener), for any symbols, chunks and sockets.
  `ListenerInv`: the pool gives a symbol one socket, and what the sync has still
  to add is in nobody's (`Disjoint`); a connected socket carries what the pool
  says and at most the symbol that is joining it, and a socket that left the
  pool under the sync is closed (`Carried`); during `start` nothing else runs
  (`Starting`). The proof is where the two suspended tasks meet: the watchdog
  moves the chunk the sync has chosen.
* `SumsAreExact` (Liquidations), for any number of liquidations, windows and
  restarts. `LiquidationsInv`: the deque is ordered by age without repetition
  (`Ordered`), holds all that is known of the last hour (`Complete`), and rows,
  saves and memory are only of what was handled (`Handled`). Order makes the
  pass that stops at the first old entry exact, completeness the clean-up.
* `PaidSettingsEnd` (Audience), for any tasks, columns and lives. `AudienceInv`
  adds that who is about to write a VIP's setting was admitted as one
  (`Admitted`), so a write after the end is one the property excuses.

**Only model-checked.** Every safety property that a passing run checks is
proved. Liveness and fairness are out of the prover's reach: `ExpiredIsSettled`,
`HandlersReturn`, the `Served` half of `ImplementsFeed`, `ResolveReturns`,
`BatchReturns`, `MembersAreServedHere`, `ListingTrackedHere`,
`SupplySyncedHere`, `CachesCatchUp`. SupplySync has no safety property of its
own and so no theorem. The
five violated properties have their counterexamples.

## 9. Findings

1. `billing_review`: an approved MANUAL invoice is put back to WAITING_ADMIN or
   PENDING by an upload or a rejection that checked the status before.
2. `billing_converges`: a sync with an older WAIT answer puts a PAID CACTUS
   invoice back to PENDING. The money stays credited once.
3. `sub_books`: after a trial's warning is committed, the renewal of the same
   pass charges the balance loaded before the commit; a purchase or deposit made
   in between is lost from the balance. `BooksOffTrial` shows that trials are
   the only case.
4. `sub_bonus`: two presses of the community button issue two bonuses; the time
   is granted once (`NoFreeTime`), because the stale end is prolonged, too.
5. `dispatch_flood`: a retry after a flood awaits itself inside the semaphore, so
   retries hold permits while they wait for more; a batch whose running sends are
   all told to wait leaves every permit held and nobody able to go on.
   `docs/architecture/interface_layer.md` says the semaphore guarantees delivery
   during a storm. `pipeline` shows that the batch returns when there are more
   permits than the retries of the batch can hold, and `PermitsSuffice` proves that
   such a batch of any size never stands still.

`PROJECT.json` quotes the document or comment each one contradicts.

Seen while reading, not run:

* The repository's `README.md:120` lets a signal pass the anti-spam check by
  growth of half or after 180 s; `is_signal_spammy` (`trigger_engine.py:13-15`)
  asks for both, and so does the model.
* `docs/architecture/ingestion_layer.md:45` gives the watchdog 60 s, the code 180 s;
  its test for a silence of the whole network compares `time.monotonic()` with
  `time.time()` (WS 68, 236-241) and so never holds it back.
* WS 272-279: a chunk whose new socket cannot be constructed is served by nobody
  from then on; Listener has it as `lost`.
* `docs/FREEMIUM_AND_GATEKEEPER.md:50` says that the free noise settings cannot
  be changed; dialogue answers and the onboarding's presets do not look at the
  paywall again (`excused` in Audience). Line 346 says that an error of Redis
  closes the gate; RB's `get_key` swallows it, and Telegram is asked instead.
* An administrator who annuls a subscription leaves the VIP's settings in place.

## 10. Not modelled

* **Composition.** Money (Billing), time (Subscription), checkout, gate and
  caches are modules of their own; what one needs of another is an action that
  stands for it (Deposit, Settles, Buys, Expire).
* **Of modelled components:** rounding of money and float error, texts, keyboards
  and notifications (whether a message was delivered is modelled where it decides
  something: cards, warnings, notices, alerts), the payment worker's reminder,
  statistics queries, the rouble price, signatures and formats of the providers,
  topics of the exchange other than liquidations, the warm-up of prices, the
  language of a user, the messenger's metrics. In Subscription the two columns
  `is_trial_used` and `is_community_bonus_used` are one set; both are checked
  before and after the lock in the same way.
* **Market and trade aggregators** (RSI, OHLC, trade counts): arithmetic in
  floating point over one symbol's stream, with no second writer.
* **Dashboard, metrics, broadcast, admin reports, middlewares, presentation,
  configuration, migrations:** reads, text and wiring. `PROJECT.json` gives the
  reason for each. The configuration's constants are CONSTANTS of the modules
  that use them, start-up is their initial states.
