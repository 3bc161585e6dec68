# Formal models of fx-option

TLA+ specifications of the services in this repository, TLC configurations that
model-check them on small instances, and proofs checked by TLAPS. Paths below
are relative to the repository root. `PROJECT.json` lists, for machines, what
this file says in words: components, runs, mutants, the source lines behind
each definition, findings, hazards and theorems.

    tlc -workers 2 -config payments_calls.cfg MCPayments
    tlapm PaymentsProofs.tla

## 1. The system

fx-option is a set of small Python services and two web applications. Nothing
runs as one distributed system: each service is a process with its own files or
database, and most interaction is a call in the same process.

| Part | State it keeps | Operations | Talks to |
| --- | --- | --- | --- |
| `services/payments` | SQLite tables `payments`, `fee_breakdown`, `beneficiaries`, `payouts`; an in-memory `EventQueue` | collect, payout, three webhooks, `get_events` | payment providers, which call back through webhooks |
| `services/audit`, `audit_client` | SQLite table `audit_log`, a hash chain | `append`, `verify`, the `audit_verify` command | writers in any process, one connection per call |
| `services/execution_sync` | `orders.json`, `fills.json`, list of emitted events | `place_hedge` | IBKR, or the gateway's dry-run client |
| `services/gateway` | the above, one instance for all requests | `POST /api/quotes/binding`, `/api/risk/plan`, `/api/execution/orders` | pricing orchestrator, risk and execution_sync, by import |
| `services/execution` | `orders.jsonl`, `fills.jsonl`, a set of watcher tasks, the connection flag | `place_hedge`, watchers, shutdown | IBKR through `ib_insync` on one event loop |
| `services/pricing-orchestrator` | a quote repository and a bus handed in; the gateway hands in fresh ones for every call | `handle_exposure_created` | market data, pricing engine, bus |
| `services/market_data` | cached Banxico FIX, manual spot and volatility stores | `/fx/spot`, `/iv/atm` | Banxico |
| `services/risk` | none between calls | `generate_plan` | the gateway |
| `services/connectors/qbo` | OAuth tokens, company currency, per webhook | the invoice webhook and its background tasks | QuickBooks, exposure topic |
| `services/connectors/siigo` | a cached token | `authenticate`, `create_subscription` | Siigo |
| `apps/portal-web` | the quote card: slider, market data, quote, error | slide, load, leave | the gateway's binding quotes |
| `apps/admin`, `packages/ui-kit` | view state | pages | the gateway |

Where it is hard:

- **payments**: every HTTP call is a thread with a connection of its own.
  Calls with the same key race between SELECT and INSERT; the provider is called
  before anything is stored; an event is published before the transaction that
  justifies it commits; webhooks come early, twice, or in parallel; two locks
  (SQLite's write lock and the queue's) are held at once; a crash loses the queue.
- **audit**: several processes append to one file, and an append is two
  statements.
- **execution_sync and gateway**: a pool of threads shares one storage, one
  emitter and one broker client; files are emptied before they are written; a
  crash or a failed write can hit between the broker and the file.
- **execution**: one event loop, with awaits between the steps of a hedge, and a
  watcher per trade.
- **market data, QuickBooks**: caches checked before and filled after a slow call.
- **quotes**: two effects, neither undone by an error after it, and a latency check
  after both; on the portal several requests in flight, of which only the last counts.
- **risk**: no concurrency, but signs, week boundaries and weighted means, where a
  mistake recommends a hedge that doubles what it should close.

Every hazard found is in `PROJECT.json` under `hazards`, at the line where it
bites, with the properties that watch over it or the reason there is none.

## 2. The modules

| Module | Models | Composed with |
| --- | --- | --- |
| `Payments` | `services/payments`: calls, webhooks, database, queue, crash | refines `PaymentLedger` |
| `PaymentLedger` | what collections promise, with no threads, locks or crashes | |
| `AuditLog` | `services/audit` and `audit_client` | |
| `ExecutionSync` | the execution endpoint of the gateway down to the files and the broker | |
| `ExecutionAsync` | `services/execution`: connection, hedges, watchers, shutdown | refines `HedgeLog` |
| `HedgeLog` | what the two files of `services/execution` promise to a reader | |
| `QboInvoices` | `services/connectors/qbo`: webhook, invoice tasks, tokens | |
| `MarketData` | `/fx/spot` and `/iv/atm` of `services/market_data` | |
| `Quotes` | the orchestrator: fetch, price, save, publish, latency check | the repository and bus of a listener, or those the gateway makes per call |
| `QuoteCard` | the portal's quote card and the gateway's binding quotes | extends `Quotes`, refines `QuoteDisplay` |
| `QuoteDisplay` | what the card promises its user | |
| `RiskPlan` | `services/risk`: from positions to a plan | |
| `Ladder` | how both execution services turn a request into orders | the orders that `ExecutionSync` counts |
| `Desk` | the gateway's risk plan, whose recommendations become requests | extends `RiskPlan` and `Ladder` |
| `PaymentsProofs`, `AuditLogProofs`, `ExecutionSyncProofs`, `ExecutionAsyncProofs`, `QboInvoicesProofs`, `MarketDataProofs`, `QuoteCardProofs`, `DeskProofs` | theorems and their proofs | extend the module of the same name |
| `MC...` | the instances TLC runs | extend the module of the same name |

### Payments

State: `db` is what is committed, `txn` what the holder of SQLite's write lock
sees, `writer` that holder. Python's `sqlite3` opens a transaction at the first
INSERT or UPDATE, so the SELECT that begins a handler is a step by itself on
`db`, and nothing protects what it read. `queue`, `draining` and `batch` are
`EventQueue` and a call of `get_events` in progress; `published` and `received`
are history. `pc` is the place of each call or webhook, `result` the id it was
answered with.

| Action | Code |
| --- | --- |
| `Begin`, `Replay`, `Miss` | `post_collect_create`, `post_payout_create` and the SELECT by key |
| `ProviderCreates`, `GiveUp` | `create_collect`/`create_payout` of a provider with its three attempts |
| `InsertPayment`, `InsertFee`, `InsertBeneficiary`, `InsertPayout`, `Conflict` | the INSERTs and the UNIQUE constraints |
| `Receive`, `Refuse`, `FindRow` | `post_webhook`, the `handle_*_webhook` functions, the SELECT of the row |
| `MarkSucceeded`, `Publish`, `MarkSettled` | `mark_payment_succeeded` |
| `SettleById`, `Publish` | `settle_payment_by_id` |
| `MarkPaid` | `mark_payout_paid` |
| `Commit`, `Rollback` | `db_transaction` |
| `Crash`, `Redeliver` | the process dies and starts again; a provider repeats a webhook that got no 200 |
| `DrainBegin`, `DrainPop`, `DrainEnd` | `get_events` over the generator `EventQueue.drain` |

A row is named after the call that inserts it: ids are uuids and provider
references are random, so both are fresh (this is assumed, not modelled).
Amounts, currencies and links decide no branch and are left out. Handling of
signatures is one refusing step.

### AuditLog

State: `log`, the rows in order; for each writer the content it appends and the
hash it read (`entry`); for each auditor what it verified and counted. `ReadHead`
and `Insert` are the two statements of `append`; the INSERT and its COMMIT are one
step because SQLite shows neither to others until the COMMIT. A hash is the list of all contents
it covers: equal lists, equal hashes, and no collisions. `Edit` is the SQL that the
tests run to tamper with one column of one row.

### ExecutionSync

State: per request its place and current order; the holder of
`OrderStorage._lock` and the rows it loaded; the two files, each torn or not;
what the broker has (`placed`, `filled`); the emitter's list. `dryRun` is chosen
when the process starts. `LoadOrders`
and `DumpOrders` (and the same for fills) are `record_order` cut where the file
has been emptied and not yet written. `Crash` restarts the process: the lock is
free, a file that was being written is torn, the emitter's list is empty.

### ExecutionAsync

One event loop: a step runs from one suspended await to the next, and an await
that has nothing to wait for, such as `ensure_connection` on a live connection, does
not suspend. So the answer to `qualifyContractsAsync`, `placeOrder`, the record of
the order and the request for the next leg are one step. `flag` is
`IBKRClient._connected` and `up` what IBKR thinks; `hpc` says which await a
`place_hedge` is suspended in; `trade` is the broker's view of each leg and
`watcher` the state of `_watch_trade`; `Legs` and `Lot` say how many legs each call has
and of how many contracts. `sent` counts how often a leg may have
reached the broker, the second time through the retry of `place_trade`.

| Action | Code |
| --- | --- |
| `Enter`, `Leave`, `Close` | `__aenter__`, `__aexit__` before and after the gather |
| `Begin`, `QualifyReturns`, `QualifyRaises`, `ConnectReturns`, `ConnectRaises` | `place_hedge` from await to await |
| `PlaceReturns`, `PlaceRaises`, `Register`, `RegisterFails` | parts of those steps: `placeOrder`, its errors, of which a `ConnectionError` is retried once, `_register_trade` |
| `WatchTurn`, `WatchFails` | one turn of `_watch_trade` |
| `Drop`, `Update` | what IBKR does |

`ib_insync` is not in the repository. It is modelled from its use: `connectAsync`
that raises leaves the client disconnected, a call that raises may have reached the
broker, a connection that is lost does not tell the flag, and an update wakes
whoever awaits `updateEvent` at that moment and nobody else.

### QboInvoices

`history` is what QuickBooks knows of each invoice, version by version; a task per
webhook and invoice goes from one HTTP answer to the next. Token and home currency
belong to the webhook, because `handle_webhook` makes its clients anew. A webhook
may name any set of changed invoices, so repeated and merged webhooks are included.
`Authorized` distinguishes the classes as they can be used, with tokens in the
store, from `handle_webhook` as it is wired, with none.

### MarketData

`/iv/atm` answers from its manual store or with 404; `sigma` says whether that store has
the entry. For `/fx/spot`: the clock, the three attributes of `BanxicoFixClient`, and for each request its place
and the clock it read. The three assignments after a fetch are three steps, since
nothing locks them. A quote is named by the time it was asked for.

### Quotes and QuoteCard

A handler of `Quotes` is one call of `handle_exposure_created`, cut at every
collaborator it calls. The same code runs in two deployments, told apart by
`listener`: as the listener of `ExposureCreated` that the service's README describes,
where all handlers share a repository and a bus and every collaborator may raise;
and behind `POST /api/quotes/binding`, where each call has its own in-memory ones,
which never do. `After` is the order of the effects as data. A snapshot carries its
volatility and the premium the engine makes of it, any member of `Premiums`, or zero
without a positive spot; of the pricing only the cap is left. The engine cuts to it at
any volatility: `Threshold` goes with the request in the code and no action reads it
(see "Findings").

| Action | Code |
| --- | --- |
| `Event`, `Receive` | an `ExposureCreated`, or a request of the card that arrives; both clocks are read |
| `Fetch`, `FetchFails` | the market data; incomplete or failing ones ask for a manual sigma |
| `Price`, `Save`, `Publish`, `Raises`, `Finish` | the engine with its cap, the two effects, the latency check |
| `Load`, `Slide`, `Leave` | `fetchMarketData` resolves, the slider moves, the card is unmounted |
| `ShowAnswer`, `Unreachable` | a request resolves, with a quote or an error, or the connection is lost |

The handlers of `QuoteCard` are numbered: the card's n-th request is handler n. React
runs an effect and its cleanup in the step that moves the slider. `QuoteDisplay` is a
counter of settings and the one on display; `wanted <- active` maps the card to it.

### RiskPlan

Pure functions over integer deltas and day ordinals, one per function of
`services/risk`. Value at risk is kept squared (252 times its square), which keeps
order and zero; a mix counts ratios in units of `1/Unit`.

### Ladder and Desk

`Ladder`: pure functions, one per function of `execution_sync/utils.py` and its
counterparts in `execution`. The two actions build the orders of a request, one
per service. Prices are integers in the unit the code rounds to. `Desk` asks for a plan
(`AskPlan`) and hedges a recommendation of it (`Hedge`), or any other request (`Ask`);
that somebody copies a recommendation into a request is the step the repository leaves
to whoever calls the gateway.

## 3. What is checked

| Run | Instance | What it shows |
| --- | --- | --- |
| `payments_calls` | 2 collections, 2 payouts, 1 webhook, 1 key, 1 fault or crash | idempotency and atomicity, answers that last, the key of one table not disturbing the other, and that `Payments` implements `PaymentLedger` |
| `payments_hooks` | 2 collections, 2 webhooks, 1 fault, fairness | order of events and statuses; handlers end; webhooks for committed rows settle them in the end (payouts, whose handlers have the same steps, are left to `payments_calls`) |
| `audit_log` | 2 writers, 1 auditor, 3 appends, 1 edit | what the chain guarantees with overlapping appends |
| `audit_fork` | 2 writers, 2 appends, no edit | **violated**: finding 1 |
| `gateway` | 2 requests of 2 orders, 2 faults, IBKR or dry run, fairness | files and broker agree up to one order per request; torn files; every answer has an event; no request is stuck |
| `gateway_event` | 2 requests, no fault | **violated**: finding 2 |
| `hedge` | a call of 2 legs and one of a leg of 2 contracts, 2 faults, fairness | reconnections, updates, failures between legs, complete files and shutdown, and that `ExecutionAsync` implements `HedgeLog` |
| `qbo_tasks` | 2 webhooks, 2 invoices, 2 changes, tokens, 1 fault, fairness | what is emitted, in any order of tasks, and that every foreign invoice is |
| `qbo_wired` | the same with an empty token store | **violated**: finding 3 |
| `fix` | 2 threads, lifetime 2 and interval 1 or the other way round, timeout 1, 6 ticks | age of cached answers, outages, the rate-limit guard |
| `quotes` | 2 handlers, 2 exposures, validity 3, latency allowed 1, 3 ticks; the card's first 2 requests; fairness | outcomes against effects, events against the repository, freshness, that the card settles, and that `QuoteCard` implements `QuoteDisplay` |
| `desk` | books of 2 exposures and at most 1 hedge, of 21 positions; 1620 other requests | plans that flatten, orders that close their bucket, splitting, tenors; splits, strikes, limits, and expiries that leave out no third Wednesday |

Bounds, and why they are enough. The races here are between two actors of a
kind: two calls with one key, two webhooks for one row, two appends, two
requests on one lock. Two of each make every pair of steps meet in both orders, and a third
actor of another kind (a webhook beside two calls, an auditor beside two
writers) makes the mixed ones happen. One fault or crash (`MaxFaults`) may hit
any step; `gateway` allows two, so that a request meets a file another one tore,
and `hedge` two, so that both calls meet a lost connection, or one call fails twice.
Two legs let a call fail between them; two contracts in a leg let a trade be filled in
part. Two changes are an invoice with an old and a new version, or two invoices
in one webhook. Six ticks
are two lifetimes and two timeouts: a quote can be fetched, mixed with another,
expire, and be replaced. Three appends let an edit be followed by an append that builds on it.
Dates of `Ladder` are the end of a year, a third Wednesday itself and a leap
day. Positions of `Desk` lie on both sides of the week that ends on 31 December 2023,
and are expired, due on a Monday or later, bought or sold, of delta zero or less, with a
mix or without, in a pair with a quote or without one; any two exposures and a hedge of
them meet. Two handlers make every pair of effects and failures meet; three ticks let a
handler be in time, late by one, and later than its quote is valid. Two requests of the
card are one that is answered late and the one that replaced it. `quotes` has one
volatility, at the threshold, where the service's README names no cap, and premiums below
and above the cap; no step depends on the volatility.

Symmetry is used only for sets no property tells apart, and never under fairness. Runs do not check for deadlock: each actor does one thing and the
system then rests; that no actor rests too early is `HandlersEnd`,
`RequestsEnd`, `ShutdownEnds` and `SettingSettles`.

Fairness. The event loop runs what is ready, and HTTP calls end by their timeout.
Nobody promises that a trade ends, so `ShutdownEnds` asks it of those that did. Threads
of the server are scheduled (weak fairness of each handler);
`get_events`, once begun, runs to its end; a provider repeats a webhook that was
not answered with 200, which is what providers do and the reason the handler
lets exceptions escape. A request that a browser has sent reaches the gateway and is answered,
or its connection is lost. No fairness is given to clients, crashes or faults.

### Mistakes the properties find

Each property is broken by a plausible mistake in one definition. The mistaken
form stands just above the definition and no action uses it.

| Property | Mistake |
| --- | --- |
| `OneRowPerKey` | no UNIQUE constraint (`Unconstrained`) |
| `SameKeySameAnswer`, `AnswerIsDurable` | the IntegrityError is swallowed and the call answered (`ConflictAnswers`) |
| `BothInsertsOrNone` | autocommit, each statement commits by itself (`AutocommitBy`) |
| `NeverBack` | `mark_payment_succeeded` stops after publishing (`AfterPublishCommit`) |
| `LedgerSpec` of `Payments` | the webhook does not check that the row exists (`AlwaysRecorded`) |
| `EventsInOrder` | `pop` for `popleft` (`DrainPopLast`) |
| `RecordedSettles` | exceptions are swallowed and answered with 200 (`FailSilently`) |
| `HandlersEnd` | the lock of the queue is not given back (`DrainEndKeepsLock`) |
| `TypeOK` of `Payments` | the webhook instead of its payment is published (`SubjectIsThread`) |
| `SequentialAppendsVerify` | ORDER BY id without DESC (`PreviousHashFirst`) |
| `ForkKeepsEntries` | the previous hash is read again for the column but not for the hash (`InsertOver`) |
| `EditDetected` | links are compared and hashes are not (`VerifiesLinksOnly`) |
| `AnsweredIsRecorded` | no lock around load and dump (`LockIgnored`); the slice of events starts one too late (`LastEventSkipsOne`) |
| `OneUnrecorded`, `TornStays` of `ExecutionSync` | a file that does not parse is taken for empty (`LoadForgives`) |
| `RequestsEnd` | a failed write keeps the lock (`DumpRaisesKeepsLock`) |
| `LogSpec` of `ExecutionAsync` | the watcher is created before the order is recorded (`RegisterFailsWatched`) |
| `NoLostUpdate`, `ShutdownEnds` | the watcher waits again without asking `isDone` (`WaitOn`) |
| `ClosedIsDisconnected` | `connect` does not set the flag (`ConnectedUnmarked`) |
| `OneUnrecorded` of `ExecutionAsync` | the next leg goes on after a failed record (`RegisterFailsOn`); `placeOrder` is retried for ever (`PlaceRaisesAgain`) |
| `ClosedIsComplete` | no gather at the end (`CloseAtOnce`) |
| `NewestEmitted` | invoices are cached (`FetchCached`) |
| `OnlyForeignEmitted` | a failed company lookup is taken for another currency (`InfoIgnored`) |
| `EveryForeignEmitted` | an invoice is emitted once only (`DecideOnce`) |
| `HitIsRecent` | a failed fetch prolongs the lifetime (`FetchFailsKeeping`) |
| `OutageIsBridged` | an expired quote is dropped before the fetch (`CheckDiscards`) |
| `OrdersAsAsked` | rounding up (`AllocateRoundsUp`); an even ladder keeps the base strike (`LadderKeepsBase`); slippage is subtracted for both sides (`LimitAgainst`) |
| `HedgeCoversDueDate` | a calendar whose week starts on Sunday (`ThirdWednesdaySundayFirst`) |
| `PlanFlattens` | a week ends on the Monday after it (`NextMonday`) |
| `OrdersCloseBucket` | the recommendation takes the side of the exposure (`SideFollows`) |
| `SplitChangesNothing` | positions are counted, not weighted (`WeightOfOne`) |
| `TenorInRange` | the blended mean divides by the exposures alone (`BlendedByExposure`) |
| `TypeOK` of `QuoteCard` | the cap only below the volatility threshold, as the service's README has it (`CappedWhenCalm`) |
| `OutcomeMatchesEffects` | an error of a collaborator is swallowed (`RaiseSwallowed`) |
| `EventHasQuote` | publish before save (`AfterPublishFirst`) |
| `AnsweredIsFresh` | the latency is measured from after the fetch on (`LatencyFromNow`) |
| `DisplaySpec` of `QuoteCard` | an effect that was cancelled still sets the quote (`NotCancelledEver`) |
| `SettingSettles` | a failed request sets no error (`ShowQuoteOnly`) |

### Findings

1. **Overlapping appends fork the audit chain** (`audit_fork`,
   `services/audit/db.py:40`). Two writers read the same last hash; both insert
   rows with that `prev_hash`; `verify` then raises for a log nobody changed.
   `tests/test_audit_chain.py:32` verifies a log written by `append` alone.
   `ForkKeepsEntries` shows what is left: every entry is there and its own hash
   is right, so the fork can be told from an edit of the content.
2. **An answer may carry the event of another request** (`gateway_event`,
   `services/gateway/app.py:189`). `tests/test_gateway.py:83` expects the
   event's side to be that of the request.
3. **The webhook of QuickBooks cannot read an invoice** (`qbo_wired`,
   `services/connectors/qbo/webhook.py:102`). Its token store is always empty and
   nothing puts tokens into it; every fetch fails and is logged.
   `docs/connectors/QBO.md:47` promises an event for every foreign invoice with a due
   date. `qbo_tasks` shows that tokens in the store are all that is missing.

One more disagreement needs no run that fails. **The cap does not depend on the
volatility**: `services/pricing-orchestrator/README.md:7` promises a "5% cap when implied
volatility is below 2%", and `orchestrator.py:99` passes that threshold to the engine, which
cuts every premium to the cap (`pricing_engine.py:45`) and never reads it. `TypeOK` of
`QuoteCard` states what the code does, no price above the cap, and `quotes` checks it at a
volatility that is not below the threshold; the README's rule in place of the code's
(`CappedWhenCalm`) breaks it.

What holds is at times weaker than one would like. `HitIsRecent` allows a cached
quote one timeout more than the limits say, and needs it: a late fetch can put its
older quote under the expiry of a younger one. `OneUnrecorded` of both services
leaves one order that is live and in no file, and `place_trade` may send it twice.
A quote whose caller got `SLAExceededError` is saved and announced all the same
(`OutcomeMatchesEffects` says so, and the service's test expects the error).

Seen while modelling, and not stated as properties because nothing in the repository
says what should hold:

- `binding_quote` answers with the quote itself, `requestBindingQuote` reads a field
  `quote` of the answer (`apps/portal-web/lib/api.ts:48`). Against this gateway the
  card never leaves its placeholder, which is drawn instead of the error
  (`quote-slider-card.tsx:146`). `wrapped` models both forms, so that the card's
  ordering is checked with answers that do arrive.
- The card keeps a premium after its `valid_until`, and the safety buffer of
  `Quote.with_safety_buffer` is applied nowhere.
- Only twelve expiries are generated, and those before the due date are dropped, so a
  request for twelve or more is hedged with fewer (`execution_sync/service.py:33`).
- The tenor of a bucket after hedging is the mean over exposures and hedges, so a long
  hedge can raise the value at risk of a bucket whose delta it lowers.
- The counters of the admin pages are reset five seconds after an error of the stream,
  also when newer numbers have come since (`apps/admin/components/RealtimeCounters.tsx:31`).
- Positions with a negative delta and the side `sell`, as the pages of `apps/admin`
  send them, count as bought (`services/risk/models.py:48`).

## 4. What is proved

TLC checks instances; the theorems hold for every value of the constants that the
assumptions of the modules admit. Every property of a passing run is proved but the
liveness properties. Each proof module but
`DeskProofs` proves one invariant, a conjunction
of named parts with a lemma per part and in it a step per action, and the theorems
follow from it. TLC checked each invariant on the instances above before it was proved.

| Module | Theorem | States |
| --- | --- | --- |
| `PaymentsProofs` | `TypeCorrect`, `UniqueKeys` | `TypeOK`, `OneRowPerKey` |
| | `AnswersDurable`, `OneAnswerPerKey`, `InsertsTogether` | `AnswerIsDurable`, `SameKeySameAnswer`, `BothInsertsOrNone` |
| | `StatusNeverBack`, `EventOrder`, `LedgerRefinement` | `NeverBack`, `EventsInOrder`, the refinement of `PaymentLedger` |
| `AuditLogProofs` | `ForksKeepEntries`, `SequentialVerify`, `EditFound` | `ForkKeepsEntries`, `SequentialAppendsVerify`, `EditDetected` |
| `ExecutionSyncProofs` | `AnswersRecorded`, `AtMostOneUnrecorded`, `TornForEver` | `AnsweredIsRecorded`, `OneUnrecorded`, `TornStays` |
| `ExecutionAsyncProofs` | `TypeCorrect`, `NoConnectionLeft`, `LegsInOrder` | `TypeOK`, `ClosedIsDisconnected`, `OneUnrecorded` |
| | `NothingMissed`, `FilesComplete`, `FilesImplementLog` | `NoLostUpdate`, `ClosedIsComplete`, the refinement of `HedgeLog` |
| `QboInvoicesProofs` | `NothingElseEmitted`, `NewestAmongEmitted` | `OnlyForeignEmitted`, `NewestEmitted` |
| `MarketDataProofs` | `TypeCorrect`, `HitsRecent`, `OutagesBridged` | `TypeOK`, `HitIsRecent`, `OutageIsBridged` |
| `QuoteCardProofs` | `TypeCorrect`, `NoEventAlone`, `EffectsOfOutcome` | `TypeOK`, `EventHasQuote`, `OutcomeMatchesEffects` |
| | `AnswersFresh`, `CardImplementsDisplay` | `AnsweredIsFresh`, the refinement of `QuoteDisplay` |
| `DeskProofs` | `HedgedPlanIsFlat`, `SplitNetsTheSame`, `TenorsInRange` | `PlanFlattens`, `SplitChangesNothing`, `TenorInRange` |
| | `OrdersAsRequested`, `DueDateCovered`, `BucketsClosed` | `OrdersAsAsked`, `HedgeCoversDueDate`, `OrdersCloseBucket` |
| | `WeekBounds`, `RoundIsNearest`, `BlendStaysInRange`, `RecommendationsClose` | what the parts of a plan compute, for all numbers |
| | `ThirdWednesdayFound`, `SharesAreEven`, `LadderCentred`, `LimitsTolerate` | the same for the parts of an order |

### Assumptions

They are on constants only. Bounds are naturals, `Orders`, `Legs` and `Lot` are
positive, some content can be written to the audit log, `Sla < Validity` (200 ms and the
seconds a quote is valid, in `orchestrator.py`), and names that TLA+ would not keep
apart by itself are different: the sets of `Payments` are disjoint; `None` is no
request, exposure, snapshot or quote; the names in a `/fx/spot` answer are no clock readings.
`BooksAssumption` says of the books of `Desk` what `PositionInput` and `Position` do:
lists of positions whose expiry, delta and quantity are numbers or missing, and whose
mixes, if there, give numbers to finitely many strikes. Any sides, pairs, strikes and
lengths are admitted, negative and zero numbers too. `Unset` is no number, `Unit` is
positive, and valuation day and `Vol` are integers; premiums, volatilities, cap and threshold
of `Quotes` are naturals. `RequestsAssumption`,
`PricesAssumption` and `TermsAssumption` say of a request what `ExecutionOrderRequest`
validates: existing dates of any year, positive quantity, layers, expiries and step, a
slippage that is not negative, a side. `CalendarAssumption` says that every day from the
expiry of a position to the end of its week is among the dates from which the request for a
recommendation takes its due date, and `NoRequest` is no book.
Nothing is assumed of the sizes of the sets, which may be infinite or empty unless a
bound says otherwise.

### Why the invariants are what they are

- **Payments.** `OneRowPerKey` speaks of the committed tables, and the step that
  adds a row changes only those of the transaction. `IInv` adds who is inside a
  transaction (`LockInv`), that keys are unique in it too (`KeyInv`), that a call which
  has not inserted has no row (`FreshInv`), and that a payout has its beneficiary's key
  (`PairInv`), so that one constraint keeps both tables unique.
- **Ledger.** A COMMIT publishes all that was written under the lock, so what it does
  depends on what the transaction differs in from `db`. `TxnInv` says that for each
  place its holder can be: nothing but the row of its subject, and of that row just the
  inserts or the status so far. `StoredInv` describes committed rows, `CallInv` calls
  without and with an answer, `WebhookInv` webhooks, with the row each found and the
  event it published. A crash restores `txn` from `db` and needs all four.
  Refinement: `Commit` of a call accepts, that of a webhook settles, `Publish`
  announces; every other step stutters.
- **Audit log.** Between its SELECT and its INSERT a writer keeps a hash that must
  still be one of the log's (`HeadInv`): this is what survives a fork. After an edit some
  entry no longer has its own hash (`EditInv`), and an append only adds entries. The
  lemma on `Verifies` of a longer log connects `append` and `verify`. Hashes are
  sequences, and `Append` is injective.
- **Execution, synchronous.** While a file is being written its rows are in memory
  only. `OrderSafe` and `FillSafe` therefore say where a recorded order is: in what the
  writer loaded, if somebody writes, and otherwise in the file, or the file is torn. The
  lemma `SafeKept` shows once for all steps that such an order stays safe; the lock is
  what makes the loaded rows current (`LockInv`). `TornForEver` is a property of
  behaviours: the torn, unlocked state is shown to be closed under steps.
- **Execution, asynchronous.** A connection the flag does not know of belongs to a task
  on its way to set it (`LinkInv`), so behind the block there is none. `LegInv` counts,
  by the place of a call, how often each leg may have been sent. `WatchInv` compares what
  a watcher has written (`Told`) with what the trade says: never more, equal when it
  waits or is done. Refinement: a registration adds an order to `HedgeLog`, a turn of a
  watcher a report that is not older than the last one, by `WatchInv`.
- **Quotes.** `StageInv` and `EffectInv` say by the place of a call what it has computed,
  saved and announced; behind the gateway every handler belongs to a request that was sent.
  Refinement: a slide wants a new setting, an answer that is shown is the one for the last
  request, since every older effect is cancelled.
- **QuickBooks.** A version that a webhook spoke of and that is still the newest is emitted,
  or there is a task that can still emit it or has failed (`OweInv`). `VersionInv` keeps a
  task from having seen a version that does not exist.
- **Plan.** A behaviour of `Desk` only says which book was asked about and that the plan is
  its plan (`BookInv`); the rest is about sums over a bucket. Such a sum is defined by
  choosing one element after the other. By induction over the parts of a finite set
  (`SmallestPart`: if some part were bad, there would be a smallest) it is shown to exist, to
  be any element plus the sum of the rest (`SumTakes`), to split and to move with its
  elements. `HedgedPlanIsFlat`: a bucket of two lists joined has the sum of both deltas; the
  recommendation of a week falls into that week (`WeekBounds`) and no other, with the
  opposite delta. `TenorsInRange`: a weighted sum lies between its extremes times the weight
  (`SumBetween`), exposures and hedges together, and rounding does not leave a range of
  integers. `SplitNetsTheSame`: the two halves have the key, days and ratios of the whole,
  and their deltas and weights add up to its own, so every sum of every bucket is the same.
- **Orders.** `OrderInv` says that what was built was built from the request, and that every
  request is one the endpoint accepts; `ItemInv` that a request for a recommendation was made
  from it. `KeepsStretch` shows what a loop keeps that skips elements at the ends, for the
  expiries before the due date as for the shares of nothing at the end. `SharesAddUp` adds the
  shares one by one, `RowAndPlace` keeps orders of two expiries or strikes apart, and `Mirror`
  pairs the strikes. `DueDateCovered` needs the calendar: `MonthFollows` derives from the
  definition of an ordinal that each month begins where the one before it ended, leap years
  included, so that third Wednesdays ascend and the due date is past one of them at most; weeks that
  differ by a month's days differ by four or five. `MonthlyAreAll` says that no month has
  another, and `RowBegins` finds among the orders one for every expiry before a given one:
  the shares of nothing, which are skipped, come last.
  `BucketsClosed` joins both halves: the orders add up to the quantity, the quantity and the
  side are those of the recommendation, and its delta is the opposite of its bucket's.
- **Market data.** Three assignments of several threads may mix. `CacheInv` bounds
  how much older than the expiry and the time of the last request the quote
  beside them can be, by the time Banxico may take (`ClockInv`).

### Only model-checked

- Liveness: `HandlersEnd`, `RecordedSettles`, `RequestsEnd`, `ShutdownEnds`,
  `EveryForeignEmitted`, `SettingSettles`. Fairness and ENABLED are beyond the prover.
- The bound that `TypeOK` of `QboInvoices` puts on the changes of all invoices.

## 5. What is not modelled

- Real arithmetic: Black-Scholes, square roots, percentages, the portal's premium
  curve; in `RiskPlan` the tolerance of 1e-9, which integers do not need.
- `simple_var` raises for a spot that is not positive or a negative volatility; such a
  request gets no plan and is left out. Likewise pairs other than USDMXN in `/fx/spot`,
  which are refused unless the manual store has them.
- Formats: JSON, timestamps, HTML, signatures (a refusal is one step).
- Providers, IBKR, QuickBooks and Siigo beyond what the code sees of them. The
  package `ib_insync` is not part of the repository.
- Pages, styles, the UI kit, repository scripts.
- Siigo: a command-line tool that makes one call after the other in one process; its
  token is gone with it and never reused late.
- The counters of the admin pages, which count what a stream of random samples sends.

The type invariants of `AuditLog`, `ExecutionSync`, `ExecutionAsync`, `QboInvoices` and
`MarketData` are part of the invariants that are proved; no run lists them.

## 6. Plan

The safety properties of the runs and the three refinements are proved. What is left is to
state what the audit log and `orders.json` promise as abstract specifications, as
`PaymentLedger` and `HedgeLog` do for their components, and to prove that `AuditLog` and
`ExecutionSync` implement them; and a property for the hazards that have none yet.
