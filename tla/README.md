# Verification of the ChainFX payment gateway

TLA+ modules for the flows of the Go gateway in `src/payment-gateway`, the TLC configurations that model-check
them on small instances, and TLAPS proofs of the results that matter most for every instance. Paths below are
relative to `src/payment-gateway/internal` unless they say otherwise.

Every definition is a translation of the Go and SQL it is mapped to in `PROJECT.json`. An action is one *atomic step
of the program*: one SQL statement (or one transaction, where the code opens one), one exchange with a provider, or
the local computation between two of them. A goroutine that reads a row, calls a provider and writes a row is three
actions, and everything else in the system can happen between them. That is where the defects of such a gateway live,
and what its tests, which call one function at a time, do not reach.

Contents: 1 inventory, 2 modules, 3 runs, 4 fairness, 5 proofs, 6 disagreements, 7 what is not modelled, 8 plan.

## 1. Inventory

One Go service (HTTP server and background workers over PostgreSQL), its migrations, and the pages and SDKs that call
it. Several replicas run against one database; within a replica, workers talk over an in-memory `EventBus` that drops
events when a buffer is full and forgets everything at a restart. The money moves outside: at Efí (Pix, cards), at a
signer service (on-chain transfers), at BingX and other liquidity providers, at Bitrefill, on EVM chains, Bitcoin and
Solana. Nothing outside is transactional with the database, so each flow must survive lost answers, repeated calls,
crashes and two replicas on one row.

| Component | State | What makes it hard | What makes it correct |
|---|---|---|---|
| SELL payout `workers/payout.go` | `orders`, `sell_payout_executions` | recovery loop and replicas on one row; a submit that times out and arrives later | one Pix per order; `concluida` only when paid; verdicts final |
| SELL deposits `workers/onchain.go`, `sell_expiry.go` | `orders.deposit_tx`, cursor, incidents | watchers share a cursor; expiry between check and write | a transfer pays one order, in time, confirmed; none is skipped |
| BUY orders `server/settlement_handlers.go`, `workers/buysend.go` | `buy_orders`, events | notifications repeated and out of order; refund against delivery; re-claim after 60 s | crypto only for paid orders, once; failed means undelivered; sent is final |
| Quotes and charges `server/quote_handlers.go`, `buy_handlers.go`, `payment_provider.go` | quotes, cached tokens | one token per process, fetched by one for all | a quote is used once, at its rate; nobody waits in vain |
| Liquidity `liquidity`, `workers/buy_liquidity.go` | attempts and their records | a lost answer is taken for a refusal | what is offered is routed; the record tells who ran |
| BTC treasury `bitcoin/treasury_*.go` | UTXOs, operations, advisory lock | session lock on a pool; stale lists; ambiguous broadcast | one transaction per order; inputs kept while it may be mined |
| Bitcoin wallets `bitcoin/service.go`, `worker.go` | UTXOs, withdrawals | tracker rebroadcasts what Send gives up | a withdrawal spends once |
| EVM and Solana wallets `mobile/transfer.go`, `solana` | transfers, nonces, signatures | keys repeated, nonces shared, blockhashes expire | a key moves money at most once |
| NFC (Tap) `database/nfc.go`, `workers/nfc_merchant_settlement.go` | balances, holds, settlements | capture, reversal and expiry meet | balance conserved; one Pix per capture |
| Mobile Pay `mobile/pay*.go` | payments, executions, refunds | a refund while the Pix is in flight | what is booked happened; a refund is of a Pix that failed, unless the Pix was sent twice (section 7) |
| Mobile trades `mobile/idempotency.go`, `trade_quotes.go`, `orders.go` | keys, quotes, BTC fundings | repeats, two quotes, two workers | one order per quote; paid means funded |
| DCA `workers/dca.go` | strategies, executions, ledger | two goroutines on one window | reserved is captured or released; totals are delivered |
| M2M settlement `database/m2m.go`, `workers/m2m_settlement.go` | intents, deposits | shared addresses, repeated scans | a deposit funds one payment and covers it |
| Agents and x402 `database/access.go`, `marketplace.go`, `agent_trade.go` | grants, quotes, credit, trades | replayed proofs, cut-off requests | one grant per payment, one settlement at a time |
| Routes of capabilities, MCP, tasks `server/a2a*.go`, `mcp` | executions, limits, caches, tasks | fallbacks, shared builds, eviction | answers tell who ran; limits hold |
| Paymaster `paymaster`, `database/gas_station.go` | relays, jobs, locks | locks that expire, batches, polls | a signature pays once, for its own request |
| Gift cards `mobile/gift_cards.go`, `commerce_worker.go` | orders, outbox, money | provider reports late or twice | bought once, money back once, captured only for an order that the provider has |
| Swaps, sweeps `workers/swap.go`, `auto_sweeper.go`, `sweep.go` | rows, operation ids | balances read earlier; "sent" without a transfer | moved at most once |
| Accounts and verification `mobile/auth.go`, `kyc*.go`, `workers/kyc.go` | users, codes, caches | deletion beside a request; three deciders | a shown wallet has its key; verified was cleared |
| Gate `server/middleware.go`, `penaltybox.go` | counters, bans, keys | a key rotated during a ban | limits and announced bans hold |
| Bus, webhooks, breakers `workers/bus.go`, `webhooks`, `resilience`, `rpc` | channels, queue, breaker | locks held while waiting; late results | reached once; nobody waits for ever; one probe |

Interactions: a confirmed deposit makes an order `pago` and **SELL payout** takes it from there (SellDeposit reduces the
payout to `PayoutConcludes`, SellPayout the watcher to `DepositConfirmed`). The **BUY** worker claims every paid order
and calls the liquidity router, the hot wallet, or for `BTC:BITCOIN` the **treasury**. **DCA** creates BUY orders that
are paid from the start, and completes on `buy.sent`. The watcher of deposits also serves **M2M** intents. The **bus**
only saves waiting wherever a scan looks for the same rows; where no scan does, the drop is part of the model.

## 2. The modules

| Module | Models | Checked in |
|---|---|---|
| `PayoutPromise` | abstract: one transfer of an order, requested once, settled once; `completed` only after it, for ever | `payout` |
| `SellPayout` | the payout worker, its SQL, the webhook, the signer's call, payment by hand | `payout`, `payout_live` |
| `SellDeposit` | the SELL part of the watcher and the expiry worker | `deposit` |
| `M2MSettlement` | intents, deposits, settlement worker, card and Pix branches, operator | `deposit` |
| `MobileTrade` | idempotency gate, quotes, token and BTC sales, the funding worker | `deposit` |
| `BuyOrder` | creation, notifications, expiry, claim, delivery | `buy`, `live` |
| `WalletTransfer`, `SolanaWallet` | transfers of custodial wallets, with nodes, nonces, blockhashes | `buy` |
| `BtcTreasury`, `BtcWallet` | the treasury with its router; withdrawals, tracker and orphaning scanner | `treasury` |
| `MobilePay` | confirm, execution, webhook, refund | `services`, `live` |
| `NfcSettlement` | holds, captures, and the Pix to the merchant | `services` |
| `DcaCycle` | windows of a strategy, their reserve and their order | `services`, `dca_together` |
| `GasRelay` | submission, batcher, dispatch, poller, dead-letter mark | `services` |
| `AgentTrade`, `AgentAccess`, `GiftCardOrder` | trades; purchases, grants, metering; gift cards | `commerce`, `trade_twice` |
| `RpcPool` | breakers, retries and choice of a node | `platform` |
| `TreasurySweep`, `TokenSwap` | both sweepers; quote, request and worker of a swap | `platform` |
| `BuyCheckout`, `LiquidityRoute` | quote, charge and tokens of a BUY; providers and fall back | `platform` |
| `EventBus`, `WebhookDelivery` | the bus with its lock and timer; dispatcher, queue and retries | `platform`, `live` |
| `KycReview`, `MobileAccount`, `RequestGate` | verification; accounts, sessions, wallets; limits, bans, keys | `platform` |
| `CapabilityRoute`, `McpServer`, `AgentTask` | routing of an execution; tools, limits and catalog; tasks of agents | `platform` |
| `MC...` | instances for TLC; a run of several modules chooses a *scenario* in its initial states | |
| `...Proofs` | theorems (section 5) | |

Conventions. `task[w]`, `poll[p]`, `call[c]` and the like are a goroutine's program counter with the values it read and
still holds; a crash, a deadline or a failed last write resets it and keeps the database. Variables marked *external*
are the truth outside (transfers at Efí, a chain, what the signer did): the code reads them only through a provider's
answer, and the properties compare the database with them. `wire` is what has been posted and has not arrived; it may
arrive after its sender gave up. Time is an action, enabled when a comparison of the code may become true
(`RateLockExpires`, `SixtySecondsPass`, `ProcessingAges`). Operators commented "Mutant" are plausible bugs beside the
operator they would replace; no specification uses them.

What a reader may look for in a module, and what the code does that the module shows without a finding:

- **SellPayout** `Begin` decides as the head of `processHardenedPayout`; `Claim` and `Ensure` are two statements;
  `MarkSubmitStarted` writes before the PUT and does not report whether it matched; `Mark...`, `ApplyProviderEvent`
  each carry their own `WHERE`. `Mode` is per replica, as replicas are configured separately during a rollout. A claim
  without a row leaves an order in `processando_payout`. `processPayout` and `callEfiPix` have no caller.
- **SellDeposit** reads the head, lists orders and logs, then matches, checks and writes in separate actions, and saves
  the cursor even after an error (the order of `ARCHITECTURE.md:129` is then never marked). The incident of a replay
  is opened although its status write is refused by the unique index.
- **BuyOrder** `seen` is the index that makes a provider event count once; `hand` a notification read and not applied;
  `ApplyWebhook` the whole transaction with the late-payment branch and the `NOT` clauses. A second payment of an order
  under review would set it to `pago_fiat`; `OnePaymentAssumption` excludes it (a Pix charge is paid once). Card statuses
  are re-read and may be applied in the wrong order (`server/settlement_handlers.go:486`).
- **BtcTreasury** `ListUtxos`, `UpsertUtxos`, `ReadActive`, `MarkOrphaned` are the sync statement by statement; the
  advisory lock is a *session* lock on any connection of the pool: granted again on the connection that holds it, and
  perhaps never released. The statuses `failed_before_*` are refused by the table's `CHECK`
  (`bitcoin/treasury_service.go:379`), so a failed operation stays open. A stale list may take a spent UTXO back
  to `confirmed` while another operation names it, which is harmless on the chain; `InputsServeOrders` says so.
- **BtcWallet** takes UTXOs as recorded (`UpsertUTXO` has 13 placeholders and 12 arguments). Send and the tracker
  race: a row in `broadcast_unknown` may have free inputs. Answers 5xx count as definite.
- **WalletTransfer**: the row is inserted with the default `submitted`; a `failed` row may have moved; a nonce taken by
  another is never reconciled; the placeholder of `tx_hash` has no user, so equal keys of two users collide.
- **SolanaWallet**: a reserved row without signature stops the tracking of all; a submitted row asked too early becomes
  `pending`, which no list holds; a late write may put `submitted` over `confirmed`.
- **MobilePay** includes writes lost to untyped parameters of `jsonb_build_object`; a retry after an ambiguous PUT may
  PUT again (against the name of the test `pay_execution_worker_test.go:62`), and a 400, 401, 403 or 404 of that second
  PUT counts as a refusal (`mobile/pay_execution_worker.go:1232`) and starts a refund although Efí may have taken the
  first. `again` remembers the payments whose PIX was sent on top of a PUT that Efí had or could still get:
  `RefundedIsUnpaid` says of all others that what went back was not paid, and TLC refutes it without the exception.
- **NfcSettlement**: the authorization's INSERT has 19 columns and 20 values, so it fails as written. The module assumes
  the row that its column list and its struct suggest: what it shows holds for the code once the statement is
  corrected. A confirmation after manual review is ignored; a 2-minute-old claim is taken for stopped.
- **DcaCycle**: the context of `execute` ends after 30 s and a failed attempt waits five minutes, so `AttemptDue` and
  `ProcessingAges` come when no goroutine holds the window; `age` is that of `processing_at`, which later attempts keep.
  A released reserve makes every retry fail; `buy.sent` before the link, or lost, leaves funds locked;
  `buy.failed` never releases; the reserve may be released while the order is delivered.
- **M2MSettlement**: addresses are shared since migration 015; the daily cap counts settled intents only; any
  `endToEndId` counts as settled; deposits to expired intents match nothing; intents may stay in `settling`.
- **MobileTrade** takes deposits as events (nothing publishes them as the code stands); two sales of equal amount make a
  deposit ignored; a processing key stays after a crash; a failed forward may leave two orders for one quote.
- **GasRelay**: rows never become `sent`, so they are polled for ever with amount "0"; after a multicall the zero job
  may mark a delivered relay `dlq`.
- **AgentAccess**: an activated x402 token is lost when the request ends; a NULL `payment_id` makes
  `ConsumeAccessUsage` fail for marketplace grants; the spend limit of an agent is checked before the insert of another
  transaction (`database/agent_policy.go:326`); one transfer may fund a row in each of three tables.
- **AgentTrade**: a crash between Confirm and Complete leaves a trade `paid` for ever.
- **GiftCardOrder**: on-chain orders get the transaction as provider reference, so the worker looks it up and never
  buys; a crash leaves an outbox row `processing`; a 5xx releases the funds though the card may be bought.
  `markCommerceOrderProviderUnknown` (`mobile/commerce_worker.go:266`) overwrites `refunded`, and the "delivered"
  branch (`mobile/commerce_worker.go:356`) looks at `captured_at` only: with three workers and two wallet orders a
  late report of a delivery captures what the other order has locked, so `MoneyGoesBackOnce` does not say that a
  released order captures nothing. A redemption field that is absent prints as "<nil>" and counts as a voucher
  (`mobile/bitrefill_provider.go:304`; the mock of `bitrefill_provider_test.go:122` leaves two out), so `Reading` may
  take any order that Bitrefill has for delivered; `CapturedWasBought` says what is left of "paid for a voucher".
- **LiquidityRoute**: the app, the web and the worker read the configuration with code of their own: an empty list of
  assets is "all" for the worker and "none" for the others, and USDT of a network other than BSC goes through HTTP
  services in the app while the web also takes BingX; what is offered is routed all the same. A BingX withdrawal that fails after the market buy drops the execution and goes on to the next;
  one timeout covers quotes and executions; quote ids returned on conflict break the foreign key of the record.
- **BuyCheckout**: a BTC quote charges the withdrawal fee twice; a consumed quote is not given back when the charge
  fails; a paid charge may have no order (`server/buy_handlers.go:207`); the Pix path has no retry on 401.
- **TreasurySweep**: `workers/sweep.go:165` records "sent" on any 2xx, without a hash and without the status, which may
  be `signed`, `broadcast_unknown` or `manual_review`: the signer has `due` transfers and `SignerMoves` makes them, at any
  time or never. The automatic cycle reads base units and compares and sends with six decimals
  (`workers/auto_sweeper.go:122`), where USDT on BSC has eighteen (`workers/onchain.go:99`): `Scale` is the factor
  between, and at any factor but one what is asked for is not what is above the reserve, so no property says that
  the reserve stays. The amount is part of the operation id, so the same amount is never swept again though recorded;
  `derivation_index` is never written, so `OrdersToSweep` finds nothing.
- **TokenSwap**: nothing starts the worker (`NewSwapWorker` has no caller); with a key of its own two can both broadcast;
  through the signer a swap is completed on any 2xx with a hash and no receipt is awaited
  (`workers/pancake_swap.go:252`), so a reverted one reads completed, and `ToldIsTrue` says only that it was sent.
- **EventBus**: `Shutdown` has no caller and workers stop without `Unsubscribe`, so a publisher waits two seconds per
  critical event. **WebhookDelivery**: two triggers share one payload map; four workers sleep up to 42 minutes in
  backoff; the queue is in memory; `workers/webhookdelivery.go` has no caller.
- **RpcPool**: a request admitted while closed may end in half-open, so "exactly one" probe of
  `resilience/circuit_breaker.go:22` is not what happens; the property is that a probe is never stuck.
- **MobileAccount**: a refresh in flight at logout revives the session; the cache may admit a deleted user for five
  seconds; a generated wallet may replace an attached one, whose key is kept. **KycReview**: a late decision
  of the worker overwrites a human one; every replica runs a worker, and two may count a face before either keeps it
  (`workers/kyc.go:85` and `117`): `UnderWay` notes such requests, like those whose check failed, in `unchecked`.
- **RequestGate**: counters are per secret, so a rotated key starts afresh, and a rotation reactivates a revoked key;
  an entry idle during a ban is forgotten with it.
- **CapabilityRoute**: the first provider's failure is not in its metric when a fallback answers; a repeat during an
  unfinished execution is told "completed"; a fallback ignores the requested provider and region.
- **McpServer**: a build runs in its first caller's context; a repeat with other details is told the first intent.
  **AgentTask**: the store evicts the oldest task even when it runs; everything is in memory.

## 3. What is checked

| Run | Instance | Distinct states | Question |
|---|---|---|---|
| `payout` | race: 1 order, 2 automatic activities, a signer call, a crash; modes: 2 orders (one without amount), 4 replicas | 649,632 | one Pix; concluded is paid; submissions do not pile up; PayoutPromise is implemented |
| `payout_live` | 1 order, 2 activities, fairness, no signer call | 127,597 | paid orders close, ambiguity resolves |
| `deposit` | 2 orders of one amount at a shared wallet, or one at its own; M2M; sales; the gate; 2 watchers, 3–4 blocks, 1 error | 1,914,986 | credited once, confirmed, in time; nothing skipped |
| `buy` | a Pix and a card order, 2 handlers, 2 goroutines, 1 failure; or 4 EVM transfers; or 2 Solana transfers | 1,149,220 | delivery is paid and happens once; a key moves once |
| `treasury` | orders of 1 and 2 inputs, 3 UTXOs, 2 goroutines, 1 failure; or 2 withdrawals and the tracker | 1,662,518 | one transaction per order; inputs kept; books true |
| `services` | Mobile Pay, Tap, DCA, gas station, each with 2 or 3 workers | 775,017 | the books agree with the money that moved |
| `commerce` | 2 trades and 2 transfers; 3 purchases; 2 gift cards | 729,924 | nothing charged, settled, run or refunded twice |
| `platform` | 24 scenarios of the services around the orders | 1,344,880 | breakers, charges, messages, customers, routes |
| `live` | a Pix and a DCA order; a payment; a bus of 2 workers | 85,916 | paid orders end, payments end, publishers go on |
| `treasury_bingx`, `trade_twice`, `dca_together` | the smallest instance that shows it | | section 6 |

Why these bounds. Each hazard needs two actors on one row, so there are two activities, watchers, handlers or
goroutines; a third adds no new pair, as rows are claimed one at a time. Two orders occur where orders compete for
something (an amount at a shared address, a UTXO, a nonce), one elsewhere. One failure already includes a stop
between every two steps and the retry after it; that nothing changes with a second one is proved for BUY, the treasury
and the payout (section 5). In `payout` the signer's call occurs in the race only, since it concerns one order. In
`platform` the pool has two nodes: `breaker` interleaves two requests without retries, `retries` has one request at a
time with up to five attempts, as both properties of the pool are proved for every size. In `deposit` the mobile trades
are BTC sales with deposits (`sale`) or token orders (`gate`). The chain is high enough
that a block is scanned, is behind the cursor, and is behind a reset cursor. `MinNotFound = 2` distinguishes one
not-found answer from enough of them. Scenarios of one run share no variable, so a run is the sum of its scenarios and
not their product. Symmetry is used only where the constants are interchangeable in every other constant and in the
scenario, and in no run with a liveness property. Runs state `CHECK_DEADLOCK FALSE` because all bounded activity can
end: an order is closed and nothing is left to do; the waiting that would be a deadlock of the program is the
property `BusGoesOn`, and `NobodyWaitsInVain` in `MoneyMovesOnce`.

Where a property covers a part of the cases, the code gives the reason. `ConcludedIsPaid` excepts the orders
a replica in simulation concluded (`shown` remembers them). `SubmissionsAreSafe` says nothing of a completed row while a signer call is open, as `handleDeposit`
overwrites what it checked before; `payout_live` has no signer call for the same reason. `FailedIsUndelivered` is
about orders of the hot wallet: the providers' requests carry no key of the order. `PaymentCounts` is about Pix
notifications as production parses them. `OwnDepositIsHandled` is about runs without a database error and with a
watcher that is never further behind than the look-back.

Every property of a passing run has a mutant in `PROJECT.json`: a plausible bug in a mapped definition under which TLC
finds the property violated.

## 4. Fairness

- `SellPayout!FairSpec`: steps of an activity are weakly fair; an answered lookup and `Recover` are strongly fair (the
  ticker of some replica fires for ever, and a provider that answers infinitely often is heard in the end); leases run
  out, requests on the wire arrive or are lost, transfers settle. Crashes are bounded, never fair.
- `BuyOrder!FairSpec`: every goroutine step (the ten-second scan dispatches what is claimable, and a goroutine
  ends within 25 s) and the passing of sixty seconds.
- `MobilePay!FairSpec`: the steps of the execution and refund workers, which poll for ever, and their recovery of
  stale rows; nothing of users, webhooks or handlers.
- `EventBus!FairSpec`: the loop of Publish, its timer, and a free lock reaching who waits; no worker need ever read.
- The other modules claim no liveness. In the treasury none holds: nothing reconciles `broadcast_unknown`
  (`bitcoin/treasury_service.go:350`).

## 5. What is proved

Eight proof modules, all for any finite or infinite sets of orders, replicas, goroutines, transfers and notifications,
any number of failures and any mix of modes; the three theorems that count (ChainFX Tap, DCA, gift cards) are for any
finite set of authorizations, windows or orders. The assumptions are the named `ASSUME`s of the modules: the types of
the constants, and for BUY that a Pix charge is paid once. Every inductive invariant was first checked by TLC on the instance of its run. Thirty of the forty
properties of the runs are theorems.

| Module | Theorems (property of a run) |
|---|---|
| `SellPayoutProofs` | `EfiPaysOnce` (OnePixPerOrder), `ConcludedOrdersArePaid` (ConcludedIsPaid), `SubmitsAreSafe` (SubmissionsAreSafe), `CompletedNeverChanges`, `PayoutKeepsItsPromise` (ImplementsPromise: the refinement of PayoutPromise) |
| `SellDepositProofs` | `DepositFundsOne` (OneOrderPerTx), `PaidWasDeposited` (PaidByConfirmedDeposit), `ExpiredStaysUnpaid` (NoPayoutAfterExpiry); `MobileTradesAreSound` (TradesAreSound of MobileTrade) |
| `BuyOrderProofs` | `HotWalletPaysOnce`, `FailureIsTrue`, `DeliveryIsPaid`, `SentWasDelivered`, `AcceptedPixCounts`, `SentStays` (the six properties of BuyOrder in `buy`); `KeyMovesOnce` (TransferMovesOnce of WalletTransfer), `WithdrawalMovesOnce` (SolanaMovesOnce) |
| `BtcTreasuryProofs` | `OrderIsPaidOnce` (TreasuryPaysOnce), `InputsServeTheirOrder` (InputsServeOrders), `WalletRecordsAreTrue` (WalletBooksAreTrue) |
| `MobilePayProofs` | `BooksAreTrue` (PaymentBooksAreTrue), `ConclusionsStay` (CompletedIsFinal) |
| `ServiceProofs` | `SignaturesPayOnce` (RelayPaysOnce), `DepositsAreSpentOnce` (M2MPaysOnce), `TapsArePaidOnce` (TapBooksAreTrue of NfcSettlement), `CyclesAddUp` (DcaBooksAreTrue of DcaCycle) |
| `AgentTradeProofs` | `OnlyPaidIsSettled` (SettlesWhatWasPaid); `UsesArePaidOnce` (UseIsPaidOnce of AgentAccess); `GiftCardsArePaidOnce` (GiftBooksAreTrue of GiftCardOrder); `TasksRunOnce` (of MessagesReachOnce) |
| `PlatformProofs` | `PoolProbeIsNeverStuck` (ProbeIsNeverStuck), `PoolRetriesElsewhere` (RetriesElsewhere); `SweepsMoveOnce`, `CyclesSweepOnce`, `SwapsMoveOnce`, `BuysAreChargedOnce` (of MoneyMovesOnce), `EventsReachOnce`, `HooksEndOnce` (of MessagesReachOnce), `DeletedStaysGone` (DeletionHolds), `KeysAndAddressesHold`, `VerifiedAreCleared`, `FacesServeOne`, `LimitsAndBansHold` (of CustomersAreKnown), `RoutesAreToldTruly`, `RouterTellsWhoPaid`, `AgentsAreToldTruly` (of RoutesAreTrue) |

The arguments. None of these properties is inductive as it stands; each needs what the code relies on unsaid.

- **SellPayout.** What Efí holds or may still receive carries the order's own key (`KeyedByOrder`), and Efí adds only
  when no transfer has the key: hence one Pix. An activity that remembers a settled answer may be arbitrarily late, and
  the fact is still true, as settled transfers do not change (`RememberedIsTrue`); so a completed row has its
  transfer and a concluded order is paid. The refinement maps `transfer` to Efí and `verdict` to the row; every
  step is a step of the promise or a stutter, by the same invariant.
- **SellDeposit.** A scanned range was deep enough when read and the head only grows; the logs of a watcher are of its
  range; what it writes was checked against the order it holds (`ScanIsSound`). The unique index and the `WHERE` of the
  write decide the rest again, which is why stale lists and orders do no harm.
- **BuyOrder.** One goroutine at a time holds an order, which is `enviando` and younger than sixty seconds while it does
  (`OneHolder`, `HolderIsSending`), so neither a notification, nor the expiry, nor a second claim moves it. On top: a
  claimed order has an acknowledged payment, a post to the signer belongs to an order being sent, and what a
  goroutine will write is backed by what was delivered.
- **BtcTreasury.** The proof uses no help of the advisory lock, which excludes nobody. An operation is inserted once per
  order and no error path removes it; what it names was reserved by the conditional update for it; lists read
  earlier only mark what has no live claim. Inputs of a transaction that may be mined serve no other order.
- **MobilePay.** The invariant joins the books (completed, refunded and the money at Efí and the signer) with the memory
  of every worker: an answer in hand is true of Efi or of the signer when it is applied, whatever happened
  meanwhile. What a refund rests on is separate (`SentInv`): as long as Efí neither has a Pix of the payment nor can
  still get one, one worker at most holds the row for sending (`OneSender`), so a refusal it was told, or will act on, is
  of the only PUT and no late request undoes it. Nothing of the kind holds of a payment sent again, which `again` excepts.
- **GasRelay.** The money of a relay is in one place: its channel, a leg of a batch, a multicall, a travelling call, or
  paid. Rows come before jobs, and a leg carries the relay's own signature, which the contract spends once.
- **M2MSettlement.** A funded intent is unique by the index on transaction and log; a settler that was told to pay
  holds the only task of its intent; a recorded verdict is what Efi made of the attempt.
- **AgentTrade.** A transfer is recorded for one trade by its index, and the claim of the trade excludes a
  second handler while it settles. **RpcPool.** A probe flag belongs to a call that is still running; a node chosen again
  was the only one with capacity, as a node taken out of the pool stays out.
- **WalletTransfer.** Only the request whose INSERT made the row of a key goes on to send, and a request sends at most
  once (`OneActs`, `TriesOnce`), so repeats, lost answers and restarts leave at most one transaction per key; a
  recorded hash names a transaction of its own key until another transaction of the wallet takes the nonce.
- **SolanaWallet.** A key has one active request, the one that inserted its row (`OneOwner`). Until it has signed, nobody
  writes the row, as every other write goes by signature (`OwnerHolds`, `NoneIsUnsigned`); from then on the row has the
  signature of whatever may be on the chain. A worker writes late and over anything, but only what the chain had ended
  as when it was asked, which does not change (`WorkerTells`).
- **AgentAccess.** A handler past the insert of its execution is the only one of its key, and its use is recorded before
  it calls a provider; what a grant has left and the number of its uses make its quota (`Uses` is a cardinality: a
  use is added once, by the unique index on grant and key, in the statement that takes one from the quota).
- **BtcWallet.** A withdrawal is known outside its goroutine only once it is signed (`LiveIsSigned`): in the network, on
  its way there, in a row the trackers read, or in a tracker. From then on the plan, the stored transaction and what the
  network may have taken are the same UTXOs, so whoever records it as sent, or writes off its inputs, is right about
  them (`HearsayIsRight`); and the plan is taken in one statement, so no UTXO serves two.
- **MobileTrade.** A request in flight holds its key, which is `processing` for its quote, and past the quote the quote
  holds its key; so two requests never work on one quote. What was made or funded stays so (`OrdersGrow`), hence a
  completed key has its order; one funding row per quote and the unique transaction of an order give one deposit per
  paid sale, and events only speak of outputs that exist and, when confirmed, are deep.

- **NfcSettlement.** What is available, on hold and captured are cardinalities of sets of authorizations, and a
  statement that moves one unit moves one element (`HoldsAddUp`). A goroutine that may still pay is alone at its row
  from its claim to what it writes of the answer (`JobSound`), and what is recorded or remembered of Efí is true of the
  Pix (`RowSound`); so a late answer, a claim taken for stopped and the review by hand all write what happened.
- **DcaCycle.** The reserve of a window does not change once it is set, so what a goroutine gives back from its memory
  is what was reserved (`CycleSound`). Amounts are the units of a set of pairs, a window and a number up to its reserve,
  so the wallet is an equation of cardinalities and no sum; a window is `completed` exactly when it is captured, and
  then its order was sent.
- **GiftCardOrder.** The claim of the execution precedes the POST and is never taken back, so one goroutine buys
  (`OneBuyer`) and nobody reports before it has bought; a stale outbox row or a second report finds the execution taken.
  The ledger of an order says what the wallet owes it, and `WalletAddsUp` is kept statement by statement, as every
  statement that moves money is guarded by the ledger row it writes.

- **TreasurySweep.** Only an accepted call makes a row sent, and then the signer has its transfer (`CallsAreTrue`); that
  it has moved is not so, and not claimed. While nothing else touches the wallet, an amount on its way is the one that
  the balance of now gives, and a balance read earlier is the balance or belongs to a request already made
  (`ReserveInv`), whose operation id is taken: hence one at a time, whatever the decimals.
- **TokenSwap.** A row that no worker has begun has no transaction, and a worker that has not sent has none of its own
  (`TaskSound`, `SwapSound`); with the user's key it completes after its own receipt. That two workers move the same
  swap is excluded by the signer's key alone, so the theorem says it of the signer only.
- **BuyCheckout.** What Efi holds of a request follows from where the request is (`ChargeSound`), and its terms from the
  quote it consumed, which no second request finds consumable (`TermsSound`, `OneRequestEach`); a request at the token
  endpoint is alone on its rail, and a waiting one waits for its channel or an older one (`TokensSound`).
- **EventBus.** While a publisher goes through its list the lock keeps the channels of the list open (`PublisherSound`),
  and who is subscribed has an open channel (`SubscribersOpen`). An event has one publisher, and each step moves it, for
  one subscriber, from one of four places to another (`InOnePlace`).
- **MobileAccount.** A request or a token is of a row that was inserted (`RowsExist`), so a new registration is of a row
  that nobody works on; the key of a user is stored once, and a row that was answered with a wallet names that key or
  one of the client (`WalletsSound`). Of a deleted row, once no cached entry and no request past the gate is left, what
  remains can only refuse or forget (`RemindersLeaveIt`).
- **KycReview.** A worker that will write `approved` has it from an analysis, whatever was decided since (`Analysts`).
  Of two faces that are kept, or counted as new and about to be kept, one was unchecked (`FaceInv`): whoever counts
  after the other was kept sees it, and whoever counts between the other's count and its save is noted in `unchecked`.
  The theorem on faces is for any number of workers, and says no more than that.
- **RequestGate.** A ban that is not over is in the entry, which has at least its offenses (`Holds`), and the last one is
  remembered until both it is over and its memory is due to fade (`Recalls`): so neither the cleanup nor the lapse of
  offenses takes away what still counts. Assumed of the durations: the first is shorter than the second, and the
  second no longer than the third. `served` is at most the counter (`CountSound`).
- **CapabilityRoute.** While the request of an execution still looks for a provider nobody has run it (`Seeking`), so
  who is found is the only one and a repeat that reads `real_completed` reads his name. The providers it has still to
  ask are those it has not asked (`StillToAsk`): a list of candidates names each active provider once, as a surjection
  between finite sets of one size is an injection; so the list is empty only when all were asked.
- **LiquidityRoute.** Until an execution is accepted nobody has delivered unless an answer was lost, and what is accepted
  is the one delivery. The provider asked next is the least, in the order of the quotes, of those not asked yet, so who
  comes before the one that paid was asked before it. Assumed: a configuration with BingX or HTTP providers has one.
- **McpServer.** A build of an entry is alone and reads after it began; what it read is no older than the cache, nor than
  what its waiters had been able to see when they asked, which is the greatest answer given by then (it exists because
  `<` on the naturals is well founded). A stored intent keeps its terms, and whoever is about to be told holds them.
  `WindowHolds` is not proved: the window is a `SelectSeq`, and what that counts needs an induction over the sequence.

- **WebhookDelivery.** A job of the queue, of a worker or ended is one the dispatcher is through with (`Behind`), so a
  trigger it goes on to finds no job of its own; in each place a job is once (`InOneOf`). The rows of a job that a worker
  has count its tries while the subscription is there (`WorkerSound`), and without a worker it has none until it ends.
- **AgentTask.** What is stored of a task follows from where its goroutine is, or it made room (`StateFits`). The times of
  tasks differ, so of more than the store holds all but the oldest are younger than it, and they stay so (`YoungerStay`).
  The last episodes are of different tasks, and a recorded one that is not among them was pushed out by as many as are
  kept (`EpisodesGoOn`). An open stream told last what its task was at, and no task goes back (`Watching`).

Only model-checked: liveness (`PaidIsSettled`, `PaymentsEnd`, `BusGoesOn`, `AmbiguousResolves`), which with `ENABLED` is
out of the prover's reach. `MoneyMovesOnce`, `MessagesReachOnce`, `CustomersAreKnown`, `DeletionHolds` and
`RoutesAreTrue` of `platform` join the scenarios of one run and are checked as they stand; each of their parts is a theorem
of its own module's specification, except the window limit of the MCP server and most type invariants. `OwnDepositIsHandled` holds only while the chain is shorter than the
look-back of a fresh cursor, and is checked on such an instance. No module under proof reaches a `RECURSIVE` operator.

## 6. Where the code and its own words disagree

Three runs end in a counterexample, each for a property that a comment or a document states.

- `treasury_bingx`: `SendBTC` compares confirmed UTXOs with the amount before it looks at the operation of the order
  (`bitcoin/treasury_service.go:232`). After a broadcast and a crash the inputs are no longer confirmed, the second
  attempt reports insufficient funds, and the router goes to BingX, although
  `workers/btc_funding_source.go:47` says it never does.
- `trade_twice`: a settlement whose answer is lost is recorded as failed; a failed trade may be executed again, and
  another request key makes another settlement of the same transfer (`server/agent_trade.go:200`, against line 384).
- `dca_together`: `claimRecoverable` locks rows and writes nothing, so two replicas take a window that waits for its next
  attempt (`workers/dca.go:200`, against the header of the file). The first makes it `processing` again and keeps the
  `processing_at` of the first attempt (line 499), which is older than two minutes, so line 508 lets the second pass
  at once. A first attempt cannot be that old: its context ends after 30 s. The funding tables keep the reserve
  single all the same.

Smaller disagreements met while modelling are named with their module in section 2.

## 7. What is not modelled

Inside the modelled parts: amounts beyond what a match, a selection or a balance tells apart; fees, dust and rounding;
chain reorganisations; parsing of requests, QR codes and provider documents; e-mails, logs and metrics; the insides of
the signer, the providers and the contracts; panics. Whole components are listed in `PROJECT.json` with their reason:
the PSP router (no caller), parts of `internal/security` and `internal/idempotency` (no caller), reports and
reconciliation (they read what others wrote), conversions and hashing, notifications, discovery documents, routing of
HTTP requests, configuration and console, front end and SDKs.

Hazards that are real and that no property covers: operations in `broadcast_unknown` and their reserved inputs wait for
a reconciliation that nothing runs (`bitcoin/treasury_service.go:350`); the spend limit of an agent is compared before
the purchase is inserted in another transaction (`database/agent_policy.go:326`); a full buffer or a crash drops
`payout.requested` and the order stays in `pago` (`workers/bus.go:106`); the cursor is saved although the handling of a
log failed (`workers/onchain.go:288`); a stop around the PIX call leaves an intent in `settling`, which the poller does
not read (`workers/m2m_settlement.go:126`); a lost `buy.sent` leaves a reserve locked (`workers/dca.go:80`). They are
of one kind, work that nobody takes up again, and the models show it: no fairness makes it end.

Others are of another kind: a success is recorded that the code has no evidence of, or a limit computed that is not the
one meant. The models have these routes too, and the properties stop short of them. A Mobile Pay execution that is sent
again after an ambiguous PUT and then refused is refunded, while the first Pix may settle
(`mobile/pay_execution_worker.go:812`); an absent redemption field counts as a voucher and the money is taken
(`mobile/bitrefill_provider.go:311`); a sweep is "sent" on any 2xx (`workers/sweep.go:165`); a swap through the signer is
"completed" without a receipt (`workers/pancake_swap.go:252`, whose worker nothing starts yet); the ceiling, the reserve
and the amount of the automatic sweep have six decimals and the token eighteen (`workers/auto_sweeper.go:122`).

Hazards that the models meet, beside those listed in `PROJECT.json`: a broadcast that times out after the transaction
was taken (`bitcoin/treasury_service.go:345`, `InputsServeOrders`); the payload map that the jobs of one event share
(`webhooks/webhooks.go:281`) and the eviction of a task (`server/a2a_task_handlers.go:196`), `MessagesReachOnce`; three
statements after a fallback whose errors are ignored (`server/marketplace_handlers.go:704`) and a slow read of the
catalog stored late (`mcp/server.go:310`), `RoutesAreTrue`; a card call made again after a refused token
(`server/payment_provider.go:510`) and two requests with one quote (`database/phase2_finance.go:117`), `MoneyMovesOnce`;
UTXOs selected from rows read earlier (`bitcoin/treasury_service.go:277`, `InputsServeOrders`); requests that passed the
box before a ban (`server/penaltybox.go:104`, `CustomersAreKnown`); a webhook that finds its row locked
(`mobile/pay_efi_webhook.go:87`, `PaymentBooksAreTrue`); a second activity between claim and insert of the first
(`workers/payout.go:203`, `ConcludedIsPaid`); the unsigned scan range near the start of the chain
(`workers/onchain.go:168`, `PaidByConfirmedDeposit`).

## 8. Plan

Done: the modules of section 2, their runs and the proofs of section 5. Next:

1. proofs: the window limit of the MCP server, if the window is kept as a function instead of a sequence;
   `NoDepositSkipped` of SellDeposit under a bound on how far a watcher may be behind;
2. an abstract promise for BuyOrder (paid, then delivered or failed, the wallet's transfer unique) as PayoutPromise is
   for the payout, and the same promise for the Pix of NfcSettlement and M2MSettlement;
3. the keys and signatures of Bitcoin (derivation, selection of inputs, serialization) as pure operators, and the quote
   of a SELL.
