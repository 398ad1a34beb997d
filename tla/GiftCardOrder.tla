--------------------------- MODULE GiftCardOrder ---------------------------
(***************************************************************************)
(* Mobile commerce: an order for a gift card or a top-up locks USDT of the *)
(* internal wallet (or waits for a transfer to the treasury), an outbox    *)
(* event asks the workers of all replicas to buy it at Bitrefill, and what *)
(* Bitrefill reports captures, releases or credits the money.  Every order *)
(* costs one unit.  External: Bitrefill, its invoices and the network.     *)
(***************************************************************************)
EXTENDS Naturals, FiniteSets

CONSTANTS Orders,
          Onchain,   \* those funded by a transfer; the others by the wallet
          QuoteOf,   \* the quote each order was asked with
          Funds,     \* USDT in the wallet
          Workers,   \* commerce goroutines of all replicas
          NoOrder

ASSUME GiftAssumption == IsFiniteSet(Orders) /\ Onchain \subseteq Orders /\ Funds \in Nat

VARIABLES order, ref,    \* mobile_gift_card_orders: status, provider_reference
          ledger,        \* mobile_wallet_ledger_entries: sources, by order
          avail, locked, \* nfc_wallet_balances
          consumed,      \* mobile_payment_quotes already consumed
          payment, intent, \* mobile_payment_executions and _intents: status
          event,         \* commerce_outbox_events: status
          calls,         \* funding confirmations between verification and write
          task,          \* what each worker is doing
          inv, posts,    \* external: state of the invoice, invoices created
          onWire         \* external: POST requests whose caller gave up

gcvars == <<order, ref, ledger, avail, locked, consumed, payment, intent, event, calls, task,
            inv, posts, onWire>>
money == <<ledger, avail, locked>>
external == <<inv, posts, onWire>>

OrderStatus == {"none", "awaiting_funding", "funding_seen", "funds_locked", "purchasing",
                "provider_unknown", "delivered", "failed", "refunded", "manual_review"}
ExecStatus == {"none", "pending", "processing", "provider_unknown", "provider_pending",
               "completed", "failed", "manual_review"}
IntentStatus == {"none", "reserved", "awaiting_funding", "funding_seen", "funding_confirmed",
                 "processing", "provider_pending", "completed", "failed", "refunded",
                 "manual_review"}
ProviderAnswers == {"none", "delivered", "purchasing", "failed", "refunded", "error", "timeout"}
WorkerSteps == {"idle", "claimed", "review", "claim", "get", "post", "apply", "unknown",
                "exec_unknown", "defer", "close"}
\* by: an outbox event, or the loop of reconcilePendingCommerceOrders
WorkerTask == [at : WorkerSteps, o : Orders \cup {NoOrder}, ref : {"none", "own", "tx"},
               ans : ProviderAnswers, by : {"event", "loop"}]
IdleWorker == [at |-> "idle", o |-> NoOrder, ref |-> "none", ans |-> "none", by |-> "event"]

GiftInit ==
    /\ order = [o \in Orders |-> "none"] /\ ref = [o \in Orders |-> "none"]
    /\ ledger = [o \in Orders |-> {}] /\ avail = Funds /\ locked = 0 /\ consumed = {}
    /\ payment = [o \in Orders |-> "none"] /\ intent = [o \in Orders |-> "none"]
    /\ event = [o \in Orders |-> "none"] /\ calls = {} /\ task = [w \in Workers |-> IdleWorker]
    /\ inv = [o \in Orders |-> "none"] /\ posts = [o \in Orders |-> 0] /\ onWire = {}

-----------------------------------------------------------------------------
(* txConsumeCanonicalGiftCardQuoteAndCreateIntent, under the row lock of   *)
(* the quote: a consumed quote is refused.                                 *)
ConsumeQuote(o) == QuoteOf[o] \notin consumed /\ consumed' = consumed \cup {QuoteOf[o]}

(* handleGiftCardPurchase, one transaction: quote, intent and execution,   *)
(* lock of the wallet, order and outbox event.                             *)
Purchase(o) ==
    /\ o \notin Onchain /\ order[o] = "none" /\ ConsumeQuote(o) /\ avail >= 1
    /\ avail' = avail - 1 /\ locked' = locked + 1
    /\ ledger' = [ledger EXCEPT ![o] = @ \cup {"lock"}]
    /\ order' = [order EXCEPT ![o] = "funds_locked"]
    /\ intent' = [intent EXCEPT ![o] = "reserved"]
    /\ payment' = [payment EXCEPT ![o] = "pending"] /\ event' = [event EXCEPT ![o] = "pending"]
    /\ UNCHANGED <<ref, calls, task, external>>

(* An order to be funded on chain has no execution yet.                    *)
PurchaseOnchain(o) ==
    /\ o \in Onchain /\ order[o] = "none" /\ ConsumeQuote(o)
    /\ order' = [order EXCEPT ![o] = "awaiting_funding"]
    /\ intent' = [intent EXCEPT ![o] = "awaiting_funding"]
    /\ UNCHANGED <<ref, money, payment, event, calls, task, external>>

(* handleGiftCardFundingConfirmationForOrder reads the status, asks the    *)
(* chain, and writes what it heard.                                        *)
AwaitsFunding(o) == order[o] \in {"awaiting_funding", "funding_seen"}
VerifyFunding(o) ==
    /\ AwaitsFunding(o)
    /\ \E heard \in {"pending", "confirmed", "rejected"} : calls' = calls \cup {<<o, heard>>}
    /\ UNCHANGED <<order, ref, money, consumed, payment, intent, event, task, external>>

FundingPending(o) ==
    /\ <<o, "pending">> \in calls /\ calls' = calls \ {<<o, "pending">>}
    /\ order' = [order EXCEPT ![o] = "funding_seen"] /\ ref' = [ref EXCEPT ![o] = "tx"]
    /\ intent' = [intent EXCEPT ![o] = "funding_seen"]
    /\ UNCHANGED <<money, consumed, payment, event, task, external>>

FundingRejected(o) ==
    /\ <<o, "rejected">> \in calls /\ calls' = calls \ {<<o, "rejected">>}
    /\ order' = [order EXCEPT ![o] = "manual_review"] /\ ref' = [ref EXCEPT ![o] = "tx"]
    /\ UNCHANGED <<money, consumed, payment, intent, event, task, external>>

(* The execution and the event are inserted once (ON CONFLICT DO NOTHING). *)
Added(status) == IF status = "none" THEN "pending" ELSE status
FundingConfirmed(o) ==
    /\ <<o, "confirmed">> \in calls /\ calls' = calls \ {<<o, "confirmed">>}
    /\ IF AwaitsFunding(o)
       THEN /\ order' = [order EXCEPT ![o] = "funds_locked"] /\ ref' = [ref EXCEPT ![o] = "tx"]
            /\ intent' = [intent EXCEPT ![o] = "funding_confirmed"]
            /\ payment' = [payment EXCEPT ![o] = Added(@)]
            /\ event' = [event EXCEPT ![o] = Added(@)]
       ELSE UNCHANGED <<order, ref, intent, payment, event>>
    /\ UNCHANGED <<money, consumed, task, external>>

-----------------------------------------------------------------------------
(* What a report of the provider does to an order, in one transaction that *)
(* holds the lock of the order.  A movement that the wallet or the ledger  *)
(* refuses rolls it all back.                                              *)
Final == {"delivered", "failed", "refunded"}
Captured(o) == "capture" \in ledger[o]                    \* captured_at
Refunded(o) == ledger[o] \cap {"release", "credit"} # {}  \* refunded_at

Moves(o, source) == ledger' = [ledger EXCEPT ![o] = @ \cup {source}]
CaptureLocked(o) ==
    /\ locked >= 1 /\ "capture" \notin ledger[o]
    /\ locked' = locked - 1 /\ avail' = avail /\ Moves(o, "capture")
ReleaseLocked(o) ==
    /\ locked >= 1 /\ "release" \notin ledger[o]
    /\ locked' = locked - 1 /\ avail' = avail + 1 /\ Moves(o, "release")
CreditRefund(o) == avail' = avail + 1 /\ locked' = locked /\ Moves(o, "credit")

\* txSyncGiftCardPayment*: the execution and the intent follow
Unless(f, o, kept, s) == [f EXCEPT ![o] = IF @ \in kept THEN @ ELSE s]
Sync(o, ex, in) ==
    /\ payment' = Unless(payment, o, IF in = "refunded" THEN {} ELSE {"completed"}, ex)
    /\ intent' = Unless(intent, o, {"completed", "refunded"}
                                   \ (IF in \in {"completed", "refunded"}
                                      THEN {"completed", "refunded"} ELSE {}), in)
Reports(o, s, r) ==
    /\ order' = [order EXCEPT ![o] = s]
    /\ ref' = [ref EXCEPT ![o] = r]

Deliver(o) ==
    /\ order[o] \notin Final /\ ~Captured(o)
    /\ IF o \in Onchain THEN UNCHANGED money ELSE CaptureLocked(o)
    /\ Reports(o, "delivered", "own") /\ Sync(o, "completed", "completed")
Fail(o) ==
    /\ order[o] \notin Final /\ ~Captured(o) /\ ~Refunded(o)
    /\ IF o \in Onchain THEN UNCHANGED money ELSE ReleaseLocked(o)
    /\ Reports(o, "failed", ref[o]) /\ Sync(o, "failed", "failed")
Refund(o) ==
    /\ ~Refunded(o) /\ order[o] \notin {"refunded", "failed"}
    /\ IF o \in Onchain THEN UNCHANGED money
       ELSE IF Captured(o) \/ order[o] = "delivered" THEN CreditRefund(o) ELSE ReleaseLocked(o)
    /\ Reports(o, "refunded", "own") /\ Sync(o, "completed", "refunded")
Pend(o) ==
    /\ order[o] \notin Final
    /\ Reports(o, "purchasing", "own") /\ Sync(o, "provider_pending", "provider_pending")
    /\ UNCHANGED money

ApplyCommerceProviderResult(o, ans) ==
    \/ ans = "delivered" /\ Deliver(o)
    \/ ans = "failed" /\ Fail(o)
    \/ ans = "refunded" /\ Refund(o)
    \/ ans = "purchasing" /\ Pend(o)

-----------------------------------------------------------------------------
(* The worker: processNextCommerceOutbox, then the reconciliation loop.    *)
StepsTo(w, at) == task' = [task EXCEPT ![w].at = at]
WorkerFree(w) == task' = [task EXCEPT ![w] = IdleWorker]
Order(w) == task[w].o
At(w, s) == task[w].at = s

ClaimOutboxEvent(w, o) ==
    /\ At(w, "idle") /\ event[o] \in {"pending", "retry_wait"}
    /\ event' = [event EXCEPT ![o] = "processing"]
    /\ task' = [task EXCEPT ![w] = [IdleWorker EXCEPT !.at = "claimed", !.o = o]]
    /\ UNCHANGED <<order, ref, money, consumed, payment, intent, calls, external>>

(* loadCommerceOrderForProvider: a snapshot, then the early returns.       *)
LoadOrder(w) ==
    LET o == Order(w)
    IN  /\ At(w, "claimed")
        /\ task' = [task EXCEPT ![w].ref = ref[o],
               ![w].at = IF order[o] \in {"delivered", "failed"} THEN "close"
                         ELSE IF order[o] = "provider_unknown" /\ ref[o] = "none" THEN "review"
                         ELSE "claim"]
        /\ UNCHANGED <<order, ref, money, consumed, payment, intent, event, calls, external>>

(* markGiftCardPaymentExecutionManualReview leaves the order as it is.     *)
ManualReview(w) ==
    LET o == Order(w)
    IN  /\ At(w, "review") /\ StepsTo(w, "close")
        /\ payment' = Unless(payment, o, {"completed", "failed"}, "manual_review")
        /\ intent' = Unless(intent, o, {"completed", "refunded"}, "manual_review")
        /\ UNCHANGED <<order, ref, money, consumed, event, calls, external>>

(* claimGiftCardPaymentExecution: an execution is submitted once.          *)
(* Mutant: an execution whose submission is unknown is claimed again.      *)
RunnableAgain(o) == payment[o] \in {"pending", "provider_unknown", "provider_pending"}
Runnable(o) == payment[o] = "pending"
ClaimExecution(w) ==
    LET o == Order(w)
    IN  /\ At(w, "claim")
        /\ IF Runnable(o)
           THEN /\ payment' = [payment EXCEPT ![o] = "processing"]
                /\ intent' = IF intent[o] \in {"reserved", "processing", "provider_pending"}
                             THEN [intent EXCEPT ![o] = "processing"] ELSE intent
                /\ StepsTo(w, IF task[w].ref = "none" THEN "post" ELSE "get")
           ELSE StepsTo(w, "defer") /\ UNCHANGED <<payment, intent>>
        /\ UNCHANGED <<order, ref, money, consumed, event, calls, external>>

(* GetOrder: a redemption field that is absent prints as "<nil>", which is *)
(* not empty, and an order with a redemption field counts as delivered,    *)
(* whatever its status says.                                               *)
Told(s) ==
    CASE s = "open" -> "purchasing" [] s = "denied" -> "failed" [] s = "returned" -> "delivered"
      [] OTHER -> s
Reading(s) == IF s = "none" THEN {} ELSE {Told(s), "delivered"}
Heard(w, ans) == task' = [task EXCEPT ![w].ans = ans, ![w].at = "apply"]

(* A lookup asks for the stored reference; Bitrefill knows no transfer.    *)
GetOrder(w) ==
    LET o == Order(w)
    IN  /\ At(w, "get")
        /\ \/ task[w].ref = "own" /\ \E ans \in Reading(inv[o]) : Heard(w, ans)
           \/ StepsTo(w, IF task[w].by = "loop" THEN "unknown" ELSE "close")
        /\ UNCHANGED <<order, ref, money, consumed, payment, intent, event, calls, external>>

(* provider.Purchase: the product, then the POST of the invoice, then the  *)
(* order it lists.  Only a timeout counts as ambiguous; any other error,   *)
(* a broken connection or an HTTP 5xx included, counts as a refusal.       *)
PostInvoice(w) ==
    LET o == Order(w)
        created(s) == inv' = [inv EXCEPT ![o] = s] /\ posts' = [posts EXCEPT ![o] = @ + 1]
        gaveUp == task' = [task EXCEPT ![w].at = "unknown"] \/ Heard(w, "error")
    IN  /\ At(w, "post")
        /\ \/ \E s \in {"open", "delivered", "failed"} :
                 /\ created(s) /\ onWire' = onWire
                 /\ \/ \E ans \in Reading(s) : Heard(w, ans)
                    \/ Heard(w, IF s = "open" THEN "purchasing" ELSE s)
           \/ Heard(w, "error") /\ UNCHANGED external
           \/ gaveUp /\ created("open") /\ onWire' = onWire
           \/ gaveUp /\ onWire' = onWire \cup {o} /\ UNCHANGED <<inv, posts>>
        /\ UNCHANGED <<order, ref, money, consumed, payment, intent, event, calls>>

(* The report is applied, or its transaction fails or finds nothing to do. *)
ApplyResult(w) ==
    /\ At(w, "apply") /\ task[w].ans # "error"
    /\ IF task[w].by = "loop" THEN WorkerFree(w) ELSE StepsTo(w, "close")
    /\ \/ ApplyCommerceProviderResult(Order(w), task[w].ans)
       \/ UNCHANGED <<order, ref, money, payment, intent>>
    /\ UNCHANGED <<consumed, event, calls, external>>

(* failCommerceOrderAndRelease: nothing is asked about the invoice.        *)
FailOrderAndRelease(w) ==
    LET o == Order(w)
    IN  /\ At(w, "apply") /\ task[w].ans = "error" /\ StepsTo(w, "close")
        /\ \/ /\ order[o] \notin Final /\ ReleaseLocked(o)
              /\ Reports(o, "failed", ref[o]) /\ Sync(o, "failed", "failed")
           \/ UNCHANGED <<order, ref, money, payment, intent>>
        /\ UNCHANGED <<consumed, event, calls, external>>

(* markCommerceOrderProviderUnknown, which may overwrite refunded; an      *)
(* error of its write, and of the next one, is ignored.                    *)
MarkOrderUnknown(w) ==
    LET o == Order(w)
    IN  /\ At(w, "unknown")
        /\ order' \in {order, Unless(order, o, {"delivered", "failed"}, "provider_unknown")}
        /\ IF task[w].by = "loop" THEN WorkerFree(w) ELSE StepsTo(w, "exec_unknown")
        /\ UNCHANGED <<ref, money, consumed, payment, intent, event, calls, external>>

MarkExecutionUnknown(w) ==
    LET o == Order(w)
    IN  /\ At(w, "exec_unknown") /\ StepsTo(w, "defer")
        /\ payment' \in {payment, IF payment[o] = "processing"
                                 THEN [payment EXCEPT ![o] = "provider_unknown"] ELSE payment}
        /\ UNCHANGED <<order, ref, money, consumed, intent, event, calls, external>>

(* deferCommerceOutbox: also when purchases are switched off, the order    *)
(* cannot be loaded or a setting is missing.                               *)
DeferOutbox(w) ==
    /\ At(w, "defer") \/ At(w, "claimed")
    /\ event' = [event EXCEPT ![Order(w)] = "retry_wait"] /\ WorkerFree(w)
    /\ UNCHANGED <<order, ref, money, consumed, payment, intent, calls, external>>

MarkProcessed(w) ==
    /\ At(w, "close") /\ WorkerFree(w)
    /\ event' = [event EXCEPT ![Order(w)] = "processed"]
    /\ UNCHANGED <<order, ref, money, consumed, payment, intent, calls, external>>

(* reconcilePendingCommerceOrders loads an order that has a reference.     *)
ReconcilePending(w, o) ==
    /\ At(w, "idle") /\ ref[o] # "none" /\ order[o] \in {"purchasing", "provider_unknown"}
    /\ task' = [task EXCEPT ![w] = [IdleWorker EXCEPT !.at = "get", !.o = o, !.ref = ref[o],
                                                !.by = "loop"]]
    /\ UNCHANGED <<order, ref, money, consumed, payment, intent, event, calls, external>>

(* The process stops; an event in processing is claimed by nobody again.   *)
WorkerStops(w) ==
    /\ ~At(w, "idle") /\ WorkerFree(w)
    /\ UNCHANGED <<order, ref, money, consumed, payment, intent, event, calls, external>>

-----------------------------------------------------------------------------
(* External: a request arrives after its caller gave up; invoices end.     *)
PostArrives(o) ==
    /\ o \in onWire /\ onWire' = onWire \ {o}
    /\ inv' = [inv EXCEPT ![o] = "open"] /\ posts' = [posts EXCEPT ![o] = @ + 1]
    /\ UNCHANGED <<order, ref, money, consumed, payment, intent, event, calls, task>>

InvoiceEnds(o) ==
    /\ \E s \in CASE inv[o] = "open" -> {"delivered", "failed", "refunded"}
                  [] inv[o] = "delivered" -> {"returned", "refunded", "denied"} [] OTHER -> {} :
          inv' = [inv EXCEPT ![o] = s]
    /\ UNCHANGED <<order, ref, money, consumed, payment, intent, event, calls, task, posts, onWire>>

GiftNext ==
    \/ \E o \in Orders :
        \/ Purchase(o) \/ PurchaseOnchain(o) \/ VerifyFunding(o)
        \/ FundingPending(o) \/ FundingRejected(o) \/ FundingConfirmed(o)
        \/ PostArrives(o) \/ InvoiceEnds(o)
    \/ \E w \in Workers :
        \/ LoadOrder(w) \/ ManualReview(w) \/ ClaimExecution(w) \/ GetOrder(w)
        \/ PostInvoice(w) \/ ApplyResult(w) \/ FailOrderAndRelease(w)
        \/ MarkOrderUnknown(w) \/ MarkExecutionUnknown(w) \/ DeferOutbox(w)
        \/ MarkProcessed(w) \/ WorkerStops(w)
        \/ \E o \in Orders : ClaimOutboxEvent(w, o) \/ ReconcilePending(w, o)

GiftSpec == GiftInit /\ [][GiftNext]_gcvars

-----------------------------------------------------------------------------
GiftTypeOK ==
    /\ order \in [Orders -> OrderStatus] /\ ref \in [Orders -> {"none", "own", "tx"}]
    /\ ledger \in [Orders -> SUBSET {"lock", "capture", "release", "credit"}]
    /\ avail \in 0..Funds /\ locked \in 0..Funds
    /\ payment \in [Orders -> ExecStatus] /\ intent \in [Orders -> IntentStatus]
    /\ event \in [Orders -> {"none", "pending", "processing", "retry_wait", "processed"}]
    /\ calls \subseteq Onchain \X {"pending", "confirmed", "rejected"}
    /\ task \in [Workers -> WorkerTask] /\ onWire \subseteq Orders
    /\ inv \in [Orders -> {"none", "open", "delivered", "failed", "refunded", "returned", "denied"}]
    /\ posts \in [Orders -> Nat]

(* An order is bought at most once, whatever times out, stops or is        *)
(* retried: the claim of the execution precedes every POST.                *)
BoughtOnce == \A o \in Orders : posts[o] + Cardinality(onWire \cap {o}) <= 1

(* Money goes back to a wallet once, whatever reports arrive in whichever  *)
(* order: released or credited, never both; credited only after a capture; *)
(* and an order that failed has released its hold and captures nothing.    *)
(* Not said, for it is not so: that a released order captures nothing.     *)
(* MarkOrderUnknown overwrites "refunded", and a report of the delivery    *)
(* that a third worker still holds then captures what another order locked.*)
MoneyGoesBackOnce ==
    \A o \in Orders : /\ ~({"release", "credit"} \subseteq ledger[o])
                      /\ "credit" \in ledger[o] => "capture" \in ledger[o]
                      /\ order[o] = "failed" /\ o \notin Onchain => ledger[o] = {"lock", "release"}
                      /\ o \in Onchain => ledger[o] = {}

(* Money is taken only for an order that Bitrefill has: no refusal, no lost *)
(* answer and no lookup made too early captures.  Not said, for it is not so: *)
(* that the voucher was delivered, since Reading takes an absent field for *)
(* a voucher.                                                              *)
CapturedWasBought == \A o \in Orders : Captured(o) => inv[o] # "none"

(* What the wallet has free and locked, and what was taken from it and not *)
(* given back, make what it had.                                           *)
WalletAddsUp ==
    avail + locked + Cardinality({o \in Orders : Captured(o) /\ "credit" \notin ledger[o]}) = Funds

(* An order is bought once, and its money is taken for what was bought or  *)
(* goes back once.                                                         *)
GiftBooksAreTrue ==
    GiftTypeOK /\ BoughtOnce /\ MoneyGoesBackOnce /\ WalletAddsUp /\ CapturedWasBought
=============================================================================
