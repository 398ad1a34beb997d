----------------------------- MODULE MobileTrade -----------------------------
(***************************************************************************)
(* Trades of the mobile app.  A request passes the idempotency gate        *)
(* (operation_ids), consumes its quote and makes an order: a sale of BTC,  *)
(* funded by a deposit to the user's address, or a purchase or a sale of   *)
(* tokens, forwarded to the web API of the same process.  The BTC funding  *)
(* worker of every replica matches deposits with sales.  One user.         *)
(***************************************************************************)
EXTENDS Naturals, FiniteSets

CONSTANTS Keys,      \* Idempotency-Key headers: 1 .. n, first used in order
          Quotes,
          Carries,   \* the quotes a request with a given key may be about
          Ending,    \* the quotes whose term may end
          SideOf,    \* what each quote is of: "btc", "sell" or "buy"
          TradeOrders, \* orders and buy_orders in the order of their creation: 1 .. n
          Calls,     \* request goroutines
          Replicas,  \* funding workers, one per process
          Outpoints, \* transaction outputs that pay the user's address
          Values,    \* amounts in sats
          Expected,  \* the sats each quote is of
          Null

ASSUME MobileTradeAssumption ==
    /\ Keys \subseteq Nat /\ TradeOrders \subseteq Nat /\ Values \subseteq Nat \ {0}
    /\ Carries \in [Keys -> SUBSET Quotes] /\ Ending \subseteq Quotes
    /\ Null \notin Keys \cup Quotes \cup TradeOrders \cup Outpoints

VARIABLES issued, \* mobile_trade_quotes
          op,     \* operation_ids: status and the payload bound to the key
          by,     \* mobile_trade_quotes.consumed_operation_id
          outdated, \* quotes, and the rate locks of their orders, past their term
          order,  \* orders and buy_orders
          fund,   \* btc_sell_fundings
          call,   \* the requests being served
          output, \* what each output is worth and whether it is deep enough
          seen,   \* <<replica, output, event>> published so far
          bus,    \* of those, the ones not yet handled
          ready   \* <<replica, order>>: funding confirmed, order not yet

tradevars == <<issued, op, by, outdated, order, fund, call, output, seen, bus, ready>>
gate == <<issued, op, by, outdated>>
deposits == <<output, seen, bus, ready>>

Active == {"awaiting_deposit", "pending_confirmations"}
NoOrder == [st |-> "none", q |-> Null, tx |-> Null]
NoFund == [st |-> "none", out |-> Null]
Unserved == [at |-> "idle", key |-> Null, q |-> Null, o |-> Null]

TradeInit ==
    /\ issued = {} /\ op = [k \in Keys |-> [st |-> "none", body |-> Null]]
    /\ by = [q \in Quotes |-> Null] /\ outdated = {}
    /\ order = [o \in TradeOrders |-> NoOrder] /\ fund = [o \in TradeOrders |-> NoFund]
    /\ call = [c \in Calls |-> Unserved]
    /\ output = [u \in Outpoints |-> [sats |-> 0, deep |-> FALSE]]
    /\ seen = {} /\ bus = {} /\ ready = {}

NewKey(k) == op[k].st = "none" /\ \A j \in Keys : j < k => op[j].st # "none"
NewOrder(o) == order[o] = NoOrder /\ \A p \in TradeOrders : p < o => order[p] # NoOrder

Goes(c, at) == call' = [call EXCEPT ![c].at = at]

-----------------------------------------------------------------------------
(* A pair or an amount that is not served, or no price, gives no quote.    *)
IssueMobileTradeQuote(q) ==
    /\ q \notin issued /\ issued' = issued \cup {q}
    /\ UNCHANGED <<op, by, outdated, order, fund, call, deposits>>
MobileBuyQuote(q) == SideOf[q] = "buy" /\ IssueMobileTradeQuote(q)
MobileSellQuote(q) == SideOf[q] # "buy" /\ IssueMobileTradeQuote(q)

(* runIdempotencyTransaction.  A completed key replays its answer, one in  *)
(* process or bound to another payload is a conflict: nothing changes.     *)
MayProceedTwice(k, q) ==
    NewKey(k) \/ (op[k].st \in {"failed", "processing"} /\ op[k].body = q)
MayProceed(k, q) == NewKey(k) \/ (op[k].st = "failed" /\ op[k].body = q)
Begin(c, k, q) ==
    /\ call[c] = Unserved /\ q \in issued /\ MayProceed(k, q)
    /\ op' = [op EXCEPT ![k] = [st |-> "processing", body |-> q]]
    /\ call' = [call EXCEPT ![c] = [at |-> "consume", key |-> k, q |-> q, o |-> Null]]
    /\ UNCHANGED <<issued, by, outdated, order, fund, deposits>>

(* consumeMobileTradeQuote: the quote is bound to the first key, and only  *)
(* that key gets its terms again.  KYC and payload are checked afterwards. *)
Consumable(c) == call[c].q \notin outdated /\ by[call[c].q] \in {Null, call[c].key}
ConsumeMobileTradeQuote(c) ==
    LET q == call[c].q IN
    /\ call[c].at = "consume"
    /\ \/ /\ Consumable(c) /\ by' = [by EXCEPT ![q] = call[c].key]
          /\ \/ Goes(c, IF SideOf[q] = "btc" THEN "lookup" ELSE "forward")
             \/ Goes(c, "failed")
       \/ Goes(c, "failed") /\ UNCHANGED by
    /\ UNCHANGED <<issued, op, outdated, order, fund, deposits>>

(* markIdempotencyComplete and Failed: the recorder's status decides.      *)
AnswerTrade(c) ==
    /\ call[c].at \in {"ok", "failed"}
    /\ op' = [op EXCEPT ![call[c].key].st = IF call[c].at = "ok" THEN "completed" ELSE "failed"]
    /\ call' = [call EXCEPT ![c] = Unserved]
    /\ UNCHANGED <<issued, by, outdated, order, fund, deposits>>

(* A crash, or a client that hung up before the answer was recorded: the   *)
(* key stays in process.                                                   *)
Stops(c) ==
    /\ call[c] # Unserved /\ call' = [call EXCEPT ![c] = Unserved]
    /\ UNCHANGED <<gate, order, fund, deposits>>

TermEnds(q) == q \in issued \ outdated /\ outdated' = outdated \cup {q}
            /\ UNCHANGED <<issued, op, by, order, fund, call, deposits>>

-----------------------------------------------------------------------------
(* handleMobileBTCSellCreate.                                              *)
FundingOf(q) == {o \in TradeOrders : fund[o].st # "none" /\ order[o].q = q}

ActiveBTCSellFundingOrderForQuote(c) ==
    LET found == FundingOf(call[c].q) IN
    /\ call[c].at = "lookup"
    /\ \/ found # {} /\ Goes(c, "ok")
       \/ found = {} /\ Goes(c, "create")
       \/ Goes(c, "failed")                 \* database error
    /\ UNCHANGED <<gate, order, fund, deposits>>

Created(o, q, st) == [order EXCEPT ![o] = [st |-> st, q |-> q, tx |-> Null]]
CreateSaleOrder(c) ==
    /\ call[c].at = "create"
    /\ \E o \in TradeOrders : NewOrder(o) /\
         LET made == Created(o, call[c].q, "aguardando_deposito") IN
         \/ order' = made /\ call' = [call EXCEPT ![c].at = "fund", ![c].o = o]
         \/ order' \in {order, made} /\ Goes(c, "failed")
    /\ UNCHANGED <<gate, fund, deposits>>

(* A quote has one funding row (uq_btc_sell_fundings_quote): a second one  *)
(* is an error, as is a lost answer, and the order becomes an incident.    *)
QuoteIsFree(q) == FundingOf(q) = {}
CreateBTCSellFunding(c) ==
    LET o == call[c].o
        made == [fund EXCEPT ![o].st = "awaiting_deposit"]
    IN  /\ call[c].at = "fund"
        /\ \/ QuoteIsFree(order[o].q) /\ fund' = made /\ Goes(c, "ok")
              /\ UNCHANGED order
           \/ /\ fund' = fund \/ (QuoteIsFree(order[o].q) /\ fund' = made)
              /\ order' \in {order, [order EXCEPT ![o].st = "incidente_validacao"]}
              /\ Goes(c, "failed")
        /\ UNCHANGED <<gate, deposits>>

(* forwardToInternal: the API does not look at the key, and a failed call  *)
(* may have made its order.                                                *)
Forward(c, error) ==
    /\ call[c].at = "forward"
    /\ \E o \in TradeOrders : NewOrder(o) /\
         LET made == Created(o, call[c].q, "open") IN
         \/ order' = made /\ Goes(c, "ok")
         \/ order' \in {order, made} /\ Goes(c, error)
         \/ order' = order /\ Goes(c, "failed")          \* refused with a 4xx
    /\ UNCHANGED <<gate, fund, deposits>>
MobileSell(c) == call[c].q \in Quotes /\ SideOf[call[c].q] = "sell" /\ Forward(c, "failed")
MobileBuy(c) == call[c].q \in Quotes /\ SideOf[call[c].q] = "buy" /\ Forward(c, "degraded")

(* A purchase whose call failed is answered with an order of its own, which*)
(* has no charge yet.                                                      *)
WriteDegradedMobileBuy(c) ==
    /\ call[c].at = "degraded"
    /\ \E o \in TradeOrders : NewOrder(o) /\
         \/ order' = Created(o, call[c].q, "payment_provider_pending") /\ Goes(c, "ok")
         \/ order' = order /\ Goes(c, "failed")
    /\ UNCHANGED <<gate, fund, deposits>>

-----------------------------------------------------------------------------
CancelOrder(o) ==
    /\ order[o].st = "aguardando_deposito" /\ order' = [order EXCEPT ![o].st = "cancelada"]
    /\ UNCHANGED <<gate, fund, call, deposits>>
ExpireTradeOrder(o) ==
    /\ order[o].st = "aguardando_deposito" /\ order[o].q \in outdated
    /\ order' = [order EXCEPT ![o].st = "expirada"]
    /\ UNCHANGED <<gate, fund, call, deposits>>

(* External: the network.                                                  *)
Deposit(u, v) ==
    /\ output[u].sats = 0 /\ output' = [output EXCEPT ![u].sats = v]
    /\ UNCHANGED <<gate, order, fund, call, seen, bus, ready>>
Deepens(u) ==
    /\ output[u].sats > 0 /\ ~output[u].deep /\ output' = [output EXCEPT ![u].deep = TRUE]
    /\ UNCHANGED <<gate, order, fund, call, seen, bus, ready>>

(* SyncAddressUTXOsWithEvents: each replica may publish both events of an  *)
(* output, at most once; the one of a detection counts no confirmation.    *)
Publish(r, u, e) ==
    /\ output[u].sats > 0 /\ (e = "confirmed" => output[u].deep) /\ <<r, u, e>> \notin seen
    /\ seen' = seen \cup {<<r, u, e>>} /\ bus' = bus \cup {<<r, u, e>>}
    /\ UNCHANGED <<gate, order, fund, call, output, ready>>

(* ApplyBTCSellFundingEvent: the active sales of exactly this amount, else *)
(* all active sales; the deposit funds a sale that is alone.               *)
Matches(v) ==
    LET active == {o \in TradeOrders : fund[o].st \in Active}
        exact == {o \in active : Expected[order[o].q] = v}
    IN  IF exact = {} THEN active ELSE exact
UnusedOutput(u, o) == \A p \in TradeOrders \ {o} : fund[p].out # u
UnusedKey(u, o) == \A p \in TradeOrders \ {o} : order[p].tx # u
FundBy(o, u, st) == fund' = [fund EXCEPT ![o] = [st |-> st, out |-> u]]
OrderTo(o, u, from, st) ==
    order' = IF order[o].st \in from THEN [order EXCEPT ![o].st = st, ![o].tx = u] ELSE order

Deep(e) == e = "confirmed"
Apply(r, u, e, o) ==
    IF output[u].sats # Expected[order[o].q]
    THEN /\ FundBy(o, u, "manual_review") /\ UNCHANGED ready
         /\ OrderTo(o, u, {"aguardando_deposito", "aguardando_validacao"}, "aguardando_validacao")
    ELSE IF ~Deep(e)
    THEN FundBy(o, u, "pending_confirmations") /\ UNCHANGED <<order, ready>>
    ELSE IF order[o].q \in outdated
    THEN /\ FundBy(o, u, "manual_review") /\ UNCHANGED ready
         /\ OrderTo(o, u, {"aguardando_deposito", "aguardando_validacao", "expirada",
                           "incidente_validacao"}, "incidente_validacao")
    ELSE FundBy(o, u, "confirmed") /\ ready' = ready \cup {<<r, o>>} /\ UNCHANGED order

(* process, up to the commit; an event that matches no single sale, breaks *)
(* a unique index or meets a database error is dropped.                    *)
ApplyBTCSellFundingEvent(r, u, e) ==
    LET m == Matches(output[u].sats) IN
    /\ <<r, u, e>> \in bus /\ bus' = bus \ {<<r, u, e>>}
    /\ \/ /\ Cardinality(m) = 1
          /\ \E o \in m : UnusedOutput(u, o) /\ Apply(r, u, e, o)
                         /\ (order' # order => UnusedKey(u, o))
       \/ UNCHANGED <<order, fund, ready>>
    /\ UNCHANGED <<gate, call, output, seen>>

(* ConfirmSellDepositForPayout; the worker may stop before it.             *)
ConfirmSellDepositForPayout(r, o) ==
    /\ <<r, o>> \in ready /\ ready' = ready \ {<<r, o>>}
    /\ \/ /\ order[o].st \in {"aguardando_deposito", "aguardando_validacao"}
          /\ order[o].q \notin outdated /\ UnusedKey(fund[o].out, o)
          /\ order' = [order EXCEPT ![o].st = "pago", ![o].tx = fund[o].out]
       \/ UNCHANGED order
    /\ UNCHANGED <<gate, fund, call, output, seen, bus>>

-----------------------------------------------------------------------------
TradeNext ==
    \/ \E c \in Calls, k \in Keys : \E q \in Carries[k] : Begin(c, k, q)
    \/ \E c \in Calls : ConsumeMobileTradeQuote(c) \/ AnswerTrade(c) \/ Stops(c)
                        \/ ActiveBTCSellFundingOrderForQuote(c) \/ CreateSaleOrder(c)
                        \/ CreateBTCSellFunding(c)
                        \/ MobileSell(c) \/ MobileBuy(c) \/ WriteDegradedMobileBuy(c)
    \/ \E q \in Quotes : MobileBuyQuote(q) \/ MobileSellQuote(q)
    \/ \E q \in Ending : TermEnds(q)
    \/ \E o \in TradeOrders : CancelOrder(o) \/ ExpireTradeOrder(o)
    \/ \E u \in Outpoints : Deepens(u) \/ \E v \in Values : Deposit(u, v)
    \/ \E r \in Replicas, u \in Outpoints, e \in {"detected", "confirmed"} :
         Publish(r, u, e) \/ ApplyBTCSellFundingEvent(r, u, e)
    \/ \E r \in Replicas, o \in TradeOrders : ConfirmSellDepositForPayout(r, o)

TradeSpec == TradeInit /\ [][TradeNext]_tradevars

-----------------------------------------------------------------------------
OrderStates == {"none", "open", "payment_provider_pending", "aguardando_deposito",
                "aguardando_validacao", "incidente_validacao", "pago", "cancelada", "expirada"}
FundStates == Active \cup {"none", "confirmed", "manual_review"}
Stages == {"idle", "consume", "lookup", "create", "fund", "forward", "degraded", "ok", "failed"}
TradeTypeOK ==
    /\ issued \subseteq Quotes /\ outdated \subseteq issued /\ by \in [Quotes -> Keys \cup {Null}]
    /\ op \in [Keys -> [st : {"none", "processing", "failed", "completed"}, body : Quotes \cup {Null}]]
    /\ order \in [TradeOrders -> [st : OrderStates, q : Quotes \cup {Null}, tx : Outpoints \cup {Null}]]
    /\ fund \in [TradeOrders -> [st : FundStates, out : Outpoints \cup {Null}]]
    /\ call \in [Calls -> [at : Stages, key : Keys \cup {Null}, q : Quotes \cup {Null},
                           o : TradeOrders \cup {Null}]]
    /\ output \in [Outpoints -> [sats : Values \cup {0}, deep : BOOLEAN]]
    /\ seen \subseteq Replicas \X Outpoints \X {"detected", "confirmed"} /\ bus \subseteq seen
    /\ ready \subseteq Replicas \X TradeOrders

(* Two requests never work on one quote at a time, whatever keys they      *)
(* carry: a key admits one and a quote serves one key.                     *)
Past(c) == call[c].at \notin {"idle", "consume", "failed"}
OneHandlerPerQuote ==
    \A c, d \in Calls : c # d /\ Past(c) /\ Past(d) => call[c].q # call[d].q

(* A key answered as completed made an order of its own quote, and if it is*)
(* a sale of BTC then it is the one of its quote that a deposit funds.     *)
CompletedMadeAnOrder ==
    \A k \in Keys : op[k].st = "completed" =>
        LET mine == {o \in TradeOrders : order[o].q = op[k].body}
        funded == {o \in mine : fund[o].st # "none"}
        IN  /\ by[op[k].body] = k /\ mine # {}
            /\ SideOf[op[k].body] = "btc" => Cardinality(funded) = 1

(* A sale of BTC is paid for a deposit of its own, deep enough and of      *)
(* exactly the quoted amount, whatever the order of the events.            *)
PaidWasFunded ==
    \A o \in TradeOrders : order[o].st = "pago" =>
        /\ fund[o].st = "confirmed" /\ fund[o].out = order[o].tx /\ output[order[o].tx].deep
        /\ output[order[o].tx].sats = Expected[order[o].q]
        /\ \A p \in TradeOrders \ {o} : order[p].st = "pago" => order[p].tx # order[o].tx

(* What the gate, the quotes and the funding worker promise together.      *)
TradesAreSound == TradeTypeOK /\ OneHandlerPerQuote /\ CompletedMadeAnOrder /\ PaidWasFunded
=============================================================================
