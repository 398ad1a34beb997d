------------------------------ MODULE BuyOrder ------------------------------
(***************************************************************************)
(* BUY orders: creation after the charge, provider notifications           *)
(* (ApplyBuyProviderWebhook), expiry, and the delivery of the crypto by    *)
(* the BuySendWorker goroutines of every replica, through a liquidity      *)
(* provider or the hot-wallet signer.  BTC:BITCOIN orders with a treasury  *)
(* take another route and are not in Orders.                               *)
(*                                                                         *)
(* A "buy.paid" event starts the same claim that the ten-second recovery   *)
(* scan starts, so the bus is not modelled: it only saves waiting.         *)
(***************************************************************************)
EXTENDS Naturals, Sequences, FiniteSets

CONSTANTS Orders,
          Kind,        \* [Orders -> {"pix", "card", "dca", "degraded"}]
          Notes,       \* per order, what its provider reports: [raw, e2e]
          Handlers,    \* concurrent notification requests
          Workers,     \* goroutines of BuySendWorker, of all replicas
          Providers,   \* executable liquidity providers
          Quoted,      \* the providers that list the pair of each order
          HotFirst,    \* orders whose asset prefers the hot wallet
          HotPair,     \* orders whose pair the hot wallet can deliver
          Rejected,    \* orders the amount or policy checks reject
          SignerMode,  \* "signer", "simulate" or "missing"
          NoOrder,
          MaxFails     \* bound: crashes, deadlines and failed statements

ASSUME BuyOrderAssumption ==
    /\ Kind \in [Orders -> {"pix", "card", "dca", "degraded"}]
    /\ DOMAIN Notes = Orders /\ (\A o \in Orders : Len(Notes[o]) \in Nat)
    /\ NoOrder \notin Orders
    /\ Quoted \in [Orders -> SUBSET Providers]
    /\ HotFirst \subseteq Orders /\ HotPair \subseteq Orders /\ Rejected \subseteq Orders
    /\ SignerMode \in {"signer", "simulate", "missing"} /\ MaxFails \in Nat

VARIABLES st,      \* buy_orders.status; "none", then "charged" before the row
          lapsed,  \* orders whose rate_lock_expires_at has passed
          old,     \* orders not updated for 60 seconds
          seen,    \* buy_order_events "webhook.provider": keys of each order
          acked,   \* notifications <<o, i>> answered with 200
          issued,  \* external: how many notifications each provider has made
          hand,    \* notification each handler holds, <<>> when free
          task,    \* what each worker goroutine is doing
          wire,    \* external: operations on their way to the signer
          hot,     \* external: operations the signer has executed, per order
          prov,    \* external: deliveries by liquidity providers, per order
          closed,  \* history: orders that have been unpaid and terminal
          fails

vars == <<st, lapsed, old, seen, acked, issued, hand, task, wire, hot, prov, closed, fails>>
notify == <<seen, acked, issued, hand>>
chain == <<wire, hot, prov>>

Awaiting == {"aguardando_pix", "aguardando_credit_card", "payment_provider_pending"}
TerminalUnpaid == {"erro", "expirado"}
Sending == {"enviando", "pendente_confirmacao", "enviado"}
Status == {"none", "charged", "pago_fiat", "incidente_validacao"}
          \cup Awaiting \cup TerminalUnpaid \cup Sending

Idle == [at |-> "idle", order |-> NoOrder, left |-> {}, new |-> "none"]
Tasks == [at : {"idle", "load", "exec", "hot", "wait", "writeLiq", "writeHot"},
          order : Orders \cup {NoOrder}, left : SUBSET Providers,
          new : {"none", "erro", "enviado", "pendente_confirmacao"}]

Init == /\ st = [o \in Orders |-> "none"]
        /\ lapsed = {} /\ old = {} /\ closed = {} /\ acked = {}
        /\ seen = [o \in Orders |-> {}]
        /\ issued = [o \in Orders |-> 0]
        /\ hand = [h \in Handlers |-> <<>>]
        /\ task = [w \in Workers |-> Idle]
        /\ wire = {} /\ hot = [o \in Orders |-> {}] /\ prov = [o \in Orders |-> 0]
        /\ fails = 0

(* Every status write of this module: updated_at moves, history is kept.   *)
SetStatus(o, s) == /\ st' = [st EXCEPT ![o] = s]
                   /\ old' = old \ {o}
                   /\ closed' = IF s \in TerminalUnpaid THEN closed \cup {o} ELSE closed

Fail == fails < MaxFails /\ fails' = fails + 1

-----------------------------------------------------------------------------
(* handleCreateBuy: the charge exists before the row, and stays payable    *)
(* when the insert fails.  A degraded order has no charge; a DCA order is  *)
(* created paid by the DCA worker.                                         *)
CreateCharge(o) ==
    /\ st[o] = "none" /\ Kind[o] \in {"pix", "card"}
    /\ st' = [st EXCEPT ![o] = "charged"]
    /\ UNCHANGED <<lapsed, old, closed, notify, task, chain, fails>>

CreateBuyOrder(o) ==
    /\ \/ st[o] = "charged" /\ Kind[o] = "pix"  /\ SetStatus(o, "aguardando_pix")
       \/ st[o] = "charged" /\ Kind[o] = "card" /\ SetStatus(o, "aguardando_credit_card")
       \/ st[o] = "none" /\ Kind[o] = "degraded" /\ SetStatus(o, "payment_provider_pending")
       \/ st[o] = "none" /\ Kind[o] = "dca"      /\ SetStatus(o, "pago_fiat")
    /\ UNCHANGED <<lapsed, notify, task, chain, fails>>

RateLockExpires(o) ==
    /\ st[o] \notin {"none", "charged"} /\ o \notin lapsed
    /\ lapsed' = lapsed \cup {o}
    /\ UNCHANGED <<st, old, closed, notify, task, chain, fails>>

(* ExpireStaleBuyOrders; card orders never expire.                         *)
ExpireStaleBuyOrders ==
    LET stale == {o \in lapsed : st[o] \in {"aguardando_pix", "payment_provider_pending"}} IN
    /\ stale # {}
    /\ st' = [o \in Orders |-> IF o \in stale THEN "expirado" ELSE st[o]]
    /\ old' = old \ stale /\ closed' = closed \cup stale
    /\ UNCHANGED <<lapsed, notify, task, chain, fails>>

-----------------------------------------------------------------------------
(* PixWebhookStatus and efiChargeStatusToBuyStatus.                        *)
PixWebhookStatus(raw) == IF raw = "CONCLUIDA" THEN "pago_fiat" ELSE "erro"

EfiChargeStatus(raw) ==
    CASE raw = "paid" -> "pago_fiat"
      [] raw \in {"canceled", "unpaid", "refunded", "contested"} -> "erro"
      [] OTHER -> "aguardando_credit_card"

BuyStatus(o, i) == LET raw == Notes[o][i].raw IN
    IF Kind[o] = "card" THEN EfiChargeStatus(raw) ELSE PixWebhookStatus(raw)

(* The provider id an order may record once: the end-to-end id of a Pix,   *)
(* charge and status of a card.                                            *)
ProviderId(o, i) == IF Kind[o] = "card" THEN Notes[o][i].raw ELSE Notes[o][i].e2e

(* External: a Pix charge is paid once, so its notifications of a payment  *)
(* carry one end-to-end id.                                                *)
ASSUME OnePaymentAssumption == \A o \in Orders : Kind[o] = "pix" => \A i, j \in 1..Len(Notes[o]) :
    BuyStatus(o, i) = "pago_fiat" /\ BuyStatus(o, j) = "pago_fiat"
        => ProviderId(o, i) = ProviderId(o, j)

(* External: the payment provider has something new to report.             *)
Report(o) ==
    /\ st[o] # "none" /\ Kind[o] \in {"pix", "card"}
    /\ issued[o] < Len(Notes[o])
    /\ issued' = [issued EXCEPT ![o] = @ + 1]
    /\ UNCHANGED <<st, lapsed, old, closed, seen, acked, hand, task, chain, fails>>

(* A request arrives, once or again.  A Pix notification carries its       *)
(* payment; the card handler asks Efi for the charge's latest status.      *)
Receive(h, o) ==
    /\ hand[h] = <<>>
    /\ \E i \in 1..issued[o] :
         /\ Kind[o] = "card" => i = issued[o]
         /\ hand' = [hand EXCEPT ![h] = <<o, i>>]
    /\ UNCHANGED <<st, lapsed, old, closed, seen, acked, issued, task, chain, fails>>

(* Mutant: a late payment is dropped.                                      *)
AppliedDroppingLate(o, new) ==
    IF new = "pago_fiat" /\ st[o] \in TerminalUnpaid THEN st[o] ELSE new

(* Mutant: a failure report is accepted while the crypto is being sent.    *)
BlockedLessErro(o, new) ==
    \/ st[o] \in {"pago_fiat"} \cup Sending /\ new = "aguardando_credit_card"
    \/ st[o] \in Sending /\ new = "pago_fiat"

(* A late payment is an incident, not a payment.                           *)
Applied(o, new) ==
    IF new = "pago_fiat" /\ st[o] \in TerminalUnpaid THEN "incidente_validacao" ELSE new

(* The NOT clauses of the UPDATE.                                          *)
Blocked(o, new) ==
    \/ st[o] \in {"pago_fiat"} \cup Sending /\ new = "aguardando_credit_card"
    \/ st[o] \in Sending /\ new \in {"pago_fiat", "erro"}

(* ApplyBuyProviderWebhook, one transaction, and the answer 200.           *)
ApplyWebhook(h) == hand[h] # <<>> /\
    LET o == hand[h][1]  i == hand[h][2]
        key == ProviderId(o, i)
        new == Applied(o, BuyStatus(o, i)) IN
    /\ st[o] # "charged"
    /\ hand' = [hand EXCEPT ![h] = <<>>]
    /\ acked' = acked \cup {<<o, i>>}
    /\ seen' = [seen EXCEPT ![o] = @ \cup {key}]
    /\ IF key \in seen[o] \/ Blocked(o, new)
       THEN UNCHANGED <<st, old, closed>>
       ELSE SetStatus(o, new)
    /\ UNCHANGED <<lapsed, issued, task, chain, fails>>

(* The transaction rolls back: there is no row, or the database failed.    *)
WebhookFails(h) ==
    /\ hand[h] # <<>>
    /\ IF st[hand[h][1]] = "charged" THEN UNCHANGED fails ELSE Fail
    /\ hand' = [hand EXCEPT ![h] = <<>>]
    /\ UNCHANGED <<st, lapsed, old, closed, seen, acked, issued, task, chain>>

-----------------------------------------------------------------------------
(* Sixty seconds pass.  A goroutine gives up after 25, so none that holds  *)
(* the order is still writing.                                             *)
SixtySecondsPass(o) ==
    /\ st[o] = "enviando" /\ o \notin old
    /\ \A w \in Workers : task[w].order # o
    /\ old' = old \cup {o}
    /\ UNCHANGED <<st, lapsed, closed, notify, task, chain, fails>>

(* Mutant: the age of the claim is not checked.                            *)
ClaimableAtAnyAge(o) == st[o] \in {"pago_fiat", "enviando"}

(* Mutant: orders that wait for their payment are claimed.                 *)
ClaimableUnpaid(o) == st[o] \in {"pago_fiat"} \cup Awaiting

(* Mutant: a claim is for ever.                                            *)
ClaimableOnce(o) == st[o] = "pago_fiat"

(* ListPendingBuys, and the WHERE clause of ClaimBuyOrderForSend.          *)
Claimable(o) == st[o] = "pago_fiat" \/ (st[o] = "enviando" /\ o \in old)

ClaimBuyOrderForSend(w, o) ==
    /\ task[w].at = "idle" /\ Claimable(o)
    /\ SetStatus(o, "enviando")
    /\ task' = [task EXCEPT ![w] = [Idle EXCEPT !.at = "load", !.order = o]]
    /\ UNCHANGED <<lapsed, notify, chain, fails>>

(* GetBuyOrder and shouldUseLiquidityRouter: hot-wallet-first assets leave *)
(* the wallet when its balance is short or cannot be read.                 *)
Load(w) ==
    /\ task[w].at = "load"
    /\ LET o == task[w].order IN
       \/ \E quotes \in SUBSET Quoted[o] :
            task' = [task EXCEPT ![w].at = "exec", ![w].left = quotes]
       \/ /\ Quoted[o] = {} \/ o \in HotFirst \cap HotPair
          /\ task' = [task EXCEPT ![w].at = "hot"]
    /\ UNCHANGED <<st, lapsed, old, closed, notify, chain, fails>>

Write(w, step, s) == task' = [task EXCEPT ![w].at = step, ![w].new = s]

(* Router.ExecuteBest, one provider of the quoted ones: it may execute and *)
(* answer, refuse, or leave an error behind with or without a delivery.    *)
ExecuteProvider(w) ==
    LET o == task[w].order IN
    /\ task[w].at = "exec"
    /\ \E p \in task[w].left :
         \/ /\ prov' = [prov EXCEPT ![o] = @ + 1]
            /\ \E s \in {"enviado", "pendente_confirmacao"} : Write(w, "writeLiq", s)
            /\ UNCHANGED fails
         \/ /\ Write(w, "writeLiq", "pendente_confirmacao")   \* bought, not withdrawn
            /\ UNCHANGED <<prov, fails>>
         \/ /\ task' = [task EXCEPT ![w].left = @ \ {p}]
            /\ UNCHANGED <<prov, fails>>
         \/ /\ Fail
            /\ prov' = [prov EXCEPT ![o] = @ + 1]
            /\ task' = [task EXCEPT ![w].left = @ \ {p}]
    /\ UNCHANGED <<st, lapsed, old, closed, notify, wire, hot>>

(* No provider delivered: fall back to the hot wallet.                     *)
LiquidityFallback(w) ==
    /\ task[w].at = "exec" /\ task[w].left = {}
    /\ task' = [task EXCEPT ![w].at = "hot"]
    /\ UNCHANGED <<st, lapsed, old, closed, notify, chain, fails>>

(* Mutant: a new operation id for every attempt.                           *)
OperationIdPerAttempt(o) == fails

(* SettlementOperationID depends on the order alone.                       *)
OperationId(o) == 0

(* The checks before the POST, and the POST.                               *)
HotWallet(w) ==
    LET o == task[w].order IN
    /\ task[w].at = "hot"
    /\ IF o \notin HotPair \/ SignerMode = "missing"
          \/ (SignerMode = "signer" /\ o \in Rejected)
       THEN Write(w, "writeHot", "erro") /\ UNCHANGED wire
       ELSE IF SignerMode = "simulate"
       THEN Write(w, "writeHot", "enviado") /\ UNCHANGED wire
       ELSE /\ task' = [task EXCEPT ![w].at = "wait"]
            /\ wire' = wire \cup {<<o, OperationId(o)>>}
    /\ UNCHANGED <<st, lapsed, old, closed, notify, hot, prov, fails>>

(* External: the signer executes an operation id once.                     *)
SignerExecutes(o, id) ==
    /\ <<o, id>> \in wire
    /\ wire' = wire \ {<<o, id>>}
    /\ hot' = [hot EXCEPT ![o] = @ \cup {id}]
    /\ UNCHANGED <<st, lapsed, old, closed, notify, task, prov, fails>>

(* Mutant: a 2xx answer without a hash is taken for a delivery.            *)
AmbiguousIsSent(o) == {"enviado"}

(* An error, a non-2xx answer or one without a hash is ambiguous.          *)
Ambiguous(o) == {"pendente_confirmacao"}

SignerAnswers(w) ==
    LET o == task[w].order
        done == <<o, OperationId(o)>> \notin wire /\ OperationId(o) \in hot[o] IN
    /\ task[w].at = "wait"
    /\ \E s \in (IF done THEN {"enviado"} ELSE {}) \cup Ambiguous(o) : Write(w, "writeHot", s)
    /\ UNCHANGED <<st, lapsed, old, closed, notify, chain, fails>>

(* UpdateBuyOrderStatus.                                                   *)
UpdateBuyOrderStatus(w) ==
    LET o == task[w].order  new == task[w].new IN
    /\ task[w].at \in {"writeLiq", "writeHot"}
    /\ IF st[o] = "enviado" /\ new = "erro" THEN UNCHANGED <<st, old, closed>>
                                            ELSE SetStatus(o, new)
    /\ task' = [task EXCEPT ![w] = Idle]
    /\ UNCHANGED <<lapsed, notify, chain, fails>>

(* The write fails: after a liquidity execution tryLiquidityExecution      *)
(* returns false, and the hot wallet is tried.                             *)
LiquidityWriteFails(w) ==
    /\ task[w].at = "writeLiq" /\ Fail
    /\ task' = [task EXCEPT ![w].at = "hot", ![w].new = "none"]
    /\ UNCHANGED <<st, lapsed, old, closed, notify, chain>>

(* The process stops, the 25 seconds run out, or the last write fails: the *)
(* order stays enviando and requests already made go on.                   *)
Abandon(w) ==
    /\ task[w].at # "idle" /\ Fail
    /\ task' = [task EXCEPT ![w] = Idle]
    /\ UNCHANGED <<st, lapsed, old, closed, notify, chain>>

-----------------------------------------------------------------------------
WorkerStep(w) == \/ \E o \in Orders : ClaimBuyOrderForSend(w, o)
                 \/ Load(w) \/ ExecuteProvider(w) \/ LiquidityFallback(w)
                 \/ HotWallet(w) \/ SignerAnswers(w) \/ UpdateBuyOrderStatus(w)

Next == \/ \E o \in Orders : \/ CreateCharge(o) \/ CreateBuyOrder(o) \/ RateLockExpires(o)
                             \/ Report(o) \/ SixtySecondsPass(o)
        \/ ExpireStaleBuyOrders
        \/ \E h \in Handlers, o \in Orders : Receive(h, o)
        \/ \E h \in Handlers : ApplyWebhook(h) \/ WebhookFails(h)
        \/ \E w \in Workers : \/ WorkerStep(w) \/ LiquidityWriteFails(w) \/ Abandon(w)
        \/ \E op \in wire : SignerExecutes(op[1], op[2])

Spec == Init /\ [][Next]_vars

(* Some replica runs, its ten-second scan dispatches what is pending, its  *)
(* goroutines end within their deadline, and time passes.                  *)
Fairness == /\ \A w \in Workers : WF_vars(WorkerStep(w))
            /\ \A o \in Orders : WF_vars(SixtySecondsPass(o))

FairSpec == Spec /\ Fairness

-----------------------------------------------------------------------------
TypeOK == /\ st \in [Orders -> Status]
          /\ lapsed \subseteq Orders /\ old \subseteq Orders /\ closed \subseteq Orders
          /\ issued \in [Orders -> Nat] /\ prov \in [Orders -> Nat]
          /\ task \in [Workers -> Tasks] /\ fails \in 0..MaxFails

(* The signer moves the crypto of an order at most once, whatever crashes, *)
(* deadlines and second claims happen (the operation id of the signer).    *)
HotWalletOnce == \A o \in Orders : Cardinality(hot[o]) <= 1

(* An order the system calls failed, expired or an incident has delivered  *)
(* nothing and has nothing on its way (the clauses of the webhook UPDATE   *)
(* and the ambiguous answers of buysend.go), if no provider could be used. *)
FailedIsUndelivered == \A o \in Orders : Quoted[o] = {} /\
    st[o] \in TerminalUnpaid \cup {"incidente_validacao"}
        => hot[o] = {} /\ prov[o] = 0 /\ ~\E id \in 0..MaxFails : <<o, id>> \in wire

(* Crypto goes out only for an order whose payment was reported, or that   *)
(* the DCA worker created paid.                                            *)
DeliveredWasPaid == \A o \in Orders :
    hot[o] # {} \/ prov[o] > 0
        => Kind[o] = "dca" \/ \E i \in 1..issued[o] : /\ <<o, i>> \in acked
                                                      /\ BuyStatus(o, i) = "pago_fiat"

(* A Pix the webhook accepted is visible in the order: it is paid, on its  *)
(* way, failed with a reason or an incident, not expired and not still     *)
(* waiting for the customer.  One that arrives after the order was closed  *)
(* is reviewed by a person ("manual_review_required_no_auto_delivery"): a  *)
(* closed order is never delivered by the worker.                          *)
PaymentCounts == \A o \in Orders : Kind[o] = "pix" =>
    /\ (\E i \in 1..issued[o] : <<o, i>> \in acked /\ BuyStatus(o, i) = "pago_fiat")
           => st[o] \notin Awaiting \cup {"none", "charged", "expirado"}
    /\ o \in closed => st[o] \notin {"pago_fiat"} \cup Sending

(* A delivery recorded as sent is never taken back, by a late webhook or   *)
(* by a goroutine that claimed the order before.                           *)
SentIsFinal == [][\A o \in Orders : st[o] = "enviado" => st'[o] = "enviado"]_vars

(* With a signer, "enviado" means that the crypto left.                    *)
SentIsDelivered == SignerMode = "signer" =>
    \A o \in Orders : st[o] = "enviado" => hot[o] # {} \/ prov[o] > 0

(* A paid order does not stay between payment and delivery: some replica   *)
(* claims it, or claims it again, until it has an outcome.                 *)
PaidIsSettled == \A o \in Orders :
    st[o] \in {"pago_fiat", "enviando"} ~> st[o] \notin {"pago_fiat", "enviando"}
=============================================================================
