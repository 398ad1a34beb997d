--------------------------- MODULE BuyOrderProofs ---------------------------
(***************************************************************************)
(* Theorems of BuyOrder, for any orders, notifications, handlers,          *)
(* goroutines, providers and failures.  What the properties rest on is     *)
(* that one goroutine at a time holds an order, and that the order stays   *)
(* enviando while it does: no notification, expiry or second claim takes   *)
(* it away.  Everything a goroutine or the signer has done is then covered *)
(* by what the order's status and the acknowledged payments say.  The last *)
(* two parts are about what the app itself asks for: WalletTransfer and    *)
(* SolanaWallet.                                                           *)
(***************************************************************************)
EXTENDS BuyOrder, WalletTransfer, SolanaWallet, FiniteSetTheorems, TLAPS

Typed == /\ TypeOK
         /\ wire \subseteq Orders \X {0}
         /\ hot \in [Orders -> SUBSET {0}]
         /\ hand \in [Handlers -> {<<>>} \cup (Orders \X Nat)]

HandWasIssued == \A h \in Handlers : hand[h] # <<>> =>
    hand[h][2] \in 1..issued[hand[h][1]]

HolderIsSending == \A w \in Workers :
    /\ task[w].at = "idle" => task[w].order = NoOrder
    /\ task[w].at # "idle" => /\ task[w].order \in Orders
                              /\ st[task[w].order] = "enviando"
                              /\ task[w].order \notin old

OneHolder == \A w, x \in Workers :
    task[w].order = task[x].order /\ task[w].order # NoOrder => w = x

PaidFor(o) == Kind[o] = "dca" \/ \E i \in 1..issued[o] : /\ <<o, i>> \in acked
                                                          /\ BuyStatus(o, i) = "pago_fiat"

SendingIsPaid == \A o \in Orders : st[o] \in {"pago_fiat"} \cup Sending => PaidFor(o)

Posted(o) == <<o, 0>> \in wire \/ hot[o] # {}
Deliverable(o) == o \in HotPair /\ o \notin Rejected /\ SignerMode = "signer"

PostedIsSending == \A o \in Orders : Posted(o) => st[o] \in Sending /\ Deliverable(o)

ProvidedIsPaid == \A o \in Orders : prov[o] > 0 => Quoted[o] # {} /\ PaidFor(o)

Remembers(t) ==
    /\ t.at = "exec" => t.left \subseteq Quoted[t.order]
    /\ t.at = "writeLiq" => t.new \in {"enviado", "pendente_confirmacao"}
    /\ t.at = "writeHot" => t.new # "none" /\ (t.new = "erro" => ~Deliverable(t.order))
    /\ t.at \in {"writeLiq", "writeHot"} /\ t.new = "enviado" /\ SignerMode = "signer"
       => hot[t.order] # {} \/ prov[t.order] > 0

TaskRemembers == \A w \in Workers : Remembers(task[w])

IndInv == /\ Typed /\ HandWasIssued
          /\ HolderIsSending /\ OneHolder /\ TaskRemembers
          /\ SendingIsPaid /\ PostedIsSending /\ ProvidedIsPaid
          /\ SentIsDelivered

-----------------------------------------------------------------------------
LEMMA IdleIsTask == Idle \in Tasks /\ Idle.at = "idle" /\ Idle.order = NoOrder
  BY DEF Idle, Tasks

LEMMA InitIndInv == Init => IndInv
  <1> SUFFICES ASSUME Init PROVE IndInv
    OBVIOUS
  <1> USE BuyOrderAssumption DEF Init, Idle
  <1>1. Typed
    BY DEF Typed, TypeOK, Status, Tasks
  <1>2. HandWasIssued /\ HolderIsSending /\ TaskRemembers
    BY DEF HandWasIssued, HolderIsSending, TaskRemembers, Remembers
  <1>3. OneHolder
    BY DEF OneHolder
  <1>4. SendingIsPaid /\ SentIsDelivered
    BY DEF SendingIsPaid, Sending, SentIsDelivered
  <1>5. PostedIsSending /\ ProvidedIsPaid
    BY DEF PostedIsSending, Posted, ProvidedIsPaid
  <1> QED
    BY <1>1, <1>2, <1>3, <1>4, <1>5 DEF IndInv

(* A payment that was acknowledged stays acknowledged.                     *)
LEMMA PaidStays ==
  ASSUME Typed, Typed', acked \subseteq acked',
         \A o \in Orders : issued[o] <= issued'[o]
  PROVE  \A o \in Orders : PaidFor(o) => PaidFor(o)'
  <1> SUFFICES ASSUME NEW o \in Orders, PaidFor(o) PROVE PaidFor(o)'
    OBVIOUS
  <1>1. CASE Kind[o] = "dca"
    BY <1>1 DEF PaidFor
  <1>2. ASSUME NEW i \in 1..issued[o], <<o, i>> \in acked, BuyStatus(o, i) = "pago_fiat"
        PROVE  PaidFor(o)'
    <2>1. i \in 1..issued'[o]
      BY DEF Typed, TypeOK
    <2> QED
      BY <1>2, <2>1 DEF PaidFor
  <1> QED
    BY <1>1, <1>2 DEF PaidFor

(* The statuses a notification can ask for.                                *)
LEMMA WebhookStatuses ==
  ASSUME NEW o, NEW i
  PROVE  /\ BuyStatus(o, i) \in {"pago_fiat", "erro", "aguardando_credit_card"}
         /\ LET new == Applied(o, BuyStatus(o, i)) IN
            /\ new \in {"pago_fiat", "erro", "aguardando_credit_card", "incidente_validacao"}
            /\ new \in Status /\ new \notin Sending
            /\ new = "pago_fiat" => BuyStatus(o, i) = "pago_fiat"
            /\ st[o] \in Sending => Blocked(o, new)
  <1>1. BuyStatus(o, i) \in {"pago_fiat", "erro", "aguardando_credit_card"}
    BY DEF BuyStatus, EfiChargeStatus, PixWebhookStatus
  <1> QED
    BY <1>1 DEF Applied, Blocked, Sending, TerminalUnpaid, Status, Awaiting

(* Steps of customers, providers and time: they write statuses only of     *)
(* orders that are not being sent, and call none of them paid without a    *)
(* payment; no goroutine and no delivery is touched.                       *)
StatusesOnly ==
    /\ UNCHANGED <<task, chain>> /\ old' \subseteq old
    /\ \A o \in Orders : PaidFor(o) => PaidFor(o)'
    /\ \A o \in Orders : st'[o] # st[o] =>
         /\ st[o] \notin Sending /\ st'[o] \notin Sending
         /\ st'[o] = "pago_fiat" => PaidFor(o)'

LEMMA StatusWritten ==
  ASSUME IndInv, Typed', HandWasIssued', StatusesOnly
  PROVE  IndInv'
  <1> USE DEF IndInv, Typed, TypeOK, StatusesOnly, chain
  <1>1. HolderIsSending' /\ OneHolder'
    BY DEF HolderIsSending, OneHolder, Sending
  <1>2. TaskRemembers'
    BY DEF TaskRemembers, Remembers, Deliverable
  <1>3. SendingIsPaid'
    BY DEF SendingIsPaid
  <1>4. PostedIsSending' /\ ProvidedIsPaid'
    BY DEF PostedIsSending, ProvidedIsPaid, Posted, Deliverable
  <1>5. SentIsDelivered'
    BY DEF SentIsDelivered, Sending
  <1> QED
    BY <1>1, <1>2, <1>3, <1>4, <1>5

LEMMA OrderIndInv ==
  ASSUME IndInv, NEW o \in Orders,
         \/ CreateCharge(o) \/ CreateBuyOrder(o) \/ RateLockExpires(o)
         \/ Report(o) \/ ExpireStaleBuyOrders
  PROVE  IndInv'
  <1> USE DEF IndInv, notify, chain
  <1>1. CASE CreateCharge(o)
    <2>1. Typed' /\ HandWasIssued'
      BY <1>1 DEF CreateCharge, Typed, TypeOK, Status, HandWasIssued
    <2>2. \A x \in Orders : PaidFor(x) => PaidFor(x)'
      BY <1>1 DEF CreateCharge, PaidFor
    <2>3. StatusesOnly
      BY <1>1, <2>2 DEF CreateCharge, StatusesOnly, Typed, TypeOK, Sending
    <2> QED
      BY <2>1, <2>3, StatusWritten
  <1>2. CASE CreateBuyOrder(o)
    <2>1. PICK s \in {"aguardando_pix", "aguardando_credit_card", "payment_provider_pending",
                     "pago_fiat"} : SetStatus(o, s)
      BY <1>2 DEF CreateBuyOrder
    <2>2. Typed' /\ HandWasIssued'
      BY <1>2, <2>1 DEF CreateBuyOrder, SetStatus, Typed, TypeOK, Status, Awaiting,
                        TerminalUnpaid, HandWasIssued
    <2>3. \A x \in Orders : PaidFor(x) => PaidFor(x)'
      BY <1>2 DEF CreateBuyOrder, PaidFor
    <2>4. Kind[o] = "dca" => PaidFor(o)'
      BY DEF PaidFor
    <2>5. StatusesOnly
      BY <1>2, <2>3, <2>4 DEF CreateBuyOrder, SetStatus, StatusesOnly, Typed, TypeOK, Sending
    <2> QED
      BY <2>2, <2>5, StatusWritten
  <1>3. CASE RateLockExpires(o)
    <2>1. Typed' /\ HandWasIssued'
      BY <1>3 DEF RateLockExpires, Typed, TypeOK, HandWasIssued
    <2>2. StatusesOnly
      BY <1>3 DEF RateLockExpires, StatusesOnly, PaidFor
    <2> QED
      BY <2>1, <2>2, StatusWritten
  <1>4. CASE Report(o)
    <2>1. Typed' /\ HandWasIssued'
      BY <1>4 DEF Report, Typed, TypeOK, HandWasIssued
    <2>2. acked \subseteq acked' /\ \A x \in Orders : issued[x] <= issued'[x]
      BY <1>4 DEF Report, Typed, TypeOK
    <2>3. \A x \in Orders : PaidFor(x) => PaidFor(x)'
      BY <2>1, <2>2, PaidStays
    <2>4. StatusesOnly
      BY <1>4, <2>3 DEF Report, StatusesOnly
    <2> QED
      BY <2>1, <2>4, StatusWritten
  <1>5. CASE ExpireStaleBuyOrders
    <2>1. Typed' /\ HandWasIssued'
      BY <1>5 DEF ExpireStaleBuyOrders, Typed, TypeOK, Status, TerminalUnpaid, HandWasIssued
    <2>2. \A x \in Orders : PaidFor(x) => PaidFor(x)'
      BY <1>5 DEF ExpireStaleBuyOrders, PaidFor
    <2>3. StatusesOnly
      BY <1>5, <2>2 DEF ExpireStaleBuyOrders, StatusesOnly, Typed, TypeOK, Sending
    <2> QED
      BY <2>1, <2>3, StatusWritten
  <1> QED
    BY <1>1, <1>2, <1>3, <1>4, <1>5

LEMMA NotificationIndInv ==
  ASSUME IndInv, NEW h \in Handlers,
         ApplyWebhook(h) \/ WebhookFails(h) \/ \E o \in Orders : Receive(h, o)
  PROVE  IndInv'
  <1> USE DEF IndInv, notify, chain
  <1>1. ASSUME NEW o \in Orders, Receive(h, o)
        PROVE  IndInv'
    <2>1. Typed' /\ HandWasIssued'
      BY <1>1 DEF Receive, Typed, TypeOK, HandWasIssued
    <2>2. StatusesOnly
      BY <1>1 DEF Receive, StatusesOnly, PaidFor
    <2> QED
      BY <2>1, <2>2, StatusWritten
  <1>2. CASE WebhookFails(h)
    <2>1. Typed' /\ HandWasIssued'
      BY <1>2, BuyOrderAssumption DEF WebhookFails, Fail, Typed, TypeOK, HandWasIssued
    <2>2. StatusesOnly
      BY <1>2 DEF WebhookFails, StatusesOnly, PaidFor
    <2> QED
      BY <2>1, <2>2, StatusWritten
  <1>3. CASE ApplyWebhook(h)
    <2>1. PICK o \in Orders, i \in Nat : hand[h] = <<o, i>> /\ i \in 1..issued[o]
      BY <1>3 DEF ApplyWebhook, Typed, HandWasIssued
    <2> DEFINE new == Applied(o, BuyStatus(o, i))
    <2>2. /\ new \in Status /\ new \notin Sending
          /\ new = "pago_fiat" => BuyStatus(o, i) = "pago_fiat"
          /\ st[o] \in Sending => Blocked(o, new)
      BY WebhookStatuses
    <2>3. UNCHANGED <<st, old, closed>> \/ (~Blocked(o, new) /\ SetStatus(o, new))
      BY <1>3, <2>1 DEF ApplyWebhook
    <2> HIDE DEF new
    <2>4. /\ <<o, i>> \in acked' /\ acked \subseteq acked'
          /\ UNCHANGED <<lapsed, issued, task, chain, fails>>
          /\ hand' = [hand EXCEPT ![h] = <<>>]
      BY <1>3, <2>1 DEF ApplyWebhook
    <2>5. Typed' /\ HandWasIssued'
      <3>1. st' \in [Orders -> Status] /\ old' \subseteq Orders /\ closed' \subseteq Orders
        <4>1. CASE UNCHANGED <<st, old, closed>>
          BY <4>1 DEF Typed, TypeOK
        <4>2. CASE SetStatus(o, new)
          BY <4>2, <2>1, <2>2 DEF SetStatus, Typed, TypeOK
        <4> QED
          BY <2>3, <4>1, <4>2
      <3>2. hand' \in [Handlers -> {<<>>} \cup (Orders \X Nat)]
        BY <2>4 DEF Typed
      <3>3. HandWasIssued'
        BY <2>4 DEF HandWasIssued, Typed
      <3> QED
        BY <2>4, <3>1, <3>2, <3>3 DEF Typed, TypeOK
    <2>6. new = "pago_fiat" => PaidFor(o)'
      BY <2>1, <2>2, <2>4 DEF PaidFor
    <2>7. \A x \in Orders : PaidFor(x) => PaidFor(x)'
      <3>1. \A x \in Orders : issued[x] <= issued'[x]
        BY <2>4 DEF Typed, TypeOK
      <3> QED
        BY <2>5, <2>4, <3>1, PaidStays
    <2>8. StatusesOnly
      BY <2>1, <2>2, <2>3, <2>4, <2>6, <2>7 DEF StatusesOnly, SetStatus, Typed, TypeOK
    <2> QED
      BY <2>5, <2>8, StatusWritten
  <1> QED
    BY <1>1, <1>2, <1>3

-----------------------------------------------------------------------------
(* A goroutine that keeps its order: it may execute a provider that quotes *)
(* it, or post it to the signer when the wallet can deliver it.            *)
LEMMA HolderStep ==
  ASSUME IndInv, NEW w \in Workers, NEW t \in Tasks,
         task[w].at # "idle", t.at # "idle", t.order = task[w].order,
         task' = [task EXCEPT ![w] = t],
         UNCHANGED <<st, lapsed, old, closed, notify, hot>>, fails' \in 0..MaxFails,
         prov' \in [Orders -> Nat],
         \A x \in Orders : \/ prov'[x] = prov[x]
                           \/ prov'[x] > prov[x] /\ x = t.order /\ Quoted[x] # {},
         wire' = wire \/ (wire' = wire \cup {<<t.order, 0>>} /\ Deliverable(t.order)),
         Remembers(t)'
  PROVE  IndInv'
  <1> USE DEF IndInv, notify
  <1>0. hot' = hot /\ st' = st /\ \A x \in Orders : prov[x] > 0 => prov'[x] > 0
    <2>1. prov \in [Orders -> Nat]
      BY DEF Typed, TypeOK
    <2> HIDE DEF IndInv
    <2> QED
      BY <2>1
  <1>1. t.order \in Orders /\ st[t.order] = "enviando"
    BY DEF HolderIsSending
  <1>2. Typed'
    BY <1>1 DEF Typed, TypeOK
  <1>3. HandWasIssued'
    BY DEF HandWasIssued
  <1>4. HolderIsSending' /\ OneHolder'
    BY DEF HolderIsSending, OneHolder, Typed, TypeOK
  <1>5. TaskRemembers'
    <2> SUFFICES ASSUME NEW x \in Workers, x # w PROVE Remembers(task[x])'
      BY DEF TaskRemembers, Typed, TypeOK
    <2>1. task'[x] = task[x] /\ Remembers(task[x])
      BY DEF TaskRemembers, Typed, TypeOK
    <2>2. task[x].at # "idle" => task[x].order \in Orders
      BY DEF HolderIsSending
    <2>3. PICK u : u = task[x]
      OBVIOUS
    <2>4. Remembers(u) => Remembers(u)'
      <3>1. u.at # "idle" /\ prov[u.order] > 0 => prov'[u.order] > 0
        BY <1>0, <2>2, <2>3
      <3> QED
        BY <1>0, <3>1 DEF Remembers, Deliverable
    <2> QED
      BY <2>1, <2>3, <2>4
  <1>6. SendingIsPaid'
    BY DEF SendingIsPaid, PaidFor
  <1>7. SentIsDelivered'
    BY <1>0 DEF SentIsDelivered
  <1>8. PostedIsSending'
    BY <1>1 DEF PostedIsSending, Posted, Deliverable, Sending
  <1>9. ProvidedIsPaid'
    BY <1>1 DEF ProvidedIsPaid, SendingIsPaid, Sending, PaidFor
  <1> QED
    BY <1>2, <1>3, <1>4, <1>5, <1>6, <1>8, <1>9, <1>7

(* The steps of a goroutine between its claim and its last write.          *)
LEMMA DeliveryIndInv ==
  ASSUME IndInv, NEW w \in Workers,
         \/ Load(w) \/ ExecuteProvider(w) \/ LiquidityFallback(w)
         \/ HotWallet(w) \/ SignerAnswers(w) \/ LiquidityWriteFails(w)
  PROVE  IndInv'
  <1> USE BuyOrderAssumption DEF chain
  <1> DEFINE o == task[w].order
  <1>0. /\ IndInv /\ task \in [Workers -> Tasks] /\ task[w] \in Tasks
        /\ fails \in 0..MaxFails /\ prov \in [Orders -> Nat]
        /\ Remembers(task[w])
        /\ task[w].at # "idle" => o \in Orders
    BY DEF IndInv, Typed, TypeOK, TaskRemembers, HolderIsSending
  <1>1. CASE Load(w)
    <2>1. ASSUME NEW quotes \in SUBSET Quoted[o],
                 task' = [task EXCEPT ![w].at = "exec", ![w].left = quotes]
          PROVE  IndInv'
      <3>1. PICK t \in Tasks : t = [task[w] EXCEPT !.at = "exec", !.left = quotes]
        BY <1>0, <1>1 DEF Load, Tasks
      <3>2. t.at = "exec" /\ t.order = o /\ t.left = quotes
        BY <1>0, <3>1 DEF Tasks
      <3>3. task' = [task EXCEPT ![w] = t]
        BY <1>0, <2>1, <3>1
      <3>4. Remembers(t)'
        BY <3>2 DEF Remembers
      <3> QED
        BY <1>0, <1>1, <3>2, <3>3, <3>4, HolderStep DEF Load
    <2>2. ASSUME task' = [task EXCEPT ![w].at = "hot"]
          PROVE  IndInv'
      <3>1. PICK t \in Tasks : t = [task[w] EXCEPT !.at = "hot"]
        BY <1>0, <1>1 DEF Load, Tasks
      <3>2. t.at = "hot" /\ t.order = o
        BY <1>0, <3>1 DEF Tasks
      <3>3. task' = [task EXCEPT ![w] = t]
        BY <1>0, <2>2, <3>1
      <3>4. Remembers(t)'
        BY <3>2 DEF Remembers
      <3> QED
        BY <1>0, <1>1, <3>2, <3>3, <3>4, HolderStep DEF Load
    <2> QED
      BY <1>1, <2>1, <2>2 DEF Load
  <1>2. CASE ExecuteProvider(w)
    <2>1. UNCHANGED <<st, lapsed, old, closed, notify, wire, hot>> /\ fails' \in 0..MaxFails
      BY <1>0, <1>2 DEF ExecuteProvider, Fail
    <2>2. ASSUME o \in Orders, prov' = prov \/ prov' = [prov EXCEPT ![o] = @ + 1]
          PROVE  prov' \in [Orders -> Nat] /\ \A x \in Orders :
                   prov'[x] = prov[x] \/ (prov'[x] > prov[x] /\ x = o)
      <3>1. CASE prov' = prov
        BY <1>0, <3>1
      <3>2. CASE prov' = [prov EXCEPT ![o] = @ + 1]
        <4>1. prov[o] + 1 \in Nat /\ prov[o] + 1 > prov[o]
          BY <1>0, <2>2
        <4> QED
          BY <1>0, <2>2, <3>2, <4>1
      <3> QED
        BY <2>2, <3>1, <3>2
    <2>3. ASSUME NEW s \in {"enviado", "pendente_confirmacao"}, Write(w, "writeLiq", s),
                 prov' = prov \/ prov' = [prov EXCEPT ![o] = @ + 1],
                 s = "enviado" => prov' = [prov EXCEPT ![o] = @ + 1]
          PROVE  IndInv'
      <3>1. PICK t \in Tasks : t = [task[w] EXCEPT !.at = "writeLiq", !.new = s]
        BY <1>0 DEF Tasks
      <3>2. t.at = "writeLiq" /\ t.order = o /\ t.new = s
        BY <1>0, <3>1 DEF Tasks
      <3>3. task' = [task EXCEPT ![w] = t]
        BY <1>0, <2>3, <3>1 DEF Write
      <3>4. o \in Orders /\ Quoted[o] # {} /\ task[w].at # "idle"
        BY <1>0, <1>2 DEF ExecuteProvider, Remembers
      <3>5. Remembers(t)'
        BY <1>0, <2>3, <3>2, <3>4 DEF Remembers
      <3>6. prov' \in [Orders -> Nat] /\ \A x \in Orders :
              prov'[x] = prov[x] \/ (prov'[x] > prov[x] /\ x = o)
        BY <2>2, <2>3, <3>4
      <3> QED
        BY <1>0, <2>1, <3>2, <3>3, <3>4, <3>5, <3>6, HolderStep
    <2>4. ASSUME NEW p \in task[w].left, task' = [task EXCEPT ![w].left = @ \ {p}],
                 prov' = prov \/ prov' = [prov EXCEPT ![o] = @ + 1]
          PROVE  IndInv'
      <3>1. PICK t \in Tasks : t = [task[w] EXCEPT !.left = @ \ {p}]
        BY <1>0 DEF Tasks
      <3>2. t.at = "exec" /\ t.order = o /\ t.left \subseteq task[w].left
        BY <1>0, <1>2, <3>1 DEF ExecuteProvider, Tasks
      <3>3. task' = [task EXCEPT ![w] = t]
        BY <1>0, <2>4, <3>1
      <3>4. o \in Orders /\ Quoted[o] # {} /\ task[w].at # "idle" /\ t.left \subseteq Quoted[o]
        BY <1>0, <1>2, <2>4, <3>2 DEF ExecuteProvider, Remembers
      <3>5. Remembers(t)'
        BY <3>2, <3>4 DEF Remembers
      <3>6. prov' \in [Orders -> Nat] /\ \A x \in Orders :
              prov'[x] = prov[x] \/ (prov'[x] > prov[x] /\ x = o)
        BY <2>2, <2>4, <3>4
      <3> QED
        BY <1>0, <2>1, <3>2, <3>3, <3>4, <3>5, <3>6, HolderStep
    <2> QED
      BY <1>2, <2>3, <2>4 DEF ExecuteProvider
  <1>3. CASE LiquidityFallback(w)
    <2>1. PICK t \in Tasks : t = [task[w] EXCEPT !.at = "hot"]
      BY <1>0 DEF Tasks
    <2>2. t.at = "hot" /\ t.order = o /\ task' = [task EXCEPT ![w] = t]
      BY <1>0, <1>3, <2>1 DEF LiquidityFallback, Tasks
    <2>3. Remembers(t)'
      BY <2>2 DEF Remembers
    <2> QED
      BY <1>0, <1>3, <2>2, <2>3, HolderStep DEF LiquidityFallback
  <1>4. CASE HotWallet(w)
    <2>1. ASSUME NEW s \in {"erro", "enviado"}, Write(w, "writeHot", s), UNCHANGED wire,
                 s = "erro" => ~Deliverable(o), s = "enviado" => SignerMode = "simulate"
          PROVE  IndInv'
      <3>1. PICK t \in Tasks : t = [task[w] EXCEPT !.at = "writeHot", !.new = s]
        BY <1>0 DEF Tasks
      <3>2. t.at = "writeHot" /\ t.order = o /\ t.new = s
        BY <1>0, <3>1 DEF Tasks
      <3>3. task' = [task EXCEPT ![w] = t]
        BY <1>0, <2>1, <3>1 DEF Write
      <3>4. Remembers(t)'
        BY <2>1, <3>2 DEF Remembers, Deliverable
      <3> QED
        BY <1>0, <1>4, <2>1, <3>2, <3>3, <3>4, HolderStep DEF HotWallet
    <2>2. ASSUME task' = [task EXCEPT ![w].at = "wait"], wire' = wire \cup {<<o, 0>>},
                 Deliverable(o)
          PROVE  IndInv'
      <3>1. PICK t \in Tasks : t = [task[w] EXCEPT !.at = "wait"]
        BY <1>0 DEF Tasks
      <3>2. t.at = "wait" /\ t.order = o /\ task' = [task EXCEPT ![w] = t]
        BY <1>0, <2>2, <3>1 DEF Tasks
      <3>3. Remembers(t)'
        BY <3>2 DEF Remembers
      <3> QED
        BY <1>0, <1>4, <2>2, <3>2, <3>3, HolderStep DEF HotWallet
    <2> QED
      BY <1>0, <1>4, <2>1, <2>2 DEF HotWallet, Deliverable, OperationId
  <1>5. CASE SignerAnswers(w)
    <2>1. PICK s \in {"enviado", "pendente_confirmacao"} :
            Write(w, "writeHot", s) /\ (s = "enviado" => hot[o] # {})
      BY <1>5 DEF SignerAnswers, Ambiguous
    <2>2. PICK t \in Tasks : t = [task[w] EXCEPT !.at = "writeHot", !.new = s]
      BY <1>0 DEF Tasks
    <2>3. t.at = "writeHot" /\ t.order = o /\ t.new = s
      BY <1>0, <2>2 DEF Tasks
    <2>4. task' = [task EXCEPT ![w] = t]
      BY <1>0, <2>1, <2>2 DEF Write
    <2>5. Remembers(t)'
      BY <1>5, <2>1, <2>3 DEF SignerAnswers, Remembers
    <2> QED
      BY <1>0, <1>5, <2>3, <2>4, <2>5, HolderStep DEF SignerAnswers
  <1>6. CASE LiquidityWriteFails(w)
    <2>1. PICK t \in Tasks : t = [task[w] EXCEPT !.at = "hot", !.new = "none"]
      BY <1>0 DEF Tasks
    <2>2. t.at = "hot" /\ t.order = o /\ task' = [task EXCEPT ![w] = t]
      BY <1>0, <1>6, <2>1 DEF LiquidityWriteFails, Tasks
    <2>3. Remembers(t)'
      BY <2>2 DEF Remembers
    <2>4. fails' \in 0..MaxFails
      BY <1>0, <1>6 DEF LiquidityWriteFails, Fail
    <2> QED
      BY <1>0, <1>6, <2>2, <2>3, <2>4, HolderStep DEF LiquidityWriteFails
  <1> QED
    BY <1>1, <1>2, <1>3, <1>4, <1>5, <1>6

(* A claim: no other goroutine holds the order, for a held order is        *)
(* enviando and younger than sixty seconds.                                *)
LEMMA ClaimIndInv ==
  ASSUME IndInv, NEW w \in Workers, NEW o \in Orders, ClaimBuyOrderForSend(w, o)
  PROVE  IndInv'
  <1> USE BuyOrderAssumption DEF chain, notify
  <1>0. Typed /\ HolderIsSending /\ OneHolder /\ TaskRemembers /\ PostedIsSending
    BY DEF IndInv
  <1>1. PICK t \in Tasks : t = [Idle EXCEPT !.at = "load", !.order = o]
    BY IdleIsTask DEF Tasks
  <1>2. t = [Idle EXCEPT !.at = "load", !.order = o] /\ t.at = "load" /\ t.order = o
    BY <1>1, IdleIsTask DEF Tasks
  <1>3. /\ task' = [task EXCEPT ![w] = t] /\ Claimable(o)
        /\ st' = [st EXCEPT ![o] = "enviando"] /\ old' = old \ {o} /\ closed' = closed
        /\ UNCHANGED <<lapsed, seen, acked, issued, hand, wire, hot, prov, fails>>
    BY <1>2 DEF ClaimBuyOrderForSend, SetStatus, TerminalUnpaid
  <1>4. task \in [Workers -> Tasks] /\ st \in [Orders -> Status] /\ "enviando" \in Status
    BY <1>0 DEF Typed, TypeOK, Status, Sending
  <1>5. Typed'
    BY <1>0, <1>2, <1>3, <1>4 DEF Typed, TypeOK
  <1>6. HandWasIssued'
    BY <1>3 DEF IndInv, HandWasIssued
  <1>7. \A x \in Workers : task[x].order # o
    BY <1>0, <1>3 DEF Claimable, HolderIsSending
  <1>8. HolderIsSending' /\ OneHolder'
    BY <1>0, <1>2, <1>3, <1>4, <1>7 DEF HolderIsSending, OneHolder
  <1>9. TaskRemembers'
    <2>1. Remembers(t)'
      BY <1>2 DEF Remembers
    <2>2. ASSUME NEW x \in Workers, x # w PROVE Remembers(task[x])'
      BY <1>0, <1>3, <1>4, <2>2 DEF TaskRemembers, Remembers, Deliverable
    <2> QED
      BY <1>3, <1>4, <2>1, <2>2 DEF TaskRemembers
  <1>10. PaidFor(o)
    BY <1>3 DEF IndInv, SendingIsPaid, Claimable, Sending
  <1>11. SendingIsPaid' /\ ProvidedIsPaid'
    BY <1>3, <1>4, <1>10 DEF IndInv, SendingIsPaid, ProvidedIsPaid, PaidFor
  <1>12. PostedIsSending' /\ SentIsDelivered'
    BY <1>3, <1>4 DEF IndInv, PostedIsSending, Posted, Deliverable, Sending, SentIsDelivered
  <1> QED
    BY <1>5, <1>6, <1>8, <1>9, <1>11, <1>12 DEF IndInv

(* A goroutine that ends leaves its order enviando, or writes what it      *)
(* remembers; a failure only if the wallet cannot deliver the order.       *)
LEMMA ReleaseIndInv ==
  ASSUME IndInv, NEW w \in Workers, UpdateBuyOrderStatus(w) \/ Abandon(w)
  PROVE  IndInv'
  <1> USE BuyOrderAssumption DEF chain, notify
  <1> DEFINE o == task[w].order
  <1>0. Typed /\ HolderIsSending /\ OneHolder /\ TaskRemembers /\ PostedIsSending
    BY DEF IndInv
  <1>1. /\ task \in [Workers -> Tasks] /\ st \in [Orders -> Status]
        /\ task[w].at # "idle" /\ o \in Orders /\ st[o] = "enviando"
    <2>1. task[w].at # "idle"
      BY DEF UpdateBuyOrderStatus, Abandon
    <2> QED
      BY <1>0, <2>1 DEF Typed, TypeOK, HolderIsSending
  <1>2. PICK t \in Tasks : t = Idle /\ t.at = "idle" /\ t.order = NoOrder
    BY IdleIsTask
  <1>3. /\ task' = [task EXCEPT ![w] = t]
        /\ UNCHANGED <<lapsed, seen, acked, issued, hand, wire, hot, prov>>
        /\ fails' \in 0..MaxFails
    BY <1>0, <1>2 DEF UpdateBuyOrderStatus, Abandon, Fail, Typed, TypeOK
  <1>4. PICK q \in Orders : q = o
    BY <1>1
  <1>5. PICK s \in {"enviando", "erro", "enviado", "pendente_confirmacao"} :
          /\ st' = [st EXCEPT ![q] = s]
          /\ s = "erro" => ~Deliverable(q)
          /\ s = "enviado" /\ SignerMode = "signer" => hot[q] # {} \/ prov[q] > 0
    <2>1. CASE Abandon(w)
      BY <1>1, <1>4, <2>1 DEF Abandon
    <2>2. CASE UpdateBuyOrderStatus(w)
      <3>1. Remembers(task[w]) /\ task[w].at \in {"writeLiq", "writeHot"}
        BY <1>0, <2>2 DEF TaskRemembers, UpdateBuyOrderStatus
      <3>2. task[w].new \in {"erro", "enviado", "pendente_confirmacao"}
        BY <1>1, <3>1 DEF Remembers, Tasks
      <3>3. st' = [st EXCEPT ![q] = task[w].new]
        BY <1>1, <1>4, <2>2 DEF UpdateBuyOrderStatus, SetStatus
      <3> QED
        BY <1>4, <3>1, <3>2, <3>3 DEF Remembers
    <2> QED
      BY <2>1, <2>2
  <1>6. old' \subseteq old /\ closed' \subseteq Orders
    BY <1>0, <1>1 DEF UpdateBuyOrderStatus, Abandon, SetStatus, Typed, TypeOK
  <1>7. s \in Status
    BY <1>5 DEF Status, Sending, TerminalUnpaid
  <1>8. Typed'
    BY <1>0, <1>1, <1>2, <1>3, <1>5, <1>6, <1>7 DEF Typed, TypeOK
  <1>9. HandWasIssued'
    BY <1>3 DEF IndInv, HandWasIssued
  <1>10. HolderIsSending' /\ OneHolder'
    BY <1>0, <1>1, <1>2, <1>3, <1>4, <1>5, <1>6 DEF HolderIsSending, OneHolder
  <1>11. TaskRemembers'
    <2>1. Remembers(t)'
      BY <1>2 DEF Remembers
    <2>2. ASSUME NEW x \in Workers, x # w PROVE Remembers(task[x])'
      BY <1>0, <1>1, <1>3, <2>2 DEF TaskRemembers, Remembers, Deliverable
    <2> QED
      BY <1>1, <1>3, <2>1, <2>2 DEF TaskRemembers
  <1>12. SendingIsPaid' /\ ProvidedIsPaid'
    BY <1>1, <1>3, <1>4, <1>5 DEF IndInv, SendingIsPaid, ProvidedIsPaid, PaidFor, Sending
  <1>13. PostedIsSending'
    BY <1>0, <1>1, <1>3, <1>5 DEF PostedIsSending, Posted, Deliverable, Sending
  <1>14. SentIsDelivered'
    BY <1>1, <1>3, <1>5 DEF IndInv, SentIsDelivered
  <1> QED
    BY <1>8, <1>9, <1>10, <1>11, <1>12, <1>13, <1>14 DEF IndInv

LEMMA OutsideIndInv ==
  ASSUME IndInv, \/ \E o \in Orders : SixtySecondsPass(o)
                 \/ \E op \in wire : SignerExecutes(op[1], op[2])
  PROVE  IndInv'
  <1> USE BuyOrderAssumption DEF chain, notify
  <1>0. Typed /\ TaskRemembers /\ PostedIsSending /\ HolderIsSending
    BY DEF IndInv
  <1>1. ASSUME NEW o \in Orders, SixtySecondsPass(o) PROVE IndInv'
    <2>1. UNCHANGED <<st, lapsed, closed, notify, task, chain, fails>> /\ old' = old \cup {o}
      BY <1>1 DEF SixtySecondsPass
    <2>2. Typed'
      BY <1>0, <2>1 DEF Typed, TypeOK
    <2>3. HolderIsSending'
      BY <1>0, <1>1, <2>1 DEF HolderIsSending, SixtySecondsPass
    <2>4. HandWasIssued' /\ OneHolder' /\ TaskRemembers'
      BY <2>1 DEF IndInv, HandWasIssued, OneHolder, TaskRemembers, Remembers, Deliverable
    <2>5. SendingIsPaid' /\ PostedIsSending' /\ ProvidedIsPaid' /\ SentIsDelivered'
      BY <2>1 DEF IndInv, SendingIsPaid, PostedIsSending, Posted, Deliverable, ProvidedIsPaid,
                  PaidFor, SentIsDelivered
    <2> QED
      BY <2>2, <2>3, <2>4, <2>5 DEF IndInv
  <1>2. ASSUME NEW o \in Orders, SignerExecutes(o, 0) PROVE IndInv'
    <2>1. /\ UNCHANGED <<st, lapsed, old, closed, notify, task, prov, fails>>
          /\ <<o, 0>> \in wire /\ wire' \subseteq wire /\ hot' = [hot EXCEPT ![o] = @ \cup {0}]
      BY <1>2 DEF SignerExecutes
    <2>2. Typed'
      BY <1>0, <2>1 DEF Typed, TypeOK
    <2>3. /\ hot \in [Orders -> SUBSET {0}]
          /\ \A x \in Orders : hot[x] # {} => hot'[x] # {}
          /\ \A x \in Orders : Posted(x)' => Posted(x)
      BY <1>0, <2>1 DEF Typed, Posted
    <2>4. TaskRemembers'
      <3> SUFFICES ASSUME NEW w \in Workers PROVE Remembers(task[w])'
        BY DEF TaskRemembers
      <3>1. Remembers(task[w]) /\ (task[w].at # "idle" => task[w].order \in Orders)
        BY <1>0 DEF TaskRemembers, HolderIsSending
      <3> QED
        BY <2>1, <2>3, <3>1 DEF Remembers, Deliverable
    <2>5. HandWasIssued' /\ HolderIsSending' /\ OneHolder'
      BY <2>1 DEF IndInv, HandWasIssued, HolderIsSending, OneHolder
    <2>6. SendingIsPaid' /\ ProvidedIsPaid'
      BY <2>1 DEF IndInv, SendingIsPaid, ProvidedIsPaid, PaidFor
    <2>7. PostedIsSending' /\ SentIsDelivered'
      BY <1>0, <2>1, <2>3 DEF IndInv, PostedIsSending, Deliverable, SentIsDelivered
    <2> QED
      BY <2>2, <2>4, <2>5, <2>6, <2>7 DEF IndInv
  <1>3. \A op \in wire : op[1] \in Orders /\ op[2] = 0
    BY <1>0 DEF Typed
  <1> QED
    BY <1>1, <1>2, <1>3

LEMMA NextIndInv == IndInv /\ [Next]_vars => IndInv'
  <1> SUFFICES ASSUME IndInv, [Next]_vars PROVE IndInv'
    OBVIOUS
  <1>1. CASE UNCHANGED vars
    BY <1>1 DEF vars, IndInv, Typed, TypeOK, HandWasIssued, HolderIsSending, OneHolder,
                TaskRemembers, Remembers, SendingIsPaid, PaidFor, PostedIsSending, Posted,
                Deliverable, ProvidedIsPaid, SentIsDelivered
  <1>2. CASE Next
    <2>1. ASSUME NEW o \in Orders,
                 \/ CreateCharge(o) \/ CreateBuyOrder(o) \/ RateLockExpires(o) \/ Report(o)
          PROVE  IndInv'
      BY <2>1, OrderIndInv
    <2>2. CASE ExpireStaleBuyOrders
      <3>1. PICK o \in Orders : TRUE
        BY <2>2 DEF ExpireStaleBuyOrders, IndInv, Typed, TypeOK
      <3> QED
        BY <2>2, OrderIndInv
    <2>3. ASSUME NEW h \in Handlers,
                 ApplyWebhook(h) \/ WebhookFails(h) \/ \E o \in Orders : Receive(h, o)
          PROVE  IndInv'
      BY <2>3, NotificationIndInv
    <2>4. ASSUME NEW w \in Workers, \E o \in Orders : ClaimBuyOrderForSend(w, o)
          PROVE  IndInv'
      BY <2>4, ClaimIndInv
    <2>5. ASSUME NEW w \in Workers,
                 \/ Load(w) \/ ExecuteProvider(w) \/ LiquidityFallback(w)
                 \/ HotWallet(w) \/ SignerAnswers(w) \/ LiquidityWriteFails(w)
          PROVE  IndInv'
      BY <2>5, DeliveryIndInv
    <2>6. ASSUME NEW w \in Workers, UpdateBuyOrderStatus(w) \/ Abandon(w)
          PROVE  IndInv'
      BY <2>6, ReleaseIndInv
    <2>7. CASE \/ \E o \in Orders : SixtySecondsPass(o)
               \/ \E op \in wire : SignerExecutes(op[1], op[2])
      BY <2>7, OutsideIndInv
    <2> QED
      BY <1>2, <2>1, <2>2, <2>3, <2>4, <2>5, <2>6, <2>7 DEF Next, WorkerStep
  <1> QED
    BY <1>1, <1>2

-----------------------------------------------------------------------------
(* Every behaviour keeps the inductive invariant: one goroutine at a time  *)
(* holds an order, and no notification, expiry or second claim moves an    *)
(* order away from under it.                                               *)
THEOREM BuyOrderInvariant == Spec => []IndInv
  BY InitIndInv, NextIndInv, PTL DEF Spec

(* The variables of the module keep their types, whatever fails.           *)
THEOREM TypeCorrect == Spec => []TypeOK
  <1>1. IndInv => TypeOK
    BY DEF IndInv, Typed
  <1> QED
    BY <1>1, BuyOrderInvariant, PTL

(* The signer moves the crypto of an order at most once, for any number of *)
(* crashes, goroutines and claims: the operation id depends on the order   *)
(* alone (SettlementOperationID).                                          *)
THEOREM HotWalletPaysOnce == Spec => []HotWalletOnce
  <1>1. IndInv => HotWalletOnce
    <2> SUFFICES ASSUME IndInv, NEW o \in Orders PROVE Cardinality(hot[o]) <= 1
      BY DEF HotWalletOnce
    <2>1. hot[o] = {} \/ hot[o] = {0}
      BY DEF IndInv, Typed
    <2> QED
      <3>1. Cardinality({}) = 0
        BY FS_EmptySet
      <3>2. Cardinality({0}) = 1
        BY FS_Singleton
      <3>3. CASE hot[o] = {}
        BY <3>1, <3>3
      <3>4. CASE hot[o] = {0}
        BY <3>2, <3>4
      <3> QED
        BY <2>1, <3>3, <3>4
  <1> QED
    BY <1>1, BuyOrderInvariant, PTL

(* An order of the hot wallet that is called failed, expired or an         *)
(* incident has delivered nothing and never will: a refusal is written     *)
(* only before the POST (buysend.go), and ApplyBuyProviderWebhook writes   *)
(* no failure over an order that is being sent.                            *)
THEOREM FailureIsTrue == Spec => []FailedIsUndelivered
  <1>1. IndInv => FailedIsUndelivered
    <2> SUFFICES ASSUME IndInv, NEW o \in Orders, Quoted[o] = {},
                        st[o] \in TerminalUnpaid \cup {"incidente_validacao"}
                 PROVE  hot[o] = {} /\ prov[o] = 0 /\ ~\E id \in 0..MaxFails : <<o, id>> \in wire
      BY DEF FailedIsUndelivered
    <2>1. ~Posted(o)
      <3>1. Posted(o) => st[o] \in Sending
        BY DEF IndInv, PostedIsSending
      <3>2. st[o] \notin Sending
        BY DEF Sending, TerminalUnpaid
      <3> QED
        BY <3>1, <3>2
    <2>2. prov[o] = 0
      <3>1. prov[o] \in Nat /\ ~(prov[o] > 0)
        BY DEF IndInv, ProvidedIsPaid, Typed, TypeOK
      <3> QED
        BY <3>1
    <2>3. wire \subseteq Orders \X {0}
      BY DEF IndInv, Typed
    <2> QED
      BY <2>1, <2>2, <2>3 DEF Posted
  <1> QED
    BY <1>1, BuyOrderInvariant, PTL

(* Crypto leaves only for an order whose payment a notification reported   *)
(* and a transaction acknowledged, or that the DCA worker created paid.    *)
THEOREM DeliveryIsPaid == Spec => []DeliveredWasPaid
  <1>1. IndInv => DeliveredWasPaid
    <2> SUFFICES ASSUME IndInv, NEW o \in Orders, hot[o] # {} \/ prov[o] > 0
                 PROVE  PaidFor(o)
      BY DEF DeliveredWasPaid, PaidFor
    <2> QED
      BY DEF IndInv, PostedIsSending, Posted, SendingIsPaid, ProvidedIsPaid
  <1> QED
    BY <1>1, BuyOrderInvariant, PTL

(* With a signer, an order recorded as sent was sent.                      *)
THEOREM SentWasDelivered == Spec => []SentIsDelivered
  <1>1. IndInv => SentIsDelivered
    BY DEF IndInv
  <1> QED
    BY <1>1, BuyOrderInvariant, PTL

(* An order recorded as sent stays so: neither a late notification, nor an *)
(* expiry, nor a goroutine that claimed the order before takes it back.    *)
THEOREM SentStays == Spec => SentIsFinal
  <1>1. IndInv /\ [Next]_vars => [\A o \in Orders : st[o] = "enviado" => st'[o] = "enviado"]_vars
    <2> SUFFICES ASSUME IndInv, Next, NEW o \in Orders, st[o] = "enviado"
                 PROVE  st'[o] = "enviado"
      OBVIOUS
    <2>0. st \in [Orders -> Status] /\ lapsed \subseteq Orders
      BY DEF IndInv, Typed, TypeOK
    <2>1. ASSUME NEW x \in Orders,
                 \/ CreateCharge(x) \/ CreateBuyOrder(x) \/ RateLockExpires(x) \/ Report(x)
                 \/ SixtySecondsPass(x)
          PROVE  st'[o] = "enviado"
      BY <2>0, <2>1 DEF CreateCharge, CreateBuyOrder, RateLockExpires, Report, SixtySecondsPass,
                        SetStatus
    <2>2. CASE ExpireStaleBuyOrders
      BY <2>0, <2>2 DEF ExpireStaleBuyOrders
    <2>3. ASSUME NEW h \in Handlers,
                 WebhookFails(h) \/ \E x \in Orders : Receive(h, x)
          PROVE  st'[o] = "enviado"
      BY <2>3 DEF WebhookFails, Receive
    <2>4. ASSUME NEW h \in Handlers, ApplyWebhook(h)
          PROVE  st'[o] = "enviado"
      <3>1. PICK x \in Orders, i \in Nat : hand[h] = <<x, i>>
        BY <2>4 DEF ApplyWebhook, IndInv, Typed
      <3>2. UNCHANGED st \/ (/\ ~Blocked(x, Applied(x, BuyStatus(x, i)))
                             /\ SetStatus(x, Applied(x, BuyStatus(x, i))))
        BY <2>4, <3>1 DEF ApplyWebhook
      <3>3. st[x] \in Sending => Blocked(x, Applied(x, BuyStatus(x, i)))
        BY WebhookStatuses
      <3> QED
        BY <2>0, <3>2, <3>3 DEF Sending, SetStatus
    <2>5. ASSUME NEW w \in Workers, NEW x \in Orders, ClaimBuyOrderForSend(w, x)
          PROVE  st'[o] = "enviado"
      BY <2>0, <2>5 DEF ClaimBuyOrderForSend, Claimable, SetStatus
    <2>6. ASSUME NEW w \in Workers, UpdateBuyOrderStatus(w)
          PROVE  st'[o] = "enviado"
      <3>1. st[task[w].order] = "enviando"
        BY <2>6 DEF UpdateBuyOrderStatus, IndInv, HolderIsSending
      <3> QED
        BY <2>0, <2>6, <3>1 DEF UpdateBuyOrderStatus, SetStatus
    <2>7. ASSUME NEW w \in Workers,
                 \/ Load(w) \/ ExecuteProvider(w) \/ LiquidityFallback(w) \/ HotWallet(w)
                 \/ SignerAnswers(w) \/ LiquidityWriteFails(w) \/ Abandon(w)
          PROVE  st'[o] = "enviado"
      BY <2>7 DEF Load, ExecuteProvider, LiquidityFallback, HotWallet, SignerAnswers,
                  LiquidityWriteFails, Abandon
    <2>8. CASE \E op \in wire : SignerExecutes(op[1], op[2])
      BY <2>8 DEF SignerExecutes
    <2> QED
      BY <2>1, <2>2, <2>3, <2>4, <2>5, <2>6, <2>7, <2>8 DEF Next, WorkerStep
  <1> QED
    BY <1>1, BuyOrderInvariant, PTL DEF Spec, SentIsFinal

-----------------------------------------------------------------------------
(* What a Pix order remembers of its notifications: the first one takes it *)
(* out of its waiting, and the payment that made it an incident is one it  *)
(* has seen, so that it cannot be counted again.                           *)
Recorded(o) == \E i \in 1..issued[o] : <<o, i>> \in acked /\ BuyStatus(o, i) = "pago_fiat"

PixRemembers(o) ==
    /\ issued[o] > 0 => st[o] # "none"
    /\ issued[o] <= Len(Notes[o])
    /\ \A i \in Nat : <<o, i>> \in acked => ProviderId(o, i) \in seen[o]
    /\ seen[o] # {} => st[o] \notin Awaiting \cup {"none", "charged", "expirado"}
    /\ o \in closed => st[o] \in TerminalUnpaid \cup {"incidente_validacao"}
    /\ st[o] = "incidente_validacao" => Recorded(o)

ProviderIds == {ProviderId(o, i) : o \in Orders, i \in Nat}

PixInv == /\ seen \in [Orders -> SUBSET ProviderIds]
          /\ \A o \in Orders : Kind[o] = "pix" => PixRemembers(o)

LEMMA InitPixInv == Init => PixInv
  <1> SUFFICES ASSUME Init PROVE PixInv
    OBVIOUS
  <1>1. seen \in [Orders -> SUBSET ProviderIds]
    BY DEF Init
  <1>2. \A o \in Orders : PixRemembers(o)
    <2> SUFFICES ASSUME NEW o \in Orders PROVE PixRemembers(o)
      OBVIOUS
    <2>1. issued[o] = 0 /\ seen[o] = {} /\ acked = {} /\ closed = {} /\ st[o] = "none"
      BY DEF Init
    <2> QED
      BY <2>1, BuyOrderAssumption DEF PixRemembers
  <1> QED
    BY <1>1, <1>2 DEF PixInv

(* No notification: an order keeps what it remembers when its status moves *)
(* within what a Pix order that has seen nothing, or is not closed, may be.*)
LEMMA PixKept ==
  ASSUME IndInv, IndInv', PixInv, UNCHANGED <<seen, acked>>,
         \A o \in Orders : \/ issued[o] <= issued'[o] /\ issued'[o] <= Len(Notes[o])
                         \/ issued'[o] = issued[o],
         \A o \in Orders : Kind[o] = "pix" =>
             \/ st'[o] = st[o] /\ (o \in closed' => o \in closed)
                /\ (issued'[o] > 0 => issued[o] > 0 \/ st[o] # "none")
             \/ /\ seen[o] # {} => st'[o] \in Sending \cup {"erro"}
                /\ st'[o] # "none" /\ st'[o] # "incidente_validacao"
                /\ o \in closed' => st'[o] \in TerminalUnpaid
  PROVE  PixInv'
  <1>1. seen' \in [Orders -> SUBSET ProviderIds]
    BY DEF PixInv
  <1>2. ASSUME NEW o \in Orders, Kind[o] = "pix" PROVE PixRemembers(o)'
    <2>1. /\ issued \in [Orders -> Nat] /\ issued' \in [Orders -> Nat]
          /\ PixRemembers(o) /\ Len(Notes[o]) \in Nat
      BY <1>2, BuyOrderAssumption DEF IndInv, Typed, TypeOK, PixInv
    <2>2. issued'[o] <= Len(Notes[o]) /\ issued[o] <= issued'[o]
      BY <2>1 DEF PixRemembers
    <2>3. Recorded(o) => Recorded(o)'
      <3> SUFFICES ASSUME NEW i \in 1..issued[o], <<o, i>> \in acked, BuyStatus(o, i) = "pago_fiat"
                   PROVE  Recorded(o)'
        BY DEF Recorded
      <3>1. i \in 1..issued'[o] /\ acked' = acked
        BY <2>1, <2>2
      <3> QED
        BY <3>1 DEF Recorded
    <2>4. CASE st'[o] = st[o] /\ (o \in closed' => o \in closed)
               /\ (issued'[o] > 0 => issued[o] > 0 \/ st[o] # "none")
      BY <2>1, <2>2, <2>3, <2>4 DEF PixRemembers
    <2>5. CASE /\ seen[o] # {} => st'[o] \in Sending \cup {"erro"}
               /\ st'[o] # "none" /\ st'[o] # "incidente_validacao"
               /\ o \in closed' => st'[o] \in TerminalUnpaid
      BY <2>1, <2>2, <2>5 DEF PixRemembers, Sending, Awaiting
    <2> QED
      BY <1>2, <2>4, <2>5
  <1> QED
    BY <1>1, <1>2 DEF PixInv

(* A notification: the first takes the order out of its waiting, and a     *)
(* payment counts once.                                                    *)
LEMMA WebhookPixInv ==
  ASSUME IndInv, IndInv', PixInv, NEW h \in Handlers, ApplyWebhook(h)
  PROVE  PixInv'
  <1>1. /\ Typed /\ HandWasIssued /\ issued \in [Orders -> Nat] /\ st \in [Orders -> Status]
        /\ issued' = issued
    <2>1. issued' = issued
      BY DEF ApplyWebhook
    <2> QED
      BY <2>1 DEF IndInv, Typed, TypeOK
  <1>2. PICK o \in Orders, i \in Nat : hand[h] = <<o, i>> /\ i \in 1..issued[o]
    <2>1. hand[h] # <<>>
      BY DEF ApplyWebhook
    <2>2. hand[h] \in Orders \X Nat /\ hand[h][2] \in 1..issued[hand[h][1]]
      BY <1>1, <2>1 DEF Typed, HandWasIssued
    <2> QED
      BY <2>2
  <1> DEFINE new == Applied(o, BuyStatus(o, i))
             key == ProviderId(o, i)
  <1>3. /\ st[o] # "charged" /\ acked' = acked \cup {<<o, i>>}
        /\ seen' = [seen EXCEPT ![o] = seen[o] \cup {key}]
        /\ IF key \in seen[o] \/ Blocked(o, new) THEN UNCHANGED <<st, old, closed>>
                                               ELSE SetStatus(o, new)
    BY <1>2 DEF ApplyWebhook
  <1>4. key \in ProviderIds
    BY DEF ProviderIds
  <1>5. /\ seen' \in [Orders -> SUBSET ProviderIds] /\ seen'[o] = seen[o] \cup {key}
        /\ \A x \in Orders \ {o} : seen'[x] = seen[x]
    BY <1>3, <1>4 DEF PixInv
  <1>6. /\ \A x \in Orders \ {o} : st'[x] = st[x] /\ (x \in closed' => x \in closed)
        /\ IF key \in seen[o] \/ Blocked(o, new)
           THEN st'[o] = st[o] /\ closed' = closed
           ELSE st'[o] = new /\ (o \in closed' => o \in closed \/ new \in TerminalUnpaid)
    BY <1>1, <1>3 DEF SetStatus
  <1>7. ASSUME NEW x \in Orders \ {o}, Kind[x] = "pix" PROVE PixRemembers(x)'
    BY <1>1, <1>3, <1>5, <1>6, <1>7 DEF PixInv, PixRemembers, Recorded
  <1>8. ASSUME Kind[o] = "pix" PROVE PixRemembers(o)'
    <2>1. PixRemembers(o) /\ issued[o] > 0 /\ i \in 1..Len(Notes[o])
      BY <1>1, <1>2, <1>8, BuyOrderAssumption DEF PixInv, PixRemembers
    <2>2. \A j \in Nat : <<o, j>> \in acked' => ProviderId(o, j) \in seen'[o]
      BY <1>3, <1>5, <2>1 DEF PixRemembers
    <2>7. acked \subseteq acked' /\ issued' = issued
      BY <1>1, <1>3
    <2>3. Recorded(o) => Recorded(o)'
      BY <2>7 DEF Recorded
    <2>4. BuyStatus(o, i) = "pago_fiat" => Recorded(o)'
      BY <1>1, <1>2, <1>3 DEF Recorded
    <2>5. CASE key \in seen[o]
      BY <1>1, <1>5, <1>6, <2>1, <2>2, <2>3, <2>5 DEF PixRemembers
    <2>6. CASE key \notin seen[o]
      <3>1. BuyStatus(o, i) \in {"pago_fiat", "erro"}
        BY <1>8 DEF BuyStatus, PixWebhookStatus
      <3>2. st[o] \in TerminalUnpaid \cup {"incidente_validacao"} =>
              \/ new = "erro"
              \/ new = "incidente_validacao" /\ BuyStatus(o, i) = "pago_fiat"
        <4>1. st[o] = "incidente_validacao" => BuyStatus(o, i) = "erro"
          <5> SUFFICES ASSUME st[o] = "incidente_validacao", BuyStatus(o, i) = "pago_fiat"
                       PROVE  FALSE
            BY <3>1
          <5>1. PICK j \in 1..issued[o] : <<o, j>> \in acked /\ BuyStatus(o, j) = "pago_fiat"
            BY <2>1 DEF PixRemembers, Recorded
          <5>2. j \in Nat /\ j \in 1..Len(Notes[o])
            BY <1>1, <2>1, BuyOrderAssumption DEF PixRemembers
          <5>3. ProviderId(o, j) = key
            BY <1>8, <2>1, <5>1, <5>2, OnePaymentAssumption
          <5> QED
            BY <2>1, <2>6, <5>1, <5>2, <5>3 DEF PixRemembers
        <4> QED
          BY <3>1, <4>1 DEF Applied, TerminalUnpaid
      <3>3. CASE Blocked(o, new)
        <4>1. st[o] \in Sending
          BY <3>1, <3>3 DEF Blocked, Applied, Sending
        <4>2. st'[o] = st[o] /\ closed' = closed
          BY <1>6, <3>3
        <4>3. st'[o] \notin Awaiting \cup {"none", "charged", "expirado"} /\ st'[o] # "incidente_validacao"
          BY <4>1, <4>2 DEF Sending, Awaiting
        <4> QED
          BY <1>1, <2>1, <2>2, <4>2, <4>3 DEF PixRemembers
      <3>4. CASE ~Blocked(o, new)
        <4>1. st'[o] = new /\ (o \in closed' => o \in closed \/ new \in TerminalUnpaid)
          BY <1>6, <2>6, <3>4
        <4>2. /\ new \in {"pago_fiat", "erro", "incidente_validacao"}
              /\ new = "incidente_validacao" => BuyStatus(o, i) = "pago_fiat"
          BY <3>1 DEF Applied
        <4>3. o \in closed' => new \in TerminalUnpaid \cup {"incidente_validacao"}
          BY <2>1, <3>2, <4>1 DEF PixRemembers, TerminalUnpaid
        <4> HIDE DEF new, key
        <4> QED
          BY <1>1, <2>1, <2>2, <2>4, <4>1, <4>2, <4>3 DEF PixRemembers, Awaiting
      <3> QED
        BY <3>3, <3>4
    <2> QED
      BY <2>5, <2>6
  <1> QED
    BY <1>5, <1>7, <1>8 DEF PixInv

LEMMA NextPixInv == IndInv /\ IndInv' /\ PixInv /\ [Next]_vars => PixInv'
  <1> SUFFICES ASSUME IndInv, IndInv', PixInv, [Next]_vars PROVE PixInv'
    OBVIOUS
  <1> USE DEF notify, chain
  <1>1. /\ st \in [Orders -> Status] /\ issued \in [Orders -> Nat] /\ closed \subseteq Orders
        /\ lapsed \subseteq Orders
    BY DEF IndInv, Typed, TypeOK
  <1>2. ASSUME UNCHANGED <<seen, acked, issued>>,
               \A o \in Orders : st'[o] = st[o] /\ (o \in closed' => o \in closed)
        PROVE  PixInv'
    BY <1>2, PixKept
  <1>3. CASE UNCHANGED vars
    BY <1>2, <1>3 DEF vars
  <1>4. ASSUME NEW o \in Orders, CreateCharge(o) PROVE PixInv'
    <2>1. UNCHANGED <<seen, acked, issued, closed>> /\ st[o] = "none" /\ st' = [st EXCEPT ![o] = "charged"]
      BY <1>4 DEF CreateCharge
    <2>2. ASSUME Kind[o] = "pix" PROVE seen[o] = {} /\ o \notin closed
      BY <2>1, <2>2 DEF PixInv, PixRemembers, TerminalUnpaid
    <2> QED
      BY <1>1, <2>1, <2>2, PixKept
  <1>5. ASSUME NEW o \in Orders, CreateBuyOrder(o) PROVE PixInv'
    <2>1. UNCHANGED <<seen, acked, issued>>
      BY <1>5 DEF CreateBuyOrder
    <2>2. ASSUME Kind[o] = "pix" PROVE seen[o] = {} /\ o \notin closed /\ SetStatus(o, "aguardando_pix")
      BY <1>5, <2>2 DEF CreateBuyOrder, PixInv, PixRemembers, TerminalUnpaid
    <2>3. /\ \A x \in Orders \ {o} : st'[x] = st[x] /\ (x \in closed' => x \in closed)
          /\ Kind[o] = "pix" => st'[o] = "aguardando_pix" /\ closed' = closed
      <3>1. PICK s : SetStatus(o, s)
        BY <1>5 DEF CreateBuyOrder
      <3> QED
        BY <1>1, <2>2, <3>1 DEF SetStatus, TerminalUnpaid
    <2> QED
      BY <2>1, <2>2, <2>3, PixKept
  <1>6. ASSUME NEW o \in Orders, RateLockExpires(o) \/ SixtySecondsPass(o) PROVE PixInv'
    BY <1>2, <1>6 DEF RateLockExpires, SixtySecondsPass
  <1>7. ASSUME NEW o \in Orders, Report(o) PROVE PixInv'
    <2>1. /\ UNCHANGED <<seen, acked, st, closed>> /\ st[o] # "none"
          /\ issued' = [issued EXCEPT ![o] = issued[o] + 1] /\ issued[o] < Len(Notes[o])
      BY <1>7 DEF Report
    <2>2. \A x \in Orders : \/ issued[x] <= issued'[x] /\ issued'[x] <= Len(Notes[x])
                           \/ issued'[x] = issued[x]
      BY <1>1, <2>1, BuyOrderAssumption
    <2>3. \A x \in Orders : issued'[x] > 0 => issued[x] > 0 \/ st[x] # "none"
      BY <1>1, <2>1
    <2> QED
      BY <2>1, <2>2, <2>3, PixKept
  <1>8. CASE ExpireStaleBuyOrders
    <2> DEFINE stale == {o \in lapsed : st[o] \in {"aguardando_pix", "payment_provider_pending"}}
    <2>1. /\ UNCHANGED <<seen, acked, issued>> /\ closed' = closed \cup stale
          /\ st' = [o \in Orders |-> IF o \in stale THEN "expirado" ELSE st[o]]
      BY <1>8 DEF ExpireStaleBuyOrders
    <2>2. \A o \in Orders : Kind[o] = "pix" /\ o \in stale => seen[o] = {}
      BY DEF PixInv, PixRemembers, Awaiting
    <2> HIDE DEF stale
    <2> QED
      BY <2>1, <2>2, PixKept DEF TerminalUnpaid
  <1>9. ASSUME NEW h \in Handlers, WebhookFails(h) \/ \E o \in Orders : Receive(h, o)
        PROVE  PixInv'
    BY <1>2, <1>9 DEF WebhookFails, Receive
  <1>10. ASSUME NEW h \in Handlers, ApplyWebhook(h) PROVE PixInv'
    BY <1>10, WebhookPixInv
  <1>11. ASSUME NEW w \in Workers, NEW o \in Orders, ClaimBuyOrderForSend(w, o) PROVE PixInv'
    <2>1. /\ UNCHANGED <<seen, acked, issued, closed>> /\ st[o] \in {"pago_fiat", "enviando"}
          /\ st' = [st EXCEPT ![o] = "enviando"]
      BY <1>11 DEF ClaimBuyOrderForSend, Claimable, SetStatus, TerminalUnpaid
    <2>2. ASSUME Kind[o] = "pix" PROVE o \notin closed
      BY <2>1, <2>2 DEF PixInv, PixRemembers, TerminalUnpaid
    <2> QED
      BY <1>1, <2>1, <2>2, PixKept DEF Sending
  <1>12. ASSUME NEW w \in Workers, UpdateBuyOrderStatus(w) PROVE PixInv'
    <2>1. PICK o \in Orders : o = task[w].order /\ st[o] = "enviando"
      BY <1>12 DEF UpdateBuyOrderStatus, IndInv, HolderIsSending
    <2>2. PICK s \in {"erro", "enviado", "pendente_confirmacao"} : SetStatus(o, s)
      <3>1. Remembers(task[w]) /\ task[w] \in Tasks
        BY DEF IndInv, TaskRemembers, Typed, TypeOK
      <3>2. task[w].new \in {"erro", "enviado", "pendente_confirmacao"}
        BY <1>12, <3>1 DEF UpdateBuyOrderStatus, Remembers, Tasks
      <3> QED
        BY <1>12, <2>1, <3>2 DEF UpdateBuyOrderStatus
    <2>3. UNCHANGED <<seen, acked, issued>>
      BY <1>12 DEF UpdateBuyOrderStatus
    <2>4. ASSUME Kind[o] = "pix" PROVE o \notin closed
      BY <2>1, <2>4 DEF PixInv, PixRemembers, TerminalUnpaid
    <2>5. /\ st'[o] = s /\ (o \in closed' => o \in closed \/ s \in TerminalUnpaid)
          /\ \A x \in Orders \ {o} : st'[x] = st[x] /\ (x \in closed' => x \in closed)
      BY <1>1, <2>2 DEF SetStatus
    <2> QED
      BY <2>2, <2>3, <2>4, <2>5, PixKept DEF Sending
  <1>13. ASSUME NEW w \in Workers,
                \/ Load(w) \/ ExecuteProvider(w) \/ LiquidityFallback(w) \/ HotWallet(w)
                \/ SignerAnswers(w) \/ LiquidityWriteFails(w) \/ Abandon(w)
         PROVE  PixInv'
    <2>1. UNCHANGED <<st, closed, seen, acked, issued>>
      BY <1>13 DEF Load, ExecuteProvider, LiquidityFallback, HotWallet, SignerAnswers,
                   LiquidityWriteFails, Abandon
    <2> QED
      BY <1>2, <2>1
  <1>14. CASE \E op \in wire : SignerExecutes(op[1], op[2])
    BY <1>2, <1>14 DEF SignerExecutes
  <1> QED
    BY <1>3, <1>4, <1>5, <1>6, <1>7, <1>8, <1>9, <1>10, <1>11, <1>12, <1>13, <1>14
       DEF Next, WorkerStep

(* A Pix the webhook accepted shows in its order, whatever notifications   *)
(* come late, twice or in another order, and a closed order is reviewed    *)
(* and never delivered, because the charge is paid once                    *)
(* (ApplyBuyProviderWebhook).                                              *)
THEOREM AcceptedPixCounts == Spec => []PaymentCounts
  <1>1. IndInv /\ PixInv => PaymentCounts
    <2> SUFFICES ASSUME IndInv, PixInv, NEW o \in Orders, Kind[o] = "pix"
                 PROVE  /\ Recorded(o) => st[o] \notin Awaiting \cup {"none", "charged", "expirado"}
                        /\ o \in closed => st[o] \notin {"pago_fiat"} \cup Sending
      BY DEF PaymentCounts, Recorded
    <2>1. issued \in [Orders -> Nat] /\ PixRemembers(o)
      BY DEF IndInv, Typed, TypeOK, PixInv
    <2>2. Recorded(o) => seen[o] # {}
      BY <2>1 DEF Recorded, PixRemembers
    <2> QED
      BY <2>1, <2>2 DEF PixRemembers, Sending, TerminalUnpaid
  <1> QED
    BY <1>1, InitPixInv, NextPixInv, BuyOrderInvariant, PTL DEF Spec

-----------------------------------------------------------------------------
(* The transfers of the app (WalletTransfer).  A row is there before       *)
(* anything is sent, only the request that inserted it goes on to send,    *)
(* and it sends at most once.                                              *)
Acting(r) == req[r].step \in {"sponsor", "nonce", "send", "write"}
Trying(r) == req[r].step \in {"sponsor", "nonce", "send"}
Unsent(k) == /\ \A t \in pool : t[1] # k
             /\ \A n \in DOMAIN mined : mined[n] # k
\* the transaction of k with nonce n moves or has moved, or is void
SentAt(k, n) == \/ <<k, n>> \in pool
                \/ /\ n \in DOMAIN mined /\ \A t \in pool : t[1] # k
                   /\ \A m \in DOMAIN mined : mined[m] = k => m = n

Places == [step : {"idle", "record", "sponsor", "nonce", "send", "write", "done"},
           nonce : Nat \cup {None}]
TransferTyped == /\ TransferTypeOK /\ IsFiniteSet(pool) /\ IsFiniteSet(DOMAIN mined)
         /\ \A r \in Requests : req[r].step = "send" => req[r].nonce \in Nat
RowIsFirst == /\ \A k \in Keys : row[k].status = "none" => Unsent(k)
              /\ \A r \in Requests : Acting(r) => row[KeyOf[r]].status # "none" /\ row[KeyOf[r]].hash = None
OneActs == \A r, q \in Requests : Acting(r) /\ Acting(q) /\ KeyOf[r] = KeyOf[q] => r = q
TriesOnce == \A r \in Requests : Trying(r) => Unsent(KeyOf[r])
WritesOwn == /\ \A r \in Requests : req[r].step = "write" => SentAt(KeyOf[r], req[r].nonce)
             /\ \A k \in Keys : row[k].hash # None => SentAt(k, row[k].hash)
NoCopy == /\ \A t, u \in pool : t[1] = u[1] => t = u
          /\ \A m, n \in DOMAIN mined : mined[m] = mined[n] => m = n
          /\ \A t \in pool : \A n \in DOMAIN mined : mined[n] # t[1]
TransferInv == TransferTyped /\ RowIsFirst /\ OneActs /\ TriesOnce /\ WritesOwn /\ NoCopy

LEMMA InitTransfer == TransferInit => TransferInv
  <1> SUFFICES ASSUME TransferInit PROVE TransferInv
    OBVIOUS
  <1>1. DOMAIN mined = {}
    BY DEF TransferInit
  <1>2. TransferTyped
    BY <1>1, FS_EmptySet DEF TransferInit, TransferTyped, TransferTypeOK, Absent, At, Mined
  <1> QED
    BY <1>1, <1>2 DEF TransferInit, TransferInv, RowIsFirst, OneActs, TriesOnce, WritesOwn, NoCopy,
       Acting, Trying, Unsent, Absent, At, Keys

(* A request that moves, and the rows of other keys that do not.           *)
LEMMA Moves ==
  ASSUME TransferInv, NEW r \in Requests, NEW to \in Places, req' = [req EXCEPT ![r] = to],
         row' = row \/ row' = [row EXCEPT ![KeyOf[r]].status = "failed"],
         to.step \in {"sponsor", "nonce", "send"} => Trying(r),
         to.step = "send" => to.nonce \in Nat,
         to.step = "write" => Acting(r) /\ SentAt(KeyOf[r], to.nonce),
         UNCHANGED <<pool, mined>>, gas' \in {gas, gas \cup {KeyOf[r]}}
  PROVE  TransferInv'
  <1> USE DEF TransferInv
  <1>0. KeyOf[r] \in Keys /\ (\A q \in Requests : KeyOf[q] \in Keys)
    BY DEF Keys
  <1>1. /\ req'[r] = to
        /\ \A q \in Requests : q # r => req'[q] = req[q]
    BY DEF TransferTyped, TransferTypeOK
  <1>2. \A k \in Keys : /\ row'[k].hash = row[k].hash
                        /\ row'[k].status = row[k].status \/ row'[k].status = "failed"
    BY DEF TransferTyped, TransferTypeOK
  <1>3. TransferTyped'
    <2>1. row' \in [Keys -> [status : {"none", "submitted", "failed"}, hash : Nat \cup {None}]]
      BY <1>0 DEF TransferTyped, TransferTypeOK
    <2> QED
      BY <1>0, <1>1, <2>1 DEF TransferTyped, TransferTypeOK, Mined, Places
  <1>4. \A q \in Requests : (Acting(q)' => Acting(q)) /\ (Trying(q)' => Trying(q))
    BY <1>1 DEF Acting, Trying
  <1>5. \A k \in Keys : row[k].status # "none" => row'[k].status # "none"
    BY <1>2
  <1>6. \A k, m : Unsent(k)' = Unsent(k) /\ SentAt(k, m)' = SentAt(k, m)
    BY DEF Unsent, SentAt
  <1>7. RowIsFirst'
    BY <1>0, <1>2, <1>4, <1>5, <1>6 DEF RowIsFirst
  <1>8. OneActs' /\ TriesOnce'
    BY <1>4, <1>6 DEF OneActs, TriesOnce
  <1>9. WritesOwn'
    BY <1>0, <1>1, <1>2, <1>6 DEF WritesOwn
  <1> QED
    BY <1>3, <1>7, <1>8, <1>9 DEF NoCopy

(* The node takes the transaction of a request that sends.                 *)
LEMMA RequestSends ==
  ASSUME TransferInv, NEW r \in Requests, NEW n, req[r].step = "send", req[r].nonce = n, n >= Height,
         pool' = pool \cup {<<KeyOf[r], n>>}, UNCHANGED <<mined, gas>>,
         row' = row \/ row' = [row EXCEPT ![KeyOf[r]].status = "failed"],
         NEW to \in {[step |-> "write", nonce |-> n], At("done")}, req' = [req EXCEPT ![r] = to]
  PROVE  TransferInv'
  <1> USE DEF TransferInv
  <1> DEFINE k == KeyOf[r]
  <1>13. n \in Nat
    BY DEF TransferTyped
  <1>0. k \in Keys /\ (\A q \in Requests : KeyOf[q] \in Keys)
    BY DEF Keys
  <1>14. to \in Places /\ to.step \in {"write", "done"} /\ (to.step = "write" => to.nonce = n)
    BY <1>13 DEF Places, At
  <1>1. /\ req'[r].step \in {"write", "done"} /\ (req'[r].step = "write" => req'[r].nonce = n)
        /\ \A q \in Requests : q # r => req'[q] = req[q]
    BY <1>14 DEF TransferTyped, TransferTypeOK
  <1>2. \A x \in Keys : /\ row'[x].hash = row[x].hash
                        /\ row'[x].status = row[x].status \/ row'[x].status = "failed"
    BY DEF TransferTyped, TransferTypeOK
  <1>3. TransferTyped'
    <2>1. row' \in [Keys -> [status : {"none", "submitted", "failed"}, hash : Nat \cup {None}]]
      BY <1>0 DEF TransferTyped, TransferTypeOK
    <2>2. req' \in [Requests -> Places]
      BY <1>14 DEF TransferTyped, TransferTypeOK, Places
    <2>3. IsFiniteSet(pool') /\ pool' \subseteq Keys \X Nat
      <3>1. IsFiniteSet(pool')
        BY FS_AddElement DEF TransferTyped
      <3>2. <<k, n>> \in Keys \X Nat
        BY <1>0, <1>13
      <3> QED
        BY <3>1, <3>2 DEF TransferTyped, TransferTypeOK
    <2> QED
      BY <1>1, <2>1, <2>2, <2>3 DEF TransferTyped, TransferTypeOK, Mined, Places
  <1>4. Unsent(k) /\ row[k].status # "none" /\ Acting(r)
    BY DEF Trying, Acting, TriesOnce, RowIsFirst
  <1>5. \A q \in Requests \ {r} : Acting(q) => KeyOf[q] # k
    BY <1>4 DEF OneActs
  <1>6. \A q \in Requests : (Acting(q)' => Acting(q)) /\ (Trying(q)' => Trying(q) /\ q # r)
    BY <1>1, <1>4 DEF Acting, Trying
  <1>7. \A x : x # k => (Unsent(x) => Unsent(x)') /\ (\A m : SentAt(x, m) => SentAt(x, m)')
    BY DEF Unsent, SentAt
  <1>8. SentAt(k, n)' /\ row[k].hash = None
    BY <1>4 DEF SentAt, RowIsFirst
  <1>9. RowIsFirst'
    BY <1>0, <1>2, <1>4, <1>6, <1>7 DEF RowIsFirst
  <1>10. OneActs' /\ TriesOnce'
    BY <1>5, <1>6, <1>7 DEF OneActs, TriesOnce, Trying, Acting
  <1>11. WritesOwn'
    <2>1. ASSUME NEW q \in Requests, req'[q].step = "write" PROVE SentAt(KeyOf[q], req[q].nonce)'
      <3>1. CASE q = r
        BY <1>1, <1>8, <2>1, <3>1
      <3>2. CASE q # r
        <4>1. KeyOf[q] # k /\ SentAt(KeyOf[q], req[q].nonce) /\ req'[q] = req[q]
          BY <1>1, <1>5, <2>1, <3>2 DEF WritesOwn, Acting
        <4> QED
          BY <1>7, <4>1
      <3> QED
        BY <3>1, <3>2
    <2>2. ASSUME NEW x \in Keys, row'[x].hash # None PROVE SentAt(x, row[x].hash)'
      <3>1. x # k /\ SentAt(x, row[x].hash) /\ row'[x].hash = row[x].hash
        BY <1>2, <1>8, <2>2 DEF WritesOwn
      <3> QED
        BY <1>7, <3>1
    <2> QED
      BY <2>1, <2>2 DEF WritesOwn
  <1>12. NoCopy'
    BY <1>4 DEF NoCopy, Unsent
  <1> QED
    BY <1>3, <1>9, <1>10, <1>11, <1>12 DEF TransferInv

LEMMA GoesToDone == At("done") \in Places /\ At("done").step = "done"
  BY DEF At, Places

LEMMA FailsAlone ==
  ASSUME TransferInv, NEW r \in Requests, TransferFails(r), UNCHANGED <<pool, mined, gas>>
  PROVE  TransferInv'
  <1>1. req' = [req EXCEPT ![r] = At("done")]
    BY DEF TransferFails, Goto
  <1>2. row' = row \/ row' = [row EXCEPT ![KeyOf[r]].status = "failed"]
    BY DEF TransferFails
  <1> QED
    BY <1>1, <1>2, Moves, GoesToDone

LEMMA NextTransfer == TransferInv /\ [TransferNext]_transfervars => TransferInv'
  <1> SUFFICES ASSUME TransferInv, [TransferNext]_transfervars PROVE TransferInv'
    OBVIOUS
  <1>0. /\ TransferTyped /\ TransferTypeOK
        /\ \A r \in Requests : req[r] = [step |-> req[r].step, nonce |-> req[r].nonce]
                               /\ req[r].nonce \in Nat \cup {None} /\ KeyOf[r] \in Keys
    BY DEF TransferInv, TransferTyped, TransferTypeOK, Keys
  <1>1. ASSUME NEW r \in Requests, LookUp(r) PROVE TransferInv'
    <2>1. PICK to \in {At("done"), At("record")} : req' = [req EXCEPT ![r] = to]
      BY <1>1 DEF LookUp, Goto
    <2>2. UNCHANGED <<row, pool, mined, gas>>
      BY <1>1 DEF LookUp, outside
    <2> QED
      BY <2>1, <2>2, Moves DEF At, Places
  <1>2. ASSUME NEW r \in Requests, RecordMobileWalletTransfer(r) PROVE TransferInv'
    <2>1. CASE Goto(r, "done") /\ UNCHANGED row
      <3>1. UNCHANGED <<row, pool, mined, gas>> /\ req' = [req EXCEPT ![r] = At("done")]
        BY <1>2, <2>1 DEF RecordMobileWalletTransfer, Goto, outside
      <3> QED
        BY <3>1, Moves, GoesToDone
    <2>2. CASE ~(Goto(r, "done") /\ UNCHANGED row)
      <3> DEFINE k == KeyOf[r]
      <3>1. PICK to \in {At("sponsor"), At("nonce"), At("done")} : req' = [req EXCEPT ![r] = to]
        BY <1>2, <2>2 DEF RecordMobileWalletTransfer, Goto
      <3>2. row' = [row EXCEPT ![k] = [status |-> "submitted", hash |-> None]]
        BY <1>2, <2>2 DEF RecordMobileWalletTransfer
      <3>3. row[k].status = "none" /\ UNCHANGED <<pool, mined, gas>>
        BY <1>2, <2>2 DEF RecordMobileWalletTransfer, IsNew, Absent, outside
      <3>4. Unsent(k) /\ \A q \in Requests : Acting(q) => KeyOf[q] # k
        BY <1>0, <3>3 DEF TransferInv, RowIsFirst
      <3>5. \A x, m : Unsent(x)' = Unsent(x) /\ SentAt(x, m)' = SentAt(x, m)
        BY <3>3 DEF Unsent, SentAt
      <3>6. /\ \A q \in Requests : q # r => req'[q] = req[q]
            /\ req'[r].step \notin {"send", "write"} /\ req'[r] \in Places
            /\ \A x \in Keys : x # k => row'[x] = row[x]
            /\ row'[k] = [status |-> "submitted", hash |-> None]
        BY <1>0, <3>1, <3>2 DEF TransferTypeOK, At, Places
      <3>7. TransferTyped'
        BY <1>0, <3>1, <3>2, <3>3, <3>6 DEF TransferTyped, TransferTypeOK, Mined, Places
      <3>8. \A q \in Requests : q # r => Acting(q)' = Acting(q) /\ Trying(q)' = Trying(q)
        BY <3>6 DEF Acting, Trying
      <3>9. RowIsFirst'
        <4>1. ASSUME NEW x \in Keys, row'[x].status = "none" PROVE Unsent(x)'
          <5>1. row[x].status = "none"
            BY <3>6, <4>1
          <5> QED
            BY <3>5, <5>1 DEF TransferInv, RowIsFirst
        <4>2. ASSUME NEW q \in Requests, Acting(q)'
              PROVE row'[KeyOf[q]].status # "none" /\ row'[KeyOf[q]].hash = None
          <5>1. CASE q = r
            BY <3>6, <5>1
          <5>2. CASE q # r
            <6>1. Acting(q) /\ KeyOf[q] # k /\ KeyOf[q] \in Keys
              BY <1>0, <3>4, <3>8, <4>2, <5>2
            <6> QED
              BY <3>6, <6>1 DEF TransferInv, RowIsFirst
          <5> QED
            BY <5>1, <5>2
        <4> QED
          BY <4>1, <4>2 DEF RowIsFirst
      <3>10. OneActs' /\ TriesOnce'
        BY <3>4, <3>5, <3>8 DEF TransferInv, OneActs, TriesOnce
      <3>11. WritesOwn'
        BY <1>0, <3>5, <3>6 DEF TransferInv, WritesOwn
      <3> QED
        BY <3>3, <3>7, <3>9, <3>10, <3>11 DEF TransferInv, NoCopy
    <2> QED
      BY <2>1, <2>2
  <1>3. ASSUME NEW r \in Requests, EnsureSponsoredBSCGas(r) PROVE TransferInv'
    <2>1. PICK to \in {At("nonce"), At("done")} : req' = [req EXCEPT ![r] = to]
      BY <1>3 DEF EnsureSponsoredBSCGas, Goto, TransferFails
    <2>2. Trying(r)
      BY <1>3 DEF EnsureSponsoredBSCGas, Here, Trying
    <2>3. row' = row \/ row' = [row EXCEPT ![KeyOf[r]].status = "failed"]
      BY <1>3 DEF EnsureSponsoredBSCGas, TransferFails
    <2>4. to \in Places /\ to.step \notin {"send", "write"}
      BY <2>1 DEF At, Places
    <2>5. gas' \in {gas, gas \cup {KeyOf[r]}} /\ UNCHANGED <<pool, mined>>
      BY <1>3 DEF EnsureSponsoredBSCGas
    <2> QED
      BY <2>1, <2>2, <2>3, <2>4, <2>5, Moves
  <1>4. ASSUME NEW r \in Requests, PendingNonceAt(r) PROVE TransferInv'
    <2>1. CASE TransferFails(r)
      <3>1. UNCHANGED <<pool, mined, gas>>
        BY <1>4 DEF PendingNonceAt
      <3> QED
        BY <2>1, <3>1, FailsAlone
    <2>2. CASE ~TransferFails(r)
      <3>1. PICK n \in PendingNonces : req' = [req EXCEPT ![r] = [step |-> "send", nonce |-> n]]
        BY <1>4, <2>2 DEF PendingNonceAt
      <3>2. Height \in Nat /\ Cardinality(pool) \in Nat
        BY <1>0, FS_CardinalityType DEF TransferTyped, Height
      <3>3. n \in Nat
        BY <3>2 DEF PendingNonces
      <3>4. Trying(r)
        BY <1>4 DEF PendingNonceAt, Here, Trying
      <3> DEFINE to == [step |-> "send", nonce |-> n]
      <3>5. to \in Places /\ to.step = "send" /\ to.nonce = n /\ req' = [req EXCEPT ![r] = to]
        BY <3>1, <3>3 DEF Places
      <3>6. UNCHANGED <<row, pool, mined, gas>>
        BY <1>4, <2>2 DEF PendingNonceAt
      <3> HIDE DEF to
      <3> QED
        BY <3>3, <3>4, <3>5, <3>6, Moves
    <2> QED
      BY <2>1, <2>2
  <1>5. ASSUME NEW r \in Requests, SendTransaction(r) PROVE TransferInv'
    <2>1. CASE TransferFails(r) /\ UNCHANGED pool
      <3>1. UNCHANGED <<mined, gas>>
        BY <1>5 DEF SendTransaction
      <3> QED
        BY <2>1, <3>1, FailsAlone
    <2>2. CASE ~(TransferFails(r) /\ UNCHANGED pool)
      <3>1. /\ req[r].step = "send" /\ req[r].nonce >= Height /\ UNCHANGED <<mined, gas>>
            /\ pool' = pool \cup {<<KeyOf[r], req[r].nonce>>}
        BY <1>5, <2>2 DEF SendTransaction, Here
      <3>2. \/ UNCHANGED row /\ req' = [req EXCEPT ![r] = [step |-> "write", nonce |-> req[r].nonce]]
            \/ TransferFails(r)
        BY <1>0, <1>5, <2>2 DEF SendTransaction, TransferTypeOK
      <3>3. PICK to \in {[step |-> "write", nonce |-> req[r].nonce], At("done")} :
              /\ req' = [req EXCEPT ![r] = to]
              /\ row' = row \/ row' = [row EXCEPT ![KeyOf[r]].status = "failed"]
        BY <3>2 DEF TransferFails, Goto
      <3> QED
        BY <3>1, <3>3, RequestSends
    <2> QED
      BY <1>5, <2>1, <2>2 DEF SendTransaction
  <1>6. ASSUME NEW r \in Requests, Submitted(r) PROVE TransferInv'
    <2>1. Acting(r) /\ UNCHANGED <<pool, mined, gas>> /\ req' = [req EXCEPT ![r] = At("done")]
      BY <1>6 DEF Submitted, Goto, Acting, Here, outside
    <2>2. CASE row' = row
      BY <2>1, <2>2, Moves, GoesToDone
    <2>3. CASE row' = [row EXCEPT ![KeyOf[r]] = [status |-> "submitted", hash |-> req[r].nonce]]
      <3> DEFINE k == KeyOf[r]
      <3>1. SentAt(k, req[r].nonce)
        BY <1>6 DEF Submitted, Here, TransferInv, WritesOwn
      <3>2. \A q \in Requests : q # r /\ Acting(q) => KeyOf[q] # k
        BY <2>1 DEF TransferInv, OneActs
      <3>3. \A x, m : Unsent(x)' = Unsent(x) /\ SentAt(x, m)' = SentAt(x, m)
        BY <2>1 DEF Unsent, SentAt
      <3>4. /\ \A q \in Requests : q # r => req'[q] = req[q]
            /\ req'[r] = At("done") /\ req'[r].step = "done" /\ req'[r] \in Places
            /\ \A x \in Keys : x # k => row'[x] = row[x]
            /\ row'[k] = [status |-> "submitted", hash |-> req[r].nonce]
        BY <1>0, <2>1, <2>3, GoesToDone DEF TransferTypeOK
      <3>5. TransferTyped'
        BY <1>0, <2>1, <2>3, <3>4 DEF TransferTyped, TransferTypeOK, Mined, Places
      <3>6. /\ \A q \in Requests : q # r => Acting(q)' = Acting(q) /\ Trying(q)' = Trying(q)
            /\ ~Acting(r)' /\ ~Trying(r)'
        BY <3>4 DEF Acting, Trying
      <3>7. RowIsFirst'
        <4>1. ASSUME NEW x \in Keys, row'[x].status = "none" PROVE Unsent(x)'
          <5>1. row[x].status = "none"
            BY <3>4, <4>1
          <5> QED
            BY <3>3, <5>1 DEF TransferInv, RowIsFirst
        <4>2. ASSUME NEW q \in Requests, Acting(q)'
              PROVE row'[KeyOf[q]].status # "none" /\ row'[KeyOf[q]].hash = None
          BY <1>0, <3>4, <3>2, <3>6, <4>2 DEF TransferInv, RowIsFirst
        <4> QED
          BY <4>1, <4>2 DEF RowIsFirst
      <3>8. OneActs' /\ TriesOnce'
        BY <3>3, <3>6 DEF TransferInv, OneActs, TriesOnce
      <3>9. WritesOwn'
        BY <1>0, <3>1, <3>3, <3>4 DEF TransferInv, WritesOwn
      <3> QED
        BY <2>1, <3>5, <3>7, <3>8, <3>9 DEF TransferInv, NoCopy
    <2> QED
      BY <1>6, <2>2, <2>3 DEF Submitted
  <1>7. ASSUME NEW r \in Requests, Stops(r) PROVE TransferInv'
    <2>1. CASE UNCHANGED pool
      <3>1. UNCHANGED <<row, pool, mined, gas>> /\ req' = [req EXCEPT ![r] = At("done")]
        BY <1>7, <2>1 DEF Stops, Goto
      <3> QED
        BY <3>1, Moves, GoesToDone
    <2>2. CASE ~UNCHANGED pool
      <3>1. req[r].step = "send" /\ req[r].nonce >= Height /\ pool' = pool \cup {<<KeyOf[r], req[r].nonce>>}
        BY <1>7, <2>2 DEF Stops, Here
      <3>2. UNCHANGED <<row, mined, gas>> /\ req' = [req EXCEPT ![r] = At("done")]
        BY <1>7 DEF Stops, Goto
      <3> QED
        BY <3>1, <3>2, RequestSends
    <2> QED
      BY <2>1, <2>2
  <1>8. ASSUME NEW t \in pool, Mine(t) PROVE TransferInv'
    <2> DEFINE k0 == t[1]  h == Height
    <2>1. /\ UNCHANGED <<row, req, gas>> /\ pool' = {u \in pool : u[2] # h} /\ t[2] = h
          /\ DOMAIN mined' = DOMAIN mined \cup {h} /\ mined'[h] = k0
          /\ \A n \in DOMAIN mined : n # h => mined'[n] = mined[n]
      BY <1>8 DEF Mine
    <2>2. k0 \in Keys /\ NoCopy
      BY <1>0 DEF TransferTypeOK, TransferInv
    <2> HIDE DEF h
    <2>3. \A k : Unsent(k) => Unsent(k)'
      BY <2>1 DEF Unsent
    <2>4. \A k, n : SentAt(k, n) => SentAt(k, n)'
      <3> TAKE k, n
      <3>1. CASE <<k, n>> \in pool
        BY <2>1, <2>2, <3>1 DEF SentAt, NoCopy
      <3>2. CASE <<k, n>> \notin pool
        BY <2>1, <3>2 DEF SentAt
      <3> QED
        BY <3>1, <3>2
    <2>5. TransferTyped'
      <3>1. IsFiniteSet(pool') /\ IsFiniteSet(DOMAIN mined')
        BY <1>0, <2>1, FS_Subset, FS_AddElement DEF TransferTyped
      <3>2. Mined' \subseteq Keys
        BY <1>0, <2>1, <2>2 DEF TransferTypeOK, Mined
      <3> QED
        BY <1>0, <2>1, <3>1, <3>2 DEF TransferTyped, TransferTypeOK
    <2>6. \A r \in Requests : Acting(r)' = Acting(r) /\ Trying(r)' = Trying(r)
      BY <2>1 DEF Acting, Trying
    <2>7. RowIsFirst' /\ OneActs' /\ TriesOnce'
      BY <2>1, <2>3, <2>6 DEF TransferInv, RowIsFirst, OneActs, TriesOnce
    <2>8. WritesOwn'
      BY <2>1, <2>4 DEF TransferInv, WritesOwn
    <2>9. NoCopy'
      BY <2>1, <2>2 DEF NoCopy
    <2> QED
      BY <2>5, <2>7, <2>8, <2>9 DEF TransferInv
  <1>9. CASE UNCHANGED transfervars
    BY <1>9 DEF transfervars, TransferInv, TransferTyped, TransferTypeOK, Mined, RowIsFirst, OneActs, TriesOnce,
       WritesOwn, NoCopy, Acting, Trying, Unsent, SentAt
  <1> QED
    BY <1>1, <1>2, <1>3, <1>4, <1>5, <1>6, <1>7, <1>8, <1>9 DEF TransferNext

LEMMA AtMostOne ==
  ASSUME NEW S, \A x, y \in S : x = y
  PROVE  /\ IsFiniteSet(S) /\ Cardinality(S) \in {0, 1}
         /\ Cardinality(S) = 0 <=> S = {}
  <1>1. CASE S = {}
    BY <1>1, FS_EmptySet
  <1>2. ASSUME NEW x \in S PROVE Cardinality(S) = 1 /\ IsFiniteSet(S)
    <2>1. S = {x}
      OBVIOUS
    <2> QED
      BY <2>1, FS_Singleton
  <1> QED
    BY <1>1, <1>2

LEMMA TransferInvImplies == TransferInv => TransferMovesOnce
  <1> SUFFICES ASSUME TransferInv PROVE TransferMovesOnce
    OBVIOUS
  <1> DEFINE M(k) == {n \in DOMAIN mined : mined[n] = k}
             P(k) == {t \in pool : t[1] = k}
  <1>1. \A k : /\ Cardinality(M(k)) \in {0, 1} /\ (Cardinality(M(k)) = 0 <=> M(k) = {})
               /\ Cardinality(P(k)) \in {0, 1} /\ (Cardinality(P(k)) = 0 <=> P(k) = {})
    <2> TAKE k
    <2>1. (\A x, y \in M(k) : x = y) /\ (\A x, y \in P(k) : x = y)
      BY DEF TransferInv, NoCopy
    <2> HIDE DEF M, P
    <2> QED
      BY <2>1, AtMostOne
  <1>2. \A k : M(k) = {} \/ P(k) = {}
    BY DEF TransferInv, NoCopy
  <1>3. \A k : Copies(k) = Cardinality(M(k)) + Cardinality(P(k))
    BY DEF Copies
  <1>4. TransfersOnce
    <2> HIDE DEF M, P
    <2>1. \A k : Cardinality(M(k)) = 0 \/ Cardinality(P(k)) = 0
      BY <1>1, <1>2
    <2> QED
      BY <1>1, <1>3, <2>1 DEF TransfersOnce
  <1>5. ASSUME NEW k \in Keys, Copies(k) = 1 PROVE row[k].status # "none"
    <2>1. M(k) # {} \/ P(k) # {}
      <3> HIDE DEF M, P
      <3> QED
        BY <1>1, <1>3, <1>5
    <2> QED
      BY <2>1 DEF TransferInv, RowIsFirst, Unsent
  <1>6. ASSUME NEW k \in Keys, NEW n, SentAt(k, n), <<k, n>> \notin pool
        PROVE n \in DOMAIN mined /\ Copies(k) = (IF mined[n] = k THEN 1 ELSE 0)
    <2>1. n \in DOMAIN mined /\ P(k) = {} /\ \A m \in M(k) : m = n
      BY <1>6 DEF SentAt
    <2>2. M(k) = {} <=> mined[n] # k
      BY <2>1
    <2> HIDE DEF M, P
    <2> QED
      BY <1>1, <1>3, <2>1, <2>2
  <1>7. HashIsOwn
    BY <1>5, <1>6 DEF HashIsOwn, TransferInv, WritesOwn
  <1> QED
    BY <1>4, <1>7 DEF TransferMovesOnce

(* The types of the transfers, for every user, key and number of requests. *)
THEOREM TransfersAreTyped == TransferSpec => []TransferTypeOK
  <1>1. TransferInv => TransferTypeOK
    BY DEF TransferInv, TransferTyped
  <1> QED
    BY <1>1, InitTransfer, NextTransfer, PTL DEF TransferSpec

(* EVM transfers of the app: an idempotency key moves the tokens at most   *)
(* once over repeats, lost answers and stops, is never on its way without  *)
(* its row, and the hash recorded for it is of its own transaction.        *)
THEOREM KeyMovesOnce == TransferSpec => []TransferMovesOnce
  BY InitTransfer, NextTransfer, TransferInvImplies, PTL DEF TransferSpec

-----------------------------------------------------------------------------
(* Solana.  A key has one active request, its owner.  Nobody writes a row  *)
(* before its owner has signed, and a transaction that is more than        *)
(* prepared is the one the row holds; what a worker is about to write is   *)
(* still true of the chain, which does not change its mind.                *)
Active(r) == call[r].step \in {"reserve", "sign", "send", "write"}
OneOwner == \A r, q \in Sends :
    Active(r) /\ Active(q) /\ KeyOfSend[r] = KeyOfSend[q] => r = q

SubmitWrites == {"submitted", "submit_unknown", "failed_before_submit", "manual_review"}
OwnerHolds == \A r \in Sends :
    /\ call[r].step = "reserve" => entry[KeyOfSend[r]] = "created" /\ sig[KeyOfSend[r]] = NoSig
    /\ call[r].step = "sign" => entry[KeyOfSend[r]] = "reserved" /\ sig[KeyOfSend[r]] = NoSig
    /\ call[r].step \in {"send", "write"} => sig[KeyOfSend[r]] = r
    /\ call[r].step = "write" => call[r].write \in SubmitWrites
    /\ net[r] # "none" => sig[KeyOfSend[r]] = r

NoneIsUnsigned == \A k \in SendKeys : entry[k] = "none" => sig[k] = NoSig

Told(n, s) == /\ s \in Statuses \ {"none"}
              /\ s \in {"confirmed", "finalized"} => n = "moved"
              /\ s = "failed" => n = "failed"
WorkerTells == \A w \in Replicas :
    /\ worker[w].step = "row" =>
          /\ \A k \in DOMAIN worker[w].todo : worker[w].todo[k].sig \in Sends
          /\ worker[w].write # NoSig => /\ worker[w].on \in Sends
                                        /\ Told(net[worker[w].on], worker[w].write)
    /\ worker[w].step = "ask" => worker[w].write = NoSig
    /\ worker[w].step = "insert" => worker[w].on \in arrived

SolanaInv == /\ SolanaTypeOK /\ OneOwner /\ OwnerHolds /\ NoneIsUnsigned /\ WorkerTells
             /\ ConfirmedIsTrue /\ DepositsOnce

-----------------------------------------------------------------------------
LEMMA SolanaStarts == SolanaInit => SolanaInv
  <1> SUFFICES ASSUME SolanaInit PROVE SolanaInv
    OBVIOUS
  <1>1. Resting \in Worker
    <2>1. [k \in {} |-> NoSig] \in [{} -> Listed] /\ {} \in SUBSET SendKeys
      OBVIOUS
    <2>2. [k \in {} |-> NoSig] \in UNION {[ks -> Listed] : ks \in SUBSET SendKeys}
      BY <2>1
    <2> QED
      BY <2>2 DEF Resting, Worker
  <1>2. SolanaTypeOK
    BY <1>1 DEF SolanaInit, SolanaTypeOK, Step, Call, Statuses, Out
  <1>3. OneOwner /\ OwnerHolds
    BY DEF SolanaInit, OneOwner, Active, OwnerHolds, Step
  <1>4. NoneIsUnsigned /\ WorkerTells /\ ConfirmedIsTrue /\ DepositsOnce
    BY DEF SolanaInit, NoneIsUnsigned, WorkerTells, Resting, ConfirmedIsTrue, DepositsOnce, SendKeys
  <1> QED
    BY <1>2, <1>3, <1>4 DEF SolanaInv

(* A status written by signature disturbs no row that is not signed.       *)
LEMMA WrittenBySignature ==
  ASSUME SolanaInv, NEW r \in Sends, NEW s, Told(net[r], s),
         entry' \in {entry, WithStatus(r, s)}, UNCHANGED <<sig, net>>
  PROVE  /\ entry' \in [SendKeys -> Statuses]
         /\ \A k \in SendKeys : sig[k] = NoSig => entry'[k] = entry[k]
         /\ NoneIsUnsigned' /\ ConfirmedIsTrue'
  <1>1. /\ entry \in [SendKeys -> Statuses] /\ NoneIsUnsigned /\ ConfirmedIsTrue
        /\ s \in Statuses \ {"none"} /\ NoSig \notin Sends
    BY SolanaAssumption DEF SolanaInv, SolanaTypeOK, Told
  <1>2. CASE entry' = entry
    BY <1>1, <1>2 DEF NoneIsUnsigned, ConfirmedIsTrue
  <1>3. CASE entry' = WithStatus(r, s)
    <2>1. \A k \in SendKeys : entry'[k] = IF sig[k] = r THEN s ELSE entry[k]
      BY <1>3 DEF WithStatus
    <2>2. entry' \in [SendKeys -> Statuses]
      BY <1>1, <1>3 DEF WithStatus
    <2>3. NoneIsUnsigned'
      BY <1>1, <2>1 DEF NoneIsUnsigned
    <2>4. ConfirmedIsTrue'
      BY <1>1, <2>1 DEF ConfirmedIsTrue, Told
    <2> QED
      BY <1>1, <2>1, <2>2, <2>3, <2>4
  <1> QED
    BY <1>2, <1>3

(* What a step may do to the chain: what has ended stays, and only the     *)
(* signature of a request prepares a transaction.                          *)
NetKept == /\ net' \in [Sends -> Out \cup {"none", "signed", "expired"}]
           /\ \A r \in Sends :
                 /\ net[r] \in {"moved", "failed"} => net'[r] = net[r]
                 /\ net'[r] # "none" => net[r] # "none"

LEMMA AcceptedKeeps ==
  ASSUME SolanaInv, NEW r \in Sends, net' \in {net, Accepted(r)}
  PROVE  NetKept
  <1>1. net \in [Sends -> Out \cup {"none", "signed", "expired"}]
    BY DEF SolanaInv, SolanaTypeOK
  <1> QED
    BY <1>1 DEF Accepted, NetKept, Out

LEMMA NetKeptTells ==
  ASSUME SolanaInv, NetKept, UNCHANGED <<entry, sig>>
  PROVE  /\ ConfirmedIsTrue'
         /\ \A r \in Sends : net'[r] # "none" => sig'[KeyOfSend[r]] = r
  <1>1. /\ ConfirmedIsTrue /\ OwnerHolds /\ sig \in [SendKeys -> Sends \cup {NoSig}]
    BY DEF SolanaInv, SolanaTypeOK
  <1>2. ConfirmedIsTrue'
    BY <1>1 DEF ConfirmedIsTrue, NetKept
  <1> QED
    BY <1>1, <1>2 DEF NetKept, OwnerHolds

-----------------------------------------------------------------------------
(* A step of a request leaves the workers and the deposits alone; it is    *)
(* active after it only as the owner, or by inserting the row.             *)
LEMMA RequestStep ==
  ASSUME SolanaInv, NEW r \in Sends, NEW s \in Call, Goes(r, s),
         UNCHANGED <<worker, arrived, drow>>,
         entry' \in [SendKeys -> Statuses], sig' \in [SendKeys -> Sends \cup {NoSig}],
         net' \in [Sends -> Out \cup {"none", "signed", "expired"}],
         \A q \in Sends : net[q] \in {"moved", "failed"} => net'[q] = net[q],
         s.step \in {"reserve", "sign", "send", "write"} =>
            Active(r) \/ entry[KeyOfSend[r]] = "none",
         NoneIsUnsigned', ConfirmedIsTrue', OwnerHolds'
  PROVE  SolanaInv'
  <1>0. /\ SolanaTypeOK /\ OneOwner /\ OwnerHolds /\ NoneIsUnsigned /\ WorkerTells /\ DepositsOnce
        /\ NoSig \notin Sends
    BY SolanaAssumption DEF SolanaInv
  <1>1. /\ call \in [Sends -> Call] /\ worker \in [Replicas -> Worker]
        /\ arrived \subseteq Deposits /\ drow \in [Deposits -> Nat]
    BY <1>0 DEF SolanaTypeOK
  <1>2. call' = [call EXCEPT ![r] = s]
    BY DEF Goes
  <1>3. SolanaTypeOK'
    BY <1>1, <1>2 DEF SolanaTypeOK
  <1>4. OneOwner'
    <2>1. \A q \in Sends : q # r => (Active(q)' <=> Active(q))
      BY <1>1, <1>2 DEF Active
    <2>2. Active(r)' => Active(r) \/ entry[KeyOfSend[r]] = "none"
      BY <1>1, <1>2 DEF Active
    <2>3. \A q \in Sends : Active(q) => entry[KeyOfSend[q]] # "none"
      BY <1>0 DEF Active, OwnerHolds, NoneIsUnsigned, SendKeys
    <2> QED
      BY <1>0, <2>1, <2>2, <2>3 DEF OneOwner
  <1>5. WorkerTells'
    <2>1. ASSUME NEW q \in Sends, NEW x, Told(net[q], x) PROVE Told(net'[q], x)
      BY <2>1 DEF Told
    <2> QED
      BY <1>0, <2>1 DEF WorkerTells
  <1>6. DepositsOnce'
    BY <1>0 DEF DepositsOnce
  <1> QED
    BY <1>3, <1>4, <1>5, <1>6 DEF SolanaInv

LEMMA SendIndInv ==
  ASSUME SolanaInv, NEW r \in Sends,
         \/ ClaimWithdrawal(r) \/ ReserveWithdrawal(r) \/ PersistSigned(r)
         \/ SendSigned(r) \/ MarkSubmitStatus(r) \/ SendStops(r)
  PROVE  SolanaInv'
  <1> DEFINE k == KeyOfSend[r]
  <1>0. /\ SolanaTypeOK /\ OneOwner /\ OwnerHolds /\ NoneIsUnsigned /\ ConfirmedIsTrue
        /\ NoSig \notin Sends
    BY SolanaAssumption DEF SolanaInv
  <1>1. /\ call \in [Sends -> Call] /\ entry \in [SendKeys -> Statuses]
        /\ sig \in [SendKeys -> Sends \cup {NoSig}]
        /\ net \in [Sends -> Out \cup {"none", "signed", "expired"}]
    BY <1>0 DEF SolanaTypeOK
  <1>2. \A q \in Sends : KeyOfSend[q] \in SendKeys
    BY DEF SendKeys
  <1>3. ASSUME NEW x \in {"idle", "reserve", "sign", "send", "write", "done"}
        PROVE  Step(x) \in Call /\ Step(x).step = x
    BY DEF Step, Call
  <1>4. ASSUME NEW x \in SubmitWrites
        PROVE  /\ Writing(x) \in Call /\ Writing(x).step = "write" /\ Writing(x).write = x
    BY DEF Writing, Call, SubmitWrites, Statuses
  <1>5. ASSUME NEW s, Goes(r, s)
        PROVE  call'[r] = s /\ \A q \in Sends \ {r} : call'[q] = call[q]
    BY <1>1, <1>5 DEF Goes
  <1>6. ASSUME NEW s \in Call, Goes(r, s), s.step = "done",
               UNCHANGED <<entry, sig, net, worker, arrived, drow>>
        PROVE  SolanaInv'
    <2>1. OwnerHolds'
      BY <1>0, <1>5, <1>6 DEF OwnerHolds
    <2>2. NoneIsUnsigned' /\ ConfirmedIsTrue'
      BY <1>0, <1>6 DEF NoneIsUnsigned, ConfirmedIsTrue
    <2> QED
      BY <1>1, <1>6, <2>1, <2>2, RequestStep
  <1>7. CASE ClaimWithdrawal(r)
    <2>1. CASE ~Owns(k)
      BY <1>3, <1>6, <1>7, <2>1 DEF ClaimWithdrawal
    <2>2. CASE Owns(k)
      <3>1. PICK x \in {"reserve", "done"} : Goes(r, Step(x))
        BY <1>7, <2>2 DEF ClaimWithdrawal
      <3>2. /\ entry' = [entry EXCEPT ![k] = "created"] /\ entry[k] = "none"
            /\ UNCHANGED <<sig, net, worker, arrived, drow>>
        BY <1>7, <2>2 DEF ClaimWithdrawal, Owns
      <3>3. sig[k] = NoSig
        BY <1>0, <1>2, <3>2 DEF NoneIsUnsigned
      <3>4. OwnerHolds'
        <4>1. \A q \in Sends \ {r} : call'[q] = call[q]
          BY <1>5, <3>1
        <4>2. call'[r].step = x /\ x \in {"reserve", "done"}
          BY <1>3, <1>5, <3>1
        <4> QED
          BY <1>0, <1>1, <1>2, <3>2, <3>3, <4>1, <4>2 DEF OwnerHolds
      <3>5. NoneIsUnsigned' /\ ConfirmedIsTrue'
        BY <1>0, <1>1, <1>2, <3>2, <3>3 DEF NoneIsUnsigned, ConfirmedIsTrue
      <3>6. entry' \in [SendKeys -> Statuses]
        BY <1>1, <3>2 DEF Statuses
      <3> QED
        BY <1>1, <1>3, <3>1, <3>2, <3>4, <3>5, <3>6, RequestStep
    <2> QED
      BY <2>1, <2>2
  <1>8. CASE ReserveWithdrawal(r)
    <2>1. CASE Goes(r, Step("done")) /\ UNCHANGED entry
      BY <1>3, <1>6, <1>8, <2>1 DEF ReserveWithdrawal
    <2>2. CASE entry[k] = "created" /\ entry' = [entry EXCEPT ![k] = "reserved"]
      <3>1. PICK x \in {"sign", "done"} : Goes(r, Step(x))
        BY <1>8 DEF ReserveWithdrawal
      <3>2. UNCHANGED <<sig, net, worker, arrived, drow>> /\ call[r].step = "reserve"
        BY <1>8 DEF ReserveWithdrawal, AtStep
      <3>3. sig[k] = NoSig /\ Active(r)
        BY <1>0, <3>2 DEF OwnerHolds, Active
      <3>4. OwnerHolds'
        <4>1. \A q \in Sends \ {r} : call'[q] = call[q]
          BY <1>5, <3>1
        <4>2. call'[r].step = x /\ x \in {"sign", "done"}
          BY <1>3, <1>5, <3>1
        <4>3. \A q \in Sends \ {r} : Active(q) => KeyOfSend[q] # k
          BY <1>0, <3>3 DEF OneOwner
        <4> QED
          BY <1>0, <1>1, <1>2, <2>2, <3>2, <3>3, <4>1, <4>2, <4>3 DEF OwnerHolds, Active
      <3>5. NoneIsUnsigned' /\ ConfirmedIsTrue'
        BY <1>0, <1>1, <1>2, <2>2, <3>2, <3>3 DEF NoneIsUnsigned, ConfirmedIsTrue
      <3>6. entry' \in [SendKeys -> Statuses]
        BY <1>1, <2>2 DEF Statuses
      <3> QED
        BY <1>1, <1>3, <3>1, <3>2, <3>3, <3>4, <3>5, <3>6, RequestStep
    <2> QED
      BY <1>8, <2>1, <2>2 DEF ReserveWithdrawal
  <1>9. CASE PersistSigned(r)
    <2>1. CASE Goes(r, Step("done")) /\ UNCHANGED <<entry, sig, net>>
      BY <1>3, <1>6, <1>9, <2>1 DEF PersistSigned
    <2>2. CASE net' = [net EXCEPT ![r] = "signed"] /\ \E x \in {"send", "done"} : Goes(r, Step(x))
      <3>1. PICK x \in {"send", "done"} : Goes(r, Step(x))
        BY <2>2
      <3>2. UNCHANGED <<worker, arrived, drow>> /\ call[r].step = "sign"
        BY <1>9 DEF PersistSigned, AtStep
      <3>3. entry[k] = "reserved" /\ sig[k] = NoSig /\ Active(r) /\ net[r] = "none"
        BY <1>0, <3>2 DEF OwnerHolds, Active
      <3>4. /\ entry' = [entry EXCEPT ![k] = "signed"] /\ sig' = [sig EXCEPT ![k] = r]
        <4>1. net' # net
          BY <1>1, <2>2, <3>3
        <4> QED
          BY <1>9, <3>3, <4>1 DEF PersistSigned
      <3>5. OwnerHolds'
        <4>1. \A q \in Sends \ {r} : call'[q] = call[q] /\ net'[q] = net[q]
          BY <1>1, <1>5, <2>2, <3>1
        <4>2. call'[r].step = x /\ x \in {"send", "done"}
          BY <1>3, <1>5, <3>1
        <4>3. \A q \in Sends \ {r} : Active(q) => KeyOfSend[q] # k
          BY <1>0, <3>3 DEF OneOwner
        <4>4. \A q \in Sends \ {r} : KeyOfSend[q] = k => net[q] = "none"
          BY <1>0, <3>3 DEF OwnerHolds
        <4> QED
          BY <1>0, <1>1, <1>2, <3>3, <3>4, <4>1, <4>2, <4>3, <4>4 DEF OwnerHolds, Active
      <3>6. NoneIsUnsigned'
        BY <1>0, <1>1, <1>2, <3>4 DEF NoneIsUnsigned
      <3>7. ConfirmedIsTrue'
        <4> SUFFICES ASSUME NEW j \in SendKeys
                     PROVE  /\ entry'[j] \in {"confirmed", "finalized"} =>
                                   sig'[j] # NoSig /\ net'[sig'[j]] = "moved"
                            /\ entry'[j] = "failed" => sig'[j] # NoSig /\ net'[sig'[j]] = "failed"
          BY DEF ConfirmedIsTrue
        <4>1. CASE j = k
          BY <1>1, <1>2, <3>4, <4>1
        <4>2. CASE j # k
          BY <1>0, <1>1, <1>2, <2>2, <3>3, <3>4, <4>2 DEF ConfirmedIsTrue
        <4> QED
          BY <4>1, <4>2
      <3>8. /\ entry' \in [SendKeys -> Statuses] /\ sig' \in [SendKeys -> Sends \cup {NoSig}]
            /\ net' \in [Sends -> Out \cup {"none", "signed", "expired"}]
        BY <1>1, <2>2, <3>4 DEF Statuses
      <3>9. \A q \in Sends : net[q] \in {"moved", "failed"} => net'[q] = net[q]
        BY <1>1, <2>2, <3>3
      <3> QED
        BY <1>3, <3>1, <3>2, <3>3, <3>5, <3>6, <3>7, <3>8, <3>9, RequestStep
    <2> QED
      BY <1>9, <2>1, <2>2 DEF PersistSigned
  <1>10. CASE SendSigned(r)
    <2>1. net' \in {net, Accepted(r)} /\ UNCHANGED <<entry, sig, worker, arrived, drow>>
      BY <1>10 DEF SendSigned
    <2>2. PICK x \in SubmitWrites : Goes(r, Writing(x))
      BY <1>10 DEF SendSigned, SubmitWrites
    <2>3. call[r].step = "send" /\ Active(r)
      BY <1>10 DEF SendSigned, AtStep, Active
    <2>4. NetKept
      BY <2>1, AcceptedKeeps
    <2>5. OwnerHolds'
      <3>1. \A q \in Sends \ {r} : call'[q] = call[q]
        BY <1>5, <2>2
      <3>2. call'[r].step = "write" /\ call'[r].write \in SubmitWrites
        BY <1>4, <1>5, <2>2
      <3> QED
        BY <1>0, <2>1, <2>3, <2>4, <3>1, <3>2 DEF OwnerHolds, NetKept
    <2>6. NoneIsUnsigned' /\ ConfirmedIsTrue'
      BY <1>0, <2>1, <2>4, NetKeptTells DEF NoneIsUnsigned
    <2> QED
      BY <1>1, <1>4, <2>1, <2>2, <2>3, <2>4, <2>5, <2>6, RequestStep DEF NetKept
  <1>11. CASE MarkSubmitStatus(r)
    <2> DEFINE x == call[r].write
    <2>1. /\ call[r].step = "write" /\ Goes(r, Step("done")) /\ entry' \in {entry, WithStatus(r, x)}
          /\ UNCHANGED <<sig, net, worker, arrived, drow>>
      BY <1>11 DEF MarkSubmitStatus, AtStep
    <2>2. x \in SubmitWrites
      BY <1>0, <2>1 DEF OwnerHolds
    <2>3. Told(net[r], x)
      BY <2>2 DEF Told, SubmitWrites, Statuses
    <2>4. /\ entry' \in [SendKeys -> Statuses]
          /\ \A j \in SendKeys : sig[j] = NoSig => entry'[j] = entry[j]
          /\ NoneIsUnsigned' /\ ConfirmedIsTrue'
      BY <2>1, <2>3, WrittenBySignature
    <2>5. OwnerHolds'
      <3>1. \A q \in Sends \ {r} : call'[q] = call[q]
        BY <1>5, <2>1
      <3>2. call'[r].step = "done"
        BY <1>3, <1>5, <2>1
      <3> QED
        BY <1>0, <1>2, <2>1, <2>4, <3>1, <3>2 DEF OwnerHolds
    <2> QED
      BY <1>1, <1>3, <2>1, <2>4, <2>5, RequestStep
  <1>12. CASE SendStops(r)
    BY <1>3, <1>6, <1>12 DEF SendStops
  <1> QED
    BY <1>7, <1>8, <1>9, <1>10, <1>11, <1>12

-----------------------------------------------------------------------------
(* A worker's own step: what it is to write, of the chain or of a deposit, *)
(* is said with it.                                                        *)
LEMMA WorkerStepKeeps ==
  ASSUME SolanaInv, NEW w \in Replicas, NEW s \in Worker, worker' = [worker EXCEPT ![w] = s],
         UNCHANGED <<sig, call, arrived>>,
         entry' \in [SendKeys -> Statuses], drow' \in [Deposits -> Nat], NetKept,
         \A k \in SendKeys : sig[k] = NoSig => entry'[k] = entry[k],
         NoneIsUnsigned', ConfirmedIsTrue', DepositsOnce',
         s.step = "row" => /\ \A k \in DOMAIN s.todo : s.todo[k].sig \in Sends
                           /\ s.write # NoSig => s.on \in Sends /\ Told(net'[s.on], s.write),
         s.step = "ask" => s.write = NoSig, s.step = "insert" => s.on \in arrived
  PROVE  SolanaInv'
  <1>0. /\ SolanaTypeOK /\ OneOwner /\ OwnerHolds /\ WorkerTells /\ NoSig \notin Sends
    BY SolanaAssumption DEF SolanaInv
  <1>1. worker \in [Replicas -> Worker]
    BY <1>0 DEF SolanaTypeOK
  <1>2. SolanaTypeOK'
    BY <1>0, <1>1 DEF SolanaTypeOK, NetKept
  <1>3. OneOwner'
    BY <1>0 DEF OneOwner, Active
  <1>4. OwnerHolds'
    BY <1>0 DEF OwnerHolds, NetKept, SendKeys
  <1>5. WorkerTells'
    <2>1. ASSUME NEW q \in Sends, NEW x, Told(net[q], x) PROVE Told(net'[q], x)
      BY <2>1 DEF Told, NetKept
    <2>2. worker'[w] = s /\ \A v \in Replicas \ {w} : worker'[v] = worker[v]
      BY <1>1
    <2>3. ASSUME NEW v \in Replicas
          PROVE  /\ worker'[v].step = "row" =>
                       /\ \A k \in DOMAIN worker'[v].todo : worker'[v].todo[k].sig \in Sends
                       /\ worker'[v].write # NoSig =>
                             worker'[v].on \in Sends /\ Told(net'[worker'[v].on], worker'[v].write)
                 /\ worker'[v].step = "ask" => worker'[v].write = NoSig
                 /\ worker'[v].step = "insert" => worker'[v].on \in arrived
      <3>1. CASE v = w
        BY <2>2, <3>1
      <3>2. CASE v # w
        BY <1>0, <2>1, <2>2, <3>2 DEF WorkerTells
      <3> QED
        BY <3>1, <3>2
    <2> QED
      BY <2>3 DEF WorkerTells
  <1> QED
    BY <1>2, <1>3, <1>4, <1>5 DEF SolanaInv

LEMMA RestingTyped == Resting \in Worker /\ Resting.step = "idle"
  <1>1. [k \in {} |-> NoSig] \in [{} -> Listed] /\ {} \in SUBSET SendKeys
    OBVIOUS
  <1>2. [k \in {} |-> NoSig] \in UNION {[ks -> Listed] : ks \in SUBSET SendKeys}
    BY <1>1
  <1> QED
    BY <1>2 DEF Resting, Worker

LEMMA ListTyped ==
  ASSUME NEW x \in Worker, NEW k
  PROVE  [x EXCEPT !.todo = [j \in DOMAIN x.todo \ {k} |-> x.todo[j]]] \in Worker
  <1> DEFINE left == [j \in DOMAIN x.todo \ {k} |-> x.todo[j]]
  <1>1. PICK ks \in SUBSET SendKeys : x.todo \in [ks -> Listed]
    BY DEF Worker
  <1>2. left \in [ks \ {k} -> Listed] /\ ks \ {k} \in SUBSET SendKeys
    BY <1>1
  <1>3. left \in UNION {[js -> Listed] : js \in SUBSET SendKeys}
    BY <1>2
  <1> HIDE DEF left
  <1>4. [x EXCEPT !.todo = left] \in Worker
    BY <1>3 DEF Worker
  <1> QED
    BY <1>4 DEF left

LEMMA WorkerFacts ==
  ASSUME SolanaInv, NEW w \in Replicas
  PROVE  /\ worker[w] \in Worker /\ worker \in [Replicas -> Worker]
         /\ entry \in [SendKeys -> Statuses] /\ sig \in [SendKeys -> Sends \cup {NoSig}]
         /\ net \in [Sends -> Out \cup {"none", "signed", "expired"}]
         /\ arrived \subseteq Deposits /\ drow \in [Deposits -> Nat]
         /\ NoneIsUnsigned /\ ConfirmedIsTrue /\ DepositsOnce
         /\ net' = net => NetKept
         /\ UNCHANGED <<entry, sig>> => NoneIsUnsigned'
         /\ UNCHANGED <<entry, sig>> /\ NetKept => ConfirmedIsTrue'
         /\ UNCHANGED <<arrived, drow>> => DepositsOnce'
  <1>1. /\ SolanaTypeOK /\ NoneIsUnsigned /\ ConfirmedIsTrue /\ DepositsOnce
    BY DEF SolanaInv
  <1>2. net' = net => NetKept
    BY <1>1 DEF SolanaTypeOK, NetKept
  <1>3. UNCHANGED <<entry, sig>> /\ NetKept => ConfirmedIsTrue'
    BY NetKeptTells
  <1>4. UNCHANGED <<arrived, drow>> => DepositsOnce'
    BY <1>1 DEF DepositsOnce
  <1>5. UNCHANGED <<entry, sig>> => NoneIsUnsigned'
    BY <1>1 DEF NoneIsUnsigned
  <1> QED
    BY <1>1, <1>2, <1>3, <1>4, <1>5 DEF SolanaTypeOK

(* A step that only moves the worker, to a place that tells nothing.       *)
LEMMA WorkerRests ==
  ASSUME SolanaInv, NEW w \in Replicas, NEW s \in Worker, worker' = [worker EXCEPT ![w] = s],
         UNCHANGED <<entry, sig, call, net, arrived, drow>>,
         s.step # "row", s.step = "ask" => s.write = NoSig,
         s.step = "insert" => s.on \in arrived
  PROVE  SolanaInv'
  <1>1. /\ entry' \in [SendKeys -> Statuses] /\ drow' \in [Deposits -> Nat] /\ NetKept
        /\ NoneIsUnsigned' /\ DepositsOnce'
    BY WorkerFacts
  <1>2. ConfirmedIsTrue'
    BY <1>1, WorkerFacts
  <1> QED
    BY <1>1, <1>2, WorkerStepKeeps

LEMMA TrackIndInv ==
  ASSUME SolanaInv, NEW w \in Replicas, NEW k \in Left(w), TrackWithdrawal(w, k)
  PROVE  SolanaInv'
  <1> DEFINE u == worker[w].todo[k]
             h == Handled(w, k)
  <1>0. worker[w].step = "row" /\ worker[w].write = NoSig
        /\ UNCHANGED <<entry, sig, call, arrived, drow>>
    BY DEF TrackWithdrawal
  <1>1. /\ \A j \in DOMAIN worker[w].todo : worker[w].todo[j].sig \in Sends
        /\ u.sig \in Sends
    BY <1>0 DEF SolanaInv, WorkerTells, Left
  <1>2. /\ h \in Worker /\ h.step = "row" /\ h.write = NoSig
        /\ \A j \in DOMAIN h.todo : h.todo[j].sig \in Sends
    <2>1. worker[w] \in Worker
      BY WorkerFacts
    <2>2. h = [worker[w] EXCEPT !.todo = [j \in DOMAIN worker[w].todo \ {k} |-> worker[w].todo[j]]]
      BY DEF Handled, Left
    <2>3. h \in Worker
      <3>1. [worker[w] EXCEPT !.todo = [j \in DOMAIN worker[w].todo \ {k} |-> worker[w].todo[j]]]
               \in Worker
        BY <2>1, ListTyped
      <3> QED
        BY <2>2, <3>1
    <2>4. /\ h.step = worker[w].step /\ h.write = worker[w].write
          /\ h.todo = [j \in DOMAIN worker[w].todo \ {k} |-> worker[w].todo[j]]
      BY <2>1, <2>2 DEF Worker
    <2> QED
      BY <1>0, <1>1, <2>3, <2>4
  <1> HIDE DEF h
  <1>3. ASSUME NetKept, Move(w, h)
        PROVE  SolanaInv'
    <2>1. worker' = [worker EXCEPT ![w] = h]
      BY <1>3 DEF Move
    <2>2. /\ entry' \in [SendKeys -> Statuses] /\ drow' \in [Deposits -> Nat]
          /\ NoneIsUnsigned' /\ DepositsOnce' /\ ConfirmedIsTrue'
      BY <1>0, <1>3, WorkerFacts
    <2> QED
      BY <1>0, <1>2, <1>3, <2>1, <2>2, WorkerStepKeeps
  <1>4. ASSUME NetKept, NEW s, Told(net'[u.sig], s), Move(w, [h EXCEPT !.on = u.sig, !.write = s])
        PROVE  SolanaInv'
    <2> DEFINE to == [h EXCEPT !.on = u.sig, !.write = s]
    <2>1. worker' = [worker EXCEPT ![w] = to]
      BY <1>4 DEF Move
    <2>2. /\ to \in Worker /\ to.step = "row" /\ to.on = u.sig /\ to.write = s
          /\ to.todo = h.todo
      BY <1>1, <1>2, <1>4 DEF Worker, Told
    <2>3. /\ entry' \in [SendKeys -> Statuses] /\ drow' \in [Deposits -> Nat]
          /\ NoneIsUnsigned' /\ DepositsOnce' /\ ConfirmedIsTrue'
      BY <1>0, <1>4, WorkerFacts
    <2> HIDE DEF to
    <2> QED
      BY <1>0, <1>1, <1>2, <1>4, <2>1, <2>2, <2>3, WorkerStepKeeps
  <1>5. PICK answer \in Answer(u.sig) :
         \/ answer = "pending" /\ u.read = "signed" /\ RebroadcastSigned(w, k)
         \/ /\ answer = "pending" /\ u.read = "submit_unknown"
            /\ Move(w, h) /\ UNCHANGED net
         \/ /\ answer # "pending" \/ u.read \notin {"signed", "submit_unknown"}
            /\ Move(w, [h EXCEPT !.on = u.sig, !.write = answer])
            /\ UNCHANGED net
    BY DEF TrackWithdrawal, h
  <1>6. net' = net => NetKept
    BY WorkerFacts
  <1>7. CASE RebroadcastSigned(w, k)
    <2>1. \E s \in {"rebuild_required", "submitted", "submit_unknown", "manual_review"} :
             /\ net' \in {net, Accepted(u.sig)}
             /\ Move(w, [h EXCEPT !.on = u.sig, !.write = s])
      BY <1>7 DEF RebroadcastSigned, h
    <2>2. PICK s \in {"rebuild_required", "submitted", "submit_unknown", "manual_review"} :
             /\ net' \in {net, Accepted(u.sig)}
             /\ Move(w, [h EXCEPT !.on = u.sig, !.write = s])
      BY <2>1
    <2>3. NetKept
      BY <1>1, <2>2, AcceptedKeeps
    <2>4. Told(net'[u.sig], s)
      BY <2>2 DEF Told, Statuses
    <2> QED
      BY <1>4, <2>2, <2>3, <2>4
  <1>8. CASE Move(w, h) /\ UNCHANGED net
    BY <1>3, <1>6, <1>8
  <1>9. CASE Move(w, [h EXCEPT !.on = u.sig, !.write = answer]) /\ UNCHANGED net
    <2>1. Told(net'[u.sig], answer)
      BY <1>5, <1>9 DEF Answer, Told, Statuses
    <2> QED
      BY <1>4, <1>6, <1>9, <2>1
  <1> QED
    BY <1>5, <1>7, <1>8, <1>9

LEMMA TrackerIndInv ==
  ASSUME SolanaInv, NEW w \in Replicas,
         \/ PendingWithdrawals(w) \/ GetSignatureStatuses(w) \/ UpdateTransactionStatus(w)
         \/ EndsRound(w) \/ InsertTransaction(w) \/ \E d \in Deposits : SeenReceiveKey(w, d)
  PROVE  SolanaInv'
  <1>0. /\ worker[w] \in Worker /\ worker \in [Replicas -> Worker]
        /\ sig \in [SendKeys -> Sends \cup {NoSig}] /\ entry \in [SendKeys -> Statuses]
        /\ drow \in [Deposits -> Nat] /\ WorkerTells
    BY WorkerFacts DEF SolanaInv
  <1>1. CASE PendingWithdrawals(w)
    <2> DEFINE ks == {k \in SendKeys : entry[k] \in Pending}
               list == [k \in ks |-> [sig |-> sig[k], read |-> entry[k]]]
               to == [Resting EXCEPT !.step = "ask", !.todo = list]
    <2>1. list \in [ks -> Listed] /\ ks \in SUBSET SendKeys
      BY <1>0 DEF Listed
    <2>2. list \in UNION {[js -> Listed] : js \in SUBSET SendKeys}
      BY <2>1
    <2>3. worker' = [worker EXCEPT ![w] = to] /\ UNCHANGED <<entry, sig, call, net, arrived, drow>>
      BY <1>1 DEF PendingWithdrawals
    <2> HIDE DEF list
    <2>4. to \in Worker /\ to.step = "ask" /\ to.write = NoSig
      BY <2>2, RestingTyped DEF Worker, Resting
    <2> HIDE DEF to
    <2> QED
      BY <2>3, <2>4, WorkerRests
  <1>2. CASE GetSignatureStatuses(w)
    <2> DEFINE todo == worker[w].todo
    <2>1. worker[w].step = "ask" /\ UNCHANGED <<entry, sig, call, net, arrived, drow>>
      BY <1>2 DEF GetSignatureStatuses
    <2>2. CASE \E k \in DOMAIN todo : todo[k].sig = NoSig
      <3>1. worker' = [worker EXCEPT ![w] = Resting]
        BY <1>2, <2>2 DEF GetSignatureStatuses
      <3> QED
        BY <2>1, <3>1, RestingTyped, WorkerRests
    <2>3. CASE ~\E k \in DOMAIN todo : todo[k].sig = NoSig
      <3> DEFINE to == [worker[w] EXCEPT !.step = "row"]
      <3>1. worker' = [worker EXCEPT ![w] = to]
        BY <1>2, <2>3 DEF GetSignatureStatuses
      <3>2. /\ to \in Worker /\ to.step = "row" /\ to.write = worker[w].write /\ to.todo = todo
        BY <1>0 DEF Worker
      <3>3. to.write = NoSig
        BY <1>0, <2>1, <3>2 DEF WorkerTells
      <3>4. \A k \in DOMAIN todo : todo[k].sig \in Sends
        <4>1. PICK ks \in SUBSET SendKeys : todo \in [ks -> Listed]
          BY <1>0 DEF Worker
        <4> QED
          BY <2>3, <4>1 DEF Listed
      <3>5. /\ entry' \in [SendKeys -> Statuses] /\ drow' \in [Deposits -> Nat] /\ NetKept
            /\ NoneIsUnsigned' /\ DepositsOnce'
        BY <2>1, WorkerFacts
      <3>6. ConfirmedIsTrue'
        BY <2>1, <3>5, WorkerFacts
      <3> HIDE DEF to
      <3> QED
        BY <2>1, <3>1, <3>2, <3>3, <3>4, <3>5, <3>6, WorkerStepKeeps
    <2> QED
      BY <2>2, <2>3
  <1>3. CASE UpdateTransactionStatus(w)
    <2> DEFINE to == [worker[w] EXCEPT !.on = NoSig, !.write = NoSig]
               r == worker[w].on
               s == worker[w].write
    <2>1. /\ worker[w].step = "row" /\ s # NoSig /\ entry' \in {entry, WithStatus(r, s)}
          /\ worker' = [worker EXCEPT ![w] = to] /\ UNCHANGED <<sig, call, net, arrived, drow>>
      BY <1>3 DEF UpdateTransactionStatus, Move
    <2>2. /\ r \in Sends /\ Told(net[r], s)
          /\ \A k \in DOMAIN worker[w].todo : worker[w].todo[k].sig \in Sends
      BY <1>0, <2>1 DEF WorkerTells
    <2>3. /\ entry' \in [SendKeys -> Statuses]
          /\ \A k \in SendKeys : sig[k] = NoSig => entry'[k] = entry[k]
          /\ NoneIsUnsigned' /\ ConfirmedIsTrue'
      BY <2>1, <2>2, WrittenBySignature
    <2>4. NetKept /\ DepositsOnce' /\ drow' \in [Deposits -> Nat]
      BY <2>1, WorkerFacts
    <2>5. to \in Worker /\ to.step = "row" /\ to.write = NoSig /\ to.todo = worker[w].todo
      BY <1>0, <2>1 DEF Worker
    <2> HIDE DEF to
    <2> QED
      BY <2>1, <2>2, <2>3, <2>4, <2>5, WorkerStepKeeps
  <1>4. CASE EndsRound(w)
    BY <1>4, RestingTyped, WorkerRests DEF EndsRound, Move
  <1>5. CASE InsertTransaction(w)
    <2> DEFINE d == worker[w].on
    <2>1. /\ worker[w].step = "insert" /\ worker' = [worker EXCEPT ![w] = Resting]
          /\ drow' = [drow EXCEPT ![d] = IF @ = 0 THEN 1 ELSE @]
          /\ UNCHANGED <<entry, sig, call, net, arrived>>
      BY <1>5 DEF InsertTransaction, Move
    <2>2. d \in arrived
      BY <1>0, <2>1 DEF WorkerTells
    <2>3. d \in Deposits /\ DepositsOnce
      BY <2>2, WorkerFacts
    <2>4. /\ drow' \in [Deposits -> Nat] /\ DepositsOnce'
      BY <1>0, <2>1, <2>2, <2>3 DEF DepositsOnce
    <2>5. NetKept /\ NoneIsUnsigned' /\ entry' \in [SendKeys -> Statuses]
      BY <2>1, WorkerFacts
    <2>6. ConfirmedIsTrue'
      BY <2>1, <2>5, WorkerFacts
    <2> QED
      BY <2>1, <2>4, <2>5, <2>6, RestingTyped, WorkerStepKeeps
  <1>6. ASSUME NEW d \in Deposits, SeenReceiveKey(w, d)
        PROVE  SolanaInv'
    <2> DEFINE to == [Resting EXCEPT !.step = "insert", !.on = d]
    <2>1. /\ d \in arrived /\ worker' = [worker EXCEPT ![w] = to]
          /\ UNCHANGED <<entry, sig, call, net, arrived, drow>>
      BY <1>6 DEF SeenReceiveKey, Move
    <2>2. to \in Worker /\ to.step = "insert" /\ to.on = d
      BY RestingTyped DEF Worker, Resting
    <2> HIDE DEF to
    <2> QED
      BY <2>1, <2>2, WorkerRests
  <1> QED
    BY <1>1, <1>2, <1>3, <1>4, <1>5, <1>6

(* What the chain does by itself.                                          *)
LEMMA ChainIndInv ==
  ASSUME SolanaInv, (\E r \in Sends : Lands(r)) \/ \E d \in Deposits : Arrives(d)
  PROVE  SolanaInv'
  <1>0. /\ SolanaTypeOK /\ OneOwner /\ OwnerHolds /\ NoneIsUnsigned /\ WorkerTells
        /\ ConfirmedIsTrue /\ DepositsOnce
    BY DEF SolanaInv
  <1>1. /\ UNCHANGED <<entry, sig, call, worker, drow>> /\ arrived \subseteq arrived'
        /\ arrived' \subseteq Deposits
    BY <1>0 DEF Lands, Arrives, SolanaTypeOK
  <1>2. NetKept
    <2>1. ASSUME NEW r \in Sends, Lands(r) PROVE NetKept
      BY <1>0, <2>1 DEF Lands, SolanaTypeOK, NetKept, Out
    <2>2. ASSUME NEW d \in Deposits, Arrives(d) PROVE NetKept
      BY <1>0, <2>2 DEF Arrives, SolanaTypeOK, NetKept
    <2> QED
      BY <2>1, <2>2
  <1>3. SolanaTypeOK'
    BY <1>0, <1>1, <1>2 DEF SolanaTypeOK, NetKept
  <1>4. OneOwner' /\ NoneIsUnsigned' /\ DepositsOnce'
    BY <1>0, <1>1 DEF OneOwner, Active, NoneIsUnsigned, DepositsOnce
  <1>5. OwnerHolds'
    BY <1>0, <1>1, <1>2 DEF OwnerHolds, NetKept
  <1>6. ConfirmedIsTrue'
    BY <1>1, <1>2, NetKeptTells
  <1>7. WorkerTells'
    <2>1. ASSUME NEW q \in Sends, NEW x, Told(net[q], x) PROVE Told(net'[q], x)
      BY <1>2, <2>1 DEF Told, NetKept
    <2> QED
      BY <1>0, <1>1, <2>1 DEF WorkerTells
  <1> QED
    BY <1>3, <1>4, <1>5, <1>6, <1>7 DEF SolanaInv

LEMMA SolanaKeeps == SolanaInv /\ [SolanaNext]_solvars => SolanaInv'
  <1> SUFFICES ASSUME SolanaInv, [SolanaNext]_solvars PROVE SolanaInv'
    OBVIOUS
  <1>1. CASE \E r \in Sends : \/ ClaimWithdrawal(r) \/ ReserveWithdrawal(r) \/ PersistSigned(r)
                              \/ SendSigned(r) \/ MarkSubmitStatus(r) \/ SendStops(r)
    BY <1>1, SendIndInv
  <1>2. CASE \E w \in Replicas :
               \/ PendingWithdrawals(w) \/ GetSignatureStatuses(w) \/ UpdateTransactionStatus(w)
               \/ EndsRound(w) \/ InsertTransaction(w) \/ \E d \in Deposits : SeenReceiveKey(w, d)
    BY <1>2, TrackerIndInv
  <1>3. CASE \E w \in Replicas : \E k \in Left(w) : TrackWithdrawal(w, k)
    BY <1>3, TrackIndInv
  <1>4. CASE (\E r \in Sends : Lands(r)) \/ \E d \in Deposits : Arrives(d)
    BY <1>4, ChainIndInv
  <1>5. CASE UNCHANGED solvars
    BY <1>5 DEF solvars, SolanaInv, SolanaTypeOK, OneOwner, Active, OwnerHolds, NoneIsUnsigned,
       WorkerTells, ConfirmedIsTrue, DepositsOnce
  <1> QED
    BY <1>1, <1>2, <1>3, <1>4, <1>5 DEF SolanaNext

(* Whatever the nodes refuse or forget, whoever repeats a request, and     *)
(* however many replicas track it: one transaction leaves for a key and    *)
(* its row had it before, what a row says of the chain is so, and a        *)
(* deposit counts once.                                                    *)
THEOREM WithdrawalMovesOnce == SolanaSpec => []SolanaMovesOnce
  <1>1. SolanaInv => SolanaMovesOnce
    BY DEF SolanaInv, SolanaMovesOnce, SentIsRecorded, OwnerHolds, Out
  <1> QED
    BY <1>1, SolanaStarts, SolanaKeeps, PTL DEF SolanaSpec

THEOREM WithdrawalsAreTyped == SolanaSpec => []SolanaTypeOK
  <1>1. SolanaInv => SolanaTypeOK
    BY DEF SolanaInv
  <1> QED
    BY <1>1, SolanaStarts, SolanaKeeps, PTL DEF SolanaSpec
=============================================================================
