---------------------------- MODULE SellDeposit ----------------------------
(***************************************************************************)
(* Deposits of SELL orders: the on-chain watcher (workers/onchain.go) reads*)
(* confirmed Transfer logs in block ranges behind a persisted cursor and   *)
(* matches them with the orders awaiting funds, while the expiry worker    *)
(* closes orders whose rate lock ran out.  One watcher per replica; the    *)
(* chain is external.  What is done after "pago" is module SellPayout's.   *)
(***************************************************************************)
EXTENDS Naturals, FiniteSets

CONSTANTS Orders,       \* SELL orders of one network
          Txs,          \* transactions, each with one Transfer to a watched address
          Pollers,      \* watcher loops, one per replica
          OrderAddr, OrderAmount,  \* what an order waits for
          TxAddr, TxAmount,        \* what a transaction pays
          Confirmations,           \* RequiredConfirmations
          ScanRange,               \* scanBlockRange
          Lookback,                \* blocks behind the head a fresh cursor starts
          MaxLookback,             \* an older cursor is reset
          MaxBlock,                \* bound: height of the chain
          MaxErrors,               \* bound: database errors while a log is handled
          NoTx                     \* deposit_tx IS NULL

ASSUME SellDepositAssumption ==
    /\ OrderAmount \in [Orders -> Nat \ {0}] /\ TxAmount \in [Txs -> Nat \ {0}]
    /\ DOMAIN OrderAddr = Orders /\ DOMAIN TxAddr = Txs
    /\ Confirmations \in Nat \ {0} /\ ScanRange \in Nat \ {0}
    /\ Lookback \in Nat /\ MaxLookback \in Nat /\ MaxBlock \in Nat /\ MaxErrors \in Nat
    /\ NoTx \notin Txs

VARIABLES ord,       \* orders.status, "none" before CreateOrder
          dtx,       \* orders.deposit_tx, a UNIQUE column
          expired,   \* orders whose rate_lock_expires_at has passed
          incident,  \* orders with an open sell_deposit_tx_replay incident
          cursor,    \* onchain_cursor.last_block, 0 when there is no row
          head,      \* external: latest block
          block,     \* external: block of each transaction, 0 when not mined
          poll,      \* each watcher: where it is and what it read
          errors

vars == <<ord, dtx, expired, incident, cursor, head, block, poll, errors>>
chain == <<head, block>>

Funding == {"aguardando_deposito", "aguardando_validacao"}
Status == Funding \cup {"none", "pago", "concluida", "expirada", "incidente_validacao"}

Idle == [at |-> "idle", from |-> 0, to |-> 0, todo |-> {}, pend |-> {}, tx |-> NoTx,
         order |-> {}, act |-> "none"]
Polls == [at : {"idle", "list", "match", "write"}, from : 0..MaxBlock, to : 0..MaxBlock,
          todo : SUBSET Txs, pend : SUBSET Orders, tx : Txs \cup {NoTx},
          order : SUBSET Orders,
          act : {"none", "replay", "under", "late", "confirm", "recheck"}]

Init == /\ ord = [o \in Orders |-> "none"]
        /\ dtx = [o \in Orders |-> NoTx]
        /\ expired = {} /\ incident = {} /\ cursor = 0
        /\ head = 0 /\ block = [t \in Txs |-> 0]
        /\ poll = [p \in Pollers |-> Idle]
        /\ errors = 0

-----------------------------------------------------------------------------
(* The chain grows; a block carries some of the transfers (external).  An  *)
(* address receives transfers once an order has shown it to its seller.    *)
Mine(S) ==
    /\ head < MaxBlock
    /\ \A t \in S : /\ block[t] = 0
                     /\ \E o \in Orders : ord[o] # "none" /\ OrderAddr[o] = TxAddr[t]
    /\ head' = head + 1
    /\ block' = [t \in Txs |-> IF t \in S THEN head + 1 ELSE block[t]]
    /\ UNCHANGED <<ord, dtx, expired, incident, cursor, poll, errors>>

CreateOrder(o) ==
    /\ ord[o] = "none"
    /\ ord' = [ord EXCEPT ![o] = "aguardando_deposito"]
    /\ UNCHANGED <<dtx, expired, incident, cursor, chain, poll, errors>>

RateLockExpires(o) ==
    /\ ord[o] # "none" /\ o \notin expired
    /\ expired' = expired \cup {o}
    /\ UNCHANGED <<ord, dtx, incident, cursor, chain, poll, errors>>

(* ExpireStaleSellOrders, run by the SellExpiryWorker every 30 s.          *)
ExpireStaleSellOrders ==
    LET stale == {o \in expired : ord[o] = "aguardando_deposito" /\ dtx[o] = NoTx} IN
    /\ stale # {}
    /\ ord' = [o \in Orders |-> IF o \in stale THEN "expirada" ELSE ord[o]]
    /\ UNCHANGED <<dtx, expired, incident, cursor, chain, poll, errors>>

(* The payout of an accepted deposit, module SellPayout.                   *)
PayoutConcludes(o) ==
    /\ ord[o] = "pago"
    /\ ord' = [ord EXCEPT ![o] = "concluida"]
    /\ UNCHANGED <<dtx, expired, incident, cursor, chain, poll, errors>>

-----------------------------------------------------------------------------
SubtractFloor(a, b) == IF a > b THEN a - b ELSE 0

(* Mutant: the newest blocks are scanned too.                              *)
UnconfirmedHead == head

(* Only blocks with enough confirmations are scanned.                      *)
ScanHead == head - Confirmations

(* getCursor: a missing, unreadable or very old cursor restarts near the   *)
(* head.                                                                   *)
GetCursor(scanHead, failed) ==
    IF failed \/ cursor = 0 \/ (scanHead > cursor /\ scanHead - cursor > MaxLookback)
    THEN SubtractFloor(scanHead, Lookback) ELSE cursor

(* poll: the head is read first and fixes the block range.                 *)
ReadHead(p) == \E failed \in {b \in BOOLEAN : b => errors < MaxErrors} :
    LET from == GetCursor(ScanHead, failed)
        to   == IF from + ScanRange < ScanHead THEN from + ScanRange ELSE ScanHead IN
    /\ poll[p].at = "idle"
    /\ head > Confirmations /\ from < ScanHead
    /\ poll' = [poll EXCEPT ![p] = [Idle EXCEPT !.at = "list", !.from = from, !.to = to]]
    /\ errors' = IF failed THEN errors + 1 ELSE errors
    /\ UNCHANGED <<ord, dtx, expired, incident, cursor, chain>>

(* Mutant: the end of the log query is taken as exclusive.                 *)
OpenBlockRange(p) == (poll[p].from + 1)..(poll[p].to - 1)

BlockRange(p) == (poll[p].from + 1)..poll[p].to

(* GetPendingOrdersByNetwork, then the logs of the range to the addresses  *)
(* of the orders found.                                                    *)
ListAndFilter(p) ==
    LET pending == {o \in Orders : ord[o] \in Funding} IN
    /\ poll[p].at = "list"
    /\ poll' = [poll EXCEPT ![p] = [poll[p] EXCEPT !.at = "match", !.pend = pending,
         !.todo = {t \in Txs : /\ block[t] \in BlockRange(p)
                               /\ \E o \in pending : OrderAddr[o] = TxAddr[t]}]]
    /\ UNCHANGED <<ord, dtx, expired, incident, cursor, chain, errors>>

(* Any read of the list, or the log query, may fail: the cursor stays.     *)
PollFails(p) ==
    /\ poll[p].at = "list" /\ errors < MaxErrors
    /\ errors' = errors + 1
    /\ poll' = [poll EXCEPT ![p] = Idle]
    /\ UNCHANGED <<ord, dtx, expired, incident, cursor, chain>>

(* One order at the address takes the deposit; several (a shared wallet)   *)
(* are told apart by the amount, within the tolerance.                     *)
Candidates(p, t) ==
    LET here == {o \in poll[p].pend : OrderAddr[o] = TxAddr[t]} IN
    IF Cardinality(here) = 1 THEN here
    ELSE {o \in here : OrderAmount[o] = TxAmount[t]}

NextLog(p, t) == poll' = [poll EXCEPT ![p] = [poll[p] EXCEPT
    !.todo = @ \ {t}, !.at = "match", !.tx = NoTx, !.order = {}, !.act = "none"]]

(* matchSharedSellDeposit: no candidate, or several, is left to support.   *)
LeaveUnmatched(p) == \E t \in poll[p].todo :
    /\ poll[p].at = "match"
    /\ Cardinality(Candidates(p, t)) # 1
    /\ NextLog(p, t)
    /\ UNCHANGED <<ord, dtx, expired, incident, cursor, chain, errors>>

UsedElsewhere(o, t) == \E x \in Orders \ {o} : dtx[x] = t

(* The replay, amount and rate-lock checks choose the first write.         *)
FirstWrite(o, t) == IF UsedElsewhere(o, t)               THEN "replay"
                    ELSE IF TxAmount[t] < OrderAmount[o] THEN "under"
                    ELSE IF o \in expired                THEN "late" ELSE "confirm"

(* confirmDeposit up to that write: the order is read again, then checked. *)
CheckDeposit(p) == \E t \in poll[p].todo, o \in Orders :
    /\ poll[p].at = "match" /\ Candidates(p, t) = {o}
    /\ IF ord[o] \notin Funding \/ dtx[o] = t
       THEN NextLog(p, t)
       ELSE poll' = [poll EXCEPT ![p] = [poll[p] EXCEPT
                !.at = "write", !.tx = t, !.order = {o}, !.act = FirstWrite(o, t)]]
    /\ UNCHANGED <<ord, dtx, expired, incident, cursor, chain, errors>>

(* Mutant: the unique index is gone.                                       *)
WriteWithoutIndex(o, t, status) ==
    /\ ord' = [ord EXCEPT ![o] = status]
    /\ dtx' = [dtx EXCEPT ![o] = t]

(* A write of status and deposit_tx; the unique index on deposit_tx makes  *)
(* the whole UPDATE fail when the transaction funds another order.         *)
WriteDeposit(o, t, status) ==
    IF UsedElsewhere(o, t) THEN UNCHANGED <<ord, dtx>>
    ELSE /\ ord' = [ord EXCEPT ![o] = status]
         /\ dtx' = [dtx EXCEPT ![o] = t]

Writing(p, act, o, t) == /\ poll[p].at = "write" /\ poll[p].act = act
                         /\ poll[p].order = {o} /\ poll[p].tx = t

(* UpdateOrderStatus with the error ignored, then OpenOrderIncident.       *)
BlockReplay(p) == \E o \in Orders, t \in Txs :
    /\ Writing(p, "replay", o, t)
    /\ WriteDeposit(o, t, "incidente_validacao")
    /\ incident' = incident \cup {o}
    /\ NextLog(p, t)
    /\ UNCHANGED <<expired, cursor, chain, errors>>

(* UpdateOrderStatus, whatever the status has become.                      *)
MarkUnderpaid(p) == \E o \in Orders, t \in Txs :
    /\ Writing(p, "under", o, t)
    /\ WriteDeposit(o, t, "aguardando_validacao")
    /\ NextLog(p, t)
    /\ UNCHANGED <<expired, incident, cursor, chain, errors>>

(* RecordExpiredSellFunding.                                               *)
RecordExpired(p) == \E o \in Orders, t \in Txs :
    /\ Writing(p, "late", o, t)
    /\ IF ord[o] \in Funding \cup {"expirada", "incidente_validacao"}
       THEN WriteDeposit(o, t, "incidente_validacao") ELSE UNCHANGED <<ord, dtx>>
    /\ NextLog(p, t)
    /\ UNCHANGED <<expired, incident, cursor, chain, errors>>

(* Mutant: the UPDATE forgets rate_lock_expires_at.                        *)
FundableAtAnyTime(o) == ord[o] \in Funding

Fundable(o) == ord[o] \in Funding /\ o \notin expired

(* ConfirmSellDepositForPayout; when its UPDATE matched no row the order   *)
(* is read once more, and an error of the unique index ends the handling.  *)
Confirm(p) == \E o \in Orders, t \in Txs :
    /\ Writing(p, "confirm", o, t)
    /\ IF Fundable(o)
       THEN WriteDeposit(o, t, "pago") /\ NextLog(p, t)
       ELSE /\ UNCHANGED <<ord, dtx>>
            /\ poll' = [poll EXCEPT ![p].act = "recheck"]
    /\ UNCHANGED <<expired, incident, cursor, chain, errors>>

Recheck(p) == \E o \in Orders, t \in Txs :
    /\ Writing(p, "recheck", o, t)
    /\ IF o \in expired THEN poll' = [poll EXCEPT ![p].act = "late"] ELSE NextLog(p, t)
    /\ UNCHANGED <<ord, dtx, expired, incident, cursor, chain, errors>>

(* A database error while a log is handled is logged and the next log is   *)
(* taken: nothing holds the cursor back.                                   *)
LogHandlingFails(p) == \E t \in poll[p].todo :
    /\ errors < MaxErrors
    /\ poll[p].at = "match" \/ poll[p].tx = t
    /\ errors' = errors + 1
    /\ NextLog(p, t)
    /\ UNCHANGED <<ord, dtx, expired, incident, cursor, chain>>

(* saveCursor: an upsert of the value this watcher reached.                *)
SaveCursor(p) ==
    /\ poll[p].at = "match" /\ poll[p].todo = {}
    /\ cursor' = poll[p].to
    /\ poll' = [poll EXCEPT ![p] = Idle]
    /\ UNCHANGED <<ord, dtx, expired, incident, chain, errors>>

PollStep(p) ==
    \/ ReadHead(p) \/ ListAndFilter(p) \/ LeaveUnmatched(p) \/ CheckDeposit(p)
    \/ BlockReplay(p) \/ MarkUnderpaid(p) \/ RecordExpired(p) \/ Confirm(p) \/ Recheck(p)
    \/ SaveCursor(p)

Next == \/ \E p \in Pollers : PollStep(p) \/ PollFails(p) \/ LogHandlingFails(p)
        \/ \E S \in SUBSET Txs : Mine(S)
        \/ \E o \in Orders : CreateOrder(o) \/ RateLockExpires(o) \/ PayoutConcludes(o)
        \/ ExpireStaleSellOrders

Spec == Init /\ [][Next]_vars

-----------------------------------------------------------------------------
TypeOK == /\ ord \in [Orders -> Status]
          /\ dtx \in [Orders -> Txs \cup {NoTx}]
          /\ expired \subseteq Orders /\ incident \subseteq Orders
          /\ cursor \in 0..MaxBlock /\ head \in 0..MaxBlock
          /\ block \in [Txs -> 0..MaxBlock]
          /\ poll \in [Pollers -> Polls]
          /\ errors \in 0..MaxErrors

(* No transaction is credited to two orders, although two replicas check   *)
(* for a replay before either of them writes.                              *)
OneOrderPerTx == \A o, x \in Orders : dtx[o] = dtx[x] /\ dtx[o] # NoTx => o = x

(* An order goes to payout only on a transfer to its own address, of at    *)
(* least its amount, that had the required confirmations.                  *)
PaidByConfirmedDeposit == \A o \in Orders : ord[o] = "pago" =>
    LET t == dtx[o] IN
    /\ t # NoTx
    /\ TxAddr[t] = OrderAddr[o] /\ TxAmount[t] >= OrderAmount[o]
    /\ block[t] > 0 /\ block[t] + Confirmations <= head

(* An order never goes to payout once its rate lock has run out, not even  *)
(* when it runs out between the watcher's check and its write.             *)
NoPayoutAfterExpiry == [][\A o \in expired : ord[o] # "pago" => ord'[o] # "pago"]_vars

(* Deposits that must be credited without help: confirmed, of the full     *)
(* amount, to an address only one order uses.                              *)
Alone(o) == \A x \in Orders \ {o} : OrderAddr[x] # OrderAddr[o]
Owed(o, t) == /\ Alone(o) /\ TxAddr[t] = OrderAddr[o] /\ TxAmount[t] >= OrderAmount[o]
              /\ block[t] > 0

(* The persisted cursor passes a block only after some watcher has dealt   *)
(* with every deposit in it, whichever watcher saves it and in which order;*)
(* so an order still waiting has its deposit in front of the cursor, unless*)
(* an error left a log behind (LogHandlingFails).                          *)
NoDepositSkipped == \A o \in Orders, t \in Txs :
    Owed(o, t) /\ ord[o] = "aguardando_deposito" /\ errors = 0 => cursor < block[t]
=============================================================================
