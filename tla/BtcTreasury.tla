----------------------------- MODULE BtcTreasury -----------------------------
(***************************************************************************)
(* Paid BTC:BITCOIN orders: the goroutines of BuySendWorker take them      *)
(* through BTCFundingRouter, from the operational treasury                 *)
(* (TreasuryService.SendBTC) or, when it cannot or did not send, BingX.    *)
(*                                                                         *)
(* All UTXOs have one value and Need counts them: fees and change are left *)
(* out (change comes back as one more unconfirmed UTXO).  A transaction is *)
(* its order and its inputs, as the signatures are deterministic.  An      *)
(* output counts BTC_MIN_CONFIRMATIONS blocks (3) after it appears, longer *)
(* than any sync, so all are listed from the start; chain reorganisations  *)
(* are left out.                                                           *)
(***************************************************************************)
EXTENDS Naturals, FiniteSets

CONSTANTS Orders,      \* BTC orders, all paid
          Utxos,       \* outputs at the treasury's address
          Workers,     \* goroutines of BuySendWorker, of all replicas
          Need,        \* UTXOs an order takes, per order
          MinReserve,  \* BTC_TREASURY_MIN_RESERVE_SATS, in UTXOs
          BingX,       \* BingX can execute and withdraw BTC
          NoOrder,
          MaxFails     \* bound: crashes, deadlines and failed statements

ASSUME BtcTreasuryAssumption ==
    /\ IsFiniteSet(Utxos) /\ Need \in [Orders -> Nat \ {0}] /\ NoOrder \notin Orders
    /\ MinReserve \in Nat /\ BingX \in BOOLEAN /\ MaxFails \in Nat

VARIABLES st,     \* buy_orders.status
          old,    \* orders not updated for 60 seconds
          utxo,   \* btc_treasury_utxos: status and reserved_by_op
          op,     \* btc_treasury_operations.status, "none" without a row
          txs,    \* btc_treasury_operations.raw_tx_hash: signed transactions
          lock,   \* some pooled connection holds the advisory lock
          task,   \* what each goroutine is doing
          deep,   \* external: UTXOs with BTC_MIN_CONFIRMATIONS
          wire,   \* external: transactions posted and not yet decided
          mined,  \* external: transactions the network took
          bing,   \* external: withdrawals by BingX, per order
          fails

vars == <<st, old, utxo, op, txs, lock, task, deep, wire, mined, bing, fails>>
rows == <<utxo, op, txs>>
chain == <<deep, wire, mined>>

Status == {"pago_fiat", "enviando", "enviado", "pendente_confirmacao", "erro"}
UtxoStatus == {"none", "pending", "confirmed", "reserved", "spent", "orphaned"}

(* The CHECK of btc_treasury_operations.status.                            *)
OpStatus == {"pending", "processing", "signed", "broadcast", "broadcast_unknown",
             "confirmed", "failed", "manual_review"}

Tx == [order : Orders, ins : SUBSET Utxos]

Idle == [at |-> "idle", order |-> NoOrder, send |-> FALSE, seen |-> {}, ins |-> {}]
Tasks == [at : {"idle", "list", "upsert", "read", "orphan", "check", "lock", "claim", "reserve",
                "sign", "post", "wait", "bingx", "sent", "unknown", "erro"},
          order : Orders \cup {NoOrder},
          send : BOOLEAN,       \* in SendBTC, not in CanFund
          seen : SUBSET Utxos,  \* the provider's list, then the rows read
          ins : SUBSET Utxos]

Init == /\ st = [o \in Orders |-> "pago_fiat"] /\ old = {}
        /\ utxo = [u \in Utxos |-> [st |-> "none", by |-> NoOrder]]
        /\ op = [o \in Orders |-> "none"] /\ txs = {}
        /\ lock = FALSE /\ task = [w \in Workers |-> Idle]
        /\ deep \in SUBSET Utxos /\ wire = {} /\ mined = {}
        /\ bing = [o \in Orders |-> 0] /\ fails = 0

Spent == UNION {t.ins : t \in mined}
In(s) == {u \in Utxos : utxo[u].st \in s}
Put(S, s, o) == [u \in Utxos |-> IF u \in S THEN [st |-> s, by |-> o] ELSE utxo[u]]
Goto(w, step) == task' = [task EXCEPT ![w].at = step]
At(w, step) == task[w].at = step
Fail == fails < MaxFails /\ fails' = fails + 1

(* An UPDATE of the operation's status; errors are ignored, so a status    *)
(* the CHECK rejects leaves the row as it is.                              *)
SetOp(o, s) == op' = IF s \in OpStatus THEN [op EXCEPT ![o] = s] ELSE op

-----------------------------------------------------------------------------
(* The claim of BuyOrder, and the deadline of a goroutine.                 *)
ClaimBuyOrderForSend(w, o) ==
    /\ At(w, "idle")
    /\ st[o] = "pago_fiat" \/ (st[o] = "enviando" /\ o \in old)
    /\ st' = [st EXCEPT ![o] = "enviando"] /\ old' = old \ {o}
    /\ task' = [task EXCEPT ![w] = [Idle EXCEPT !.at = "list", !.order = o]]
    /\ UNCHANGED <<rows, lock, chain, bing, fails>>

SixtySecondsPass(o) ==
    /\ st[o] = "enviando" /\ o \notin old
    /\ \A w \in Workers : task[w].order # o
    /\ old' = old \cup {o}
    /\ UNCHANGED <<st, rows, lock, task, chain, bing, fails>>

(* syncUTXOs: the provider's list, with what is not spent; on an error the *)
(* rows are used as they are.                                              *)
ListUtxos(w) ==
    /\ At(w, "list")
    /\ \/ task' = [task EXCEPT ![w] = [@ EXCEPT !.at = "upsert", !.seen = Utxos \ Spent]]
       \/ Goto(w, "check")
    /\ UNCHANGED <<st, old, rows, lock, chain, bing, fails>>

(* UpsertTreasuryUTXO never takes a reserved or spent UTXO back.           *)
Upserted(u) == IF utxo[u].st \in {"reserved", "spent"} THEN utxo[u]
               ELSE [st |-> IF u \in deep THEN "confirmed" ELSE "pending", by |-> utxo[u].by]

UpsertUtxos(w) ==
    /\ At(w, "upsert")
    /\ utxo' = [u \in Utxos |-> IF u \in task[w].seen THEN Upserted(u) ELSE utxo[u]]
    /\ Goto(w, "read")
    /\ UNCHANGED <<st, old, op, txs, lock, chain, bing, fails>>

(* The rows the provider did not list and that are not reserved ...        *)
ReadActive(w) ==
    /\ At(w, "read")
    /\ task' = [task EXCEPT ![w] = [@ EXCEPT !.at = "orphan",
                                    !.seen = In({"pending", "confirmed"}) \ task[w].seen]]
    /\ UNCHANGED <<st, old, rows, lock, chain, bing, fails>>

(* ... are orphaned, whatever happened to them since.                      *)
MarkOrphaned(w) ==
    /\ At(w, "orphan")
    /\ utxo' = [u \in Utxos |-> IF u \in task[w].seen
                                THEN [utxo[u] EXCEPT !.st = "orphaned"] ELSE utxo[u]]
    /\ Goto(w, "check")
    /\ UNCHANGED <<st, old, op, txs, lock, chain, bing, fails>>

(* pg_advisory_unlock runs on any connection of the pool: the one that     *)
(* holds the lock may keep it.                                             *)
Unlock == lock' \in {lock, FALSE}

(* The confirmed rows against the order, in CanFund and again in SendBTC:  *)
(* without funds the next source is tried.                                 *)
CheckBalance(w) ==
    LET o == task[w].order  free == In({"confirmed"}) IN
    /\ At(w, "check")
    /\ IF Cardinality(free) >= Need[o] + MinReserve
       THEN /\ task' = [task EXCEPT ![w] =
                           [@ EXCEPT !.at = IF task[w].send THEN "claim" ELSE "lock",
                                     !.seen = free]]
            /\ UNCHANGED lock
       ELSE /\ Goto(w, "bingx")
            /\ IF task[w].send THEN Unlock ELSE UNCHANGED lock
    /\ UNCHANGED <<st, old, rows, chain, bing, fails>>

(* pg_try_advisory_lock, a session lock taken on a pooled connection: it   *)
(* is granted again on the connection that already holds it.               *)
AcquireLock(w) ==
    /\ At(w, "lock")
    /\ \/ task' = [task EXCEPT ![w] = [@ EXCEPT !.at = "list", !.send = TRUE]] /\ lock' = TRUE
       \/ lock /\ Goto(w, "bingx") /\ UNCHANGED lock
    /\ UNCHANGED <<st, old, rows, chain, bing, fails>>

(* Mutant: an operation that exists is started again.                      *)
NewOperation(o) == TRUE

(* INSERT ... ON CONFLICT (idempotency_key) DO NOTHING.                    *)
Created(o) == op[o] = "none"

(* ClaimTreasuryOperation.  An operation that exists is reported as it is; *)
(* one that was neither broadcast nor unknown is a failed source.          *)
ClaimOperation(w) ==
    LET o == task[w].order IN
    /\ At(w, "claim")
    /\ IF Created(o)
       THEN SetOp(o, "processing") /\ Goto(w, "reserve") /\ UNCHANGED lock
       ELSE /\ Goto(w, CASE op[o] = "broadcast" -> "sent"
                         [] op[o] = "broadcast_unknown" -> "unknown"
                         [] OTHER -> "bingx")
            /\ Unlock /\ UNCHANGED op
    /\ UNCHANGED <<st, old, utxo, txs, chain, bing, fails>>

(* Mutant: the status is not checked when a UTXO is reserved.              *)
ReservableAlways(S) == S

(* UPDATE ... WHERE status = 'confirmed'.                                  *)
Reservable(S) == S \cap In({"confirmed"})

(* SelectUTXOs among the rows read before, and ReserveTreasuryUTXOs: when  *)
(* another operation has taken one of them, those reserved stay reserved.  *)
ReserveUtxos(w) ==
    LET o == task[w].order IN
    /\ At(w, "reserve")
    /\ \E S \in SUBSET task[w].seen :
         /\ Cardinality(S) = Need[o]
         /\ utxo' = Put(Reservable(S), "reserved", o)
         /\ IF Reservable(S) = S
            THEN /\ task' = [task EXCEPT ![w] = [@ EXCEPT !.at = "sign", !.ins = S]]
                 /\ UNCHANGED <<op, lock>>
            ELSE SetOp(o, "failed_before_sign") /\ Goto(w, "bingx") /\ Unlock
    /\ UNCHANGED <<st, old, txs, chain, bing, fails>>

Held(o) == {u \in Utxos : utxo[u] = [st |-> "reserved", by |-> o]}

(* Sign, and the signed transaction is stored before it is broadcast.      *)
SignAndStore(w) ==
    LET o == task[w].order IN
    /\ At(w, "sign")
    /\ txs' = txs \cup {[order |-> o, ins |-> task[w].ins]}
    /\ SetOp(o, "signed") /\ Goto(w, "post")
    /\ UNCHANGED <<st, old, utxo, lock, chain, bing, fails>>

SignFails(w) ==
    LET o == task[w].order IN
    /\ At(w, "sign") /\ Fail
    /\ utxo' = Put(Held(o), "confirmed", NoOrder)
    /\ SetOp(o, "failed_before_sign") /\ Goto(w, "bingx") /\ Unlock
    /\ UNCHANGED <<st, old, txs, chain, bing>>

(* A statement before the signature fails: the next source is tried; the   *)
(* operation may have been inserted.                                       *)
StatementFails(w) ==
    LET o == task[w].order IN
    /\ task[w].at \in {"check", "lock", "claim", "reserve"} /\ Fail
    /\ \/ UNCHANGED op
       \/ At(w, "claim") /\ Created(o) /\ SetOp(o, "pending")
    /\ Goto(w, "bingx")
    /\ IF task[w].send THEN Unlock ELSE UNCHANGED lock
    /\ UNCHANGED <<st, old, utxo, txs, chain, bing>>

-----------------------------------------------------------------------------
TxOf(w) == [order |-> task[w].order, ins |-> task[w].ins]

Broadcast(w) ==
    /\ At(w, "post")
    /\ wire' = wire \cup {TxOf(w)}
    /\ Goto(w, "wait")
    /\ UNCHANGED <<st, old, rows, lock, deep, mined, bing, fails>>

(* External: the network decides.                                          *)
NetworkDecides(t) ==
    /\ t \in wire
    /\ wire' = wire \ {t}
    /\ \/ t.ins \cap Spent = {} /\ mined' = mined \cup {t}
       \/ UNCHANGED mined
    /\ UNCHANGED <<st, old, rows, lock, task, deep, bing, fails>>

(* 2xx, or already known: spent.  The last statement may fail.             *)
BroadcastOk(w) ==
    /\ At(w, "wait") /\ TxOf(w) \in mined
    /\ SetOp(task[w].order, "broadcast")
    /\ \/ utxo' = Put(task[w].ins, "spent", task[w].order) /\ UNCHANGED fails
       \/ Fail /\ UNCHANGED utxo
    /\ Goto(w, "sent") /\ Unlock
    /\ UNCHANGED <<st, old, txs, chain, bing>>

(* Network error: nobody knows.                                            *)
UnknownUtxos(o) == utxo

BroadcastUnknown(w) ==
    /\ At(w, "wait")
    /\ SetOp(task[w].order, "broadcast_unknown")
    /\ utxo' = UnknownUtxos(task[w].order)
    /\ Goto(w, "unknown") /\ Unlock
    /\ UNCHANGED <<st, old, txs, chain, bing, fails>>

(* Any other answer counts as a failure before the broadcast, the one of a *)
(* gateway in front of a node that took the transaction included.          *)
BroadcastRefused(w) ==
    LET o == task[w].order IN
    /\ At(w, "wait") /\ TxOf(w) \notin wire
    /\ utxo' = Put(Held(o), "confirmed", NoOrder)
    /\ SetOp(o, "failed_before_broadcast") /\ Goto(w, "bingx") /\ Unlock
    /\ UNCHANGED <<st, old, txs, chain, bing, fails>>

-----------------------------------------------------------------------------
(* BingXFundingSource.Fund: a withdrawal and its answer, or an error, with *)
(* or without a withdrawal.                                                *)
FundByBingX(w) ==
    LET o == task[w].order  withdraws == bing' = [bing EXCEPT ![o] = @ + 1] IN
    /\ At(w, "bingx")
    /\ \/ BingX /\ withdraws /\ \E s \in {"sent", "unknown"} : Goto(w, s)
       \/ BingX /\ UNCHANGED bing /\ Goto(w, "unknown")   \* bought, not withdrawn
       \/ BingX /\ withdraws /\ Goto(w, "erro")
       \/ UNCHANGED bing /\ Goto(w, "erro")
    /\ UNCHANGED <<st, old, rows, lock, chain, fails>>

Outcome(step) == CASE step = "sent" -> "enviado"
                   [] step = "unknown" -> "pendente_confirmacao"
                   [] OTHER -> "erro"

UpdateBuyOrderStatus(w) ==
    LET o == task[w].order  new == Outcome(task[w].at) IN
    /\ task[w].at \in {"sent", "unknown", "erro"}
    /\ st' = [st EXCEPT ![o] = IF @ = "enviado" /\ new = "erro" THEN @ ELSE new]
    /\ old' = old \ {o}
    /\ task' = [task EXCEPT ![w] = Idle]
    /\ UNCHANGED <<rows, lock, chain, bing, fails>>

(* The process stops, the 25 seconds run out (every later statement of the *)
(* goroutine then fails), or the last write fails.                         *)
Abandon(w) ==
    /\ ~At(w, "idle") /\ Fail
    /\ task' = [task EXCEPT ![w] = Idle]
    /\ IF task[w].send THEN Unlock ELSE UNCHANGED lock
    /\ UNCHANGED <<st, old, rows, chain, bing>>

(* A pooled connection is closed, after 30 minutes or when idle.           *)
ConnectionCloses ==
    /\ lock /\ lock' = FALSE
    /\ UNCHANGED <<st, old, rows, task, chain, bing, fails>>

(* External: a block buries a UTXO of the treasury.                        *)
Confirms(u) ==
    /\ u \notin deep
    /\ deep' = deep \cup {u}
    /\ UNCHANGED <<st, old, rows, lock, task, wire, mined, bing, fails>>

SendBTC(w) == \/ AcquireLock(w) \/ ClaimOperation(w) \/ ReserveUtxos(w)
              \/ SignAndStore(w) \/ SignFails(w) \/ StatementFails(w) \/ Broadcast(w)
              \/ BroadcastOk(w) \/ BroadcastUnknown(w) \/ BroadcastRefused(w)

Next == \/ \E w \in Workers : \/ \E o \in Orders : ClaimBuyOrderForSend(w, o)
                              \/ ListUtxos(w) \/ UpsertUtxos(w) \/ ReadActive(w)
                              \/ MarkOrphaned(w) \/ CheckBalance(w)
                              \/ SendBTC(w) \/ FundByBingX(w)
                              \/ UpdateBuyOrderStatus(w) \/ Abandon(w)
        \/ \E o \in Orders : SixtySecondsPass(o)
        \/ \E t \in wire : NetworkDecides(t)
        \/ \E u \in Utxos : Confirms(u)
        \/ ConnectionCloses

Spec == Init /\ [][Next]_vars

-----------------------------------------------------------------------------
TypeOK == /\ st \in [Orders -> Status] /\ old \subseteq Orders
          /\ utxo \in [Utxos -> [st : UtxoStatus, by : Orders \cup {NoOrder}]]
          /\ op \in [Orders -> OpStatus \cup {"none"}]
          /\ txs \subseteq Tx /\ wire \subseteq txs /\ mined \subseteq txs
          /\ lock \in BOOLEAN /\ task \in [Workers -> Tasks] /\ deep \subseteq Utxos
          /\ bing \in [Orders -> Nat] /\ fails \in 0..MaxFails

(* The treasury sends the bitcoin of an order at most once, although a     *)
(* second goroutine claims an order whose first one died anywhere          *)
(* (ClaimTreasuryOperation).                                               *)
TreasuryPaysOnce == \A t, s \in mined : t.order = s.order => t = s

(* The inputs of a transaction that is under way, or whose broadcast is    *)
(* unknown, are kept from every other operation until the network spends   *)
(* them, although the advisory lock serialises nothing (syncUTXOs,         *)
(* ReserveTreasuryUTXOs and the branches of the broadcast).  And the       *)
(* treasury writes off a UTXO only if the network spent it:                *)
(* MarkTreasuryUTXOsSpent loses no money.                                  *)
Keeps(o, S) == \A u \in S \ Spent : utxo[u] = [st |-> "reserved", by |-> o]

InputsAreHeld ==
    /\ \A t \in txs : t \in wire \/ op[t.order] \in {"broadcast", "broadcast_unknown"}
           => Keeps(t.order, t.ins)
    /\ In({"spent"}) \subseteq Spent

(* "enviado" means that the bitcoin left, from the treasury or from BingX. *)
Delivered(o) == bing[o] > 0 \/ \E t \in mined : t.order = o

SentIsDelivered == \A o \in Orders : st[o] = "enviado" => Delivered(o)

(* An input serves one order while it may be on the chain, and an order    *)
(* that the routing reports as sent was delivered; every variable keeps to *)
(* its type.                                                               *)
InputsServeOrders == TypeOK /\ InputsAreHeld /\ SentIsDelivered

(* BingX is never used for an order whose treasury transaction was         *)
(* broadcast, not even when the broadcast is unknown (comments of          *)
(* BTCFundingRouter and SendBTC).                                          *)
NoBingXAfterBroadcast == \A o \in Orders :
    op[o] \in {"broadcast", "broadcast_unknown"} => bing[o] = 0
=============================================================================
