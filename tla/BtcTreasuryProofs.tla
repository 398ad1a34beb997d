------------------------- MODULE BtcTreasuryProofs -------------------------
(***************************************************************************)
(* Theorems of BtcTreasury and of BtcWallet.  First the treasury, for any  *)
(* orders, UTXOs, goroutines and number of failures.  The advisory lock is *)
(* of no use in them.  An order enters the section that sends once,        *)
(* because its operation is inserted once and no error path takes it back  *)
(* to where it can be inserted again; and a UTXO is freed only by the      *)
(* goroutine that holds it, because the stale lists of the others are      *)
(* wrong about spent UTXOs only.                                           *)
(***************************************************************************)
EXTENDS BtcTreasury, BtcWallet, TLAPS

Operates(w) == task[w].at \in {"reserve", "sign", "post", "wait"}

BusyHasOrder == \A w \in Workers : task[w].at # "idle" => task[w].order \in Orders

(* What the status of an operation says of the goroutine that is in it and *)
(* of its signed transaction.                                              *)
OperationTells ==
    /\ \A w \in Workers :
         /\ task[w].at \in {"reserve", "sign"} => op[task[w].order] = "processing"
         /\ task[w].at \in {"post", "wait"} =>
                op[task[w].order] = "signed" /\ TxOf(w) \in txs
    /\ \A t \in txs : op[t.order] \in {"signed", "broadcast", "broadcast_unknown"}

OneOperator == \A v, w \in Workers :
    Operates(v) /\ Operates(w) /\ task[v].order = task[w].order => v = w

OneTransaction == \A s, t \in txs : s.order = t.order => s = t

(* Lists of the provider may be old, but what they lack is spent.          *)
ListIsSound(w) ==
    /\ task[w].at \in {"upsert", "read"} => Utxos \ task[w].seen \subseteq Spent
    /\ task[w].at = "orphan" => task[w].seen \subseteq Spent
ListsAreSound == \A w \in Workers : ListIsSound(w)

OperatorsKeep == \A w \in Workers :
    task[w].at \in {"sign", "post", "wait"} => Keeps(task[w].order, task[w].ins)

ReportsAreTrue ==
    /\ \A w \in Workers : task[w].at = "sent" => Delivered(task[w].order)
    /\ \A o \in Orders : op[o] = "broadcast" => \E t \in mined : t.order = o

IndInv == /\ TypeOK /\ BusyHasOrder /\ OperationTells /\ OneOperator /\ OneTransaction
          /\ ListsAreSound /\ OperatorsKeep /\ InputsAreHeld
          /\ ReportsAreTrue /\ SentIsDelivered

-----------------------------------------------------------------------------
LEMMA InitIndInv == Init => IndInv
  <1> SUFFICES ASSUME Init PROVE IndInv
    OBVIOUS
  <1> USE BtcTreasuryAssumption DEF Init, Idle
  <1>1. TypeOK
    <2>1. /\ st \in [Orders -> Status] /\ old \subseteq Orders
          /\ utxo \in [Utxos -> [st : UtxoStatus, by : Orders \cup {NoOrder}]]
          /\ op \in [Orders -> OpStatus \cup {"none"}]
      BY DEF Status, UtxoStatus
    <2>2. task \in [Workers -> Tasks]
      BY DEF Tasks
    <2>3. txs \subseteq Tx /\ wire \subseteq txs /\ mined \subseteq txs
      OBVIOUS
    <2>4. lock \in BOOLEAN
      OBVIOUS
    <2>5. deep \subseteq Utxos
      OBVIOUS
    <2>6. bing \in [Orders -> Nat]
      OBVIOUS
    <2>7. fails \in 0..MaxFails
      OBVIOUS
    <2> QED
      BY <2>1, <2>2, <2>3, <2>4, <2>5, <2>6, <2>7 DEF TypeOK
  <1>2. BusyHasOrder /\ OperationTells /\ OneOperator /\ OneTransaction
    BY DEF BusyHasOrder, OperationTells, OneOperator, OneTransaction, Operates
  <1>3. ListsAreSound /\ OperatorsKeep /\ ReportsAreTrue
    BY DEF ListsAreSound, ListIsSound, OperatorsKeep, ReportsAreTrue
  <1>4. InputsAreHeld /\ SentIsDelivered
    BY DEF InputsAreHeld, In, SentIsDelivered
  <1> QED
    BY <1>1, <1>2, <1>3, <1>4 DEF IndInv

(* The network only takes more.                                            *)
LEMMA SpentGrows == mined \subseteq mined' => Spent \subseteq Spent'
  BY DEF Spent

(* One goroutine moves.                                                    *)
Moves(w) == /\ task' \in [Workers -> Tasks]
            /\ \A v \in Workers \ {w} : task'[v] = task[v]
            /\ task'[w].at # "idle" => task'[w].order \in Orders

(* The UTXOs of transactions that the network has not decided stay as they *)
(* are, and none is written off.                                           *)
RowsKept ==
    /\ utxo' \in [Utxos -> [st : UtxoStatus, by : Orders \cup {NoOrder}]]
    /\ \A u \in Utxos \ Spent : utxo[u].st = "reserved" => utxo'[u] = utxo[u]
    /\ \A u \in Utxos : utxo'[u].st = "spent" => utxo[u].st = "spent"

(* The operation of an order may be inserted, and nothing else.            *)
OpsKept == \/ op' = op
           \/ \E o \in Orders : op[o] = "none" /\ op' = [op EXCEPT ![o] = "pending"]

(* A goroutine that is, or goes, outside the section that sends disturbs   *)
(* no transaction.                                                         *)
LEMMA OutsideSection ==
  ASSUME IndInv, NEW w \in Workers, Moves(w), ~Operates(w)', RowsKept, OpsKept,
         UNCHANGED <<txs, chain>>
  PROVE  /\ BusyHasOrder' /\ OperationTells' /\ OneOperator' /\ OneTransaction'
         /\ OperatorsKeep' /\ InputsAreHeld'
  <1>1. TypeOK /\ BusyHasOrder /\ OperationTells /\ OneOperator /\ OneTransaction
        /\ OperatorsKeep /\ InputsAreHeld
    BY DEF IndInv
  <1>2. BusyHasOrder'
    BY <1>1 DEF BusyHasOrder, Moves
  <1>3. \A o \in Orders : op[o] # "none" => op'[o] = op[o]
    BY <1>1 DEF OpsKept, TypeOK
  <1>4. OperationTells'
    <2>1. ASSUME NEW v \in Workers
          PROVE  /\ task'[v].at \in {"reserve", "sign"} => op'[task'[v].order] = "processing"
                 /\ task'[v].at \in {"post", "wait"} =>
                        op'[task'[v].order] = "signed" /\ TxOf(v)' \in txs
      <3>1. CASE v = w
        BY <3>1 DEF Operates
      <3>2. CASE v # w
        BY <3>2, <1>1, <1>3 DEF Moves, OperationTells, BusyHasOrder, TxOf
      <3> QED
        BY <3>1, <3>2
    <2>2. \A t \in txs : op'[t.order] \in {"signed", "broadcast", "broadcast_unknown"}
      BY <1>1, <1>3 DEF OperationTells, TypeOK, Tx
    <2> QED
      BY <2>1, <2>2 DEF OperationTells
  <1>5. OneOperator' /\ OneTransaction'
    BY <1>1 DEF OneOperator, OneTransaction, Operates, Moves
  <1>6. mined' = mined
    BY DEF chain
  <1>10. Spent' = Spent
    BY <1>6 DEF Spent
  <1>11. In({"spent"})' \subseteq In({"spent"})
    BY DEF In, RowsKept
  <1>7. ASSUME NEW o \in Orders, NEW S \in SUBSET Utxos, Keeps(o, S)
        PROVE  \A u \in S \ Spent : utxo'[u] = [st |-> "reserved", by |-> o]
    <2>1. \A u \in S \ Spent : u \in Utxos /\ utxo[u] = [st |-> "reserved", by |-> o]
      BY <1>7 DEF Keeps
    <2>2. \A u \in S \ Spent : u \in Utxos /\ utxo[u].st = "reserved"
      BY <2>1
    <2> QED
      BY <2>1, <2>2 DEF RowsKept
  <1>9. OperatorsKeep'
    <2> SUFFICES ASSUME NEW v \in Workers, task'[v].at \in {"sign", "post", "wait"}
                 PROVE  Keeps(task[v].order, task[v].ins)'
      BY DEF OperatorsKeep
    <2>1. v # w /\ task'[v] = task[v]
      BY DEF Operates, Moves
    <2>2. task[v].order \in Orders /\ task[v].ins \in SUBSET Utxos
      BY <1>1, <2>1 DEF TypeOK, Tasks, BusyHasOrder
    <2>3. Keeps(task[v].order, task[v].ins)
      BY <1>1, <2>1 DEF OperatorsKeep
    <2>4. \A u \in task[v].ins \ Spent : utxo'[u] = [st |-> "reserved", by |-> task[v].order]
      BY <1>7, <2>2, <2>3
    <2> QED
      BY <1>10, <2>1, <2>4 DEF Keeps
  <1>8. InputsAreHeld'
    <2>1. ASSUME NEW t \in txs, t \in wire \/ op'[t.order] \in {"broadcast", "broadcast_unknown"}
          PROVE  Keeps(t.order, t.ins)'
      <3>1. t.order \in Orders /\ t.ins \in SUBSET Utxos /\ op'[t.order] = op[t.order]
        BY <1>1, <1>3 DEF TypeOK, Tx, OperationTells
      <3> QED
        BY <2>1, <3>1, <1>1, <1>10, <1>7 DEF InputsAreHeld, Keeps
    <2>2. In({"spent"})' \subseteq Spent'
      BY <1>1, <1>10, <1>11 DEF InputsAreHeld
    <2> QED
      BY <2>1, <2>2 DEF InputsAreHeld, chain
  <1> QED
    BY <1>2, <1>4, <1>5, <1>8, <1>9

LEMMA ListsStaySound ==
  ASSUME ListsAreSound, NEW w \in Workers, Moves(w), ListIsSound(w)', mined \subseteq mined'
  PROVE  ListsAreSound'
  <1>1. Spent \subseteq Spent'
    BY SpentGrows
  <1>2. \A v \in Workers \ {w} : ListIsSound(v)'
    BY <1>1 DEF ListsAreSound, ListIsSound, Moves
  <1> QED
    BY <1>2 DEF ListsAreSound

LEMMA TaskReplaced ==
  ASSUME task \in [Workers -> Tasks], NEW w \in Workers, NEW r \in Tasks,
         r.at # "idle" => r.order \in Orders, task' = [task EXCEPT ![w] = r]
  PROVE  Moves(w) /\ task'[w] = r
  BY DEF Moves

(* Deliveries stay.                                                        *)
BooksKept ==
    /\ bing' \in [Orders -> Nat] /\ \A o \in Orders : bing[o] > 0 => bing'[o] > 0
    /\ st' \in [Orders -> Status] /\ old' \subseteq Orders
    /\ lock' \in BOOLEAN /\ fails' \in 0..MaxFails
    /\ \A o \in Orders : st'[o] = "enviado" => st[o] = "enviado" \/ Delivered(o)

LEMMA Routing ==
  ASSUME IndInv, NEW w \in Workers, Moves(w), ~Operates(w)', RowsKept, OpsKept, BooksKept,
         UNCHANGED <<txs, chain>>, ListIsSound(w)',
         task'[w].at = "sent" => Delivered(task[w].order)'
  PROVE  IndInv'
  <1>1. TypeOK /\ BusyHasOrder /\ ListsAreSound /\ ReportsAreTrue /\ SentIsDelivered
    BY DEF IndInv
  <1>2. TypeOK'
    <2>1. op' \in [Orders -> OpStatus \cup {"none"}]
      BY <1>1 DEF OpsKept, TypeOK, OpStatus
    <2>2. txs' \subseteq Tx /\ wire' \subseteq txs' /\ mined' \subseteq txs' /\ deep' \subseteq Utxos
      BY <1>1 DEF TypeOK, chain
    <2> QED
      BY <2>1, <2>2 DEF TypeOK, Moves, RowsKept, BooksKept
  <1>3. /\ BusyHasOrder' /\ OperationTells' /\ OneOperator' /\ OneTransaction'
        /\ OperatorsKeep' /\ InputsAreHeld'
    BY OutsideSection
  <1>4. mined' = mined
    BY DEF chain
  <1>5. ListsAreSound'
    BY <1>1, <1>4, ListsStaySound
  <1>6. \A o \in Orders : Delivered(o) => Delivered(o)'
    BY <1>4 DEF Delivered, BooksKept
  <1>7. ReportsAreTrue'
    <2>1. ASSUME NEW v \in Workers, task'[v].at = "sent"
          PROVE  Delivered(task[v].order)'
      <3>1. CASE v = w
        BY <2>1, <3>1
      <3>2. CASE v # w
        <4>1. task'[v] = task[v] /\ task[v].order \in Orders
          BY <2>1, <3>2, <1>1 DEF Moves, BusyHasOrder
        <4> QED
          BY <4>1, <2>1, <1>1, <1>6 DEF ReportsAreTrue, Delivered
      <3> QED
        BY <3>1, <3>2
    <2>2. \A o \in Orders : op'[o] = "broadcast" => op[o] = "broadcast"
      BY <1>1 DEF OpsKept, TypeOK
    <2> QED
      BY <1>1, <1>4, <2>1, <2>2 DEF ReportsAreTrue
  <1>8. SentIsDelivered'
    BY <1>1, <1>6 DEF SentIsDelivered, BooksKept
  <1> QED
    BY <1>2, <1>3, <1>5, <1>7, <1>8 DEF IndInv

(* The steps before, between and after those that send.                    *)
LEMMA RoutingIndInv ==
  ASSUME IndInv, NEW w \in Workers,
         \/ \E o \in Orders : ClaimBuyOrderForSend(w, o)
         \/ ListUtxos(w) \/ UpsertUtxos(w) \/ ReadActive(w) \/ MarkOrphaned(w)
         \/ CheckBalance(w) \/ AcquireLock(w) \/ StatementFails(w) \/ FundByBingX(w)
         \/ UpdateBuyOrderStatus(w) \/ Abandon(w)
  PROVE  IndInv'
  <1>1. TypeOK /\ BusyHasOrder /\ ListIsSound(w) /\ ReportsAreTrue /\ SentIsDelivered
        /\ InputsAreHeld
    BY DEF IndInv, ListsAreSound
  <1>2. task \in [Workers -> Tasks] /\ task[w].seen \subseteq Utxos
        /\ (task[w].at # "idle" => task[w].order \in Orders)
    BY <1>1 DEF TypeOK, Tasks, BusyHasOrder
  <1>3. UNCHANGED utxo => RowsKept
    BY <1>1 DEF RowsKept, TypeOK
  <1>4. ASSUME UNCHANGED <<st, old, bing, lock, fails>> PROVE BooksKept
    BY <1>1, <1>4 DEF BooksKept, TypeOK
  <1>5. ASSUME NEW step \in {"list", "upsert", "read", "orphan", "check", "lock", "claim",
                             "bingx", "sent", "unknown", "erro"},
               task[w].at # "idle", Goto(w, step)
        PROVE  Moves(w) /\ ~Operates(w)' /\ task'[w] = [task[w] EXCEPT !.at = step]
    BY <1>2, <1>5 DEF Goto, Moves, Operates, Tasks
  <1>6. ASSUME NEW o \in Orders, ClaimBuyOrderForSend(w, o)
        PROVE  IndInv'
    <2>1. /\ Moves(w) /\ task'[w].at = "list"
      BY <1>2, <1>6 DEF ClaimBuyOrderForSend, Moves, Idle, Tasks
    <2>2. RowsKept /\ OpsKept /\ UNCHANGED <<txs, chain>>
      BY <1>3, <1>6 DEF ClaimBuyOrderForSend, OpsKept, rows
    <2>3. BooksKept
      BY <1>1, <1>6 DEF ClaimBuyOrderForSend, BooksKept, TypeOK, Status
    <2> QED
      BY <2>1, <2>2, <2>3, Routing DEF Operates, ListIsSound
  <1>7. ASSUME ListUtxos(w) PROVE IndInv'
    <2>1. /\ Moves(w) /\ task'[w].at \in {"upsert", "check"}
          /\ task'[w].at = "upsert" => task'[w].seen = Utxos \ Spent
      <3>1. CASE Goto(w, "check")
        BY <1>2, <1>5, <1>7, <3>1 DEF ListUtxos, At, Tasks
      <3>2. CASE ~Goto(w, "check")
        <4> DEFINE r == [task[w] EXCEPT !.at = "upsert", !.seen = Utxos \ Spent]
        <4>1. task' = [task EXCEPT ![w] = r] /\ task[w].at = "list"
          BY <1>7, <3>2 DEF ListUtxos, At
        <4>2. r \in Tasks /\ r.at = "upsert" /\ r.seen = Utxos \ Spent /\ r.order = task[w].order
          BY <1>2 DEF Tasks
        <4> HIDE DEF r
        <4> QED
          BY <1>2, <4>1, <4>2, TaskReplaced
      <3> QED
        BY <3>1, <3>2
    <2>2. RowsKept /\ OpsKept /\ UNCHANGED <<txs, chain>> /\ BooksKept
      BY <1>3, <1>4, <1>7 DEF ListUtxos, OpsKept, rows
    <2>3. mined' = mined
      BY <2>2 DEF chain
    <2>4. ListIsSound(w)'
      BY <2>1, <2>3 DEF ListIsSound, Spent
    <2> QED
      BY <2>1, <2>2, <2>4, Routing DEF Operates
  <1>8. ASSUME UpsertUtxos(w) PROVE IndInv'
    <2>1. Moves(w) /\ ~Operates(w)' /\ task'[w] = [task[w] EXCEPT !.at = "read"]
      BY <1>5, <1>8 DEF UpsertUtxos, At
    <2>2. OpsKept /\ UNCHANGED <<txs, chain>> /\ BooksKept
      BY <1>4, <1>8 DEF UpsertUtxos, OpsKept
    <2>3. RowsKept
      <3>1. \A u \in Utxos :
              /\ utxo[u].st \in UtxoStatus /\ utxo[u].by \in Orders \cup {NoOrder}
              /\ utxo'[u] = IF u \in task[w].seen THEN Upserted(u) ELSE utxo[u]
        BY <1>1, <1>8 DEF UpsertUtxos, TypeOK
      <3>2. \A u \in Utxos :
              /\ utxo'[u] \in [st : UtxoStatus, by : Orders \cup {NoOrder}]
              /\ utxo[u].st = "reserved" => utxo'[u] = utxo[u]
              /\ utxo'[u].st = "spent" => utxo[u].st = "spent"
        <4> SUFFICES ASSUME NEW u \in Utxos
                     PROVE  /\ utxo'[u] \in [st : UtxoStatus, by : Orders \cup {NoOrder}]
                            /\ utxo[u].st = "reserved" => utxo'[u] = utxo[u]
                            /\ utxo'[u].st = "spent" => utxo[u].st = "spent"
          OBVIOUS
        <4>1. \/ utxo'[u] = utxo[u]
              \/ utxo'[u] = [st |-> "confirmed", by |-> utxo[u].by]
              \/ utxo'[u] = [st |-> "pending", by |-> utxo[u].by]
          BY <3>1 DEF Upserted
        <4>3. utxo'[u] = utxo[u] \/ utxo[u].st \notin {"reserved", "spent"}
          BY <3>1 DEF Upserted
        <4>2. utxo[u] \in [st : UtxoStatus, by : Orders \cup {NoOrder}]
          BY <1>1 DEF TypeOK
        <4> QED
          BY <4>1, <4>2, <4>3 DEF UtxoStatus
      <3> QED
        BY <3>2, <1>8 DEF RowsKept, UpsertUtxos
    <2>4. mined' = mined
      BY <2>2 DEF chain
    <2>5. task'[w].at = "read" /\ task'[w].seen = task[w].seen
      BY <1>2, <2>1 DEF Tasks
    <2>6. ListIsSound(w)'
      BY <1>1, <1>8, <2>5, <2>4 DEF ListIsSound, Spent, UpsertUtxos, At
    <2>7. task'[w].at # "sent"
      BY <2>5
    <2> QED
      BY <2>1, <2>2, <2>3, <2>6, <2>7, Routing
  <1>9. ASSUME ReadActive(w) PROVE IndInv'
    <2>1. /\ Moves(w) /\ task'[w].at = "orphan"
          /\ task'[w].seen \subseteq Utxos \ task[w].seen
      <3> DEFINE S == In({"pending", "confirmed"}) \ task[w].seen
                 r == [task[w] EXCEPT !.at = "orphan", !.seen = S]
      <3>1. task' = [task EXCEPT ![w] = r] /\ task[w].at = "read"
        BY <1>9 DEF ReadActive, At
      <3>2. S \subseteq Utxos \ task[w].seen
        BY DEF In
      <3>3. r \in Tasks /\ r.at = "orphan" /\ r.seen = S /\ r.order = task[w].order
        BY <1>2, <3>2 DEF Tasks
      <3> HIDE DEF r, S
      <3> QED
        BY <1>2, <3>1, <3>2, <3>3, TaskReplaced
    <2>2. RowsKept /\ OpsKept /\ UNCHANGED <<txs, chain>> /\ BooksKept
      BY <1>3, <1>4, <1>9 DEF ReadActive, OpsKept, rows
    <2>3. mined' = mined
      BY <2>2 DEF chain
    <2>4. ListIsSound(w)'
      BY <1>1, <1>9, <2>1, <2>3 DEF ListIsSound, Spent, ReadActive, At
    <2> QED
      BY <2>1, <2>2, <2>4, Routing DEF Operates
  <1>10. ASSUME MarkOrphaned(w) PROVE IndInv'
    <2>1. Moves(w) /\ ~Operates(w)' /\ task'[w] = [task[w] EXCEPT !.at = "check"]
      BY <1>5, <1>10 DEF MarkOrphaned, At
    <2>2. OpsKept /\ UNCHANGED <<txs, chain>> /\ BooksKept
      BY <1>4, <1>10 DEF MarkOrphaned, OpsKept
    <2>3. task[w].seen \subseteq Spent
      BY <1>1, <1>10 DEF ListIsSound, MarkOrphaned, At
    <2>4. RowsKept
      <3>1. \A u \in Utxos :
              /\ utxo'[u] \in [st : UtxoStatus, by : Orders \cup {NoOrder}]
              /\ u \notin task[w].seen => utxo'[u] = utxo[u]
              /\ utxo'[u].st = "spent" => utxo[u].st = "spent"
        BY <1>1, <1>10 DEF MarkOrphaned, UtxoStatus, TypeOK
      <3> QED
        BY <3>1, <2>3, <1>10 DEF RowsKept, MarkOrphaned
    <2>5. task'[w].at = "check"
      BY <1>2, <2>1 DEF Tasks
    <2> QED
      BY <2>1, <2>2, <2>4, <2>5, Routing DEF ListIsSound
  <1>11. ASSUME CheckBalance(w) PROVE IndInv'
    <2>1. Moves(w) /\ task'[w].at \in {"claim", "lock", "bingx"}
      <3>1. CASE Goto(w, "bingx")
        BY <1>2, <1>5, <1>11, <3>1 DEF CheckBalance, At, Tasks
      <3>2. CASE ~Goto(w, "bingx")
        <4> DEFINE a == IF task[w].send THEN "claim" ELSE "lock"
                   r == [task[w] EXCEPT !.at = a, !.seen = In({"confirmed"})]
        <4>1. task' = [task EXCEPT ![w] = r] /\ task[w].at = "check"
          BY <1>11, <3>2 DEF CheckBalance, At
        <4>2. a \in {"claim", "lock"} /\ In({"confirmed"}) \subseteq Utxos
          BY DEF In
        <4> HIDE DEF a
        <4>3. r \in Tasks /\ r.at = a /\ r.order = task[w].order
          BY <1>2, <4>2 DEF Tasks
        <4> HIDE DEF r
        <4> QED
          BY <1>2, <4>1, <4>2, <4>3, TaskReplaced
      <3> QED
        BY <3>1, <3>2
    <2>2. RowsKept /\ OpsKept /\ UNCHANGED <<txs, chain>>
      BY <1>3, <1>11 DEF CheckBalance, OpsKept, rows
    <2>3. BooksKept
      BY <1>1, <1>11 DEF CheckBalance, Unlock, BooksKept, TypeOK
    <2> QED
      BY <2>1, <2>2, <2>3, Routing DEF Operates, ListIsSound
  <1>12. ASSUME AcquireLock(w) PROVE IndInv'
    <2>1. Moves(w) /\ task'[w].at \in {"list", "bingx"}
      <3>1. CASE Goto(w, "bingx")
        BY <1>2, <1>5, <1>12, <3>1 DEF AcquireLock, At, Tasks
      <3>2. CASE ~Goto(w, "bingx")
        <4> DEFINE r == [task[w] EXCEPT !.at = "list", !.send = TRUE]
        <4>1. task' = [task EXCEPT ![w] = r] /\ task[w].at = "lock"
          BY <1>12, <3>2 DEF AcquireLock, At
        <4>2. r \in Tasks /\ r.at = "list" /\ r.order = task[w].order
          BY <1>2 DEF Tasks
        <4> HIDE DEF r
        <4> QED
          BY <1>2, <4>1, <4>2, TaskReplaced
      <3> QED
        BY <3>1, <3>2
    <2>2. RowsKept /\ OpsKept /\ UNCHANGED <<txs, chain>>
      BY <1>3, <1>12 DEF AcquireLock, OpsKept, rows
    <2>3. BooksKept
      BY <1>1, <1>12 DEF AcquireLock, BooksKept, TypeOK
    <2> QED
      BY <2>1, <2>2, <2>3, Routing DEF Operates, ListIsSound
  <1>13. ASSUME StatementFails(w) PROVE IndInv'
    <2>1. Moves(w) /\ ~Operates(w)' /\ task'[w] = [task[w] EXCEPT !.at = "bingx"]
      BY <1>5, <1>13 DEF StatementFails
    <2>2. RowsKept /\ UNCHANGED <<txs, chain>>
      BY <1>3, <1>13 DEF StatementFails
    <2>3. OpsKept
      BY <1>2, <1>13 DEF StatementFails, OpsKept, At, Created, SetOp, OpStatus
    <2>4. BooksKept
      <3>1. fails' \in 0..MaxFails
        BY <1>1, <1>13, BtcTreasuryAssumption DEF StatementFails, Fail, TypeOK
      <3>2. lock' \in BOOLEAN
        BY <1>1, <1>13 DEF StatementFails, Unlock, TypeOK
      <3> QED
        BY <1>1, <1>13, <3>1, <3>2 DEF StatementFails, BooksKept, TypeOK
    <2>5. task'[w].at = "bingx"
      BY <1>2, <2>1 DEF Tasks
    <2> QED
      BY <2>1, <2>2, <2>3, <2>4, <2>5, Routing DEF ListIsSound
  <1>14. ASSUME FundByBingX(w) PROVE IndInv'
    <2>1. /\ Moves(w) /\ ~Operates(w)' /\ task'[w].at \in {"sent", "unknown", "erro"}
          /\ task'[w].order = task[w].order
      BY <1>2, <1>14 DEF FundByBingX, At, Goto, Moves, Operates, Tasks
    <2>2. RowsKept /\ OpsKept /\ UNCHANGED <<txs, chain>>
      BY <1>3, <1>14 DEF FundByBingX, OpsKept, rows
    <2>3. bing' = bing \/ bing' = [bing EXCEPT ![task[w].order] = @ + 1]
      BY <1>14 DEF FundByBingX
    <2>4. /\ bing' \in [Orders -> Nat]
          /\ \A o \in Orders : bing[o] > 0 => bing'[o] > 0
      BY <1>1, <2>3 DEF TypeOK
    <2>5. BooksKept
      BY <1>1, <1>14, <2>4 DEF FundByBingX, BooksKept, TypeOK
    <2>6. ASSUME task'[w].at = "sent" PROVE Delivered(task[w].order)'
      <3>1. bing' = [bing EXCEPT ![task[w].order] = @ + 1]
        BY <1>2, <1>14, <2>6 DEF FundByBingX, Goto, At, Tasks
      <3>2. bing'[task[w].order] > 0
        BY <1>1, <1>2, <1>14, <3>1 DEF TypeOK, FundByBingX, At
      <3> QED
        BY <2>1, <3>2 DEF Delivered
    <2> QED
      BY <2>1, <2>2, <2>5, <2>6, Routing DEF ListIsSound
  <1>15. ASSUME UpdateBuyOrderStatus(w) PROVE IndInv'
    <2>1. Moves(w) /\ task'[w].at = "idle"
      BY <1>2, <1>15 DEF UpdateBuyOrderStatus, Moves, Idle, Tasks
    <2>2. RowsKept /\ OpsKept /\ UNCHANGED <<txs, chain>>
      BY <1>3, <1>15 DEF UpdateBuyOrderStatus, OpsKept, rows
    <2>3. \A o \in Orders : st'[o] = "enviado" => st[o] = "enviado" \/ Delivered(o)
      BY <1>1, <1>2, <1>15 DEF UpdateBuyOrderStatus, Outcome, ReportsAreTrue, TypeOK
    <2>4. BooksKept
      BY <1>1, <1>15, <2>3 DEF UpdateBuyOrderStatus, Outcome, BooksKept, TypeOK, Status
    <2> QED
      BY <2>1, <2>2, <2>4, Routing DEF Operates, ListIsSound
  <1>16. ASSUME Abandon(w) PROVE IndInv'
    <2>1. Moves(w) /\ task'[w].at = "idle"
      BY <1>2, <1>16 DEF Abandon, Moves, Idle, Tasks
    <2>2. RowsKept /\ OpsKept /\ UNCHANGED <<txs, chain>>
      BY <1>3, <1>16 DEF Abandon, OpsKept, rows
    <2>3. BooksKept
      <3>1. fails' \in 0..MaxFails
        BY <1>1, <1>16, BtcTreasuryAssumption DEF Abandon, Fail, TypeOK
      <3>2. lock' \in BOOLEAN
        BY <1>1, <1>16 DEF Abandon, Unlock, TypeOK
      <3> QED
        BY <1>1, <1>16, <3>1, <3>2 DEF Abandon, BooksKept, TypeOK
    <2> QED
      BY <2>1, <2>2, <2>3, Routing DEF Operates, ListIsSound
  <1> QED
    BY <1>6, <1>7, <1>8, <1>9, <1>10, <1>11, <1>12, <1>13, <1>14, <1>15, <1>16

-----------------------------------------------------------------------------
(* A step of the section that sends.                                       *)
InSection(w) == /\ Operates(w) /\ task[w].order \in Orders /\ task[w].ins \subseteq Utxos
                /\ \A v \in Workers \ {w} : Operates(v) => task[v].order # task[w].order

LEMMA SectionFacts ==
  ASSUME IndInv, NEW w \in Workers, Operates(w)
  PROVE  InSection(w)
  <1>1. TypeOK /\ BusyHasOrder /\ OneOperator
    BY DEF IndInv
  <1>2. task[w].ins \subseteq Utxos
    BY <1>1 DEF TypeOK, Tasks
  <1> QED
    BY <1>1, <1>2 DEF InSection, Operates, BusyHasOrder, OneOperator

(* The goroutine goes to another step and keeps its order and inputs.      *)
LEMMA GotoMoves ==
  ASSUME task \in [Workers -> Tasks], NEW w \in Workers, task[w].order \in Orders,
         NEW step \in {"reserve", "post", "wait", "sent", "unknown", "bingx"}, Goto(w, step)
  PROVE  /\ Moves(w) /\ task'[w].at = step /\ task'[w].order = task[w].order
         /\ task'[w].ins = task[w].ins
  <1> DEFINE r == [task[w] EXCEPT !.at = step]
  <1>1. task' = [task EXCEPT ![w] = r]
    BY DEF Goto
  <1>2. r \in Tasks /\ r.at = step /\ r.order = task[w].order /\ r.ins = task[w].ins
    BY DEF Tasks
  <1> HIDE DEF r
  <1> QED
    BY <1>1, <1>2, TaskReplaced

(* The steps of the section keep the lists of the others and the reports.  *)
LEMMA SectionKeepsBooks ==
  ASSUME IndInv, NEW w \in Workers, Moves(w), task'[w].at \notin {"upsert", "read", "orphan"},
         UNCHANGED <<st, bing, mined>>,
         task'[w].at = "sent" => Delivered(task[w].order)',
         \A o \in Orders : op'[o] = "broadcast" =>
             op[o] = "broadcast" \/ \E t \in mined : t.order = o
  PROVE  BusyHasOrder' /\ ListsAreSound' /\ ReportsAreTrue' /\ SentIsDelivered'
  <1>1. BusyHasOrder /\ ListsAreSound /\ ReportsAreTrue /\ SentIsDelivered
    BY DEF IndInv
  <1>2. BusyHasOrder'
    BY <1>1 DEF BusyHasOrder, Moves
  <1>3. ListsAreSound'
    BY <1>1, ListsStaySound DEF ListIsSound
  <1>4. \A v \in Workers \ {w} : task'[v].at = "sent" => Delivered(task[v].order)'
    BY <1>1 DEF Moves, ReportsAreTrue, Delivered
  <1>5. ReportsAreTrue'
    BY <1>1, <1>4 DEF ReportsAreTrue
  <1>6. SentIsDelivered'
    BY <1>1 DEF SentIsDelivered, Delivered
  <1> QED
    BY <1>2, <1>3, <1>5, <1>6

(* The operation is inserted, and only one goroutine inserts it.           *)
LEMMA ClaimIndInv ==
  ASSUME IndInv, NEW w \in Workers, ClaimOperation(w)
  PROVE  IndInv'
  <1> DEFINE o == task[w].order
  <1>1. TypeOK /\ BusyHasOrder /\ ReportsAreTrue /\ OperationTells /\ InputsAreHeld
        /\ OneOperator /\ OneTransaction /\ OperatorsKeep
    BY DEF IndInv
  <1>2. task \in [Workers -> Tasks] /\ o \in Orders /\ ~Operates(w)
    BY <1>1 DEF ClaimOperation, At, TypeOK, BusyHasOrder, Operates
  <1>3. UNCHANGED <<st, old, utxo, txs, chain, bing, fails>> /\ lock' \in BOOLEAN
    BY <1>1 DEF ClaimOperation, Unlock, TypeOK
  <1>4. CASE Created(o)
    <2>1. op' = [op EXCEPT ![o] = "processing"] /\ Goto(w, "reserve")
      BY <1>4 DEF ClaimOperation, SetOp, OpStatus
    <2>2. /\ Moves(w) /\ task'[w].at = "reserve" /\ task'[w].order = o
      BY <1>2, <2>1, GotoMoves
    <2>3. op'[o] = "processing" /\ \A p \in Orders \ {o} : op'[p] = op[p]
      BY <1>1, <1>2, <2>1 DEF TypeOK
    <2>4. op[o] = "none"
      BY <1>4 DEF Created
    <2>5. TypeOK'
      <3>1. op' \in [Orders -> OpStatus \cup {"none"}]
        BY <1>1, <2>1 DEF TypeOK, OpStatus
      <3> QED
        BY <1>1, <1>3, <2>2, <3>1 DEF TypeOK, Moves, chain
    <2>6. \A v \in Workers : Operates(v) => task[v].order \in Orders \ {o}
      BY <1>1, <2>4 DEF OperationTells, Operates, BusyHasOrder
    <2>7. OperationTells'
      <3>1. \A v \in Workers :
              /\ task'[v].at \in {"reserve", "sign"} => op'[task'[v].order] = "processing"
              /\ task'[v].at \in {"post", "wait"} =>
                     op'[task'[v].order] = "signed" /\ TxOf(v)' \in txs
        BY <1>1, <2>2, <2>3, <2>6 DEF OperationTells, Moves, Operates, TxOf
      <3>2. \A t \in txs : op'[t.order] \in {"signed", "broadcast", "broadcast_unknown"}
        BY <1>1, <2>3, <2>4 DEF OperationTells, TypeOK, Tx
      <3> QED
        BY <1>3, <3>1, <3>2 DEF OperationTells
    <2>8. OneOperator'
      BY <1>1, <2>2, <2>6 DEF OneOperator, Operates, Moves
    <2>9. mined' = mined /\ wire' = wire /\ txs' = txs /\ utxo' = utxo
      BY <1>3 DEF chain
    <2>10. OneTransaction'
      BY <1>1, <2>9 DEF OneTransaction
    <2>11. OperatorsKeep'
      BY <1>1, <2>2, <2>9 DEF OperatorsKeep, Moves, Keeps, Spent
    <2>12. InputsAreHeld'
      <3>1. \A t \in txs : op'[t.order] = op[t.order]
        BY <1>1, <2>3, <2>4 DEF OperationTells, TypeOK, Tx
      <3> QED
        BY <1>1, <2>9, <3>1 DEF InputsAreHeld, Keeps, Spent, In
    <2>13. BusyHasOrder' /\ ListsAreSound' /\ ReportsAreTrue' /\ SentIsDelivered'
      BY <1>3, <2>2, <2>3, <2>9, SectionKeepsBooks
    <2> QED
      BY <2>5, <2>7, <2>8, <2>10, <2>11, <2>12, <2>13 DEF IndInv
  <1>5. CASE ~Created(o)
    <2> DEFINE step == CASE op[o] = "broadcast" -> "sent"
                         [] op[o] = "broadcast_unknown" -> "unknown"
                         [] OTHER -> "bingx"
    <2>1. Goto(w, step) /\ UNCHANGED op
      BY <1>5 DEF ClaimOperation
    <2>2. step \in {"sent", "unknown", "bingx"} /\ (step = "sent" => op[o] = "broadcast")
      OBVIOUS
    <2> HIDE DEF step
    <2>3. /\ Moves(w) /\ task'[w].at = step /\ task'[w].order = o
      BY <1>2, <2>1, <2>2, GotoMoves
    <2>4. RowsKept /\ OpsKept /\ BooksKept /\ UNCHANGED <<txs, chain>>
      BY <1>1, <1>3, <2>1 DEF RowsKept, OpsKept, BooksKept, TypeOK
    <2>5. task'[w].at = "sent" => Delivered(task[w].order)'
      BY <1>1, <1>2, <1>3, <2>2, <2>3 DEF ReportsAreTrue, Delivered, chain
    <2> QED
      BY <2>2, <2>3, <2>4, <2>5, Routing DEF Operates, ListIsSound
  <1> QED
    BY <1>4, <1>5

(* Only confirmed UTXOs are taken.  A partial reservation ends outside.    *)
LEMMA ReserveIndInv ==
  ASSUME IndInv, NEW w \in Workers, ReserveUtxos(w)
  PROVE  IndInv'
  <1> DEFINE o == task[w].order
  <1>1. TypeOK /\ OperationTells /\ OneOperator /\ OneTransaction /\ OperatorsKeep /\ InputsAreHeld
    BY DEF IndInv
  <1>2. /\ task \in [Workers -> Tasks] /\ InSection(w) /\ task[w].at = "reserve"
        /\ task[w].seen \subseteq Utxos /\ o \in Orders
    BY <1>1, SectionFacts DEF ReserveUtxos, At, Operates, TypeOK, Tasks, InSection
  <1>3. PICK S \in SUBSET task[w].seen :
          /\ utxo' = Put(Reservable(S), "reserved", o)
          /\ IF Reservable(S) = S
             THEN /\ task' = [task EXCEPT ![w] = [@ EXCEPT !.at = "sign", !.ins = S]]
                  /\ UNCHANGED <<op, lock>>
             ELSE SetOp(o, "failed_before_sign") /\ Goto(w, "bingx") /\ Unlock
    BY DEF ReserveUtxos
  <1>4. /\ UNCHANGED <<st, old, txs, chain, bing, fails>> /\ mined' = mined /\ op' = op
        /\ wire' = wire /\ txs' = txs /\ st' = st /\ bing' = bing
    BY <1>3 DEF ReserveUtxos, SetOp, OpStatus, chain
  <1>5. lock' \in BOOLEAN
    BY <1>1, <1>3 DEF Unlock, TypeOK
  <1>6. /\ \A u \in Reservable(S) : utxo[u].st = "confirmed"
        /\ \A u \in Utxos : utxo'[u] = IF u \in Reservable(S)
                                       THEN [st |-> "reserved", by |-> o] ELSE utxo[u]
        /\ utxo' \in [Utxos -> [st : UtxoStatus, by : Orders \cup {NoOrder}]]
    BY <1>1, <1>2, <1>3 DEF Put, Reservable, In, TypeOK, UtxoStatus
  <1>7. RowsKept
    BY <1>6 DEF RowsKept
  <1>8. CASE Reservable(S) = S
    <2> DEFINE r == [task[w] EXCEPT !.at = "sign", !.ins = S]
    <2>1. task' = [task EXCEPT ![w] = r]
      BY <1>3, <1>8
    <2>2. r \in Tasks /\ r.at = "sign" /\ r.ins = S /\ r.order = o
      BY <1>2, <1>3 DEF Tasks
    <2> HIDE DEF r
    <2>3. Moves(w) /\ task'[w].at = "sign" /\ task'[w].ins = S /\ task'[w].order = o
      BY <1>2, <2>1, <2>2, TaskReplaced
    <2>4. TypeOK'
      BY <1>1, <1>4, <1>5, <1>6, <2>3 DEF TypeOK, Moves, chain
    <2>5. OperationTells'
      <3>1. ASSUME NEW v \in Workers
            PROVE  /\ task'[v].at \in {"reserve", "sign"} => op[task'[v].order] = "processing"
                   /\ task'[v].at \in {"post", "wait"} =>
                          op[task'[v].order] = "signed" /\ TxOf(v)' \in txs
        <4>1. CASE v = w
          BY <1>1, <1>2, <2>3, <4>1 DEF OperationTells
        <4>2. CASE v # w
          BY <1>1, <2>3, <4>2 DEF OperationTells, Moves, TxOf
        <4> QED
          BY <4>1, <4>2
      <3> QED
        BY <1>1, <1>4, <3>1 DEF OperationTells
    <2>6. OneOperator' /\ OneTransaction'
      BY <1>1, <1>2, <1>4, <2>3 DEF OneOperator, OneTransaction, Operates, Moves
    <2>7. Spent' = Spent
      BY <1>4 DEF Spent
    <2>8. \A u \in S : utxo'[u] = [st |-> "reserved", by |-> o]
      BY <1>2, <1>3, <1>6, <1>8
    <2>9. OperatorsKeep'
      <3>1. \A v \in Workers \ {w} : task'[v].at \in {"sign", "post", "wait"} =>
               \A u \in task[v].ins \ Spent :
                  u \in Utxos /\ utxo[u] = [st |-> "reserved", by |-> task[v].order]
        BY <1>1, <2>3 DEF OperatorsKeep, Keeps, Moves, TypeOK, Tasks
      <3>2. \A v \in Workers \ {w} : task'[v].at \in {"sign", "post", "wait"} =>
               \A u \in task[v].ins \ Spent :
                  u \in Utxos /\ utxo[u].st = "reserved" /\ utxo[u] = [st |-> "reserved", by |-> task[v].order]
        BY <3>1
      <3>3. \A v \in Workers \ {w} : task'[v].at \in {"sign", "post", "wait"} =>
               \A u \in task[v].ins \ Spent : utxo'[u] = [st |-> "reserved", by |-> task[v].order]
        BY <3>2, <1>7 DEF RowsKept
      <3> QED
        BY <2>3, <2>7, <2>8, <3>3 DEF OperatorsKeep, Keeps, Moves
    <2>10. InputsAreHeld'
      <3>1. ASSUME NEW t \in txs, t \in wire \/ op[t.order] \in {"broadcast", "broadcast_unknown"},
                   NEW u \in t.ins \ Spent
            PROVE  utxo'[u] = [st |-> "reserved", by |-> t.order]
        <4>1. utxo[u] = [st |-> "reserved", by |-> t.order] /\ u \in Utxos
          BY <1>1, <3>1 DEF InputsAreHeld, Keeps, TypeOK, Tx
        <4>2. utxo[u].st = "reserved"
          BY <4>1
        <4> QED
          BY <1>7, <4>1, <4>2 DEF RowsKept
      <3>2. In({"spent"})' \subseteq In({"spent"})
        BY <1>7 DEF RowsKept, In
      <3> QED
        BY <1>1, <1>4, <2>7, <3>1, <3>2 DEF InputsAreHeld, Keeps
    <2>11. BusyHasOrder' /\ ListsAreSound' /\ ReportsAreTrue' /\ SentIsDelivered'
      BY <1>4, <2>3, SectionKeepsBooks
    <2> QED
      BY <2>4, <2>5, <2>6, <2>9, <2>10, <2>11 DEF IndInv
  <1>9. CASE Reservable(S) # S
    <2>1. Moves(w) /\ task'[w].at = "bingx" /\ task'[w].order = o
      BY <1>2, <1>3, <1>9, GotoMoves
    <2>2. OpsKept /\ BooksKept
      BY <1>1, <1>4, <1>5 DEF OpsKept, BooksKept, TypeOK
    <2> QED
      BY <1>4, <1>7, <2>1, <2>2, Routing DEF Operates, ListIsSound
  <1> QED
    BY <1>8, <1>9

(* The inputs of the transactions are kept when no UTXO changes.           *)
LEMMA SameRowsKeep ==
  ASSUME UNCHANGED <<utxo, mined>>
  PROVE  /\ \A o, S : Keeps(o, S) => \A u \in S \ Spent' : utxo'[u] = [st |-> "reserved", by |-> o]
         /\ In({"spent"})' = In({"spent"}) /\ Spent' = Spent
  BY DEF Keeps, Spent, In

(* The transaction is stored before it is posted, and is the only one.     *)
LEMMA SignIndInv ==
  ASSUME IndInv, NEW w \in Workers, SignAndStore(w)
  PROVE  IndInv'
  <1> DEFINE o == task[w].order
             tx == [order |-> o, ins |-> task[w].ins]
  <1>1. TypeOK /\ OperationTells /\ OneOperator /\ OneTransaction /\ OperatorsKeep /\ InputsAreHeld
    BY DEF IndInv
  <1>2. /\ task \in [Workers -> Tasks] /\ InSection(w) /\ task[w].at = "sign"
        /\ o \in Orders /\ task[w].ins \subseteq Utxos
    BY <1>1, SectionFacts DEF SignAndStore, At, Operates, TypeOK, InSection
  <1>3. /\ txs' = txs \cup {tx} /\ op' = [op EXCEPT ![o] = "signed"] /\ Goto(w, "post")
        /\ UNCHANGED <<st, old, utxo, lock, chain, bing, fails>>
    BY DEF SignAndStore, SetOp, OpStatus
  <1>4. /\ Moves(w) /\ task'[w].at = "post" /\ task'[w].order = o /\ task'[w].ins = task[w].ins
    BY <1>2, <1>3, GotoMoves
  <1>5. mined' = mined /\ wire' = wire /\ utxo' = utxo /\ st' = st /\ bing' = bing
    BY <1>3 DEF chain
  <1>6. op[o] = "processing" /\ \A t \in txs : t.order # o
    BY <1>1, <1>2 DEF OperationTells
  <1>7. tx \in Tx /\ tx.order = o /\ tx.ins = task[w].ins
    BY <1>2 DEF Tx
  <1> HIDE DEF tx
  <1>8. op'[o] = "signed" /\ \A p \in Orders \ {o} : op'[p] = op[p]
    BY <1>1, <1>2, <1>3 DEF TypeOK
  <1>9. TypeOK'
    <2>1. op' \in [Orders -> OpStatus \cup {"none"}]
      BY <1>1, <1>3 DEF TypeOK, OpStatus
    <2> QED
      BY <1>1, <1>3, <1>4, <1>7, <2>1 DEF TypeOK, Moves, chain
  <1>10. OperationTells'
    <2>1. ASSUME NEW v \in Workers \ {w}
          PROVE  /\ task'[v].at \in {"reserve", "sign"} => op'[task'[v].order] = "processing"
                 /\ task'[v].at \in {"post", "wait"} =>
                        op'[task'[v].order] = "signed" /\ TxOf(v)' \in txs'
      <3>1. task'[v] = task[v]
        BY <1>4 DEF Moves
      <3>2. Operates(v) => task[v].order \in Orders \ {o}
        BY <1>2, SectionFacts DEF InSection
      <3> QED
        BY <1>1, <1>3, <1>8, <3>1, <3>2 DEF OperationTells, Operates, TxOf
    <2>2. TxOf(w)' \in txs'
      BY <1>3, <1>4 DEF TxOf, tx
    <2>3. \A t \in txs' : op'[t.order] \in {"signed", "broadcast", "broadcast_unknown"}
      <3>1. \A t \in txs : t.order \in Orders \ {o}
        BY <1>1, <1>6 DEF TypeOK, Tx
      <3> QED
        BY <1>1, <1>3, <1>7, <1>8, <3>1 DEF OperationTells
    <2> QED
      BY <1>4, <1>8, <2>1, <2>2, <2>3 DEF OperationTells
  <1>11. OneOperator'
    BY <1>1, <1>2, <1>4 DEF OneOperator, Operates, Moves
  <1>12. OneTransaction'
    BY <1>1, <1>3, <1>6, <1>7 DEF OneTransaction
  <1>13. OperatorsKeep'
    BY <1>1, <1>2, <1>4, <1>5, SameRowsKeep DEF OperatorsKeep, Moves, Keeps
  <1>14. InputsAreHeld'
    <2>1. ASSUME NEW t \in txs', t \in wire' \/ op'[t.order] \in {"broadcast", "broadcast_unknown"}
          PROVE  Keeps(t.order, t.ins)'
      <3>1. t \in txs /\ op'[t.order] = op[t.order]
        BY <1>1, <1>3, <1>5, <1>6, <1>7, <1>8, <2>1 DEF TypeOK, Tx
      <3>2. Keeps(t.order, t.ins)
        BY <1>1, <1>5, <2>1, <3>1 DEF InputsAreHeld
      <3> QED
        BY <1>5, <3>2, SameRowsKeep DEF Keeps
    <2> QED
      BY <1>1, <1>5, <2>1, SameRowsKeep DEF InputsAreHeld
  <1>15. BusyHasOrder' /\ ListsAreSound' /\ ReportsAreTrue' /\ SentIsDelivered'
    BY <1>2, <1>4, <1>5, <1>8, SectionKeepsBooks
  <1> QED
    BY <1>9, <1>10, <1>11, <1>12, <1>13, <1>14, <1>15 DEF IndInv

(* The inputs of an order are given back by the goroutine that operates    *)
(* it, while no transaction of the order is under way.                     *)
LEMMA FreeIndInv ==
  ASSUME IndInv, NEW w \in Workers, SignFails(w) \/ BroadcastRefused(w)
  PROVE  IndInv'
  <1> DEFINE o == task[w].order
  <1>1. TypeOK /\ OperationTells /\ OneOperator /\ OneTransaction /\ OperatorsKeep /\ InputsAreHeld
    BY DEF IndInv
  <1>2. /\ task \in [Workers -> Tasks] /\ InSection(w) /\ o \in Orders
        /\ task[w].at \in {"sign", "wait"} /\ (task[w].at = "wait" => TxOf(w) \notin wire)
    BY <1>1, SectionFacts DEF SignFails, BroadcastRefused, At, Operates, TypeOK, InSection
  <1>3. /\ utxo' = Put(Held(o), "confirmed", NoOrder) /\ Goto(w, "bingx")
        /\ UNCHANGED <<st, old, txs, chain, bing, op>>
    BY DEF SignFails, BroadcastRefused, SetOp, OpStatus
  <1>4. lock' \in BOOLEAN
    BY <1>1 DEF SignFails, BroadcastRefused, Unlock, TypeOK
  <1>5. fails' \in 0..MaxFails
    BY <1>1, BtcTreasuryAssumption DEF SignFails, BroadcastRefused, Fail, TypeOK
  <1>6. /\ Moves(w) /\ task'[w].at = "bingx" /\ task'[w].order = o
    BY <1>2, <1>3, GotoMoves
  <1>7. mined' = mined /\ wire' = wire /\ txs' = txs /\ op' = op /\ st' = st /\ bing' = bing
    BY <1>3 DEF chain
  <1>8. /\ \A u \in Utxos : utxo'[u] = IF u \in Held(o)
                                       THEN [st |-> "confirmed", by |-> NoOrder] ELSE utxo[u]
        /\ utxo' \in [Utxos -> [st : UtxoStatus, by : Orders \cup {NoOrder}]]
    BY <1>1, <1>3 DEF Put, TypeOK, UtxoStatus
  <1>9. ASSUME NEW p \in Orders \ {o}, NEW S \in SUBSET Utxos, Keeps(p, S)
        PROVE  \A u \in S \ Spent' : utxo'[u] = [st |-> "reserved", by |-> p]
    <2>1. Spent' = Spent
      BY <1>7 DEF Spent
    <2>2. \A u \in S \ Spent : u \in Utxos /\ utxo[u] = [st |-> "reserved", by |-> p]
      BY <1>9 DEF Keeps
    <2>3. [st |-> "reserved", by |-> p] # [st |-> "reserved", by |-> o]
      OBVIOUS
    <2>4. \A u \in S \ Spent : u \in Utxos /\ u \notin Held(o)
      BY <2>2, <2>3 DEF Held
    <2> QED
      BY <1>8, <2>1, <2>2, <2>4
  <1>10. TypeOK'
    BY <1>1, <1>3, <1>4, <1>5, <1>6, <1>7, <1>8 DEF TypeOK, Moves, chain
  <1>11. OperationTells' /\ OneOperator' /\ OneTransaction'
    <2>1. OperationTells'
      BY <1>1, <1>6, <1>7 DEF OperationTells, Moves, TxOf
    <2>2. OneOperator' /\ OneTransaction'
      BY <1>1, <1>6, <1>7 DEF OneOperator, OneTransaction, Operates, Moves
    <2> QED
      BY <2>1, <2>2
  <1>12. OperatorsKeep'
    <2> SUFFICES ASSUME NEW v \in Workers, task'[v].at \in {"sign", "post", "wait"}
                 PROVE  Keeps(task[v].order, task[v].ins)'
      BY DEF OperatorsKeep
    <2>1. v # w /\ task'[v] = task[v]
      BY <1>6 DEF Moves
    <2>2. Operates(v)
      BY <2>1 DEF Operates
    <2>3. task[v].order \in Orders \ {o} /\ task[v].ins \in SUBSET Utxos
      BY <1>2, <2>1, <2>2, SectionFacts DEF InSection
    <2>4. Keeps(task[v].order, task[v].ins)
      BY <1>1, <2>1 DEF OperatorsKeep
    <2>5. \A u \in task[v].ins \ Spent' : utxo'[u] = [st |-> "reserved", by |-> task[v].order]
      BY <1>9, <2>3, <2>4
    <2> QED
      BY <2>1, <2>5 DEF Keeps
  <1>13. InputsAreHeld'
    <2>1. ASSUME NEW t \in txs, t \in wire \/ op[t.order] \in {"broadcast", "broadcast_unknown"}
          PROVE  Keeps(t.order, t.ins)'
      <3>1. t.order \in Orders /\ t.ins \in SUBSET Utxos /\ Keeps(t.order, t.ins)
        BY <1>1, <2>1 DEF TypeOK, Tx, InputsAreHeld
      <3>2. t.order # o
        BY <1>1, <1>2, <2>1 DEF OperationTells, OneTransaction, TxOf
      <3>3. \A u \in t.ins \ Spent' : utxo'[u] = [st |-> "reserved", by |-> t.order]
        BY <1>9, <3>1, <3>2
      <3> QED
        BY <3>3 DEF Keeps
    <2>2. In({"spent"})' \subseteq In({"spent"}) /\ Spent' = Spent
      BY <1>7, <1>8 DEF In, Spent
    <2> QED
      BY <1>1, <1>7, <2>1, <2>2 DEF InputsAreHeld
  <1>14. BusyHasOrder' /\ ListsAreSound' /\ ReportsAreTrue' /\ SentIsDelivered'
    BY <1>6, <1>7, SectionKeepsBooks
  <1> QED
    BY <1>10, <1>11, <1>12, <1>13, <1>14 DEF IndInv

(* The answer to the broadcast.  What the network took it has spent, and   *)
(* what nobody knows of stays reserved.                                    *)
LEMMA AnswerIndInv ==
  ASSUME IndInv, NEW w \in Workers, Broadcast(w) \/ BroadcastOk(w) \/ BroadcastUnknown(w)
  PROVE  IndInv'
  <1> DEFINE o == task[w].order
  <1>1. TypeOK /\ OperationTells /\ OneOperator /\ OneTransaction /\ OperatorsKeep /\ InputsAreHeld
    BY DEF IndInv
  <1>2. /\ task \in [Workers -> Tasks] /\ InSection(w) /\ o \in Orders
        /\ task[w].at \in {"post", "wait"} /\ TxOf(w) \in txs /\ op[o] = "signed"
        /\ Keeps(o, task[w].ins)
    <2>1. task[w].at \in {"post", "wait"}
      BY DEF Broadcast, BroadcastOk, BroadcastUnknown, At
    <2> QED
      BY <1>1, <2>1, SectionFacts
         DEF Operates, TypeOK, InSection, OperationTells, OperatorsKeep
  <1>3. PICK t \in txs : t = TxOf(w) /\ t.order = o /\ t.ins = task[w].ins
    BY <1>2 DEF TxOf
  <1>4. \A s \in txs : s.order = o => s = t
    BY <1>1, <1>3 DEF OneTransaction
  <1>5. \A v \in Workers \ {w} : Operates(v) => task[v].order \in Orders \ {o}
    BY <1>2, SectionFacts DEF InSection
  <1>6. UNCHANGED <<st, old, txs, deep, mined, bing>>
    BY DEF Broadcast, BroadcastOk, BroadcastUnknown, chain, rows
  <1>7. ASSUME Broadcast(w) PROVE IndInv'
    <2>1. /\ wire' = wire \cup {t} /\ Goto(w, "wait") /\ task[w].at = "post"
          /\ UNCHANGED <<utxo, op, lock, fails>>
      BY <1>3, <1>7 DEF Broadcast, rows, At
    <2>2. /\ Moves(w) /\ task'[w].at = "wait" /\ task'[w].order = o /\ task'[w].ins = task[w].ins
      BY <1>2, <2>1, GotoMoves
    <2>3. TypeOK'
      BY <1>1, <1>6, <2>1, <2>2 DEF TypeOK, Moves
    <2>4. OperationTells'
      BY <1>1, <1>2, <1>6, <2>1, <2>2 DEF OperationTells, Moves, TxOf
    <2>5. OneOperator' /\ OneTransaction'
      BY <1>1, <1>2, <1>6, <2>2 DEF OneOperator, OneTransaction, Operates, Moves
    <2>6. OperatorsKeep'
      BY <1>1, <1>2, <1>6, <2>1, <2>2, SameRowsKeep DEF OperatorsKeep, Moves, Keeps
    <2>7. InputsAreHeld'
      BY <1>1, <1>2, <1>3, <1>6, <2>1, SameRowsKeep DEF InputsAreHeld, Keeps
    <2>8. BusyHasOrder' /\ ListsAreSound' /\ ReportsAreTrue' /\ SentIsDelivered'
      BY <1>6, <2>1, <2>2, SectionKeepsBooks
    <2> QED
      BY <2>3, <2>4, <2>5, <2>6, <2>7, <2>8 DEF IndInv
  <1>8. ASSUME BroadcastOk(w) \/ BroadcastUnknown(w) PROVE IndInv'
    <2>1. PICK a \in {"broadcast", "broadcast_unknown"}, step \in {"sent", "unknown"} :
            /\ op' = [op EXCEPT ![o] = a] /\ Goto(w, step)
            /\ a = "broadcast" \/ step = "sent" => t \in mined
            /\ wire' = wire
            /\ \/ utxo' = utxo
               \/ t \in mined /\ utxo' = Put(task[w].ins, "spent", o)
      <3>1. CASE BroadcastOk(w)
        BY <1>3, <3>1 DEF BroadcastOk, SetOp, OpStatus, chain
      <3>2. CASE BroadcastUnknown(w)
        BY <3>2 DEF BroadcastUnknown, SetOp, OpStatus, chain, UnknownUtxos
      <3> QED
        BY <1>8, <3>1, <3>2
    <2>2. lock' \in BOOLEAN
      BY <1>1, <1>8 DEF BroadcastOk, BroadcastUnknown, Unlock, TypeOK
    <2>3. fails' \in 0..MaxFails
      BY <1>1, <1>8, BtcTreasuryAssumption DEF BroadcastOk, BroadcastUnknown, Fail, TypeOK
    <2>4. /\ Moves(w) /\ task'[w].at = step /\ task'[w].order = o
      BY <1>2, <2>1, GotoMoves
    <2>5. Spent' = Spent /\ (t \in mined => task[w].ins \subseteq Spent)
      BY <1>3, <1>6 DEF Spent
    <2>6. op'[o] = a /\ \A p \in Orders \ {o} : op'[p] = op[p]
      BY <1>1, <1>2, <2>1 DEF TypeOK
    <2>7. /\ utxo' \in [Utxos -> [st : UtxoStatus, by : Orders \cup {NoOrder}]]
          /\ \A u \in Utxos \ Spent : utxo'[u] = utxo[u]
          /\ \A u \in Utxos : utxo'[u].st = "spent" => utxo[u].st = "spent" \/ u \in Spent
      <3>1. CASE utxo' = utxo
        BY <1>1, <3>1 DEF TypeOK
      <3>2. CASE t \in mined /\ utxo' = Put(task[w].ins, "spent", o)
        BY <1>1, <1>2, <2>5, <3>2 DEF TypeOK, Put, UtxoStatus
      <3> QED
        BY <2>1, <3>1, <3>2
    <2>8. ASSUME NEW p, NEW S \in SUBSET Utxos, Keeps(p, S)
          PROVE  \A u \in S \ Spent' : utxo'[u] = [st |-> "reserved", by |-> p]
      BY <2>5, <2>7, <2>8 DEF Keeps
    <2>9. TypeOK'
      <3>1. op' \in [Orders -> OpStatus \cup {"none"}]
        BY <1>1, <2>1 DEF TypeOK, OpStatus
      <3> QED
        BY <1>1, <1>6, <2>1, <2>2, <2>3, <2>4, <2>7, <3>1 DEF TypeOK, Moves
    <2>10. OperationTells'
      <3>1. ASSUME NEW v \in Workers
            PROVE  /\ task'[v].at \in {"reserve", "sign"} => op'[task'[v].order] = "processing"
                   /\ task'[v].at \in {"post", "wait"} =>
                          op'[task'[v].order] = "signed" /\ TxOf(v)' \in txs
        <4>1. CASE v = w
          BY <2>4, <4>1
        <4>2. CASE v # w
          BY <1>1, <1>5, <2>4, <2>6, <4>2 DEF OperationTells, Operates, Moves, TxOf
        <4> QED
          BY <4>1, <4>2
      <3>2. \A s \in txs : op'[s.order] \in {"signed", "broadcast", "broadcast_unknown"}
        BY <1>1, <2>6 DEF OperationTells, TypeOK, Tx
      <3> QED
        BY <1>6, <3>1, <3>2 DEF OperationTells
    <2>11. OneOperator' /\ OneTransaction'
      BY <1>1, <1>6, <2>4 DEF OneOperator, OneTransaction, Operates, Moves
    <2>12. OperatorsKeep'
      <3> SUFFICES ASSUME NEW v \in Workers, task'[v].at \in {"sign", "post", "wait"}
                   PROVE  Keeps(task[v].order, task[v].ins)'
        BY DEF OperatorsKeep
      <3>1. v # w /\ task'[v] = task[v]
        BY <2>4 DEF Moves
      <3>2. task[v].ins \in SUBSET Utxos /\ Keeps(task[v].order, task[v].ins)
        BY <1>1, <3>1 DEF OperatorsKeep, TypeOK, Tasks
      <3>3. \A u \in task[v].ins \ Spent' : utxo'[u] = [st |-> "reserved", by |-> task[v].order]
        BY <2>8, <3>2
      <3> QED
        BY <3>1, <3>3 DEF Keeps
    <2>13. InputsAreHeld'
      <3>1. ASSUME NEW s \in txs, s \in wire \/ op'[s.order] \in {"broadcast", "broadcast_unknown"}
            PROVE  Keeps(s.order, s.ins)'
        <4>1. s.order \in Orders /\ s.ins \in SUBSET Utxos
          BY <1>1 DEF TypeOK, Tx
        <4>2. Keeps(s.order, s.ins)
          <5>1. CASE s.order = o
            BY <1>2, <1>3, <1>4, <5>1
          <5>2. CASE s.order # o
            BY <1>1, <2>6, <3>1, <4>1, <5>2 DEF InputsAreHeld
          <5> QED
            BY <5>1, <5>2
        <4>3. \A u \in s.ins \ Spent' : utxo'[u] = [st |-> "reserved", by |-> s.order]
          BY <2>8, <4>1, <4>2
        <4> QED
          BY <4>3 DEF Keeps
      <3>2. In({"spent"})' \subseteq Spent'
        BY <1>1, <2>5, <2>7 DEF In, InputsAreHeld
      <3> QED
        BY <1>6, <2>1, <3>1, <3>2 DEF InputsAreHeld
    <2>14. BusyHasOrder' /\ ListsAreSound' /\ ReportsAreTrue' /\ SentIsDelivered'
      <3>1. \A p \in Orders : op'[p] = "broadcast" =>
                op[p] = "broadcast" \/ \E s \in mined : s.order = p
        BY <1>3, <2>1, <2>6
      <3>2. task'[w].at = "sent" => Delivered(task[w].order)'
        BY <1>3, <1>6, <2>1, <2>4 DEF Delivered
      <3> QED
        BY <1>6, <2>4, <3>1, <3>2, SectionKeepsBooks
    <2> QED
      BY <2>9, <2>10, <2>11, <2>12, <2>13, <2>14 DEF IndInv
  <1> QED
    BY <1>7, <1>8

(* The network only takes transactions that were stored; what it spends    *)
(* need not be kept any longer.                                            *)
LEMMA NetworkIndInv ==
  ASSUME IndInv, NEW t \in wire, NetworkDecides(t)
  PROVE  IndInv'
  <1>1. /\ TypeOK /\ BusyHasOrder /\ OperationTells /\ OneOperator /\ OneTransaction
        /\ ListsAreSound /\ OperatorsKeep /\ InputsAreHeld /\ ReportsAreTrue /\ SentIsDelivered
    BY DEF IndInv
  <1>2. /\ UNCHANGED <<st, old, utxo, op, txs, lock, task, deep, bing, fails>>
        /\ wire' = wire \ {t} /\ mined \subseteq mined' /\ mined' \subseteq mined \cup {t}
    BY DEF NetworkDecides, rows
  <1>3. Spent \subseteq Spent'
    BY <1>2, SpentGrows
  <1>4. TypeOK'
    BY <1>1, <1>2 DEF TypeOK
  <1>5. BusyHasOrder' /\ OperationTells' /\ OneOperator' /\ OneTransaction'
    BY <1>1, <1>2 DEF BusyHasOrder, OperationTells, OneOperator, OneTransaction, Operates, TxOf
  <1>6. ListsAreSound'
    BY <1>1, <1>2, <1>3 DEF ListsAreSound, ListIsSound
  <1>7. OperatorsKeep' /\ InputsAreHeld'
    <2>1. OperatorsKeep'
      BY <1>1, <1>2, <1>3 DEF OperatorsKeep, Keeps
    <2>2. InputsAreHeld'
      BY <1>1, <1>2, <1>3 DEF InputsAreHeld, Keeps, In
    <2> QED
      BY <2>1, <2>2
  <1>8. ReportsAreTrue' /\ SentIsDelivered'
    BY <1>1, <1>2 DEF ReportsAreTrue, SentIsDelivered, Delivered
  <1> QED
    BY <1>4, <1>5, <1>6, <1>7, <1>8 DEF IndInv

(* Time, closed connections and blocks.                                    *)
LEMMA OutsideIndInv ==
  ASSUME IndInv,
         \/ \E o \in Orders : SixtySecondsPass(o)
         \/ \E u \in Utxos : Confirms(u)
         \/ ConnectionCloses
  PROVE  IndInv'
  <1>1. /\ UNCHANGED <<st, utxo, op, txs, task, wire, mined, bing, fails>>
        /\ old' \subseteq old \cup Orders /\ deep' \subseteq deep \cup Utxos
        /\ lock' = lock \/ lock' = FALSE
    BY DEF SixtySecondsPass, Confirms, ConnectionCloses, rows, chain
  <1>2. TypeOK'
    BY <1>1 DEF IndInv, TypeOK
  <1>3. BusyHasOrder' /\ OperationTells' /\ OneOperator' /\ OneTransaction'
    BY <1>1 DEF IndInv, BusyHasOrder, OperationTells, OneOperator, OneTransaction, Operates, TxOf
  <1>4. ListsAreSound' /\ OperatorsKeep' /\ InputsAreHeld'
    BY <1>1 DEF IndInv, ListsAreSound, ListIsSound, OperatorsKeep, InputsAreHeld, Keeps, In, Spent
  <1>5. ReportsAreTrue' /\ SentIsDelivered'
    BY <1>1 DEF IndInv, ReportsAreTrue, SentIsDelivered, Delivered
  <1> QED
    BY <1>2, <1>3, <1>4, <1>5 DEF IndInv

LEMMA StutterIndInv == IndInv /\ UNCHANGED vars => IndInv'
  <1> SUFFICES ASSUME IndInv, UNCHANGED vars PROVE IndInv'
    OBVIOUS
  <1>1. UNCHANGED <<st, old, utxo, op, txs, lock, task, deep, wire, mined, bing, fails>>
    BY DEF vars
  <1>2. TypeOK'
    BY <1>1 DEF IndInv, TypeOK
  <1>3. BusyHasOrder' /\ OperationTells' /\ OneOperator' /\ OneTransaction'
    BY <1>1 DEF IndInv, BusyHasOrder, OperationTells, OneOperator, OneTransaction, Operates, TxOf
  <1>4. ListsAreSound' /\ OperatorsKeep' /\ InputsAreHeld'
    BY <1>1 DEF IndInv, ListsAreSound, ListIsSound, OperatorsKeep, InputsAreHeld, Keeps, In, Spent
  <1>5. ReportsAreTrue' /\ SentIsDelivered'
    BY <1>1 DEF IndInv, ReportsAreTrue, SentIsDelivered, Delivered
  <1> QED
    BY <1>2, <1>3, <1>4, <1>5 DEF IndInv

LEMMA NextIndInv == IndInv /\ [Next]_vars => IndInv'
  <1> SUFFICES ASSUME IndInv, [Next]_vars PROVE IndInv'
    OBVIOUS
  <1>1. CASE UNCHANGED vars
    BY <1>1, StutterIndInv
  <1>2. ASSUME NEW w \in Workers,
               \/ \E o \in Orders : ClaimBuyOrderForSend(w, o)
               \/ ListUtxos(w) \/ UpsertUtxos(w) \/ ReadActive(w) \/ MarkOrphaned(w)
               \/ CheckBalance(w) \/ SendBTC(w) \/ FundByBingX(w)
               \/ UpdateBuyOrderStatus(w) \/ Abandon(w)
        PROVE  IndInv'
    <2>1. CASE ClaimOperation(w)
      BY <2>1, ClaimIndInv
    <2>2. CASE ReserveUtxos(w)
      BY <2>2, ReserveIndInv
    <2>3. CASE SignAndStore(w)
      BY <2>3, SignIndInv
    <2>4. CASE SignFails(w) \/ BroadcastRefused(w)
      BY <2>4, FreeIndInv
    <2>5. CASE Broadcast(w) \/ BroadcastOk(w) \/ BroadcastUnknown(w)
      BY <2>5, AnswerIndInv
    <2> QED
      BY <1>2, <2>1, <2>2, <2>3, <2>4, <2>5, RoutingIndInv DEF SendBTC
  <1>3. ASSUME NEW t \in wire, NetworkDecides(t) PROVE IndInv'
    BY <1>3, NetworkIndInv
  <1> QED
    BY <1>1, <1>2, <1>3, OutsideIndInv DEF Next

LEMMA Invariant == Spec => []IndInv
  BY InitIndInv, NextIndInv, PTL DEF Spec

-----------------------------------------------------------------------------
(* Every variable keeps to its type.                                       *)
THEOREM TypeCorrect == Spec => []TypeOK
  <1>1. IndInv => TypeOK
    BY DEF IndInv
  <1> QED
    BY <1>1, Invariant, PTL

(* Whatever crashes, deadlines and refusals there are, the treasury sends  *)
(* the bitcoin of an order at most once: two transactions of an order      *)
(* would both have been stored, and the operation of an order is inserted  *)
(* once (ClaimTreasuryOperation).                                          *)
THEOREM OrderIsPaidOnce == Spec => []TreasuryPaysOnce
  <1>1. IndInv => TreasuryPaysOnce
    BY DEF IndInv, TypeOK, OneTransaction, TreasuryPaysOnce
  <1> QED
    BY <1>1, Invariant, PTL

(* The inputs of a transaction that may still be mined serve no other      *)
(* order, however many goroutines synchronise the UTXOs with old lists and *)
(* however little the advisory lock excludes; and what is reported as sent *)
(* was delivered (syncUTXOs, ReserveTreasuryUTXOs, SendBTC, Route).        *)
THEOREM InputsServeTheirOrder == Spec => []InputsServeOrders
  <1>1. IndInv => InputsServeOrders
    BY DEF IndInv, InputsServeOrders
  <1> QED
    BY <1>1, Invariant, PTL

-----------------------------------------------------------------------------
(* The wallets.  A withdrawal is known outside its goroutine only once it  *)
(* is signed: from then on its inputs, its plan and what the network may   *)
(* have taken are the same UTXOs, so that whoever records it as sent, and  *)
(* writes off its UTXOs, is right about them.                              *)
Planned(t) == send[t].at \notin {"idle", "read", "plan"}
Signed(t) == raw[t] = send[t].sel /\ Planned(t) /\ send[t].at # "sign"

Live(t) == \/ net[t] # "none" \/ t \in posted \/ row[t] \in Tracked
           \/ send[t].at \in {"cast", "ok", "unknown", "refused", "spend"}
           \/ \E w \in Trackers : track[w].t = t
LiveIsSigned == \A t \in Sends : Live(t) => Signed(t)

(* What a goroutine and a tracker have heard is so.                        *)
SenderIsRight(t) == /\ send[t].at \in {"ok", "spend"} => net[t] # "none"
                    /\ send[t].at \in {"release", "fail"} => send[t].err # "none"
TrackerIsRight(w) ==
    /\ track[w].t = None => track[w] = Resting
    /\ track[w].ans \in {"mempool", "ok"} => net[track[w].t] # "none"
    /\ track[w].ans \in {"mined", "spend"} => net[track[w].t] = "mined"
HearsayIsRight == /\ \A t \in Sends : SenderIsRight(t)
                  /\ \A w \in Trackers : TrackerIsRight(w)

ActiveIsPlanned == \A p \in active : p[2] \in send[p[1]].sel /\ Planned(p[1])

WalletInv == WalletBooksAreTrue /\ LiveIsSigned /\ HearsayIsRight /\ ActiveIsPlanned

LEMMA InitWalletInv == WalletInit => WalletInv
  <1> SUFFICES ASSUME WalletInit PROVE WalletInv
    OBVIOUS
  <1> USE BtcWalletAssumption DEF WalletInit, Resting
  <1>1. WalletTypeOK
    BY DEF WalletTypeOK, TxStatus, CoinStatus, Sending, SendAt, Tracking
  <1>2. RecordedIsSent /\ OneSpender
    BY DEF RecordedIsSent, OneSpender
  <1>3. LiveIsSigned
    BY DEF LiveIsSigned, Live, Tracked
  <1>4. HearsayIsRight /\ ActiveIsPlanned
    BY DEF HearsayIsRight, SenderIsRight, TrackerIsRight, ActiveIsPlanned
  <1> QED
    BY <1>1, <1>2, <1>3, <1>4 DEF WalletInv, WalletBooksAreTrue

(* What every step keeps: the network forgets nothing, what is signed      *)
(* stays as it is, and what is planned stays planned.                      *)
Stands(t) == /\ net[t] = "mined" => net'[t] = "mined"
             /\ net[t] # "none" => net'[t] # "none"
             /\ Signed(t) => raw'[t] = raw[t]
             /\ Planned(t) => Planned(t)' /\ send'[t].sel = send[t].sel
             /\ Signed(t) => send'[t].at # "sign"

(* A row and a UTXO that a step records as sent were sent.                 *)
RecordIsRight ==
    /\ \A t \in Sends : row'[t] = row[t]
           \/ /\ row'[t] \in {"broadcast", "pending", "confirmed"} => net'[t] # "none"
              /\ row'[t] = "confirmed" => net'[t] = "mined"
    /\ \A u \in Coins : coin'[u] = "spent" =>
           coin[u] = "spent" \/ \E t \in Sends : net'[t] # "none" /\ u \in raw'[t]

LEMMA StandsSigned ==
  ASSUME NEW t \in Sends, Stands(t), Signed(t)
  PROVE  Signed(t)'
  BY DEF Stands, Signed, Planned

LEMMA WalletStep ==
  ASSUME WalletInv, WalletTypeOK', \A t \in Sends : Stands(t), RecordIsRight,
         \A t \in Sends : Live(t)' => Live(t) \/ Signed(t)',
         \A t \in Sends : SenderIsRight(t)', \A w \in Trackers : TrackerIsRight(w)',
         OneSpender', ActiveIsPlanned'
  PROVE  WalletInv'
  <1>1. LiveIsSigned'
    BY StandsSigned DEF WalletInv, LiveIsSigned
  <1>2. RecordedIsSent'
    <2>1. \A t \in Sends : net[t] # "none" => Signed(t)
      BY DEF WalletInv, LiveIsSigned, Live
    <2>2. ASSUME NEW t \in Sends
          PROVE  /\ row'[t] \in {"broadcast", "pending", "confirmed"} => net'[t] # "none"
                 /\ row'[t] = "confirmed" => net'[t] = "mined"
      BY DEF WalletInv, WalletBooksAreTrue, RecordedIsSent, RecordIsRight, Stands
    <2>3. ASSUME NEW u \in Coins, coin'[u] = "spent"
          PROVE  \E t \in Sends : net'[t] # "none" /\ u \in raw'[t]
      <3>1. CASE coin[u] = "spent"
        <4>1. PICK t \in Sends : net[t] # "none" /\ u \in raw[t]
          BY <3>1 DEF WalletInv, WalletBooksAreTrue, RecordedIsSent, Unspent
        <4> QED
          BY <4>1, <2>1 DEF Stands
      <3> QED
        BY <2>3, <3>1 DEF RecordIsRight
    <2> QED
      BY <2>2, <2>3 DEF RecordedIsSent, Unspent
  <1> QED
    BY <1>1, <1>2 DEF WalletInv, WalletBooksAreTrue, HearsayIsRight

(* Inputs that are released, or stay as they are, serve whom they served.  *)
LEMMA ActiveStays ==
  ASSUME WalletInv, \A t \in Sends : Stands(t), active' \subseteq active
  PROVE  OneSpender' /\ ActiveIsPlanned'
  <1>1. active \subseteq Sends \X Coins /\ OneSpender /\ ActiveIsPlanned
    BY DEF WalletInv, WalletBooksAreTrue, WalletTypeOK
  <1>2. OneSpender'
    BY <1>1 DEF OneSpender
  <1>3. ASSUME NEW p \in active'
        PROVE  p[2] \in send'[p[1]].sel /\ Planned(p[1])'
    <2>1. p \in active /\ p[1] \in Sends
      BY <1>1
    <2> QED
      BY <1>1, <2>1 DEF ActiveIsPlanned, Stands
  <1> QED
    BY <1>2, <1>3 DEF ActiveIsPlanned

(* A step of the goroutine of t, which leaves the trackers alone.          *)
LEMMA SenderStep ==
  ASSUME WalletInv, NEW t \in Sends, NEW to \in Sending, send' = [send EXCEPT ![t] = to],
         UNCHANGED <<track, gone>>, row' \in [Sends -> TxStatus],
         coin' \in [Coins -> CoinStatus], active' \subseteq Sends \X Coins,
         raw' \in [Sends -> SUBSET Coins],
         net' \in [Sends -> {"none", "mempool", "mined"}], posted' \subseteq Sends,
         \A v \in Sends \ {t} : /\ row'[v] = row[v] /\ raw'[v] = raw[v] /\ net'[v] = net[v]
                                /\ v \in posted' => v \in posted,
         Stands(t), RecordIsRight, Live(t)' => Live(t) \/ Signed(t)', SenderIsRight(t)',
         OneSpender', ActiveIsPlanned'
  PROVE  WalletInv'
  <1>1. WalletTypeOK
    BY DEF WalletInv, WalletBooksAreTrue
  <1>2. WalletTypeOK'
    BY <1>1 DEF WalletTypeOK
  <1>3. \A v \in Sends \ {t} : send'[v] = send[v]
    BY <1>1 DEF WalletTypeOK
  <1>4. \A v \in Sends : Stands(v)
    BY <1>3 DEF Stands, Signed, Planned
  <1>5. \A v \in Sends : Live(v)' => Live(v) \/ Signed(v)'
    BY <1>3 DEF Live
  <1>6. \A v \in Sends : SenderIsRight(v)'
    BY <1>3 DEF WalletInv, HearsayIsRight, SenderIsRight
  <1>7. ASSUME NEW w \in Trackers PROVE TrackerIsRight(w)'
    <2>1. TrackerIsRight(w) /\ track[w].t \in Sends \cup {None}
      BY <1>1 DEF WalletInv, HearsayIsRight, WalletTypeOK, Tracking
    <2> QED
      BY <2>1, <1>4 DEF TrackerIsRight, Stands, Resting
  <1> QED
    BY <1>2, <1>4, <1>5, <1>6, <1>7, WalletStep

(* A step of a tracker on the withdrawal t.                                *)
LEMMA TrackerStep ==
  ASSUME WalletInv, NEW t \in Sends, NEW w \in Trackers, NEW to \in Tracking,
         track' = [track EXCEPT ![w] = to], UNCHANGED <<send, raw, active, gone>>,
         row' \in [Sends -> TxStatus], coin' \in [Coins -> CoinStatus],
         net' \in [Sends -> {"none", "mempool", "mined"}], posted' \subseteq Sends,
         \A v \in Sends \ {t} : /\ row'[v] = row[v] /\ net'[v] = net[v]
                                /\ v \in posted' => v \in posted,
         net[t] = "mined" => net'[t] = "mined", net[t] # "none" => net'[t] # "none",
         Signed(t), to.t \in {t, None}, RecordIsRight, TrackerIsRight(w)'
  PROVE  WalletInv'
  <1>1. WalletTypeOK
    BY DEF WalletInv, WalletBooksAreTrue
  <1>2. WalletTypeOK'
    BY <1>1 DEF WalletTypeOK
  <1>3. \A v \in Trackers \ {w} : track'[v] = track[v]
    BY <1>1 DEF WalletTypeOK
  <1>4. \A v \in Sends : Stands(v)
    BY DEF Stands, Signed, Planned
  <1>5. ASSUME NEW v \in Sends PROVE Live(v)' => Live(v) \/ Signed(v)'
    <2>1. CASE v = t
      BY <2>1, <1>4, StandsSigned
    <2>2. CASE v # t
      <3>1. ASSUME NEW x \in Trackers, track'[x].t = v PROVE track[x].t = v
        BY <1>1, <1>3, <2>2, <3>1, BtcWalletAssumption DEF WalletTypeOK
      <3> QED
        BY <2>2, <3>1 DEF Live
    <2> QED
      BY <2>1, <2>2
  <1>6. \A v \in Sends : SenderIsRight(v)'
    BY <1>4 DEF WalletInv, HearsayIsRight, SenderIsRight, Stands
  <1>7. ASSUME NEW v \in Trackers PROVE TrackerIsRight(v)'
    <2>1. TrackerIsRight(v) /\ track[v].t \in Sends \cup {None}
      BY <1>1 DEF WalletInv, HearsayIsRight, WalletTypeOK, Tracking
    <2> QED
      BY <2>1, <1>3, <1>4 DEF TrackerIsRight, Stands, Resting
  <1>8. OneSpender' /\ ActiveIsPlanned'
    BY <1>4, ActiveStays
  <1> QED
    BY <1>2, <1>4, <1>5, <1>6, <1>7, <1>8, WalletStep

LEMMA QuietSenderStep ==
  ASSUME WalletInv, NEW t \in Sends, NEW to \in Sending, send' = [send EXCEPT ![t] = to],
         UNCHANGED <<track, gone>>, row' \in [Sends -> TxStatus],
         coin' \in [Coins -> CoinStatus], active' \subseteq active,
         raw' \in [Sends -> SUBSET Coins],
         net' \in [Sends -> {"none", "mempool", "mined"}], posted' \subseteq Sends,
         \A v \in Sends \ {t} : /\ row'[v] = row[v] /\ raw'[v] = raw[v] /\ net'[v] = net[v]
                                /\ v \in posted' => v \in posted,
         Stands(t), RecordIsRight, Live(t)' => Live(t) \/ Signed(t)', SenderIsRight(t)'
  PROVE  WalletInv'
  <1>1. WalletTypeOK
    BY DEF WalletInv, WalletBooksAreTrue
  <1>2. \A v \in Sends : Stands(v)
    BY <1>1 DEF Stands, Signed, Planned, WalletTypeOK
  <1>3. active' \subseteq Sends \X Coins
    BY <1>1 DEF WalletTypeOK
  <1> QED
    BY <1>2, <1>3, ActiveStays, SenderStep

LEMMA WalletFacts ==
  ASSUME WalletInv
  PROVE  /\ WalletTypeOK /\ RecordedIsSent /\ OneSpender /\ ActiveIsPlanned
         /\ \A t \in Sends : Live(t) => Signed(t)
         /\ \A t \in Sends : SenderIsRight(t)
         /\ \A w \in Trackers : TrackerIsRight(w)
  BY DEF WalletInv, WalletBooksAreTrue, LiveIsSigned, HearsayIsRight

LEMMA StatusWritten ==
  ASSUME WalletTypeOK, NEW t \in Sends, NEW s \in TxStatus, UpdateStatus(t, s) \/ UpdateError(t, s)
  PROVE  /\ row' \in [Sends -> TxStatus] /\ \A v \in Sends \ {t} : row'[v] = row[v]
         /\ row'[t] \in {row[t], s}
  BY DEF WalletTypeOK, UpdateStatus, UpdateError

(* A broadcast: the network forgets nothing, and "ok" is to be believed.   *)
LEMMA NetworkTakes ==
  ASSUME WalletTypeOK, NEW t \in Sends, net' \in {net, Taken(t)}
  PROVE  /\ net' \in [Sends -> {"none", "mempool", "mined"}]
         /\ \A v \in Sends \ {t} : net'[v] = net[v]
         /\ net[t] # "none" => net'[t] = net[t]
  BY DEF WalletTypeOK, Taken

LEMMA BroadcastIsHeard ==
  ASSUME NEW t \in Sends, NEW o \in Posting(t), net' = o[1], posted' = o[2]
  PROVE  /\ net' \in {net, Taken(t)} /\ posted' \in {posted, posted \cup {t}}
         /\ o[3] \in Answers /\ (o[3] = "ok" => net'[t] # "none")
  BY DEF Posting, Answers

LEMMA GoesTo ==
  ASSUME WalletTypeOK, NEW t \in Sends, NEW s \in SendAt, Goes(t, s)
  PROVE  \E to \in Sending : /\ send' = [send EXCEPT ![t] = to]
                             /\ to.at = s /\ to.sel = send[t].sel /\ to.err = send[t].err
  <1> DEFINE to == [send[t] EXCEPT !.at = s]
  <1>1. to \in Sending /\ to.at = s /\ to.sel = send[t].sel /\ to.err = send[t].err
    BY DEF WalletTypeOK, Sending
  <1> QED
    BY <1>1 DEF Goes

(* The statements before the signature.                                    *)
LEMMA PlanIndInv ==
  ASSUME WalletInv, NEW t \in Sends, ClaimTransaction(t) \/ SelectUTXOs(t)
  PROVE  WalletInv'
  <1>1. WalletTypeOK /\ ~Planned(t) /\ UNCHANGED <<coin, active, raw, track, gone, net, posted>>
    BY WalletFacts DEF ClaimTransaction, SelectUTXOs, Planned, outside
  <1>2. send[t] \in Sending
    BY <1>1 DEF WalletTypeOK
  <1>3. PICK to \in Sending : /\ send' = [send EXCEPT ![t] = to]
                              /\ to.at \in {"read", "plan", "done"}
    <2>1. ASSUME NEW s \in {"read", "done"}, Goes(t, s)
          PROVE  \E to \in Sending : send' = [send EXCEPT ![t] = to] /\ to.at = s
      BY <1>1, <2>1, GoesTo DEF SendAt
    <2>2. ASSUME NEW us \in SUBSET Coins,
                 send' = [send EXCEPT ![t].at = "plan", ![t].sel = us]
          PROVE  \E to \in Sending : send' = [send EXCEPT ![t] = to] /\ to.at = "plan"
      <3> DEFINE to == [send[t] EXCEPT !.at = "plan", !.sel = us]
      <3>1. to \in Sending /\ to.at = "plan"
        BY <1>2 DEF Sending, SendAt
      <3>2. send' = [send EXCEPT ![t] = to]
        BY <1>1, <2>2 DEF WalletTypeOK
      <3> QED
        BY <3>1, <3>2
    <2> QED
      BY <2>1, <2>2 DEF ClaimTransaction, SelectUTXOs
  <1>4. /\ row' \in [Sends -> TxStatus] /\ \A v \in Sends \ {t} : row'[v] = row[v]
        /\ row'[t] \in {row[t], "created", "failed_before_sign"}
    <2>1. {"created", "failed_before_sign"} \subseteq TxStatus
      BY DEF TxStatus, Failed
    <2> QED
      BY <1>1, <2>1, StatusWritten
      DEF ClaimTransaction, SelectUTXOs, WalletTypeOK, UpdateError
  <1>5. send'[t] = to
    BY <1>1, <1>3 DEF WalletTypeOK
  <1>6. Stands(t) /\ SenderIsRight(t)'
    BY <1>1, <1>3, <1>5 DEF Stands, Signed, SenderIsRight
  <1>7. RecordIsRight
    BY <1>1, <1>4 DEF RecordIsRight
  <1>8. Live(t)' => Live(t)
    BY <1>1, <1>3, <1>4, <1>5 DEF Live, Tracked
  <1> QED
    BY <1>1, <1>3, <1>4, <1>6, <1>7, <1>8, QuietSenderStep DEF WalletTypeOK

LEMMA PersistIndInv ==
  ASSUME WalletInv, NEW t \in Sends, PersistSpendPlan(t)
  PROVE  WalletInv'
  <1> DEFINE us == send[t].sel
  <1>1. /\ WalletTypeOK /\ OneSpender /\ ActiveIsPlanned /\ ~Planned(t)
        /\ UNCHANGED <<raw, track, gone, net, posted>> /\ send[t] \in Sending
        /\ us \subseteq Coins
    BY WalletFacts DEF PersistSpendPlan, Planned, outside, WalletTypeOK, Sending
  <1>2. PICK to \in Sending : /\ send' = [send EXCEPT ![t] = to]
                              /\ to.at \in {"sign", "done"} /\ to.sel = us
                              /\ ~Spendable(us) => to.at = "done"
    <2>1. ASSUME NEW s \in {"sign", "done"}, Goes(t, s)
          PROVE  \E to \in Sending : send' = [send EXCEPT ![t] = to] /\ to.at = s /\ to.sel = us
      BY <1>1, <2>1, GoesTo DEF SendAt
    <2> QED
      BY <2>1 DEF PersistSpendPlan
  <1>3. send'[t] = to /\ \A v \in Sends \ {t} : send'[v] = send[v]
    BY <1>1, <1>2 DEF WalletTypeOK
  <1>4. /\ row' \in [Sends -> TxStatus] /\ \A v \in Sends \ {t} : row'[v] = row[v]
        /\ row'[t] \in {row[t], "building", "failed_before_sign"}
    <2>1. {"building", "failed_before_sign"} \subseteq TxStatus
      BY DEF TxStatus, Failed
    <2> QED
      BY <1>1, <2>1, StatusWritten DEF PersistSpendPlan, UpdateError
  <1>5. Stands(t) /\ SenderIsRight(t)'
    BY <1>1, <1>2, <1>3 DEF Stands, Signed, SenderIsRight
  <1>6. /\ coin' \in [Coins -> CoinStatus]
        /\ \A u \in Coins : coin'[u] = "spent" => coin[u] = "spent"
    BY <1>1 DEF PersistSpendPlan, WalletTypeOK, CoinStatus
  <1>7. RecordIsRight
    BY <1>1, <1>4, <1>6 DEF RecordIsRight
  <1>8. Live(t)' => Live(t)
    BY <1>1, <1>2, <1>3, <1>4 DEF Live, Tracked
  <1>9. CASE Spendable(us)
    <2>1. /\ active' = active \cup ({t} \X us)
          /\ \A p \in active : p[2] \notin us
      BY <1>9 DEF PersistSpendPlan, Spendable
    <2>2. active' \subseteq Sends \X Coins
      BY <1>1, <2>1 DEF WalletTypeOK
    <2>3. OneSpender'
      BY <1>1, <2>1 DEF OneSpender
    <2>4. to.at = "sign"
      BY <1>9, <1>3 , <1>1 DEF PersistSpendPlan, Goes, WalletTypeOK, Sending
    <2>5. ActiveIsPlanned'
      <3>1. ASSUME NEW p \in active PROVE p[2] \in send'[p[1]].sel /\ Planned(p[1])'
        <4>1. p[1] \in Sends \ {t}
          BY <1>1 DEF WalletTypeOK, ActiveIsPlanned
        <4> QED
          BY <1>1, <1>3, <4>1 DEF ActiveIsPlanned, Planned
      <3>2. \A p \in {t} \X us : p[2] \in send'[p[1]].sel /\ Planned(p[1])'
        BY <1>2, <1>3, <2>4 DEF Planned
      <3> QED
        BY <2>1, <3>1, <3>2 DEF ActiveIsPlanned
    <2> QED
      BY <1>1, <1>2, <1>4, <1>5, <1>6, <1>7, <1>8, <2>2, <2>3, <2>5, SenderStep DEF WalletTypeOK
  <1>10. CASE ~Spendable(us)
    BY <1>1, <1>2, <1>4, <1>5, <1>6, <1>7, <1>8, <1>10, QuietSenderStep
    DEF PersistSpendPlan, WalletTypeOK
  <1> QED
    BY <1>9, <1>10

LEMMA FailsTo ==
  ASSUME WalletTypeOK, NEW t \in Sends, NEW e \in {"sign", "persist", "cast"}, Fails(t, e)
  PROVE  \E to \in Sending : /\ send' = [send EXCEPT ![t] = to]
                             /\ to.at = "release" /\ to.sel = send[t].sel /\ to.err = e
  <1> DEFINE to == [send[t] EXCEPT !.at = "release", !.err = e]
  <1>1. to \in Sending /\ to.at = "release" /\ to.sel = send[t].sel /\ to.err = e
    BY DEF WalletTypeOK, Sending, SendAt
  <1>2. send' = [send EXCEPT ![t] = to]
    BY DEF WalletTypeOK, Fails
  <1> QED
    BY <1>1, <1>2

(* BuildAndSignTx and UpdateTransactionSigned.                             *)
LEMMA SignatureIndInv ==
  ASSUME WalletInv, NEW t \in Sends, Sign(t)
  PROVE  WalletInv'
  <1>1. /\ WalletTypeOK /\ send[t].at = "sign" /\ send[t].sel \subseteq Coins
        /\ UNCHANGED <<coin, active, track, gone, net, posted>>
    BY WalletFacts DEF Sign, outside, WalletTypeOK, Sending
  <1>2. PICK to \in Sending : /\ send' = [send EXCEPT ![t] = to] /\ to.sel = send[t].sel
                              /\ to.at \in {"cast", "release"}
                              /\ to.at = "release" => to.err # "none"
    <2>1. CASE Goes(t, "cast")
      BY <1>1, <2>1, GoesTo DEF SendAt
    <2>2. ASSUME NEW e \in {"sign", "persist"}, Fails(t, e)
          PROVE  \E to \in Sending : /\ send' = [send EXCEPT ![t] = to] /\ to.sel = send[t].sel
                                     /\ to.at = "release" /\ to.err # "none"
      BY <1>1, <2>2, FailsTo
    <2> QED
      BY <2>1, <2>2 DEF Sign
  <1>3. send'[t] = to
    BY <1>1, <1>2 DEF WalletTypeOK
  <1>4. \/ UNCHANGED <<row, raw>> /\ to.at = "release"
        \/ row' = [row EXCEPT ![t] = "signed"] /\ raw' = [raw EXCEPT ![t] = send[t].sel]
    <2>1. ASSUME NEW e \in {"sign", "persist"}, Fails(t, e)
          PROVE  to.at = "release"
      BY <1>1, <1>3, <2>1, FailsTo DEF WalletTypeOK
    <2> QED
      BY <2>1 DEF Sign
  <1>5. Stands(t) /\ SenderIsRight(t)'
    BY <1>1, <1>2, <1>3 DEF Stands, Signed, Planned, SenderIsRight
  <1>6. CASE UNCHANGED <<row, raw>> /\ to.at = "release"
    <2>1. RecordIsRight
      BY <1>1, <1>6 DEF RecordIsRight
    <2>2. Live(t)' => Live(t)
      BY <1>1, <1>3, <1>6 DEF Live
    <2> QED
      BY <1>1, <1>2, <1>5, <1>6, <2>1, <2>2, QuietSenderStep DEF WalletTypeOK
  <1>7. CASE row' = [row EXCEPT ![t] = "signed"] /\ raw' = [raw EXCEPT ![t] = send[t].sel]
    <2>1. /\ row' \in [Sends -> TxStatus] /\ raw' \in [Sends -> SUBSET Coins]
          /\ row'[t] = "signed" /\ raw'[t] = send[t].sel
          /\ \A v \in Sends \ {t} : row'[v] = row[v] /\ raw'[v] = raw[v]
      BY <1>1, <1>7 DEF WalletTypeOK, TxStatus, Tracked
    <2>2. RecordIsRight
      BY <1>1, <2>1 DEF RecordIsRight
    <2>3. Signed(t)'
      BY <1>2, <1>3, <2>1 DEF Signed, Planned
    <2> QED
      BY <1>1, <1>2, <1>5, <2>1, <2>2, <2>3, QuietSenderStep DEF WalletTypeOK
  <1> QED
    BY <1>4, <1>6, <1>7

LEMMA SendBroadcastsIndInv ==
  ASSUME WalletInv, NEW t \in Sends, SendBroadcasts(t)
  PROVE  WalletInv'
  <1>1. /\ WalletTypeOK /\ send[t].at = "cast"
        /\ UNCHANGED <<row, coin, active, raw, track, gone>>
    BY WalletFacts DEF SendBroadcasts, books
  <1>2. Signed(t)
    BY <1>1, WalletFacts DEF Live
  <1>3. PICK o \in Posting(t) : net' = o[1] /\ posted' = o[2] /\ Goes(t, o[3])
    BY DEF SendBroadcasts
  <1>4. /\ net' \in {net, Taken(t)} /\ posted' \in {posted, posted \cup {t}}
        /\ o[3] \in Answers /\ (o[3] = "ok" => net'[t] # "none")
    BY <1>3, BroadcastIsHeard
  <1>5. PICK to \in Sending : /\ send' = [send EXCEPT ![t] = to]
                              /\ to.at = o[3] /\ to.sel = send[t].sel
    <2>1. Answers \subseteq SendAt
      BY DEF SendAt
    <2>2. o[3] \in SendAt /\ Goes(t, o[3])
      BY <1>3, <1>4, <2>1
    <2> QED
      BY <1>1, <2>2, GoesTo
  <1>6. send'[t] = to
    BY <1>1, <1>5 DEF WalletTypeOK
  <1>7. /\ net' \in [Sends -> {"none", "mempool", "mined"}]
        /\ \A v \in Sends \ {t} : net'[v] = net[v] /\ (v \in posted' => v \in posted)
        /\ net[t] # "none" => net'[t] = net[t]
        /\ posted' \subseteq Sends
    BY <1>1, <1>4, NetworkTakes DEF WalletTypeOK
  <1>8. Stands(t) /\ SenderIsRight(t)'
    BY <1>1, <1>4, <1>5, <1>6, <1>7 DEF Stands, Planned, SenderIsRight, Answers
  <1>9. Signed(t)' /\ RecordIsRight
    BY <1>1, <1>2, <1>8, StandsSigned DEF RecordIsRight
  <1> QED
    BY <1>1, <1>5, <1>7, <1>8, <1>9, QuietSenderStep DEF WalletTypeOK

(* After the broadcast, and after a failure.                               *)
LEMMA SendEndsIndInv ==
  ASSUME WalletInv, NEW t \in Sends,
         \/ SendRecords(t) \/ SendMarksSpent(t) \/ SendReleases(t) \/ SendFails(t) \/ SendStops(t)
  PROVE  WalletInv'
  <1>1. /\ WalletTypeOK /\ SenderIsRight(t) /\ (Live(t) => Signed(t))
        /\ UNCHANGED <<raw, track, gone, net, posted>>
    BY WalletFacts DEF SendRecords, SendMarksSpent, SendReleases, SendFails, SendStops,
                       outside, books
  <1>2. \E to \in Sending : /\ send' = [send EXCEPT ![t] = to] /\ to.sel = send[t].sel
                            /\ to.at \in {"done", "spend", "release", "fail"}
                            /\ to.at \in {"release", "fail"} => to.err # "none"
                            /\ to.at = "spend" => send[t].at = "ok"
    <2>1. ASSUME NEW s \in {"done", "spend", "fail"}, Goes(t, s),
                 s = "spend" => send[t].at = "ok", s = "fail" => send[t].at = "release"
          PROVE  <1>2
      BY <1>1, <2>1, GoesTo DEF SendAt, SenderIsRight
    <2>2. ASSUME Fails(t, "cast") PROVE <1>2
      BY <1>1, <2>2, FailsTo
    <2> QED
      BY <2>1, <2>2 DEF SendRecords, SendMarksSpent, SendReleases, SendFails, SendStops
  <1>3. PICK to \in Sending : /\ send' = [send EXCEPT ![t] = to] /\ to.sel = send[t].sel
                              /\ to.at \in {"done", "spend", "release", "fail"}
                              /\ to.at \in {"release", "fail"} => to.err # "none"
                              /\ to.at = "spend" => send[t].at = "ok"
    BY <1>2
  <1>4. send'[t] = to
    BY <1>1, <1>3 DEF WalletTypeOK
  <1>5. Stands(t) /\ SenderIsRight(t)'
    BY <1>1, <1>3, <1>4 DEF Stands, Planned, SenderIsRight
  <1>6. /\ row' \in [Sends -> TxStatus] /\ \A v \in Sends \ {t} : row'[v] = row[v]
        /\ \/ row'[t] \in {row[t], "failed_before_sign", "failed_before_broadcast"}
           \/ row'[t] \in {"broadcast_unknown", "broadcast"} /\ Live(t)
        /\ row'[t] = "broadcast" => row[t] = "broadcast" \/ net[t] # "none"
    <2>1. {"failed_before_sign", "failed_before_broadcast", "broadcast_unknown", "broadcast"}
              \subseteq TxStatus
      BY DEF TxStatus, Failed, Tracked
    <2>2. CASE SendRecords(t)
      <3>1. CASE send[t].at = "unknown" /\ UpdateStatus(t, "broadcast_unknown")
        BY <1>1, <2>1, <3>1, StatusWritten DEF Live
      <3>2. CASE send[t].at = "ok" /\ UpdateStatus(t, "broadcast")
        BY <1>1, <2>1, <3>2, StatusWritten DEF Live, SenderIsRight
      <3> QED
        BY <1>1, <2>2, <3>1, <3>2 DEF SendRecords, WalletTypeOK
    <2>3. CASE SendFails(t)
      <3>1. send[t].err \in {"sign", "persist", "cast"}
        BY <1>1, <2>3 DEF SendFails, SenderIsRight, WalletTypeOK, Sending
      <3>2. \/ UpdateStatus(t, "failed_before_sign")
            \/ UpdateStatus(t, "failed_before_broadcast")
            \/ UpdateError(t, "failed_before_broadcast")
        BY <2>3, <3>1 DEF SendFails
      <3> QED
        BY <1>1, <2>1, <3>2, StatusWritten
    <2>4. CASE SendMarksSpent(t) \/ SendReleases(t) \/ SendStops(t)
      BY <1>1, <2>4 DEF SendMarksSpent, SendReleases, SendStops, WalletTypeOK, books
    <2> QED
      BY <2>2, <2>3, <2>4
  <1>7. /\ coin' \in [Coins -> CoinStatus] /\ active' \subseteq active
        /\ \A u \in Coins : coin'[u] = "spent" =>
               coin[u] = "spent" \/ (net[t] # "none" /\ u \in raw[t])
    <2>1. CASE SendMarksSpent(t)
      <3>1. net[t] # "none" /\ raw[t] = send[t].sel
        BY <1>1, <2>1 DEF SendMarksSpent, SenderIsRight, Live, Signed
      <3> QED
        BY <1>1, <2>1, <3>1 DEF SendMarksSpent, MarkUTXOsSpent, WalletTypeOK, CoinStatus
    <2>2. CASE SendReleases(t)
      BY <1>1, <2>2 DEF SendReleases, ReleaseSpend, WalletTypeOK, CoinStatus
    <2>3. CASE SendRecords(t) \/ SendFails(t) \/ SendStops(t)
      BY <1>1, <2>3 DEF SendRecords, SendFails, SendStops, WalletTypeOK, books
    <2> QED
      BY <2>1, <2>2, <2>3
  <1>8. RecordIsRight
    <2>1. \A v \in Sends : row'[v] = row[v]
           \/ /\ row'[v] \in {"broadcast", "pending", "confirmed"} => net'[v] # "none"
              /\ row'[v] = "confirmed" => net'[v] = "mined"
      BY <1>1, <1>6
    <2> QED
      BY <1>1, <1>7, <2>1 DEF RecordIsRight
  <1>9. Live(t)' => Live(t)
    BY <1>1, <1>3, <1>4, <1>6 DEF Live, Tracked
  <1> QED
    BY <1>1, <1>3, <1>5, <1>6, <1>7, <1>8, <1>9, QuietSenderStep DEF WalletTypeOK

(* The network.                                                            *)
LEMMA NetworkStepIndInv ==
  ASSUME WalletInv, NEW t \in Sends, WireArrives(t) \/ Mined(t)
  PROVE  WalletInv'
  <1>1. WalletTypeOK /\ UNCHANGED <<row, coin, active, raw, send, track, gone>>
    BY WalletFacts DEF WireArrives, Mined, books
  <1>2. Signed(t)
    BY WalletFacts DEF WireArrives, Mined, Live
  <1>3. /\ net' \in [Sends -> {"none", "mempool", "mined"}] /\ posted' \subseteq posted
        /\ \A v \in Sends \ {t} : net'[v] = net[v]
        /\ net[t] # "none" => net'[t] # "none"
        /\ net[t] = "mined" => net'[t] = "mined"
    <2>1. CASE WireArrives(t)
      BY <1>1, <2>1, NetworkTakes DEF WireArrives
    <2>2. CASE Mined(t)
      BY <1>1, <2>2 DEF Mined, WalletTypeOK
    <2> QED
      BY <2>1, <2>2
  <1>4. Stands(t) /\ SenderIsRight(t)'
    BY <1>1, <1>3, WalletFacts DEF Stands, Signed, Planned, SenderIsRight
  <1>5. Signed(t)' /\ RecordIsRight
    BY <1>1, <1>2, <1>4, StandsSigned DEF RecordIsRight
  <1>6. send[t] \in Sending /\ send' = [send EXCEPT ![t] = send[t]]
    BY <1>1 DEF WalletTypeOK
  <1> QED
    BY <1>1, <1>3, <1>4, <1>5, <1>6, QuietSenderStep DEF WalletTypeOK

(* trackConfirmations, ReconcileSignedOrBroadcastUnknown.                  *)
LEMMA TrackingOf ==
  ASSUME WalletInv, NEW w \in Trackers, track[w].t # None
  PROVE  track[w].t \in Sends /\ Signed(track[w].t)
  <1>1. track[w].t \in Sends
    BY WalletFacts DEF WalletTypeOK, Tracking
  <1> QED
    BY <1>1, WalletFacts DEF Live

LEMMA HearsOf ==
  ASSUME WalletTypeOK, NEW w \in Trackers,
         NEW s \in {"none", "absent", "mempool", "mined", "spend"} \cup Answers, Hears(w, s)
  PROVE  \E to \in Tracking : /\ track' = [track EXCEPT ![w] = to] /\ track'[w] = to
                              /\ to.t = track[w].t /\ to.ans = s
  <1> DEFINE to == [track[w] EXCEPT !.ans = s]
  <1>1. to \in Tracking /\ to.t = track[w].t /\ to.ans = s
    BY DEF WalletTypeOK, Tracking
  <1>2. track' = [track EXCEPT ![w] = to]
    BY DEF Hears
  <1>3. track'[w] = to
    BY <1>2 DEF WalletTypeOK
  <1> HIDE DEF to
  <1> QED
    BY <1>1, <1>2, <1>3

LEMMA RestsOf ==
  ASSUME WalletTypeOK, NEW w \in Trackers, Rests(w)
  PROVE  \E to \in Tracking : /\ track' = [track EXCEPT ![w] = to] /\ track'[w] = to
                              /\ to = Resting /\ to.t = None /\ to.ans = "none"
  <1>1. Resting \in Tracking /\ Resting.t = None /\ Resting.ans = "none"
    BY DEF Resting, Tracking, TxStatus
  <1>2. track' = [track EXCEPT ![w] = Resting] /\ track'[w] = Resting
    BY DEF Rests, WalletTypeOK
  <1> QED
    BY <1>1, <1>2

LEMMA TrackerReadsIndInv ==
  ASSUME WalletInv, NEW w \in Trackers, NEW t \in Sends, TrackerReads(w, t)
  PROVE  WalletInv'
  <1>1. /\ WalletTypeOK /\ row[t] \in Tracked
        /\ UNCHANGED <<row, coin, active, raw, send, gone, net, posted>>
    BY WalletFacts DEF TrackerReads, books, outside
  <1>2. Signed(t)
    BY <1>1, WalletFacts DEF Live
  <1> DEFINE to == [t |-> t, st |-> row[t], ans |-> "none"]
  <1>3. to \in Tracking /\ to.t = t /\ to.ans = "none"
    BY <1>1 DEF WalletTypeOK, Tracking
  <1>4. track' = [track EXCEPT ![w] = to] /\ track'[w] = to
    BY <1>1 DEF TrackerReads, WalletTypeOK
  <1> HIDE DEF to
  <1>5. TrackerIsRight(w)' /\ RecordIsRight
    BY <1>1, <1>3, <1>4, BtcWalletAssumption DEF TrackerIsRight, RecordIsRight
  <1> QED
    BY <1>1, <1>2, <1>3, <1>4, <1>5, TrackerStep DEF WalletTypeOK

LEMMA TrackerHearsIndInv ==
  ASSUME WalletInv, NEW w \in Trackers, track[w].t # None,
         TrackerAsks(w) \/ TrackerBroadcasts(w)
  PROVE  WalletInv'
  <1> DEFINE t == track[w].t
  <1>1. WalletTypeOK /\ UNCHANGED <<row, coin, active, raw, send, gone>>
    BY WalletFacts DEF TrackerAsks, TrackerBroadcasts, books
  <1>2. t \in Sends /\ Signed(t)
    BY TrackingOf
  <1>3. \E to \in Tracking :
          /\ track' = [track EXCEPT ![w] = to] /\ track'[w] = to /\ to.t \in {t, None}
          /\ to.t = None => to = Resting
          /\ to.ans \in {"mempool", "ok"} => net'[t] # "none"
          /\ to.ans \notin {"spend"} /\ (to.ans = "mined" => net'[t] = "mined")
          /\ net' \in {net, Taken(t)} /\ posted' \in {posted, posted \cup {t}}
    <2>1. CASE TrackerAsks(w)
      <3>1. UNCHANGED <<net, posted>>
        BY <2>1 DEF TrackerAsks, outside
      <3>2. CASE Rests(w)
        BY <1>1, <3>1, <3>2, RestsOf
      <3>3. ASSUME NEW s \in {"absent", "mempool", "mined"}, Hears(w, s),
                   s \in {"mempool", "mined"} => net[t] = s
            PROVE  <1>3
        BY <1>1, <3>1, <3>3, HearsOf
      <3>4. net[t] # "none" => net[t] \in {"mempool", "mined"}
        BY <1>1, <1>2 DEF WalletTypeOK
      <3> QED
        BY <2>1, <3>2, <3>3, <3>4 DEF TrackerAsks
    <2>2. CASE TrackerBroadcasts(w)
      <3>1. PICK o \in Posting(t) : net' = o[1] /\ posted' = o[2] /\ Hears(w, o[3])
        BY <2>2 DEF TrackerBroadcasts
      <3>2. /\ net' \in {net, Taken(t)} /\ posted' \in {posted, posted \cup {t}}
            /\ o[3] \in Answers /\ (o[3] = "ok" => net'[t] # "none")
        BY <1>2, <3>1, BroadcastIsHeard
      <3>3. o[3] \notin {"none", "mempool", "mined", "spend"}
        BY <3>2 DEF Answers
      <3>4. PICK to \in Tracking : /\ track' = [track EXCEPT ![w] = to] /\ track'[w] = to
                                   /\ to.t = t /\ to.ans = o[3]
        BY <1>1, <3>1, <3>2, HearsOf
      <3> QED
        BY <3>2, <3>3, <3>4
    <2> QED
      BY <2>1, <2>2
  <1>4. PICK to \in Tracking :
          /\ track' = [track EXCEPT ![w] = to] /\ track'[w] = to /\ to.t \in {t, None}
          /\ to.t = None => to = Resting
          /\ to.ans \in {"mempool", "ok"} => net'[t] # "none"
          /\ to.ans \notin {"spend"} /\ (to.ans = "mined" => net'[t] = "mined")
          /\ net' \in {net, Taken(t)} /\ posted' \in {posted, posted \cup {t}}
    BY <1>3
  <1>5. /\ net' \in [Sends -> {"none", "mempool", "mined"}]
        /\ \A v \in Sends \ {t} : net'[v] = net[v] /\ (v \in posted' => v \in posted)
        /\ net[t] # "none" => net'[t] = net[t]
        /\ posted' \subseteq Sends
    BY <1>1, <1>2, <1>4, NetworkTakes DEF WalletTypeOK
  <1>6. TrackerIsRight(w)'
    BY <1>2, <1>4, BtcWalletAssumption DEF TrackerIsRight, Resting
  <1>7. RecordIsRight
    BY <1>1 DEF RecordIsRight
  <1> HIDE DEF t
  <1> QED
    BY <1>1, <1>2, <1>4, <1>5, <1>6, <1>7, TrackerStep DEF WalletTypeOK

LEMMA TrackerWritesIndInv ==
  ASSUME WalletInv, NEW w \in Trackers, track[w].t # None,
         TrackerWrites(w) \/ TrackerMarksSpent(w) \/ TrackerStops(w)
  PROVE  WalletInv'
  <1> DEFINE t == track[w].t
  <1>1. WalletTypeOK /\ TrackerIsRight(w) /\ UNCHANGED <<active, raw, send, gone, net, posted>>
    BY WalletFacts DEF TrackerWrites, TrackerMarksSpent, TrackerStops, books, outside
  <1>2. t \in Sends /\ Signed(t)
    BY TrackingOf
  <1>3. PICK to \in Tracking :
          /\ track' = [track EXCEPT ![w] = to] /\ track'[w] = to /\ to.t \in {t, None}
          /\ to.t = None => to = Resting
          /\ to.ans \in {"none", "spend"} /\ (to.ans = "spend" => track[w].ans = "mined")
    <2>1. CASE Rests(w)
      BY <1>1, <2>1, RestsOf
    <2>2. CASE Hears(w, "spend") /\ track[w].ans = "mined"
      BY <1>1, <2>2, HearsOf
    <2> QED
      BY <2>1, <2>2 DEF TrackerWrites, TrackerMarksSpent, TrackerStops
  <1>4. TrackerIsRight(w)'
    BY <1>1, <1>2, <1>3, BtcWalletAssumption DEF TrackerIsRight, Resting
  <1>5. /\ row' \in [Sends -> TxStatus] /\ \A v \in Sends \ {t} : row'[v] = row[v]
        /\ \/ row'[t] = row[t]
           \/ row'[t] \in {"broadcast", "pending"} /\ net[t] # "none"
           \/ row'[t] = "confirmed" /\ net[t] = "mined"
           \/ row'[t] \in {"broadcast_unknown", "manual_review"}
    <2>1. CASE TrackerWrites(w)
      <3> DEFINE x == track[w].ans
                 s == Recorded(x, track[w].st)
      <3>1. x \in {"mempool", "mined", "ok", "unknown", "refused"} /\ UpdateStatus(t, s)
        BY <2>1 DEF TrackerWrites, Answers
      <3>2. /\ s \in {"broadcast", "pending", "confirmed", "broadcast_unknown", "manual_review"}
            /\ s \in {"broadcast", "pending"} => x \in {"mempool", "ok"}
            /\ s = "confirmed" => x = "mined"
        BY <3>1 DEF Recorded
      <3>3. s \in TxStatus
        BY <3>2 DEF TxStatus, Tracked
      <3>4. /\ row' \in [Sends -> TxStatus] /\ \A v \in Sends \ {t} : row'[v] = row[v]
            /\ row'[t] \in {row[t], s}
        BY <1>1, <1>2, <3>1, <3>3, StatusWritten
      <3>5. /\ x \in {"mempool", "ok"} => net[t] # "none"
            /\ x = "mined" => net[t] = "mined"
        BY <1>1 DEF TrackerIsRight
      <3> HIDE DEF s, x
      <3> QED
        BY <3>2, <3>4, <3>5
    <2>2. CASE TrackerMarksSpent(w) \/ TrackerStops(w)
      BY <1>1, <2>2 DEF TrackerMarksSpent, TrackerStops, books, WalletTypeOK
    <2> QED
      BY <2>1, <2>2
  <1>6. /\ coin' \in [Coins -> CoinStatus]
        /\ \A u \in Coins : coin'[u] = "spent" =>
               coin[u] = "spent" \/ (net[t] # "none" /\ u \in raw[t])
    <2>1. CASE TrackerMarksSpent(w)
      <3>1. net[t] = "mined" /\ raw[t] = send[t].sel
        BY <1>1, <1>2, <2>1 DEF TrackerMarksSpent, TrackerIsRight, Signed
      <3>2. \A u \in Inputs(t) : u \in send[t].sel
        BY WalletFacts DEF Inputs, ActiveIsPlanned
      <3>3. coin' = [u \in Coins |->
              IF u \in {x \in Inputs(t) : coin[x] \in {"reserved", "confirmed"}}
              THEN "spent" ELSE coin[u]]
        BY <2>1 DEF TrackerMarksSpent, MarkTransactionUTXOsSpent, MarkUTXOsSpent
      <3>4. coin' \in [Coins -> CoinStatus]
        BY <1>1, <3>3 DEF WalletTypeOK, CoinStatus
      <3> QED
        BY <3>1, <3>2, <3>3, <3>4
    <2>2. CASE TrackerWrites(w) \/ TrackerStops(w)
      BY <1>1, <2>2 DEF TrackerWrites, TrackerStops, books, WalletTypeOK
    <2> QED
      BY <2>1, <2>2
  <1>7. RecordIsRight
    <2>1. \A v \in Sends : row'[v] = row[v]
           \/ /\ row'[v] \in {"broadcast", "pending", "confirmed"} => net'[v] # "none"
              /\ row'[v] = "confirmed" => net'[v] = "mined"
      BY <1>1, <1>5
    <2> QED
      BY <1>1, <1>2, <1>6, <2>1 DEF RecordIsRight
  <1> HIDE DEF t
  <1> QED
    BY <1>1, <1>2, <1>3, <1>4, <1>5, <1>6, <1>7, TrackerStep DEF WalletTypeOK

(* SyncAddressUTXOsWithEvents.                                             *)
LEMMA ScannerIndInv ==
  ASSUME WalletInv, NEW w \in Trackers,
         ScannerReads(w) \/ \E u \in Coins : MarkUTXOOrphaned(w, u)
  PROVE  WalletInv'
  <1>1. /\ WalletTypeOK
        /\ UNCHANGED <<row, active, raw, send, track, net, posted>>
    BY WalletFacts DEF ScannerReads, MarkUTXOOrphaned, books, outside
  <1>2. gone' \in [Trackers -> SUBSET Coins]
    BY <1>1 DEF ScannerReads, MarkUTXOOrphaned, WalletTypeOK
  <1>3. /\ coin' \in [Coins -> CoinStatus]
        /\ \A u \in Coins : coin'[u] = "spent" => coin[u] = "spent"
    BY <1>1 DEF ScannerReads, MarkUTXOOrphaned, books, WalletTypeOK, CoinStatus
  <1>4. WalletTypeOK'
    BY <1>1, <1>2, <1>3 DEF WalletTypeOK
  <1>5. \A t \in Sends : Stands(t)
    BY <1>1 DEF Stands, Signed, Planned
  <1>6. RecordIsRight
    BY <1>1, <1>3 DEF RecordIsRight
  <1>7. /\ \A t \in Sends : Live(t)' => Live(t)
        /\ \A t \in Sends : SenderIsRight(t)'
        /\ \A v \in Trackers : TrackerIsRight(v)'
    BY <1>1, WalletFacts DEF Live, SenderIsRight, TrackerIsRight
  <1>8. OneSpender' /\ ActiveIsPlanned'
    BY <1>1, <1>5, ActiveStays
  <1> QED
    BY <1>4, <1>5, <1>6, <1>7, <1>8, WalletStep

LEMMA NextWalletInv == WalletInv /\ [WalletNext]_btcvars => WalletInv'
  <1> SUFFICES ASSUME WalletInv, [WalletNext]_btcvars PROVE WalletInv'
    OBVIOUS
  <1>1. CASE UNCHANGED btcvars
    <2>1. UNCHANGED <<row, coin, active, raw, send, track, gone, net, posted>>
      BY <1>1 DEF btcvars
    <2>2. WalletTypeOK' /\ RecordedIsSent' /\ OneSpender'
      BY <2>1, WalletFacts DEF WalletTypeOK, RecordedIsSent, OneSpender, Unspent
    <2>3. LiveIsSigned' /\ ActiveIsPlanned'
      BY <2>1 DEF WalletInv, LiveIsSigned, Live, Signed, Planned, ActiveIsPlanned
    <2>4. HearsayIsRight'
      BY <2>1 DEF WalletInv, HearsayIsRight, SenderIsRight, TrackerIsRight
    <2> QED
      BY <2>2, <2>3, <2>4 DEF WalletInv, WalletBooksAreTrue
  <1>2. ASSUME NEW t \in Sends,
               \/ ClaimTransaction(t) \/ SelectUTXOs(t) \/ PersistSpendPlan(t) \/ Sign(t)
               \/ SendBroadcasts(t) \/ SendRecords(t) \/ SendMarksSpent(t)
               \/ SendReleases(t) \/ SendFails(t) \/ SendStops(t)
               \/ WireArrives(t) \/ Mined(t)
        PROVE  WalletInv'
    BY <1>2, PlanIndInv, PersistIndInv, SignatureIndInv, SendBroadcastsIndInv,
       SendEndsIndInv, NetworkStepIndInv
  <1>3. ASSUME NEW w \in Trackers, NEW t \in Sends, TrackerReads(w, t)
        PROVE  WalletInv'
    BY <1>3, TrackerReadsIndInv
  <1>4. ASSUME NEW w \in Trackers,
               \/ TrackerAsks(w) \/ TrackerBroadcasts(w) \/ TrackerWrites(w)
               \/ TrackerMarksSpent(w) \/ TrackerStops(w)
        PROVE  WalletInv'
    <2>1. track[w] \in Tracking /\ TrackerIsRight(w)
      BY WalletFacts DEF WalletTypeOK
    <2>2. CASE track[w].t # None
      BY <1>4, <2>2, TrackerHearsIndInv, TrackerWritesIndInv
    <2>3. CASE track[w].t = None
      <3>1. track[w] = Resting /\ track[w].ans = "none"
        BY <2>1, <2>3 DEF TrackerIsRight, Resting
      <3> QED
        BY <1>4, <2>3, <3>1 DEF TrackerAsks, TrackerBroadcasts, TrackerWrites, TrackerMarksSpent,
                                TrackerStops, Answers
    <2> QED
      BY <2>2, <2>3
  <1>5. ASSUME NEW w \in Trackers, ScannerReads(w) \/ \E u \in Coins : MarkUTXOOrphaned(w, u)
        PROVE  WalletInv'
    BY <1>5, ScannerIndInv
  <1> QED
    BY <1>1, <1>2, <1>3, <1>4, <1>5 DEF WalletNext

(* What the tables of the wallets say was sent was sent, and no UTXO is an *)
(* input of two live withdrawals, for any number of withdrawals, trackers  *)
(* and UTXOs: whoever records a withdrawal as sent holds its signed        *)
(* transaction (UpdateTransactionSigned comes before every broadcast), and *)
(* the plan is taken in one statement (PersistSpendPlan).                  *)
THEOREM WalletRecordsAreTrue == WalletSpec => []WalletBooksAreTrue
  <1>1. WalletInv => WalletBooksAreTrue
    BY DEF WalletInv
  <1> QED
    BY <1>1, InitWalletInv, NextWalletInv, PTL DEF WalletSpec
=============================================================================
